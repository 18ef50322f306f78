------------------------------- MODULE Codes -------------------------------
(***************************************************************************)
(* The vocabulary of errtrail's code taxonomy (code.go): codes, names, the *)
(* metadata of a code, the arguments of a Register call, and what an       *)
(* accessor answers for an entry that may be missing.  No state: the       *)
(* registry's own module and the modules that read it extend this one.     *)
(*                                                                         *)
(* A Go map lookup "v, ok := m[k]" is a total function here: the absent    *)
(* key maps to Absent.                                                     *)
(***************************************************************************)
EXTENDS Integers, Sequences

CONSTANTS
    Code,       \* the code numbers in play, built-in and custom
    Name,       \* the code names in play
    ValidName,  \* those that validCodeName accepts (see CodeName)
    Builtins,   \* the table the first snapshot is seeded with
    Absent      \* what a missing map key reads as

\* First number Register accepts; below it are the built-ins.
CustomCodeMin == 100

\* Metadata of one code.  A delay of 0 means "none set".
CodeInfo == [name: Name, httpStatus: Int, grpcCode: Nat,
             retryable: BOOLEAN, retryDelay: Nat]

\* A RegisterOption: Retryable(), or RetryAfter(d) for a duration d of any sign.
Option == [kind: {"Retryable", "RetryAfter"}, d: Int]

\* The arguments of one Register call.
RegisterCall == [code: Code, name: Name, httpStatus: Int, grpcCode: Nat,
                 opts: Seq(Option)]

CodeMap == [Code -> CodeInfo \cup {Absent}]

ASSUME CodesAssumption ==
    /\ Code \subseteq Nat
    /\ ValidName \subseteq Name
    /\ Absent \notin Code
    /\ Absent \notin Name
    /\ Absent \notin CodeInfo
    /\ Absent \notin RegisterCall

ASSUME BuiltinsAssumption ==
    /\ Builtins \in CodeMap
    /\ \A c, d \in Code :
          /\ Builtins[c] # Absent
          /\ Builtins[d] # Absent
          /\ Builtins[c].name = Builtins[d].name
          => c = d

----------------------------------------------------------------------------
(* Register's argument checks, in the order the code makes them.           *)

BadCode(k) == k.code < CustomCodeMin
BadName(k) == k.name \notin ValidName
BadHTTP(k) == k.httpStatus < 400 \/ k.httpStatus > 599
\* Bug: the OK status is let through.
BugBadGRPC(k) == k.grpcCode > 16
BadGRPC(k) == k.grpcCode = 0 \/ k.grpcCode > 16

\* The verdict on the arguments alone: "ok", or which panic.
ArgVerdict(k) ==
    IF BadCode(k) THEN "badCode"
    ELSE IF BadName(k) THEN "badName"
    ELSE IF BadHTTP(k) THEN "badHTTP"
    ELSE IF BadGRPC(k) THEN "badGRPC"
    ELSE "ok"

\* What a call can end with.
Verdict == {"ok", "badCode", "badName", "badHTTP", "badGRPC",
            "dupCode", "dupName", "badDelay"}

\* RetryAfter refuses a delay that is not positive when it is applied.
BadOption(o) == o.kind = "RetryAfter" /\ o.d <= 0

\* The entry a call starts from, before its options.
BareInfo(k) == [name |-> k.name, httpStatus |-> k.httpStatus,
                grpcCode |-> k.grpcCode, retryable |-> FALSE, retryDelay |-> 0]

\* One option applied to the entry under construction: RetryAfter implies
\* Retryable, and a later RetryAfter replaces an earlier one.
ApplyOption(o, info) ==
    [name |-> info.name, httpStatus |-> info.httpStatus, grpcCode |-> info.grpcCode,
     retryable |-> TRUE,
     retryDelay |-> IF o.kind = "RetryAfter" THEN o.d ELSE info.retryDelay]

----------------------------------------------------------------------------
(* What the accessors answer for the entry e found (or not) for code c.    *)

HTTPStatusOf(e) == IF e = Absent THEN 500 ELSE e.httpStatus
GRPCCodeOf(e)   == IF e = Absent THEN 2 ELSE e.grpcCode
RetryableOf(e)  == e # Absent /\ e.retryable
\* 0 stands for "none": RetryDelay reports ok only for a positive delay.
RetryDelayOf(e) == IF e = Absent THEN 0 ELSE e.retryDelay
\* String() of an unregistered code is "CODE(n)", which is never a valid
\* name; Absent stands for it.
StringOf(e)     == IF e = Absent THEN Absent ELSE e.name

============================================================================
