----------------------------- MODULE Collecting -----------------------------
(***************************************************************************)
(* What callers do with the slices that Attrs and FieldViolations give     *)
(* them, while other goroutines go on deriving from the same errors: sort  *)
(* them, or write over them.  A collector appends the slices of an error   *)
(* and of the errors it wraps to one that starts as nil, and the result is *)
(* the caller's own.                                                       *)
(*                                                                         *)
(* Definitions whose name begins with Bug are no part of the specification *)
(* (see Registry).                                                         *)
(***************************************************************************)
EXTENDS Errors

CONSTANTS
    Collectors, \* the goroutines that collect
    Given,      \* the slices that are given out: attrs and violations
    MaxResults  \* bound: how many results are kept

ASSUME CollectingAssumption == Given \subseteq Part /\ MaxResults \in Nat

VARIABLES
    walk,    \* walk[c]: the collector c runs: what, at which error (below a barrier), and so far
    results  \* the slices callers have been given

cvars == <<errors, arrays, last, call, walk, results>>

Resting == [part |-> "none", at |-> 0, blocked |-> FALSE, slice |-> NilSlice]

CInit ==
    /\ Init
    /\ walk = [c \in Collectors |-> Resting]
    /\ results = <<>>

----------------------------------------------------------------------------
\* What append(s, items...) can make of a slice: the slice and the arrays.
Outcomes(s, items) ==
    LET n == s.len + Len(items)
        new == Len(arrays) + 1
    IN  IF items = <<>> THEN {[slice |-> s, arrays |-> arrays]}
        ELSE IF n <= s.cap
        THEN {[slice |-> [s EXCEPT !.len = n],
               arrays |-> [arrays EXCEPT ![s.array] =
                   [i \in DOMAIN @ |-> IF i \in (s.len + 1)..n THEN items[i - s.len] ELSE @[i]]]]}
        ELSE {[slice |-> [array |-> new, len |-> n, cap |-> n + slack],
               arrays |-> Append(arrays, [i \in 1..(n + slack) |->
                   IF i <= n THEN (Elements(s) \o items)[i] ELSE Unset])] : slack \in 0..MaxSlack}

\* Bug: the first slice found is not copied.
BugGathered(so, s) == IF so = NilSlice THEN {[slice |-> s, arrays |-> arrays]}
                                       ELSE Outcomes(so, Elements(s))
\* The collector's slice after a node's slice s.
Gathered(so, s) == Outcomes(so, Elements(s))

Collect(c, p, e) ==
    /\ walk[c].at = 0 /\ walk[c].part = "none"
    /\ Len(results) < MaxResults
    /\ walk' = [walk EXCEPT ![c] = [part |-> p, at |-> e, blocked |-> FALSE, slice |-> NilSlice]]
    /\ UNCHANGED <<vars, results>>

\* What the next error adds: below a barrier its attrs only.
Unblocked(w) == IF w.blocked /\ w.part # "attrs" THEN NilSlice ELSE errors[w.at].slices[w.part]
\* The collector's function sees the next error of the chain.
SeeNode(c) ==
    LET w == walk[c]
    IN  /\ w.at # 0
        /\ \E o \in Gathered(w.slice, Unblocked(w)) :
              /\ arrays' = o.arrays
              /\ walk' = [walk EXCEPT ![c] = [part |-> w.part, at |-> errors[w.at].cause, slice |-> o.slice,
                                            blocked |-> w.blocked \/ errors[w.at].barrier]]
        /\ UNCHANGED <<errors, last, call, results>>

GiveOut(c) ==
    /\ walk[c].at = 0 /\ walk[c].part # "none"
    /\ results' = Append(results, walk[c].slice)
    /\ walk' = [walk EXCEPT ![c] = Resting]
    /\ UNCHANGED vars

\* The caller writes to an element of what is its own, to sort it, say.
Overwrite(i) ==
    \E k \in 1..results[i].len, d \in Data :
        /\ arrays' = [arrays EXCEPT ![results[i].array][k] = d]
        /\ UNCHANGED <<errors, last, call, walk, results>>

CNext ==
    \/ Next /\ UNCHANGED <<walk, results>>
    \/ \E c \in Collectors :
          \/ \E p \in Given, e \in 1..Len(errors) : Collect(c, p, e)
          \/ SeeNode(c) \/ GiveOut(c)
    \/ \E i \in 1..Len(results) : Overwrite(i)

CSpec == CInit /\ [][CNext]_cvars

----------------------------------------------------------------------------
(* Properties.  That no error changes is ErrorsImmutable, of these steps   *)
(* too: a caller that sorts the violations of one request must not sort    *)
(* those of a sentinel every request is derived from.                      *)

\* A result shares its array with no error, no copy in the making, and no
\* other result: writing to it is nobody else's business.
Owned(s) == s.array # 0 =>
    /\ \A i \in 1..Len(errors) : ~Reads(errors[i], s.array)
    /\ \A g \in Goroutines : ~Reads(call[g].cp, s.array)
ResultsOwned ==
    /\ \A i \in 1..Len(results) : Owned(results[i])
    /\ \A c \in Collectors : Owned(walk[c].slice)
    /\ \A i, j \in 1..Len(results) :
          results[i].array = results[j].array /\ results[i].array # 0 => i = j
    /\ \A i \in 1..Len(results), c \in Collectors :
          walk[c].slice.array # 0 => results[i].array # walk[c].slice.array

=============================================================================
