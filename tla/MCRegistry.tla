----------------------------- MODULE MCRegistry -----------------------------
(***************************************************************************)
(* A small instance of Registry: one built-in, two free custom codes and   *)
(* two free names that the calls fight over, and one call for each way     *)
(* Register can refuse.                                                    *)
(***************************************************************************)
EXTENDS Registry

Unknown == [name |-> "UNKNOWN", httpStatus |-> 500, grpcCode |-> 2,
            retryable |-> FALSE, retryDelay |-> 0]

MCCode == {2, 100, 101}
MCName == {"UNKNOWN", "RATE", "QUOTA", "lower"}
MCGoodName == MCName \ {"lower"}
MCBuiltins == [c \in MCCode |-> IF c = 2 THEN Unknown ELSE Absent]

Retry == [kind |-> "Retryable", d |-> 0]
After(d) == [kind |-> "RetryAfter", d |-> d]

CallOf(c, n, h, g, o) ==
    [code |-> c, name |-> n, httpStatus |-> h, grpcCode |-> g, opts |-> o]

\* Calls that compete for two codes and two names.
Rivals == {
    CallOf(100, "RATE",  429, 8,  <<After(5)>>),
    CallOf(100, "QUOTA", 400, 1,  <<>>),
    CallOf(101, "RATE",  599, 16, <<Retry>>),
    CallOf(101, "QUOTA", 503, 14, <<After(3), Retry, After(2)>>)}

\* Refused inside the critical section: a built-in's name, a bad delay.
LateRefusals == {
    CallOf(101, "UNKNOWN", 429, 8, <<>>),
    CallOf(100, "QUOTA",   429, 8, <<Retry, After(0)>>)}

\* Refused for their arguments, each just outside the range it violates.
EarlyRefusals == {
    CallOf(2,   "RATE",  429, 8,  <<>>),
    CallOf(100, "lower", 429, 8,  <<>>),
    CallOf(100, "RATE",  399, 8,  <<>>),
    CallOf(100, "RATE",  600, 8,  <<>>),
    CallOf(100, "RATE",  429, 0,  <<>>),
    CallOf(100, "RATE",  429, 17, <<>>)}

AllCalls == Rivals \cup LateRefusals \cup EarlyRefusals

=============================================================================
