------------------------------ MODULE CodeTable ------------------------------
(***************************************************************************)
(* What the registry promises its callers: ONE table from codes to entries *)
(* in which Register takes effect at a single instant, or not at all, and  *)
(* every lookup is answered from the table of a single instant.  There are *)
(* no snapshots, no lock and no reverse index here; CodeByName is answered *)
(* by searching the table.  Registry implements this specification.        *)
(***************************************************************************)
EXTENDS Codes

CONSTANTS Writers, Readers, Calls

VARIABLES
    table,   \* the codes registered so far
    op,      \* op[w]: where writer w's Register call stands, and its verdict
    answer   \* answer[r]: what reader r's last lookup returned

vars == <<table, op, answer>>

Idle == [state |-> "idle", call |-> Absent, out |-> "none"]

Query == [code: Code, name: {Absent}] \cup [code: {Absent}, name: Name]

NoAnswer == [info |-> Absent, code |-> Absent]

----------------------------------------------------------------------------
Taken(t, n) == \E c \in Code : t[c] # Absent /\ t[c].name = n

\* Bug: a code may be registered again (no part of the specification).
BugOutcome(k, t) ==
    IF ArgVerdict(k) # "ok" THEN ArgVerdict(k)
    ELSE IF \E i \in 1..Len(k.opts) : BadOption(k.opts[i]) THEN "badDelay"
    ELSE "ok"

\* Register's verdict when it takes effect on table t.
Outcome(k, t) ==
    IF ArgVerdict(k) # "ok" THEN ArgVerdict(k)
    ELSE IF t[k.code] # Absent THEN "dupCode"
    ELSE IF Taken(t, k.name) THEN "dupName"
    ELSE IF \E i \in 1..Len(k.opts) : BadOption(k.opts[i]) THEN "badDelay"
    ELSE "ok"

\* The positions of the RetryAfter options among the first n.
RetryAfters(k, n) == {i \in 1..n : k.opts[i].kind = "RetryAfter"}

\* The delay of the last of them, 0 if there is none.
LastDelay(k, n) ==
    IF RetryAfters(k, n) = {} THEN 0
    ELSE k.opts[CHOOSE i \in RetryAfters(k, n) : \A j \in RetryAfters(k, n) : j <= i].d

\* The entry after the first n options: any option makes it retryable.
EntryAfter(k, n) ==
    [name |-> k.name, httpStatus |-> k.httpStatus, grpcCode |-> k.grpcCode,
     retryable |-> n > 0, retryDelay |-> LastDelay(k, n)]

Entry(k) == EntryAfter(k, Len(k.opts))

\* The answer to query q from table t: the entry of a code, or the code that
\* bears a name.
TableAnswer(t, q) ==
    IF q.name = Absent
    THEN [info |-> t[q.code], code |-> q.code]
    ELSE [info |-> Absent,
          code |-> IF Taken(t, q.name)
                   THEN CHOOSE c \in Code : t[c] # Absent /\ t[c].name = q.name
                   ELSE Absent]

----------------------------------------------------------------------------
Init ==
    /\ table = Builtins
    /\ op = [w \in Writers |-> Idle]
    /\ answer = [r \in Readers |-> NoAnswer]

Invoke(w, k) ==
    /\ op[w].state = "idle"
    /\ op' = [op EXCEPT ![w] = [state |-> "pending", call |-> k, out |-> "none"]]
    /\ UNCHANGED <<table, answer>>

\* The instant at which a Register call takes effect or is refused.
TakeEffect(w) ==
    LET k == op[w].call
        v == Outcome(k, table)
    IN  /\ op[w].state = "pending"
        /\ op' = [op EXCEPT ![w] = [state |-> "done", call |-> k, out |-> v]]
        /\ table' = IF v = "ok" THEN [table EXCEPT ![k.code] = Entry(k)] ELSE table
        /\ UNCHANGED answer

Respond(w) ==
    /\ op[w].state = "done"
    /\ op' = [op EXCEPT ![w] = Idle]
    /\ UNCHANGED <<table, answer>>

Lookup(r, q) ==
    /\ answer' = [answer EXCEPT ![r] = TableAnswer(table, q)]
    /\ UNCHANGED <<table, op>>

Next ==
    \/ \E w \in Writers : (\E k \in Calls : Invoke(w, k)) \/ TakeEffect(w) \/ Respond(w)
    \/ \E r \in Readers, q \in Query : Lookup(r, q)

Spec == Init /\ [][Next]_vars

============================================================================
