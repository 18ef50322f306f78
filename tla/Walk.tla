-------------------------------- MODULE Walk --------------------------------
(***************************************************************************)
(* walkFrom (inspect.go) step by step, with the stack of its recursion into*)
(* the branches of a Join, and every collector that is run by it: CodeOf,  *)
(* LookupPublicMessage, PublicFields, FieldViolations, LookupRetryDelay,   *)
(* Trace, Attrs, and the one-pass collect of the formatter and the logger. *)
(*                                                                         *)
(* An error chain is a heap of nodes; 0 is the nil error.  A node is an    *)
(* *Error, a typed-nil *Error in a non-nil interface, a foreign error that *)
(* wraps one error or several (errors.Join, fmt.Errorf), or a plain one.   *)
(* Definitions whose name begins with Bug are no part of the specification *)
(* (see Registry).                                                         *)
(***************************************************************************)
EXTENDS Chains

CONSTANTS
    Node,    \* identities of error values
    Data,    \* codes (Unset stands for OK), public messages, delays, field values,
             \* violations
    Key,     \* keys of public fields
    UnknownCode, \* the code of an error none of whose nodes has one
    Heaps,   \* the error chains walked: each maps every node to its contents
    Roots    \* the errors the collectors are called on

\* Contents of a node.  "branches" is what Unwrap yields: one entry for an
\* *Error (its cause) and for a single wrapper, any number for a Join, none
\* for a plain error; the Unwrap of a nil *Error returns nil.
Field == [key: Key, value: Data]
Content == [kind: {"Error", "nilError", "wrap", "join", "plain"},
            branches: Seq(Node \cup {0}),
            code: Data \cup {Unset},
            barrier: BOOLEAN,
            public: Data \cup {Unset},
            delay: Data \cup {Unset},
            fields: Seq(Field),
            violations: Seq(Data)]

ASSUME WalkAssumption ==
    /\ 0 \notin Node
    /\ Unset \notin Data
    /\ UnknownCode \in Data
    /\ Roots \subseteq Node \cup {0}
    /\ Heaps \subseteq [Node -> Content]
    /\ \A h \in Heaps, n \in Node :
          /\ h[n].kind \in {"Error", "wrap", "nilError"} => Len(h[n].branches) = 1
          /\ h[n].kind = "nilError" => h[n].branches[1] = 0
          /\ h[n].kind = "plain" => h[n].branches = <<>>

Collectors == {"CodeOf", "LookupPublicMessage", "PublicFields", "FieldViolations",
               "LookupRetryDelay", "Trace", "Attrs", "collect", "collectInternal"}

VARIABLES
    heap,       \* the error values (they are immutable)
    collector,  \* the function that is walking, and
    root,       \* the error it was given
    pc,
    err,        \* walkFrom's err and
    blocked,    \* its blocked flag
    stack,      \* the suspended Join loops: branches left, and their flag
    visits,     \* the calls of fn so far: node, and the flag it was given
    acc         \* what the collector has gathered

vars == <<heap, collector, root, pc, err, blocked, stack, visits, acc>>

Nothing == [code |-> Unset, public |-> Unset, delay |-> Unset, fields |-> <<>>,
            map |-> [k \in Key |-> Unset], violations |-> <<>>, trace |-> <<>>]

----------------------------------------------------------------------------
(* The collectors' fn.                                                     *)

First(old, new) == IF old = Unset THEN new ELSE old
Overwrite(old, new) == IF new = Unset THEN old ELSE new

MergeFields(m, fs) == [k \in Key |-> First(m[k], LastField(fs, k))]

\* Bug: collect, unlike the others, forgets to ask for the flag.
BugShown(c, b, cs) == c \in cs /\ (b => c = "collect")

\* Public data is read by these collectors cs, above every barrier.
Shown(c, b, cs) == c \in cs /\ ~b

\* What collector c makes of the contents x of an *Error visited with flag b.
\* CodeOf and the Lookups overwrite and rely on stopping; collect keeps what
\* it has.  Attrs gathers what every node carries in the order in which Trace
\* gathers the nodes, so both record the node.
Gather(c, x, b, a) ==
    LET all == c \in {"collect", "collectInternal"}
    IN  [code |-> IF all THEN First(a.code, x.code)
                  ELSE IF c = "CodeOf" THEN Overwrite(a.code, x.code) ELSE a.code,
         public |-> IF Shown(c, b, {"collect"}) THEN First(a.public, x.public)
                    ELSE IF Shown(c, b, {"LookupPublicMessage"}) THEN Overwrite(a.public, x.public)
                    ELSE a.public,
         delay |-> IF Shown(c, b, {"collect"}) THEN First(a.delay, x.delay)
                   ELSE IF Shown(c, b, {"LookupRetryDelay"}) THEN Overwrite(a.delay, x.delay)
                   ELSE a.delay,
         fields |-> IF Shown(c, b, {"collect"}) THEN a.fields \o x.fields ELSE a.fields,
         map |-> IF Shown(c, b, {"PublicFields"}) THEN MergeFields(a.map, x.fields) ELSE a.map,
         violations |-> IF Shown(c, b, {"FieldViolations", "collect"})
                        THEN a.violations \o x.violations ELSE a.violations,
         trace |-> IF all \/ c \in {"Trace", "Attrs"} THEN Append(a.trace, err) ELSE a.trace]

\* Whether fn asks walkFrom to stop at this node.
Stops(c, x, b) ==
    \/ c = "CodeOf" /\ x.code # Unset
    \/ c = "LookupPublicMessage" /\ ~b /\ x.public # Unset
    \/ c = "LookupRetryDelay" /\ ~b /\ x.delay # Unset

----------------------------------------------------------------------------
Init ==
    /\ heap \in Heaps
    /\ collector = "CodeOf"
    /\ root = 0
    /\ pc = "idle"
    /\ err = 0
    /\ blocked = FALSE
    /\ stack = <<>>
    /\ visits = <<>>
    /\ acc = Nothing

\* A collector is called, on any error, nil included: CodeOf alone returns
\* at once for a nil one.
Call(c, r) ==
    /\ pc = "idle"
    /\ collector' = c
    /\ root' = r
    /\ err' = r
    /\ blocked' = FALSE
    /\ visits' = <<>>
    /\ acc' = Nothing
    /\ pc' = IF c = "CodeOf" /\ r = 0 THEN "done" ELSE "loop"
    /\ UNCHANGED <<heap, stack>>

X == heap[err]

\* Bug: the guard against a typed-nil *Error is gone.
BugShowable(x) == x.kind \in {"Error", "nilError"}
\* What fn may see: an *Error that is there.
Showable(x) == x.kind = "Error"

\* The flag for what a node wraps: a barrier is never lifted again.
FlagBelow(b, x) == b \/ x.barrier

\* fn sees an *Error.  If it stops, every suspended loop returns false;
\* otherwise the node's barrier takes effect below it.
Visit ==
    /\ pc = "loop" /\ err # 0 /\ Showable(X)
    /\ visits' = Append(visits, [node |-> err, blocked |-> blocked])
    /\ acc' = Gather(collector, X, blocked, acc)
    /\ IF Stops(collector, X, blocked)
       THEN pc' = "done" /\ stack' = <<>> /\ UNCHANGED blocked
       ELSE pc' = "unwrap" /\ blocked' = FlagBelow(blocked, X) /\ UNCHANGED stack
    /\ UNCHANGED <<heap, collector, root, err>>

\* Anything else, a typed-nil *Error included, is not shown to fn.
PassOver ==
    /\ pc = "loop" /\ err # 0 /\ ~Showable(X)
    /\ pc' = "unwrap"
    /\ UNCHANGED <<heap, collector, root, err, blocked, stack, visits, acc>>

\* Unwrap() error: the loop goes on with the cause.
Unwrap ==
    /\ pc = "unwrap" /\ X.kind \in {"Error", "nilError", "wrap"}
    /\ err' = X.branches[1]
    /\ pc' = "loop"
    /\ UNCHANGED <<heap, collector, root, blocked, stack, visits, acc>>

\* Unwrap() []error: a loop over the branches, each walked with the flag as
\* it is here.  No Unwrap at all: this walkFrom is over.
EnterJoin ==
    /\ pc = "unwrap" /\ X.kind \in {"join", "plain"}
    /\ stack' = IF X.kind = "join"
                THEN Append(stack, [left |-> X.branches, blocked |-> blocked])
                ELSE stack
    /\ pc' = "return"
    /\ UNCHANGED <<heap, collector, root, err, blocked, visits, acc>>

\* The chain ends in nil.
EndOfChain ==
    /\ pc = "loop" /\ err = 0
    /\ pc' = "return"
    /\ UNCHANGED <<heap, collector, root, err, blocked, stack, visits, acc>>

Top == stack[Len(stack)]
Below == SubSeq(stack, 1, Len(stack) - 1)

\* Bug: one flag for all branches, so a barrier leaks to the siblings.
BugNextBranch ==
    /\ pc = "return" /\ stack # <<>> /\ Top.left # <<>>
    /\ err' = Head(Top.left)
    /\ stack' = [stack EXCEPT ![Len(stack)] =
                    [left |-> Tail(Top.left), blocked |-> Top.blocked]]
    /\ pc' = "loop"
    /\ UNCHANGED <<heap, collector, root, blocked, visits, acc>>

\* Back in the innermost loop over branches: the next one, with the loop's
\* own flag.
NextBranch ==
    /\ pc = "return" /\ stack # <<>> /\ Top.left # <<>>
    /\ err' = Head(Top.left)
    /\ blocked' = Top.blocked
    /\ stack' = [stack EXCEPT ![Len(stack)] =
                    [left |-> Tail(Top.left), blocked |-> Top.blocked]]
    /\ pc' = "loop"
    /\ UNCHANGED <<heap, collector, root, visits, acc>>

\* Bug: a loop whose branches are exhausted is not left.
BugLeave ==
    /\ pc = "return"
    /\ \/ stack # <<>> /\ Top.left = <<>> /\ UNCHANGED <<stack, pc>>
       \/ stack = <<>> /\ pc' = "done" /\ UNCHANGED stack
    /\ UNCHANGED <<heap, collector, root, err, blocked, visits, acc>>

\* No branch is left, or the outermost walkFrom returns.
Leave ==
    /\ pc = "return"
    /\ \/ stack # <<>> /\ Top.left = <<>> /\ stack' = Below /\ UNCHANGED pc
       \/ stack = <<>> /\ pc' = "done" /\ UNCHANGED stack
    /\ UNCHANGED <<heap, collector, root, err, blocked, visits, acc>>

\* The code CodeOf and collect give out: both start from UnknownCode.
Code ==
    IF collector = "CodeOf" /\ root = 0 THEN Unset
    ELSE IF acc.code = Unset THEN UnknownCode ELSE acc.code

\* The collector returns to its caller.
Return ==
    /\ pc = "done"
    /\ pc' = "idle"
    /\ collector' = "CodeOf"
    /\ root' = 0
    /\ err' = 0
    /\ blocked' = FALSE
    /\ visits' = <<>>
    /\ acc' = Nothing
    /\ UNCHANGED <<heap, stack>>

Step == Visit \/ PassOver \/ Unwrap \/ EnterJoin \/ EndOfChain \/ NextBranch \/ Leave

Next ==
    \/ \E c \in Collectors, r \in Roots : Call(c, r)
    \/ Step
    \/ Return

Spec == Init /\ [][Next]_vars

\* A walk is a loop in one goroutine: it goes on as long as it can.
FairSpec == Spec /\ WF_vars(Step)

----------------------------------------------------------------------------
(* The chain's structure (Chains).                                         *)

\* The branches of a node that its public data may come from.
Open(n) == OpenBranches(heap[n])

\* The chains of h end: rank gives what an error wraps a lower number than it
\* has itself.
Ends(h, rank) == \A n \in Node : \A m \in ToSet(h[n].branches) : m # 0 => rank[m] < rank[n]
Acyclic == \A h \in Heaps : \E K \in Nat : \E rank \in [Node -> 0..K] : Ends(h, rank)

\* s is closed: it has the root, and with every node that is no barrier the
\* errors that node wraps.
Within(branches, s) == \A i \in 1..Len(branches) : branches[i] # 0 => branches[i] \in s
OpenClosed(s) ==
    /\ root # 0 => root \in s
    /\ \A n \in s : Within(Open(n), s)

AllErrors == Preorder(heap, root, [n \in Node |-> heap[n].branches])
OpenErrors == Preorder(heap, root, [n \in Node |-> Open(n)])

----------------------------------------------------------------------------
(* Properties.                                                             *)

\* Types, and the guard against the typed nil: fn dereferences its argument,
\* and is only ever given an *Error that is there.
TypeOK ==
    /\ heap \in [Node -> Content]
    /\ collector \in Collectors
    /\ root \in Node \cup {0}
    /\ pc \in {"idle", "loop", "unwrap", "return", "done"}
    /\ err \in Node \cup {0}
    /\ blocked \in BOOLEAN
    /\ stack \in Seq([left: Seq(Node \cup {0}), blocked: BOOLEAN])
    /\ visits \in Seq([node: {n \in Node : heap[n].kind = "Error"}, blocked: BOOLEAN])

\* A node shown to fn as unblocked can be reached from the root without
\* passing below a barrier: it is in every closed set.
VisitsWithin(s) == \A i \in 1..Len(visits) : ~visits[i].blocked => visits[i].node \in s
UnblockedIsOpen == \A s \in SUBSET Node : OpenClosed(s) => VisitsWithin(s)

\* So no collector ever gives out public data set only below a barrier: all
\* of it stands on a node that can be reached above every barrier.
HasField(n, f) == \E j \in 1..Len(heap[n].fields) : heap[n].fields[j] = f
HasViolation(n, v) == \E j \in 1..Len(heap[n].violations) : heap[n].violations[j] = v
Sourced(s) ==
    /\ acc.public # Unset => \E n \in s : acc.public = heap[n].public
    /\ acc.delay # Unset => \E n \in s : acc.delay = heap[n].delay
    /\ \A i \in 1..Len(acc.violations) : \E n \in s : HasViolation(n, acc.violations[i])
    /\ \A i \in 1..Len(acc.fields) : \E n \in s : HasField(n, acc.fields[i])
    /\ \A k \in Key : acc.map[k] # Unset =>
          \E n \in s : HasField(n, [key |-> k, value |-> acc.map[k]])
NoLeak == \A s \in SUBSET Node : OpenClosed(s) => Sourced(s)

\* What a collector returns is what the structure of the chain says, however
\* the flag was threaded and wherever the walk stopped; and what the one-pass
\* collect shows in %+v is what the single collectors give out.
ResultIsReference == pc = "done" =>
    LET code == [n \in Node |-> heap[n].code]
        public == [n \in Node |-> heap[n].public]
        delay == [n \in Node |-> heap[n].delay]
        violations == [n \in Node |-> heap[n].violations]
        fields == [n \in Node |-> heap[n].fields]
        has(c) == collector \in c
    IN  /\ has({"CodeOf", "collect", "collectInternal"}) =>
              Code = LET first == FirstSet(AllErrors, code)
                     IN  IF first = Unset /\ (root # 0 \/ collector # "CodeOf")
                         THEN UnknownCode ELSE first
        /\ has({"LookupPublicMessage", "collect"}) => acc.public = FirstSet(OpenErrors, public)
        /\ has({"LookupRetryDelay", "collect"}) => acc.delay = FirstSet(OpenErrors, delay)
        /\ has({"FieldViolations", "collect"}) =>
              acc.violations = Together(OpenErrors, violations)
        /\ has({"collect"}) => acc.fields = Together(OpenErrors, fields)
        /\ has({"PublicFields"}) => \A k \in Key :
              acc.map[k] = FirstSet(OpenErrors, [n \in Node |-> LastField(fields[n], k)])
        /\ has({"Trace", "Attrs", "collect", "collectInternal"}) => acc.trace = AllErrors

\* Every call of a collector returns.
WalkEnds == pc = "loop" ~> pc = "done"

============================================================================
