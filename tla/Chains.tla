------------------------------- MODULE Chains -------------------------------
(***************************************************************************)
(* What an error chain says, defined on its structure: no flag, no stack,  *)
(* no early stop.  Every walk of inspect.go finds this (Walk).             *)
(*                                                                         *)
(* A chain is a function h from nodes to their contents; 0 is the nil      *)
(* error.  Every content has a kind, its branches (what Unwrap yields) and *)
(* a barrier (WithoutPublic).                                              *)
(***************************************************************************)
EXTENDS Integers, Sequences, SequencesExt

CONSTANT Unset  \* the zero value of what a node may say

\* Bug: the barrier is forgotten.
BugOpenBranches(x) == x.branches
\* The branches that the public data of a node may come from: none below a
\* barrier.
OpenBranches(x) == IF x.kind = "Error" /\ x.barrier THEN <<>> ELSE x.branches

\* The *Errors reached from r in depth-first order, next[n] being the
\* branches that are followed from n.
Preorder(h, r, next) ==
    LET own(n) == IF h[n].kind = "Error" THEN <<n>> ELSE <<>>
        from[n \in DOMAIN h \cup {0}] ==
            IF n = 0 THEN <<>>
            ELSE own(n) \o FlattenSeq([i \in DOMAIN next[n] |-> from[next[n][i]]])
    IN  from[r]

\* The first of the nodes ns that says something, f[n] being what n says.
FirstSet(ns, f) ==
    LET set == {i \in DOMAIN ns : f[ns[i]] # Unset}
    IN  IF set = {} THEN Unset ELSE f[ns[Min(set)]]

\* Everything the nodes ns say.
Together(ns, f) == FlattenSeq([i \in DOMAIN ns |-> f[ns[i]]])

\* The entries of s that are in T, in their order.
Only(s, T) == FlattenSeq([i \in DOMAIN s |-> IF s[i] \in T THEN <<s[i]>> ELSE <<>>])

\* The last field with key k of a node, Unset if it has none: PublicFields
\* goes through a node's fields backwards and keeps what it saw first.
LastField(fs, k) ==
    LET at == {i \in 1..Len(fs) : fs[i].key = k}
    IN  IF at = {} THEN Unset ELSE fs[CHOOSE i \in at : \A j \in at : j <= i].value

=============================================================================
