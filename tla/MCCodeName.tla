----------------------------- MODULE MCCodeName -----------------------------
(***************************************************************************)
(* All names of up to MaxLen + 1 bytes, one class being that of bytes no   *)
(* name may have.  The names of Init are an infinite set, so the instance  *)
(* begins with its own.                                                    *)
(***************************************************************************)
EXTENDS CodeName, SequencesExt

MCInit == name \in SeqOf(Class, MaxLen + 1) /\ i = 1 /\ pc = "call"
MCSpec == MCInit /\ [][Next]_vars

=============================================================================
