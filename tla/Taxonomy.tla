------------------------------ MODULE Taxonomy ------------------------------
(***************************************************************************)
(* The built-in codes (code.go), which seed the first snapshot of the      *)
(* registry, and the classification of codes by otelerr.                   *)
(***************************************************************************)
EXTENDS Integers, Sequences

\* Name and HTTP status of code c; its gRPC code is c itself.
Rows ==
    << <<"OK", 200>>, <<"CANCELED", 499>>, <<"UNKNOWN", 500>>, <<"INVALID_ARGUMENT", 400>>,
       <<"DEADLINE_EXCEEDED", 504>>, <<"NOT_FOUND", 404>>, <<"ALREADY_EXISTS", 409>>,
       <<"PERMISSION_DENIED", 403>>, <<"RESOURCE_EXHAUSTED", 429>>,
       <<"FAILED_PRECONDITION", 400>>, <<"ABORTED", 409>>, <<"OUT_OF_RANGE", 400>>,
       <<"UNIMPLEMENTED", 501>>, <<"INTERNAL", 500>>, <<"UNAVAILABLE", 503>>,
       <<"DATA_LOSS", 500>>, <<"UNAUTHENTICATED", 401>> >>

OK == 0
Unknown == 2
InfoOf(name, http, grpc) == [name |-> name, http |-> http, grpc |-> grpc]
Builtin == [c \in 0..16 |-> InfoOf(Rows[c + 1][1], Rows[c + 1][2], c)]

\* Bug: the list of the conventions is incomplete.
BugServerFault(grpc) == grpc \in {2, 4, 12, 13, 15}
\* Bug: every failure counts.
BugAnyFault(grpc) == grpc # 0
\* The gRPC codes that mark a failure of the server.
ServerFault(grpc) == grpc \in {2, 4, 12, 13, 14, 15}

=============================================================================
