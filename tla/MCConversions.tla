--------------------------- MODULE MCConversions ---------------------------
(***************************************************************************)
(* A small instance of Conversions: three built-ins (Canceled's 499 has no *)
(* status text), two custom codes that may be registered at any moment     *)
(* under one of two entries, and statuses whose details name them rightly, *)
(* wrongly, and from an untrusted domain.                                  *)
(***************************************************************************)
EXTENDS Conversions

InfoOf(n, h, g, r) ==
    [name |-> n, httpStatus |-> h, grpcCode |-> g, retryable |-> r, retryDelay |-> 0]

MCCode == {1, 2, 8, 100, 101}
MCName == {"CANCELED", "UNKNOWN", "RESOURCE_EXHAUSTED", "RATE", "GONE"}
MCValidName == MCName
MCBuiltins == [c \in MCCode |->
    CASE c = 1 -> InfoOf("CANCELED", 499, 1, FALSE)
      [] c = 2 -> InfoOf("UNKNOWN", 500, 2, FALSE)
      [] c = 8 -> InfoOf("RESOURCE_EXHAUSTED", 429, 8, TRUE)
      [] OTHER -> Absent]

CallOf(c, n, h, g, o) ==
    [code |-> c, name |-> n, httpStatus |-> h, grpcCode |-> g, opts |-> o]

MCCalls == {
    CallOf(100, "RATE", 429, 8, <<[kind |-> "RetryAfter", d |-> 5]>>),
    CallOf(100, "GONE", 499, 1, <<>>),
    CallOf(101, "RATE", 503, 2, <<[kind |-> "Retryable", d |-> 0]>>),
    CallOf(101, "GONE", 404, 0, <<>>)}

MCErrors == [code: {1, 100, 101}, public: {Absent, "public"}, delay: {0, 7}]

InfoFrom(r, d) == [reason |-> r, domain |-> d]
MCStatuses == {
    [grpc |-> 8, infos |-> <<InfoFrom("RATE", "ours")>>],
    [grpc |-> 8, infos |-> <<InfoFrom("RATE", "theirs"), InfoFrom("GONE", "ours")>>],
    [grpc |-> 1, infos |-> <<InfoFrom("RATE", "ours"), InfoFrom("GONE", "ours")>>],
    [grpc |-> 2, infos |-> <<>>],
    [grpc |-> 17, infos |-> <<InfoFrom("RATE", "ours")>>]}

MCTrusted == {"ours"}
MCStatusText == [s \in {404, 429, 500, 503} |->
    CASE s = 404 -> "Not Found"
      [] s = 429 -> "Too Many Requests"
      [] s = 500 -> "Internal Server Error"
      [] s = 503 -> "Service Unavailable"]

=============================================================================
