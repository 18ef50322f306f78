------------------------------- MODULE MCWire -------------------------------
(***************************************************************************)
(* Three services in a row, so that an error is sent on once by a service  *)
(* that has received it.  Their registries agree on RATE, give it another  *)
(* number, register the name under another code, or do not know it.        *)
(***************************************************************************)
EXTENDS Wire

InfoOf(n, g, d) ==
    [name |-> n, httpStatus |-> 429, grpcCode |-> g, retryable |-> d > 0, retryDelay |-> d]

MCCode == {2, 8, 14, 100, 101}
MCName == {"UNKNOWN", "RESOURCE_EXHAUSTED", "UNAVAILABLE", "RATE", "GONE"}
MCBuiltins == [c \in MCCode |->
    CASE c = 2 -> InfoOf("UNKNOWN", 2, 0)
      [] c = 8 -> InfoOf("RESOURCE_EXHAUSTED", 8, 0)
      [] c = 14 -> InfoOf("UNAVAILABLE", 14, 0)
      [] OTHER -> Absent]

Rate == [MCBuiltins EXCEPT ![100] = InfoOf("RATE", 8, 4)]
RateElsewhere == [MCBuiltins EXCEPT ![100] = InfoOf("GONE", 8, 0), ![101] = InfoOf("RATE", 8, 0)]
RateOtherwise == [MCBuiltins EXCEPT ![100] = InfoOf("RATE", 14, 0)]

ConfigOf(t, d, trusted) == [table |-> t, domain |-> d, trusted |-> trusted]
MCConfigs == {ConfigOf(Rate, "ours", {}), ConfigOf(Rate, "bad", {"ours"}),
              ConfigOf(RateElsewhere, "ours", {"ours"}), ConfigOf(RateOtherwise, "theirs", {}),
              ConfigOf(MCBuiltins, Absent, {"theirs"})}

LayerOf(s, c) ==
    [by |-> s, code |-> c, public |-> Absent, barrier |-> FALSE, violations |-> <<>>, delay |-> 0]
TextOf(s, utf8) == [from |-> s, utf8 |-> utf8]

\* A code; public data that can be marshalled or not; a barrier; each with
\* the service's own mark.
MCAdded(s) ==
    CASE s = 1 -> {LayerOf(1, 100), LayerOf(1, 101),
                   [LayerOf(1, 8) EXCEPT !.violations = <<TextOf(1, TRUE), TextOf(1, FALSE)>>, !.delay = 1],
                   [LayerOf(1, 0) EXCEPT !.public = TextOf(1, FALSE)],
                   [LayerOf(1, 0) EXCEPT !.barrier = TRUE]}
      [] s = 2 -> {LayerOf(2, 0), [LayerOf(2, 100) EXCEPT !.public = TextOf(2, TRUE)],
                   [LayerOf(2, 0) EXCEPT !.violations = <<TextOf(2, TRUE)>>]}
      [] OTHER -> {}

StatusWith(g, details) == [grpc |-> g, message |-> TextOf(1, TRUE), details |-> details]
MCForeign ==
    {StatusWith(g, <<Info(r, "theirs"), Info("RATE", "ours")>>) :
        g \in {8, 14, 17}, r \in {"GONE", "NOWHERE"}} \cup
    {StatusWith(8, <<Retry(d), Retry(3)>>) : d \in {-1, 0, 2, 15, 21}}

=============================================================================
