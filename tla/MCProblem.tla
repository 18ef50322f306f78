------------------------------ MODULE MCProblem ------------------------------
(***************************************************************************)
(* Errors with every arrangement of five values under an ordinary key, the *)
(* reserved "detail" (which may be omitted) and "status" (which may not),  *)
(* the empty key and "errors"; and up to two options.                      *)
(***************************************************************************)
EXTENDS Problem

MCKey == Reserved \cup {"", "errors", "k"}
NoFields == [k \in MCKey |-> Absent]
FieldValue == {"v", "null", Unencodable, Panicking}
MCValue == FieldValue \cup {Absent, "/x", "/y", "/z"}

MCTitle(e) == IF e.http = 499 THEN e.name ELSE "Not Found"

MCErrors ==
    {[http |-> h[1], name |-> h[2], public |-> p, violations |-> vs,
      fields |-> [NoFields EXCEPT !["k"] = a, !["detail"] = b, !["status"] = b,
                                  ![""] = c, !["errors"] = d]] :
        h \in {<<404, "NOT_FOUND">>, <<499, "CANCELED">>}, p \in {Absent, "Not Found", "gone"},
        vs \in {Absent, "violations"}, a \in FieldValue \cup {Absent}, b \in {Absent, "v", Unencodable},
        c \in {Absent, Unencodable}, d \in FieldValue \cup {Absent}}

Set(m, v) == [member |-> m, value |-> v]
MCOptions == {<<>>, <<Set("instance", "/x")>>,
              <<Set("instance", "/x"), Set("instance", Absent)>>,
              <<Set("detail", "v"), Set("instance", "/y")>>,
              <<Set("k", "v"), Set("instance", "/z")>>}

=============================================================================
