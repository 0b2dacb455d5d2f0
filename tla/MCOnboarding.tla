--------------------------- MODULE MCOnboarding ---------------------------
(* Values for TLC: the URIs of two handoff codes, an inline one, and URIs  *)
(* that each of the checks of parse_connect_uri refuses.                   *)
EXTENDS Onboarding

Handoff(c) == [frame |-> TRUE, query |-> "ok", mcp |-> "https", token |-> FALSE, handoff |-> c]
InlineUri == [Handoff(None) EXCEPT !.token = TRUE, !.mcp = "loopback"]

MCUris == {Handoff(c) : c \in Codes} \cup {InlineUri, None}
          \cup {[InlineUri EXCEPT !.frame = FALSE], [InlineUri EXCEPT !.query = "malformed"],
                [InlineUri EXCEPT !.query = "duplicate"], [InlineUri EXCEPT !.mcp = "http"],
                [InlineUri EXCEPT !.token = FALSE], Handoff("bad"),
                [InlineUri EXCEPT !.handoff = CHOOSE c \in Codes : TRUE]}
=============================================================================
