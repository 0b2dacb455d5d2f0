----------------------------- MODULE MCCheckout -----------------------------
(***************************************************************************)
(* Checkout for TLC: the configurations, each with what it is about.       *)
(***************************************************************************)
EXTENDS Checkout, TLC

CONSTANTS b1, b2

\* The issuer sits below the organisation it speaks for, or is its delegate.
Org == DomainId(<<"club", "org">>)
Hub == DomainId(<<"hub", "club", "org">>)
Other == DomainId(<<"hub", "net">>)
Txt(k, delegates) == [pairs |-> TRUE, v |-> <<"0.2">>, ep |-> <<"https">>, pk |-> <<k>>,
                      delegate |-> delegates]
Dns == (Org.domain :> {Txt("ko", <<Other.domain>>)}) @@ (Hub.domain :> {Txt("kh", <<>>)})
       @@ (Other.domain :> {Txt("kn", <<>>)})

Buyer(k) == [enrols |-> TRUE, key |-> k, sub |-> KeyId(k), kid |-> KeyId(k), aud |-> Hub,
             org |-> Org, life |-> 1, url |-> "ticket", pays |-> None, holds |-> None]
Shop == [dns |-> Dns, issuer |-> Hub, issuerKey |-> "kh", validity |-> 9,
         trust |-> {[issuer |-> Hub, accept |-> {"org_affiliation"}]}, payTo |-> "merchant",
         prices |-> {1}, cap |-> 2, taken |-> 0, resource |-> [ticket |-> "ticket"],
         sends |-> 4, until |-> 1, repeats |-> FALSE, denies |-> FALSE, revokes |-> FALSE, restarts |-> FALSE,
         calls |-> b1 :> Buyer("p1")]

\* A buyer who has enrolled: requests are repeated, the server restarts at
\* another price.
Member(k, i) == [Buyer(k) EXCEPT !.holds =
    [form |-> "ok", kind |-> "org_affiliation", iss |-> Hub, sub |-> KeyId(k), org |-> Org,
     iat |-> 0, exp |-> 9, key |-> "kh", epoch |-> "e1", idx |-> i]]
Repeats == [Shop EXCEPT !.repeats = TRUE, !.taken = 1, !.calls = b1 :> Member("p1", 0)]
Restarts == [Shop EXCEPT !.restarts = TRUE, !.prices = {1, 2}, !.taken = 1,
                         !.calls = b1 :> Member("p1", 0)]
\* A buyer who enrols; the credential is revoked, or the buyer denied.
Revokes == [Shop EXCEPT !.revokes = TRUE, !.denies = TRUE, !.sends = 5, !.until = 2]
\* Two buyers of one shop who have enrolled.
Two == [Shop EXCEPT !.cap = 1, !.taken = 2, !.sends = 2, !.repeats = TRUE, !.until = 0,
                    !.calls = (b1 :> Member("p1", 0)) @@ (b2 :> Member("p2", 1))]
\* A delegate as the issuer; credentials that expire soon.
Delegate == [Shop EXCEPT !.issuer = Other, !.issuerKey = "kn", !.validity = 1, !.sends = 5, !.until = 3,
                         !.trust = {[issuer |-> Other, accept |-> {"org_affiliation"}]},
                         !.calls = b1 :> [Buyer("p1") EXCEPT !.aud = Other]]
With(c) == [Shop EXCEPT !.calls = b1 :> c]
\* Clients and servers that are set up in another way than they should be.
Odd == {With([Buyer("p1") EXCEPT !.pays = [amount |-> 0, payTo |-> "merchant"]]),
        With([Buyer("p1") EXCEPT !.kid = None]), With([Buyer("p1") EXCEPT !.life = 9]),
        With([Buyer("p1") EXCEPT !.aud = Other]), With([Buyer("p1") EXCEPT !.org = DomainId(<<"hub", "net">>)]),
        With([Buyer("p1") EXCEPT !.sub = KeyId("p2"), !.kid = KeyId("p1")]),
        With([Buyer("p1") EXCEPT !.sub = Shadowname("ann", Org.domain)]),
        With([Buyer("p1") EXCEPT !.enrols = FALSE]),
        [Shop EXCEPT !.payTo = None], [Shop EXCEPT !.trust = {}],
        [Shop EXCEPT !.resource = [ticket |-> "inner"]]}

MCSetups == {Repeats, Restarts, Revokes, Two, Delegate} \cup Odd
=============================================================================
