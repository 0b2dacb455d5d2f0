---------------------------- MODULE MCDelivery ------------------------------
(* The worlds Delivery is checked in.  Keys: k1 and k2 of providers, n1 and *)
(* n2 of named Shadows, d1 of a direct one; certificates c1 and c2.         *)
EXTENDS Delivery, TLC

acme == <<"acme", "example">>
hr == <<"hr", "acme", "example">>
away == <<"away", "example">>
gone == <<"gone", "example">>
bob == Shadowname("bob", acme)
eve == Shadowname("eve", away)
direct == KeyId("d1")

Txt == [pairs |-> TRUE, v |-> <<"0.2">>, ep |-> <<"https">>, pk |-> <<"k1">>, delegate |-> <<>>]
\* Records a lookup skips.
Junk == {[Txt EXCEPT !.pairs = FALSE], [Txt EXCEPT !.v = <<"0.1">>], [Txt EXCEPT !.v = <<>>],
         [Txt EXCEPT !.ep = <<"http">>], [Txt EXCEPT !.pk = <<"malformed">>], [Txt EXCEPT !.pk = <<>>]}

World == [dns |-> (acme :> ({Txt} \cup Junk) @@ away :> {Txt} @@ hr :> {Txt} @@
                   gone :> {Txt, [Txt EXCEPT !.pk = <<"k2">>]}),
          cards |-> (bob :> build_signed_agent_card("n1", acme, "k1") @@
                     eve :> build_signed_agent_card("n1", away, "k1") @@
                     direct :> build_direct_signed_agent_card("d1")),
          signing |-> (bob :> "n1" @@ eve :> "n1" @@ direct :> "d1"),
          certs |-> ("h" :> "c1"),
          left |-> {}]

Plain == [bare |-> TRUE, frame |-> FALSE, user |-> "bob", password |-> None,
          host |-> acme, port |-> None, fragment |-> None]
Direct == [bare |-> FALSE, frame |-> TRUE, user |-> "key", password |-> "d1",
           host |-> "h", port |-> None, fragment |-> None]

Cred == [form |-> "ok", kind |-> "org_affiliation", iss |-> DomainId(acme), org |-> DomainId(acme),
         iat |-> 0, exp |-> 20, key |-> "k1", epoch |-> "e1", idx |-> 0]

ToBob == [address |-> Plain, budget |-> 0, from |-> eve, life |-> 2, creds |-> <<>>, ctx |-> None, defects |-> <<>>]
ToDirect == [ToBob EXCEPT !.address = Direct, !.budget = 1]

Base == [calls |-> <<>>, copies |-> FALSE, world |-> World, subject |-> bob, 
         status |-> [e1 |-> [body |-> "ok", size |-> 8, revoked |-> {1}],
                     cut |-> [body |-> "truncated"], none |-> [body |-> "empty"]],
         outbound |-> {[ctx |-> "x", peer |-> eve, at |-> 0]}, sameOrg |-> FALSE, required |-> {},
         trust |-> {[issuer |-> DomainId(acme), accept |-> {"org_affiliation"}]},
         cached |-> {}, contacts |-> {eve}]
One(s, call) == [Base EXCEPT !.calls = s :> call]

CONSTANTS s1, s2

\* Retries against a network that loses, delays and duplicates.
Retries == One(s1, [ToBob EXCEPT !.budget = 12])
Copied == [One(s1, [ToBob EXCEPT !.budget = 3]) EXCEPT !.copies = TRUE]
\* A provider's key rotation and a Shadow's, while one message is sent.
Rotation == [One(s1, [ToBob EXCEPT !.budget = 1]) EXCEPT !.world.left = {"publish", "resign", "retire", "rotate"}]
\* Two calls to a direct Shadow over one pin store, and a renewed certificate.
Pinned == [Base EXCEPT !.calls = s1 :> ToDirect @@ s2 :> ToDirect,
                       !.subject = direct, !.world.left = {"renew"}]
UriPin == [One(s1, [ToDirect EXCEPT !.budget = 3, !.address.fragment = "c1"])
              EXCEPT !.subject = direct, !.world.left = {"renew"}]

\* Strangers, with and without credentials.
Stranger(creds) == [One(s1, [ToBob EXCEPT !.creds = creds])
                       EXCEPT !.contacts = {}, !.required = {"org_affiliation"}]
Strangers ==
    {Stranger(<<>>), Stranger(<<Cred>>), [Stranger(<<Cred>>) EXCEPT !.world.left = {"publish"}],
     [Stranger(<<>>) EXCEPT !.required = {}],
     [Stranger(<<>>) EXCEPT !.cached = {[sender |-> eve, cred |-> Cred, until |-> 3]}],
     [Stranger(<<Cred>>) EXCEPT !.trust = {}],
     Stranger(<<Cred, [Cred EXCEPT !.idx = 1]>>), Stranger(<<[Cred EXCEPT !.idx = 9]>>),
     Stranger(<<[Cred EXCEPT !.epoch = "cut"]>>), Stranger(<<[Cred EXCEPT !.epoch = "none"]>>),
     Stranger(<<[Cred EXCEPT !.epoch = "e2"]>>),
     Stranger(<<[Cred EXCEPT !.iss = DomainId(hr)]>>), Stranger(<<[Cred EXCEPT !.iss = DomainId(away)]>>),
     Stranger(<<[Cred EXCEPT !.iss = KeyId("k1"), !.org = KeyId("k1")]>>),
     Stranger(<<[Cred EXCEPT !.exp = 99]>>),
     [Stranger(<<>>) EXCEPT !.calls[s1].ctx = "x"],
     [Stranger(<<>>) EXCEPT !.sameOrg = TRUE],
     [Stranger(<<>>) EXCEPT !.sameOrg = TRUE, !.calls[s1].from = bob]}

\* Addresses that do not parse or resolve, lives an envelope cannot have, and
\* messages other implementations may send.
Odd ==
    {One(s1, [ToBob EXCEPT !.address.bare = FALSE]),
     One(s1, [ToBob EXCEPT !.address = [Plain EXCEPT !.bare = FALSE, !.frame = TRUE, !.fragment = "c1"]]),
     One(s1, [ToBob EXCEPT !.address = [Plain EXCEPT !.bare = FALSE, !.frame = TRUE, !.password = "d1"]]),
     One(s1, [ToBob EXCEPT !.address = [Direct EXCEPT !.fragment = "malformed"]]),
     One(s1, [ToBob EXCEPT !.address = [Direct EXCEPT !.password = None]]),
     One(s1, [ToBob EXCEPT !.address.host = gone]),
     One(s1, [ToBob EXCEPT !.life = 0]),
     One(s1, [ToBob EXCEPT !.from = direct]),
     [One(s1, [ToBob EXCEPT !.defects = [form |-> "no_envelope"]]) EXCEPT !.copies = TRUE]} \cup
    {One(s1, [ToBob EXCEPT !.defects = d]) :
        d \in {[form |-> "bad_claims"], [hash |-> "other"], [id |-> None],
               [ctx |-> "malformed"], [to |-> Raw(eve)], [key |-> "k2"],
               [from |-> [id |-> eve, case |-> "upper"], kid |-> [id |-> eve, case |-> "upper"]],
               [from |-> [id |-> eve, case |-> "invalid"], kid |-> [id |-> eve, case |-> "invalid"]],
               [iat |-> 9, exp |-> 11]}}

\* Cards that do not verify, and one with a signature too many.
BobsCard == World.cards[bob]
Cards ==
    {[One(s1, ToBob) EXCEPT !.world.cards[bob] = c] :
        c \in {None, [BobsCard EXCEPT !.body.pk = "malformed"], [BobsCard EXCEPT !.body.v = "0.1"],
               [BobsCard EXCEPT !.body.extension = FALSE], [BobsCard EXCEPT !.signatures = <<>>],
               [BobsCard EXCEPT !.signatures[1].kid = bob], [BobsCard EXCEPT !.signatures[1].alg = "none"],
               [BobsCard EXCEPT !.signatures = <<Signature(bob, "k2"), @[1]>>]}} \cup
    {[One(s1, ToDirect) EXCEPT !.subject = direct, !.world.cards[direct].body.scheme = FALSE]}

\* A copy that is refused for its credential before the message itself arrives.
Refused == [Stranger(<<[Cred EXCEPT !.idx = 1]>>) EXCEPT !.copies = TRUE]

MCSetups == {Retries, Copied, Refused, Rotation, Pinned, UriPin} \cup Strangers \cup Odd \cup Cards
GraceSetups == {[Stranger(<<Cred>>) EXCEPT !.world.left = {"publish"}]}
=============================================================================
