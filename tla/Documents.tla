----------------------------- MODULE Documents ------------------------------
(***************************************************************************)
(* The documents of the Python SDK and the checks it makes of them: names  *)
(* and addresses, provider TXT records, AgentCards, envelopes, credentials *)
(* and status lists.  A document is a record of what the checks look at; a *)
(* signature is the key it was made with, and it verifies under that key   *)
(* only.  What json, base64 or pydantic refuse is a document whose form is *)
(* not "ok".  Times are integers.                                          *)
(***************************************************************************)
EXTENDS Integers, Sequences, FiniteSets

CONSTANTS None,
          MaxLifetime,     \* of an envelope: 300 s
          CredLifetime,    \* of a credential: 30 days
          Leeway           \* clock skew: 60 s

ASSUME DocumentsAssumption ==
    MaxLifetime \in Nat /\ CredLifetime \in Nat /\ Leeway \in Nat

Elements(s) == {s[i] : i \in DOMAIN s}
-----------------------------------------------------------------------------
(* Identifiers.  A domain is the sequence of its labels, a Shadowname has  *)
(* a local part too, and a public key stands for itself.                   *)

KeyId(k) == [key |-> k, local |-> None, domain |-> <<>>]
Shadowname(l, d) == [key |-> None, local |-> l, domain |-> d]
DomainId(d) == [key |-> None, local |-> None, domain |-> d]

is_public_key_identifier(i) == i.key # None
is_shadowname(i) == i.local # None
is_subdomain_of(c, p) ==
    /\ Len(p) <= Len(c)
    /\ SubSeq(c, Len(c) - Len(p) + 1, Len(c)) = p

\* As written on the wire an identifier may be in upper case, or be none.
Raw(i) == [id |-> i, case |-> "lower"]

\* canonicalize_identifier; a key is case-sensitive and never changes.
CanBeCanonicalized(raw) ==
    raw.case # "invalid" /\ (is_shadowname(raw.id) \/ is_public_key_identifier(raw.id))
Canonical(raw) == Raw(raw.id)
-----------------------------------------------------------------------------
(* Addresses: parse_shadow_address yields a Shadowname, a key with a host  *)
(* and perhaps a certificate pin, or an error.                             *)

BadAddress == [mode |-> "error"]

parse_tls_pin(f) == IF f = "malformed" THEN BadAddress ELSE [mode |-> "pin", pin |-> f]

ParseDirect(a) ==
    IF a.password = None \/ a.password = "malformed" \/ a.host = None THEN BadAddress
    ELSE IF a.fragment = None
         THEN [mode |-> "direct", id |-> KeyId(a.password), host |-> a.host, pin |-> None]
    ELSE IF parse_tls_pin(a.fragment) = BadAddress THEN BadAddress
    ELSE [mode |-> "direct", id |-> KeyId(a.password), host |-> a.host, pin |-> a.fragment]

ParseShadownameUri(a) ==
    IF a.host = None \/ a.port # None \/ a.fragment # None \/ a.user = "malformed" THEN BadAddress
    ELSE [mode |-> "name", id |-> Shadowname(a.user, a.host)]

\* frame: scheme, authority, path and query are as they must be; a name alone
\* needs none of them.
parse_shadow_address(a) ==
    IF a.bare THEN ParseShadownameUri(a)
    ELSE IF ~a.frame \/ a.user = None THEN BadAddress
    ELSE IF a.user = "key" THEN ParseDirect(a)
    ELSE IF a.password # None THEN BadAddress
    ELSE ParseShadownameUri(a)
-----------------------------------------------------------------------------
(* Provider TXT records: key=value pairs, a list of values for each key.   *)

Single(values) == Len(values) = 1

parse_provider_txt(t) ==
    /\ t.pairs
    /\ Single(t.v) /\ t.v[1] = "0.2"
    /\ Single(t.ep) /\ t.ep[1] \in {"https", "loopback"}
    /\ t.pk # <<>> /\ "malformed" \notin Elements(t.pk)

\* _records_from_answer: what does not parse is skipped, one record must stay.
Parsed(txts) == {t \in txts : parse_provider_txt(t)}
HasRecord(txts) == Cardinality(Parsed(txts)) = 1
Record(txts) == CHOOSE t \in Parsed(txts) : TRUE
-----------------------------------------------------------------------------
(* AgentCards.                                                             *)

\* build_unsigned_agent_card_body, sign_agent_card_body: one signature.
Signature(kid, k) == [form |-> "ok", alg |-> "EdDSA", typ |-> "JOSE", kid |-> kid, key |-> k]
CardBody(pk) == [pk |-> pk, v |-> "0.2", extension |-> TRUE, scheme |-> FALSE, interface |-> TRUE]
SignedCard(body, kid, k) == [body |-> body, signatures |-> <<Signature(kid, k)>>]

\* build_signed_agent_card and build_direct_signed_agent_card
build_signed_agent_card(pk, domain, k) == SignedCard(CardBody(pk), Shadowname("shadownet", domain), k)
build_direct_signed_agent_card(k) ==
    SignedCard([CardBody(k) EXCEPT !.scheme = TRUE], KeyId(k), k)

\* A slip: only the first of the signers is tried.
VerifyFirst(sig, signers, kid) ==
    /\ sig.form = "ok" /\ sig.alg = "EdDSA" /\ sig.typ = "JOSE" /\ sig.kid = kid
    /\ sig.key = signers[1]

\* _verify_one: any of the expected signers will do.
VerifyOne(sig, signers, kid) ==
    /\ sig.form = "ok" /\ sig.alg = "EdDSA" /\ sig.typ = "JOSE" /\ sig.kid = kid
    /\ sig.key \in Elements(signers)

\* _verify_signatures: any of the signatures will do.
VerifySignatures(card, signers, kid) ==
    \E i \in DOMAIN card.signatures : VerifyOne(card.signatures[i], signers, kid)

\* What both kinds of card must have: shadownet:pk and shadownet:v, the
\* required extension, an interface.
WellFormedCard(body) ==
    /\ body.pk # None /\ body.pk # "malformed"
    /\ body.v = "0.2" /\ body.extension /\ body.interface

verify_agent_card(card, record, name) ==
    /\ VerifySignatures(card, record.pk, Shadowname("shadownet", name.domain))
    /\ WellFormedCard(card.body)

verify_self_signed_agent_card(card, k) ==
    /\ VerifySignatures(card, <<k>>, KeyId(k))
    /\ card.body.pk = k
    /\ WellFormedCard(card.body) /\ card.body.scheme
-----------------------------------------------------------------------------
(* Envelopes.                                                              *)

\* build_and_sign_message with build_outbound_message and mint_envelope: the
\* hash is the message's, kid is from.
build_and_sign_message(id, from, to, iat, life, creds, ctx, k) ==
    [form |-> "ok", kid |-> Raw(from), from |-> Raw(from), to |-> Raw(to), iat |-> iat,
     exp |-> iat + life, creds |-> creds, key |-> k, hash |-> "ok", id |-> id, ctx |-> ctx]

\* mint_envelope raises otherwise.
Mintable(life) == 0 < life /\ life <= MaxLifetime

\* The three tokens agree on how long they are valid.
InTime(t, lifetime, now) ==
    /\ t.exp - t.iat <= lifetime
    /\ t.exp >= now - Leeway
    /\ t.iat <= now + Leeway

\* verify_envelope, and the wire error that receive makes of its exception.
verify_envelope(e, key, recipient, now) ==
    IF \/ e.form # "ok" \/ e.kid # Canonical(e.from) \/ e.to.id # recipient
       \/ ~InTime(e, MaxLifetime, now)
    THEN "parse_error"
    ELSE IF e.key # key THEN "signature" ELSE "ok"
-----------------------------------------------------------------------------
(* Credentials, status lists and trust.                                    *)

\* default_issuer_key_resolver: the first published key of a domain.
IssuerKey(iss, dns) ==
    IF is_public_key_identifier(iss) THEN iss.key
    ELSE IF HasRecord(dns[iss.domain]) THEN Record(dns[iss.domain]).pk[1] ELSE None

\* default_issuer_authorization_check
IssuerAuthorized(iss, org, dns) ==
    \/ iss = org
    \/ /\ ~is_public_key_identifier(iss) /\ ~is_public_key_identifier(org)
       /\ \/ is_subdomain_of(iss.domain, org.domain)
          \/ /\ HasRecord(dns[org.domain])
             /\ iss.domain \in Elements(Record(dns[org.domain]).delegate)

verify_credential(c, dns, now) ==
    /\ c.form = "ok" /\ c.kind = "org_affiliation"
    /\ InTime(c, CredLifetime, now)
    /\ c.key = IssuerKey(c.iss, dns)
    /\ IssuerAuthorized(c.iss, c.org, dns)

\* fetch_status_list with decode_status_list, under the issuer's domain: a
\* keyed issuer has none.  Whatever cannot be fetched or decoded raises
\* StatusListError; what zlib raises on a body that does not inflate is none.
fetch_status_list(iss, epoch, status) ==
    IF \/ is_public_key_identifier(iss) \/ epoch \notin DOMAIN status
       \/ status[epoch].body \in {"too_big", "not_base64", "empty"}
    THEN "StatusListError"
    ELSE IF status[epoch].body = "truncated" THEN "raises" ELSE "ok"

\* StatusList.is_revoked, for which an index beyond the list is an error.
is_revoked(list, idx) == idx \in list.revoked
InRange(list, idx) == idx < list.size

check_revocation(c, status) ==
    LET fetched == fetch_status_list(c.iss, c.epoch, status)
    IN  IF fetched # "ok" THEN fetched
        ELSE IF ~InRange(status[c.epoch], c.idx) \/ is_revoked(status[c.epoch], c.idx)
        THEN "StatusListError" ELSE "ok"

\* TrustStore.accepts, satisfies_policy
Accepts(trust, iss, kind) == \E t \in trust : t.issuer = iss /\ kind \in t.accept
satisfies_policy(creds, trust, required) ==
    required = {} \/ \E c \in creds : Accepts(trust, c.iss, c.kind) /\ c.kind \in required
=============================================================================
