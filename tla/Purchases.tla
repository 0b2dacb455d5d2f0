----------------------------- MODULE Purchases ------------------------------
(***************************************************************************)
(* What a paywall promises: it quotes terms to an identity under a token   *)
(* it never used before, and a quote is paid at most once, by the identity *)
(* it was made to and on the terms it named.                               *)
(***************************************************************************)
VARIABLES quotes,   \* token -> the identity and the terms
          ledger    \* the payments made

Init == quotes = <<>> /\ ledger = {}

Quote ==
    \E q \in DOMAIN quotes' \ DOMAIN quotes :
        /\ DOMAIN quotes' = DOMAIN quotes \cup {q}
        /\ \A p \in DOMAIN quotes : quotes'[p] = quotes[p]
        /\ UNCHANGED ledger

Pay ==
    \E p \in ledger' \ ledger :
        /\ ledger' = ledger \cup {p}
        /\ p.nonce \in DOMAIN quotes
        /\ quotes[p.nonce] = [sub |-> p.sub, terms |-> p.terms]
        /\ \A o \in ledger : o.nonce # p.nonce
        /\ UNCHANGED quotes

Spec == Init /\ [][Quote \/ Pay]_<<quotes, ledger>>
=============================================================================
