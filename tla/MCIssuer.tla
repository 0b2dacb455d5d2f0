------------------------------ MODULE MCIssuer ------------------------------
(* Issuer for TLC: keys are interchangeable, and so are the requests of    *)
(* each class.                                                             *)
EXTENDS Issuer, TLC

IssuerSymmetry == Permutations(Keys) \cup Permutations(FaultyRequests)
                  \cup Permutations(Requests \ FaultyRequests)
=============================================================================
