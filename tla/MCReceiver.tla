----------------------------- MODULE MCReceiver -----------------------------
(* Values for TLC: deliveries, envelopes and ids are interchangeable.      *)
EXTENDS Receiver, TLC

ReceiverSymmetry == Permutations(Deliveries) \cup Permutations(Envelopes)
                    \cup Permutations(MessageIds)
=============================================================================
