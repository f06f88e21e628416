----------------------------- MODULE MCDelivery -----------------------------
(* Instances of Delivery for TLC. *)
EXTENDS Delivery, TLC

\* Messages are interchangeable; used in the safety runs only.
MsgSymmetry == Permutations(Msgs)
=============================================================================
