----------------------------- MODULE DeliveryMC -----------------------------
(* Instances of Delivery for TLC. *)
EXTENDS Delivery

CONSTANTS a1, a2, c1, c2
=============================================================================
