----------------------------- MODULE MCDelivery -----------------------------
(* The instances of Delivery for TLC.                                      *)
EXTENDS Delivery
=============================================================================
