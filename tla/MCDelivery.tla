----------------------------- MODULE MCDelivery -----------------------------
(* Delivery for TLC: three batches, three events, buffers of two. *)
EXTENDS Delivery
=============================================================================
