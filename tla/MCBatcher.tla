------------------------------ MODULE MCBatcher ------------------------------
(* Instances of Batcher for TLC. *)
EXTENDS Batcher, TLC

CONSTANTS r1, r2, r3

\* Five rows, one more than RetainRows when MaxRows = 1, and a request that
\* has snapshots only.
FiveRows == (r1 :> 2) @@ (r2 :> 3) @@ (r3 :> 0)
=============================================================================
