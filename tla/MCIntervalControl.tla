-------------------------- MODULE MCIntervalControl --------------------------
(* IntervalControl for TLC. *)
EXTENDS IntervalControl

\* An agent without a spool starts no drainer.
RunnerOnly == {"runner"}

RunnerAndDrainer == {"runner", "drainer"}
=============================================================================
