---------------------------- MODULE MCHostsCache ----------------------------
(* HostsCache for TLC. *)
EXTENDS HostsCache

CONSTANTS h1, q1, q2

Readers == {q1, q2}
=============================================================================
