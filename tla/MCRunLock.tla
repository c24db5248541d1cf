----------------------------- MODULE MCRunLock -----------------------------
(* Three backup jobs and the lock of one that died.                        *)
EXTENDS RunLock, TLC

CONSTANTS j1, j2, j3, j0

Jobs == {j1, j2, j3}
============================================================================
