---------------------------- MODULE MCObdServer ----------------------------
(* One transmission thread object and two tasks, so that a task may still   *)
(* run when the next session starts its own.                                *)
EXTENDS ObdServer

CONSTANTS k1, k2

MCThread == {tx}
MCTask == {k1, k2}
=============================================================================
