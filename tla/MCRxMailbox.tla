---------------------------- MODULE MCRxMailbox ----------------------------
(* Two commands, and a value that may be missing.                           *)
EXTENDS RxMailbox

CONSTANTS key, mode, bytes

MCCommand == {key, mode}
MCContent == {bytes}
=============================================================================
