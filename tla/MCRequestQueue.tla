--------------------------- MODULE MCRequestQueue ---------------------------
(* Two threads with two calls each: a call of one meets the reply to a call *)
(* of the other, and to its own older call.                                 *)
EXTENDS RequestQueue

CONSTANTS c1, c2
MCCaller == {c1, c2}
=============================================================================
