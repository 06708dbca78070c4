------------------------- MODULE MCObdDataPipeline -------------------------
(* Two groups of items, as the UART device has: one group of two items and  *)
(* one of a single item.  One item has two values, so that a copy of it can *)
(* be older than the device's value or mix two writes; the other two always *)
(* carry the same value and are notified all the same.                      *)
EXTENDS ObdDataPipeline

CONSTANTS a, b, c, v0, v1

MCItem == {a, b, c}
MCValue == {v0, v1}
MCLines == {<<a, b>>, <<c>>}
MCReading == [i \in MCItem |-> IF i = a THEN {v0, v1} ELSE {v0}]
=============================================================================
