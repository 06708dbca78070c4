--------------------------- MODULE MCApplication ----------------------------
(* Two measuring threads, 100 ms and 1000 ms, and a task for each.           *)
EXTENDS Application

CONSTANTS t1, t2, k1, k2

MCThread == {t1, t2, server}
MCTask == {k1, k2}
MCThreads == <<t1, t2>>
MCExThread == {"sender", "device"}
=============================================================================
