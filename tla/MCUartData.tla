----------------------------- MODULE MCUartData -----------------------------
(* Lines of the battery and others in turn; the battery is once just above   *)
(* 120 V, once at 120 V, and once below, and one of the others begins with a *)
(* number above 120.                                                         *)
EXTENDS UartData

MCBatteryLines == {1, 3, 5, 7}
MCFirstValue == [n \in 1..MaxLines |-> <<121, 0, 120, 130, 150, 60, 100, 120>>[n]]
=============================================================================
