---------------------------- MODULE MCBlePackets ----------------------------
(* Packets of three bytes, two of them payload: messages of up to six bytes *)
(* take one, two or three packets, with the last one full or not.           *)
EXTENDS BlePackets

CONSTANTS p, q
MCTag == {p, q}
=============================================================================
