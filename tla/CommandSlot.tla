---------------------------- MODULE CommandSlot ----------------------------
(***************************************************************************)
(* What the command mailbox of the BLE server promises: a slot for one     *)
(* message.  The client's message is put whole into an empty slot, a call  *)
(* of the server takes it whole and exactly once, and a call gives up only *)
(* while the slot is empty.  RxMailbox implements this with two fields and *)
(* a flag shared by two tasks.                                             *)
(***************************************************************************)
CONSTANTS
    Msg,        \* the messages
    Empty,      \* no message in the slot
    Timeout     \* the outcome of a call that gave up

VARIABLES
    slot,       \* the message waiting for the server, or Empty
    outcome     \* what the last finished call of the server returned

slotVars == <<slot, outcome>>

SlotInit == slot = Empty /\ outcome = Timeout

\* A message arrives while the slot is empty (it is lost otherwise).
Put == /\ slot = Empty
       /\ slot' \in Msg
       /\ UNCHANGED outcome

\* A call of the server returns the message.
Take == /\ slot # Empty
        /\ outcome' = slot
        /\ slot' = Empty

\* A call of the server gives up.
GiveUp == /\ slot = Empty
          /\ outcome' = Timeout
          /\ UNCHANGED slot

SlotNext == Put \/ Take \/ GiveUp

SlotSpec == SlotInit /\ [][SlotNext]_slotVars
=============================================================================
