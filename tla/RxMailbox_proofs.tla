-------------------------- MODULE RxMailbox_proofs --------------------------
(* Proofs about the command mailbox, for any commands and contents.         *)
EXTENDS RxMailbox, TLAPS

LEMMA InitIInv == Init => IInv
<1> SUFFICES ASSUME Init PROVE IInv
  OBVIOUS
<1>1. NoMsg \in Fields
  BY DEF NoMsg, Fields, Value
<1>2. TypeOK
  BY <1>1 DEF Init, TypeOK, Value
<1>3. WholeMessage /\ FlagIsOwnership
  BY DEF Init, WholeMessage, FlagIsOwnership
<1>4. QED
  BY <1>2, <1>3 DEF IInv

\* One step per action: every statement of the two tasks keeps the invariant.
LEMMA NextIInv == IInv /\ [Next]_vars => IInv'
<1> SUFFICES ASSUME IInv, [Next]_vars PROVE IInv'
  OBVIOUS
<1> USE ConstantsAssumption
        DEF IInv, TypeOK, WholeMessage, FlagIsOwnership, Fields, NoMsg, Value, Msg,
            bleVars, srvVars
<1>1. CASE ArriveFull
  BY <1>1 DEF ArriveFull
<1>2. CASE ArriveEmpty
  BY <1>2 DEF ArriveEmpty
<1>3. CASE WriteCommand
  BY <1>3 DEF WriteCommand
<1>4. CASE EmptyValue
  BY <1>4 DEF EmptyValue
<1>5. CASE WriteValue
  BY <1>5 DEF WriteValue
<1>6. CASE Publish
  BY <1>6 DEF Publish
<1>7. CASE Call
  BY <1>7 DEF Call
<1>8. CASE SeeMessage
  BY <1>8 DEF SeeMessage
<1>9. CASE Expire
  BY <1>9 DEF Expire
<1>10. CASE CheckFails
  BY <1>10 DEF CheckFails
<1>11. CASE CheckSucceeds
  BY <1>11 DEF CheckSucceeds
<1>12. CASE CopyCommand
  BY <1>12 DEF CopyCommand
<1>13. CASE CopyValue
  BY <1>13 DEF CopyValue
<1>14. CASE Release
  BY <1>14 DEF Release
<1>15. CASE UNCHANGED vars
  BY <1>15 DEF vars
<1>16. QED
  BY <1>1, <1>2, <1>3, <1>4, <1>5, <1>6, <1>7, <1>8, <1>9, <1>10, <1>11,
     <1>12, <1>13, <1>14, <1>15 DEF Next, BleTask, ServerThread

\* The inductive invariant holds in every reachable state: who has the two
\* vectors, and what is in them (receive_from_characteristic,
\* server_receive_any_command).
THEOREM IInvCorrect == Spec => []IInv
<1>1. Init => IInv
  BY InitIInv
<1>2. IInv /\ [Next]_vars => IInv'
  BY NextIInv
<1>3. QED
  BY <1>1, <1>2, PTL DEF Spec

\* What the two tasks share, and the places they are at, keep their types
\* (receive_from_characteristic, server_receive_any_command).
THEOREM MailboxTypeCorrect == Spec => []TypeOK
<1>1. IInv => TypeOK
  BY DEF IInv
<1>2. QED
  BY <1>1, IInvCorrect, PTL

\* The two tasks are never in received_command and received_value together.
THEOREM NoDataRaceCorrect == Spec => []NoDataRace
<1>1. IInv => NoDataRace
  BY DEF IInv, FlagIsOwnership, NoDataRace
<1>2. QED
  BY <1>1, IInvCorrect, PTL

\* No call returns a command with the value of another message.
THEOREM WholeMessageCorrect == Spec => []WholeMessage
<1>1. IInv => WholeMessage
  BY DEF IInv
<1>2. QED
  BY <1>1, IInvCorrect, PTL

-----------------------------------------------------------------------------
(* The mailbox implements the one-message slot.                            *)

LEMMA InitSlot == Init => Slot!SlotInit
  BY DEF Init, Slot!SlotInit

\* Only Publish, Release and CheckFails are visible in the slot.
LEMMA NextSlot == IInv /\ [Next]_vars => [Slot!SlotNext]_(Slot!slotVars)
<1> SUFFICES ASSUME IInv, [Next]_vars PROVE [Slot!SlotNext]_(Slot!slotVars)
  OBVIOUS
<1> USE DEF Slot!slotVars
<1>1. CASE Publish
  <2>1. [cmd |-> command, val |-> value] \in Msg
    BY <1>1 DEF Publish, IInv, WholeMessage, FlagIsOwnership
  <2>2. Slot!Put
    BY <1>1, <2>1 DEF Publish, Slot!Put, IInv, FlagIsOwnership, srvVars
  <2>3. QED
    BY <2>2 DEF Slot!SlotNext
<1>2. CASE Release
  <2>1. flag /\ command \in Command /\ value \in Value
    BY <1>2 DEF Release, IInv, FlagIsOwnership, TypeOK
  <2>2. [cmd |-> command, val |-> value] # Empty
    BY <2>1, ConstantsAssumption DEF Msg
  <2>3. outcome' = [cmd |-> command, val |-> value]
    BY <1>2 DEF Release, IInv, WholeMessage
  <2>4. Slot!Take
    BY <1>2, <2>1, <2>2, <2>3 DEF Release, Slot!Take
  <2>5. QED
    BY <2>4 DEF Slot!SlotNext
<1>3. CASE CheckFails
  <2>1. Slot!GiveUp
    BY <1>3 DEF CheckFails, Slot!GiveUp
  <2>2. QED
    BY <2>1 DEF Slot!SlotNext
<1>4. CASE ArriveFull \/ ArriveEmpty
  BY <1>4 DEF ArriveFull, ArriveEmpty, srvVars
<1>5. CASE WriteCommand \/ EmptyValue \/ WriteValue
  <2>1. ~flag /\ ~flag'
    BY <1>5 DEF WriteCommand, EmptyValue, WriteValue, IInv, FlagIsOwnership
  <2>2. QED
    BY <1>5, <2>1 DEF WriteCommand, EmptyValue, WriteValue, srvVars
<1>6. CASE Call \/ SeeMessage \/ Expire \/ CheckSucceeds
  BY <1>6 DEF Call, SeeMessage, Expire, CheckSucceeds
<1>7. CASE CopyCommand \/ CopyValue
  BY <1>7 DEF CopyCommand, CopyValue
<1>8. CASE UNCHANGED vars
  BY <1>8 DEF vars, srvVars
<1>9. QED
  BY <1>1, <1>2, <1>3, <1>4, <1>5, <1>6, <1>7, <1>8
     DEF Next, BleTask, ServerThread

\* The two fields and the flag behave as a slot for one whole message.
THEOREM ImplementsSlotCorrect == Spec => ImplementsSlot
<1>1. Init => Slot!SlotInit
  BY InitSlot
<1>2. IInv /\ [Next]_vars => [Slot!SlotNext]_(Slot!slotVars)
  BY NextSlot
<1>3. QED
  BY <1>1, <1>2, IInvCorrect, PTL DEF Spec, ImplementsSlot, Slot!SlotSpec
=============================================================================
