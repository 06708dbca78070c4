----------------------- MODULE ObdDataPipeline_proofs -----------------------
(* Proofs about the path of an OBD value, for any items, values and lines.  *)
EXTENDS ObdDataPipeline, TLAPS

-----------------------------------------------------------------------------
(* Sequences and the sets of their elements.                               *)

\* The empty sequence has no elements.
LEMMA ToSetEmpty == ToSet(<< >>) = {}
  BY DEF ToSet

\* The elements of a sequence, by their places.
LEMMA ToSetElement ==
  ASSUME NEW S, NEW s \in Seq(S), NEW x
  PROVE  x \in ToSet(s) <=> \E k \in 1..Len(s) : x = s[k]
  BY DEF ToSet

\* Append adds its element.
LEMMA ToSetAppend ==
  ASSUME NEW S, NEW s \in Seq(S), NEW e \in S
  PROVE  /\ ToSet(Append(s, e)) = ToSet(s) \cup {e}
         /\ Append(s, e) \in Seq(S)
<1> DEFINE t == Append(s, e)
<1>1. /\ t \in Seq(S) /\ Len(t) = Len(s) + 1 /\ t[Len(s) + 1] = e
      /\ \A k \in 1..Len(s) : t[k] = s[k]
  OBVIOUS
<1> HIDE DEF t
<1>2. ASSUME NEW x
      PROVE  x \in ToSet(t) <=> x \in ToSet(s) \/ x = e
  <2>1. (\E k \in 1..Len(t) : x = t[k]) <=> (\E k \in 1..Len(s) : x = s[k]) \/ x = e
    BY <1>1
  <2>2. x \in ToSet(s) <=> \E k \in 1..Len(s) : x = s[k]
    BY ToSetElement
  <2>3. x \in ToSet(t) <=> \E k \in 1..Len(t) : x = t[k]
    BY <1>1, ToSetElement
  <2>4. QED
    BY <2>1, <2>2, <2>3
<1>3. QED
  BY <1>1, <1>2 DEF t

\* A sequence has its head and what its tail has.
LEMMA ToSetHeadTail ==
  ASSUME NEW S, NEW s \in Seq(S), s # << >>
  PROVE  /\ Head(s) \in S /\ Tail(s) \in Seq(S)
         /\ ToSet(s) = {Head(s)} \cup ToSet(Tail(s))
<1> DEFINE t == Tail(s)
<1>1. Head(s) \in S /\ t \in Seq(S) /\ Head(s) = s[1]
  OBVIOUS
<1>2. /\ Len(s) \in Nat \ {0} /\ Len(t) = Len(s) - 1
      /\ \A k \in 1..Len(t) : t[k] = s[k + 1]
  OBVIOUS
<1> HIDE DEF t
<1>3. ASSUME NEW x
      PROVE  x \in ToSet(s) <=> x = Head(s) \/ x \in ToSet(t)
  <2>1. x \in ToSet(s) <=> \E k \in 1..Len(s) : x = s[k]
    BY ToSetElement
  <2>2. x \in ToSet(t) <=> \E k \in 1..Len(t) : x = t[k]
    BY <1>1, ToSetElement
  <2>3. ASSUME NEW k \in 1..Len(s), x = s[k], k # 1
        PROVE  \E j \in 1..Len(t) : x = t[j]
    <3>1. k - 1 \in 1..Len(t) /\ t[k - 1] = x
      BY <2>3, <1>2
    <3>2. QED
      BY <3>1
  <2>4. ASSUME NEW k \in 1..Len(t), x = t[k]
        PROVE  \E j \in 1..Len(s) : x = s[j]
    <3>1. k + 1 \in 1..Len(s) /\ s[k + 1] = x
      BY <2>4, <1>2
    <3>2. QED
      BY <3>1
  <2>5. 1 \in 1..Len(s)
    BY <1>2
  <2>6. QED
    BY <1>1, <2>1, <2>2, <2>3, <2>4, <2>5
<1>4. QED
  BY <1>1, <1>3 DEF t

\* A new element at the end repeats nothing.
LEMMA InjectiveAppend ==
  ASSUME NEW S, NEW s \in Seq(S), NEW e \in S, IsInjective(s), e \notin ToSet(s)
  PROVE  IsInjective(Append(s, e))
  BY DEF IsInjective, ToSet

\* A tail of a sequence without repetition does not have its head.
LEMMA InjectiveTail ==
  ASSUME NEW S, NEW s \in Seq(S), s # << >>, IsInjective(s)
  PROVE  IsInjective(Tail(s)) /\ Head(s) \notin ToSet(Tail(s))
<1>1. /\ Tail(s) \in Seq(S) /\ Head(s) = s[1] /\ Len(Tail(s)) = Len(s) - 1
      /\ \A k \in 1..Len(s) - 1 : Tail(s)[k] = s[k + 1]
  OBVIOUS
<1>2. \A j, k \in 1..Len(s) : s[j] = s[k] => j = k
  BY DEF IsInjective
<1>3. ASSUME NEW j \in 1..Len(Tail(s)), NEW k \in 1..Len(Tail(s)),
             Tail(s)[j] = Tail(s)[k]
      PROVE  j = k
  <2>1. j + 1 \in 1..Len(s) /\ k + 1 \in 1..Len(s) /\ s[j + 1] = s[k + 1]
    BY <1>1, <1>3
  <2>2. QED
    BY <2>1, <1>2
<1>4. ASSUME NEW k \in 1..Len(Tail(s)), Tail(s)[k] = Head(s) PROVE FALSE
  <2>1. k + 1 \in 1..Len(s) /\ 1 \in 1..Len(s) /\ s[k + 1] = s[1]
    BY <1>1, <1>4
  <2>2. QED
    BY <2>1, <1>2
<1>5. QED
  BY <1>1, <1>3, <1>4 DEF IsInjective, ToSet

\* A prefix stays one when the sequence grows at its end.
LEMMA PrefixAppend ==
  ASSUME NEW S, NEW s \in Seq(S), NEW t \in Seq(S), NEW e \in S, IsPrefix(s, t)
  PROVE  IsPrefix(s, Append(t, e))
<1>1. Len(s) \in Nat /\ Len(t) \in Nat /\ Len(s) <= Len(t) /\ Len(s) <= Len(Append(t, e))
  BY DEF IsPrefix
<1>2. SubSeq(Append(t, e), 1, Len(s)) = SubSeq(t, 1, Len(s))
  BY <1>1
<1>3. QED
  BY <1>1, <1>2 DEF IsPrefix

\* One round of the handler's loop adds its item, and never a second time.
LEMMA PushIfNewProperties ==
  ASSUME NEW S, NEW s \in Seq(S), NEW e \in S
  PROVE  /\ PushIfNew(s, e) \in Seq(S)
         /\ ToSet(PushIfNew(s, e)) = ToSet(s) \cup {e}
         /\ IsInjective(s) => IsInjective(PushIfNew(s, e))
         /\ \A t \in Seq(S) : IsPrefix(t, s) => IsPrefix(t, PushIfNew(s, e))
<1>1. CASE e \in ToSet(s)
  BY <1>1 DEF PushIfNew
<1>2. CASE e \notin ToSet(s)
  BY <1>2, ToSetAppend, InjectiveAppend, PrefixAppend DEF PushIfNew
<1>3. QED
  BY <1>1, <1>2

\* The entries of the message have their types.
LEMMA MsgEntry ==
  ASSUME msg \in Seq(Entry), NEW k \in 1..Len(msg)
  PROVE  msg[k].item \in Item /\ msg[k].hi \in Value /\ msg[k].lo \in Value
<1>1. msg[k] \in Entry
  OBVIOUS
<1>2. QED
  BY <1>1 DEF Entry

\* So do the items in it.
LEMMA MsgItemsType == msg \in Seq(Entry) => MsgItems \subseteq Item
  BY MsgEntry DEF MsgItems

\* The entry the client finds for an item is one of the message, for that item.
LEMMA DeliveredEntry ==
  ASSUME NEW i \in MsgItems
  PROVE  \E k \in 1..Len(msg) : EntryFor(i) = msg[k] /\ msg[k].item = i
<1>1. \E k \in 1..Len(msg) : msg[k].item = i
  BY DEF MsgItems
<1>2. QED
  BY <1>1 DEF EntryFor

-----------------------------------------------------------------------------
(* Types, and what the places of the two tasks say about their data.       *)

\* Between two cycles the transmission task has no message, a copy is left
\* only while it is encoded, bytes are left only in the loop that notifies, and
\* the mutex is held exactly in the handler.
PlaceInv ==
    /\ txPc \in {"get", "clear"} => msg = << >>
    /\ txPc \in {"get", "send", "notify"} => snapshot = << >>
    /\ txPc # "notify" => unsent = 0 /\ whole
    /\ half # NoHalf => txPc = "encode" /\ snapshot # << >>
    /\ uartPc = "read" => acitr = << >>
    /\ uartPc = "collect" <=> listMutex = "uart"

Base == TypeOK /\ PlaceInv

\* The initial state has them.
LEMMA InitBase == Init => Base
<1> SUFFICES ASSUME Init PROVE Base
  OBVIOUS
<1>1. value \in [Item -> Value] /\ client \in [Item -> Value \X Value]
  BY InitValueAssumption DEF Init
<1>2. << >> \in Seq(Item) /\ << >> \in Seq(Entry)
  OBVIOUS
<1>3. TypeOK
  <2>1. unsent \in 0..MsgSize
    BY DEF Init, MsgSize
  <2>2. QED
    BY <1>1, <1>2, <2>1 DEF Init, TypeOK
<1>4. PlaceInv
  BY DEF Init, PlaceInv, sendVars
<1>5. QED
  BY <1>3, <1>4 DEF Base

\* And every action keeps them.
LEMMA NextBase == Base /\ [Next]_vars => Base'
<1> SUFFICES ASSUME Base, [Next]_vars PROVE Base'
  OBVIOUS
<1> USE DEF Base, TypeOK, PlaceInv, uartVars, txVars, sendVars, linkVars, MsgSize
<1>1. CASE ReadLine
  BY <1>1, LinesAssumption DEF ReadLine
<1>2. CASE WriteItem
  <2>1. Head(lineLeft) \in Item /\ Tail(lineLeft) \in Seq(Item)
    BY <1>2, ToSetHeadTail DEF WriteItem
  <2>2. Append(acitr, Head(lineLeft)) \in Seq(Item)
    BY <2>1, ToSetAppend
  <2>3. PICK v \in Reading[Head(lineLeft)] :
            value' = [value EXCEPT ![Head(lineLeft)] = v]
    BY <1>2 DEF WriteItem
  <2>4. v \in Value
    BY <2>1, <2>3, ReadingAssumption
  <2>5. value' \in [Item -> Value]
    BY <2>1, <2>3, <2>4
  <2>6. QED
    BY <1>2, <2>1, <2>2, <2>5 DEF WriteItem
<1>3. CASE Signal
  BY <1>3 DEF Signal
<1>4. CASE CollectItem
  <2>1. Head(acitr) \in Item /\ Tail(acitr) \in Seq(Item)
    BY <1>4, ToSetHeadTail DEF CollectItem
  <2>2. PushIfNew(changed, Head(acitr)) \in Seq(Item)
    BY <2>1, PushIfNewProperties
  <2>3. QED
    BY <1>4, <2>1, <2>2 DEF CollectItem
<1>5. CASE HandlerReturn
  BY <1>5 DEF HandlerReturn
<1>6. CASE GetChanged
  BY <1>6 DEF GetChanged
<1>7. CASE ClearChanged
  <2>1. lost' \in SUBSET Item
    BY <1>7 DEF ClearChanged, ToSet
  <2>2. QED
    BY <1>7, <2>1 DEF ClearChanged
<1>8. CASE CopyFirstHalf
  <2>1. Head(snapshot) \in Item
    BY <1>8, ToSetHeadTail DEF CopyFirstHalf
  <2>2. QED
    BY <1>8, <2>1 DEF CopyFirstHalf
<1>9. CASE CopySecondHalf
  <2>1. Head(snapshot) \in Item /\ Tail(snapshot) \in Seq(Item)
    BY <1>9, ToSetHeadTail DEF CopySecondHalf
  <2>2. [item |-> Head(snapshot), hi |-> half, lo |-> value[Head(snapshot)]] \in Entry
    BY <1>9, <2>1 DEF CopySecondHalf, Entry
  <2>3. msg' \in Seq(Entry)
    BY <1>9, <2>2, ToSetAppend DEF CopySecondHalf
  <2>4. QED
    BY <1>9, <2>1, <2>3 DEF CopySecondHalf
<1>10. CASE EncodeDone
  BY <1>10 DEF EncodeDone
<1>11. CASE Drop
  <2>1. MsgItems \subseteq Item
    BY MsgItemsType
  <2>2. QED
    BY <1>11, <2>1 DEF Drop
<1>12. CASE SendInterface
  BY <1>12 DEF SendInterface
<1>13. CASE NotifyPacket
  <2>1. unsent - (PacketSize - 1) \in 0..MsgSize
    BY <1>13, PacketAssumption DEF NotifyPacket
  <2>2. whole' \in BOOLEAN
    BY <1>13 DEF NotifyPacket
  <2>3. QED
    BY <1>13, <2>1, <2>2 DEF NotifyPacket
<1>14. CASE Deliver \/ Cut
  <2>1. client' \in [Item -> Value \X Value]
    <3>1. CASE Cut
      BY <3>1 DEF Cut
    <3>2. CASE Deliver
      <4>1. client' = [i \in Item |-> IF i \in MsgItems
                                     THEN <<EntryFor(i).hi, EntryFor(i).lo>>
                                     ELSE client[i]]
        BY <3>2 DEF Deliver
      <4>2. \A i \in Item : client[i] \in Value \X Value
        OBVIOUS
      <4>3. ASSUME NEW i \in MsgItems
            PROVE  <<EntryFor(i).hi, EntryFor(i).lo>> \in Value \X Value
        <5>1. PICK k \in 1..Len(msg) : EntryFor(i) = msg[k]
          BY DeliveredEntry
        <5>2. msg[k].hi \in Value /\ msg[k].lo \in Value
          BY MsgEntry
        <5>3. QED
          BY <5>1, <5>2
      <4>4. QED
        BY <4>1, <4>2, <4>3
    <3>3. QED
      BY <1>14, <3>1, <3>2
  <2>2. lost' \in SUBSET Item
    BY <1>14, MsgItemsType DEF Deliver, Cut
  <2>3. /\ txPc = "notify" /\ txPc' = "get" /\ msg' = << >>
        /\ unsent' = 0 /\ whole' = TRUE
        /\ UNCHANGED <<value, changed, listMutex, uartVars, snapshot, half, linkVars>>
    BY <1>14 DEF Deliver, Cut, NotifyLast
  <2>4. QED
    BY <2>1, <2>2, <2>3
<1>15. CASE LinkStep
  BY <1>15 DEF LinkStep, SessionStart, SessionEnd, LinkUpOrDown
<1>16. CASE UNCHANGED vars
  BY <1>16 DEF vars
<1>17. QED
  BY <1>1, <1>2, <1>3, <1>4, <1>5, <1>6, <1>7, <1>8, <1>9, <1>10, <1>11,
     <1>12, <1>13, <1>14, <1>15, <1>16 DEF Next, UartStep, TxStep

\* The state keeps its types (all handlers).
THEOREM TypeCorrect == Spec => []TypeOK
<1>1. Base => TypeOK
  BY DEF Base
<1>2. QED
  BY <1>1, InitBase, NextBase, PTL DEF Spec

-----------------------------------------------------------------------------
(* No item is in the list, the copy or the message twice.                  *)

\* An entry at the end of the message adds its item.
LEMMA MsgAppend ==
  ASSUME msg \in Seq(Entry), NEW e \in Entry, msg' = Append(msg, e)
  PROVE  /\ Len(msg') = Len(msg) + 1 /\ Len(msg) \in Nat
         /\ msg'[Len(msg) + 1] = e
         /\ \A k \in 1..Len(msg) : msg'[k] = msg[k]
         /\ MsgItems' = MsgItems \cup {e.item}
<1>1. /\ Len(msg') = Len(msg) + 1 /\ Len(msg) \in Nat
      /\ msg'[Len(msg) + 1] = e
      /\ \A k \in 1..Len(msg) : msg'[k] = msg[k]
  OBVIOUS
<1>2. 1..Len(msg') = 1..Len(msg) \cup {Len(msg) + 1}
  BY <1>1
<1>3. MsgItems' = {msg'[k].item : k \in 1..Len(msg')}
  BY DEF MsgItems
<1>4. MsgItems' = MsgItems \cup {e.item}
  BY <1>1, <1>2, <1>3 DEF MsgItems
<1>5. QED
  BY <1>1, <1>4

\* What a copy of the next item's second half does.
LEMMA CopySecondHalfStep ==
  ASSUME Base, CopySecondHalf
  PROVE  LET i == Head(snapshot)
             e == [item |-> i, hi |-> half, lo |-> value[i]]
         IN  /\ i \in Item /\ e \in Entry /\ msg' = Append(msg, e)
             /\ Tail(snapshot) \in Seq(Item) /\ snapshot' = Tail(snapshot)
             /\ ToSet(snapshot) = {i} \cup ToSet(snapshot')
             /\ MsgItems' = MsgItems \cup {i}
<1> DEFINE i == Head(snapshot)
           e == [item |-> i, hi |-> half, lo |-> value[i]]
<1>1. snapshot # << >> /\ half \in Value
  BY DEF Base, TypeOK, PlaceInv, CopySecondHalf
<1>2. /\ i \in Item /\ Tail(snapshot) \in Seq(Item)
      /\ ToSet(snapshot) = {i} \cup ToSet(Tail(snapshot))
  BY <1>1, ToSetHeadTail DEF Base, TypeOK
<1>3. msg' = Append(msg, e) /\ snapshot' = Tail(snapshot)
  BY DEF CopySecondHalf
<1>4. e \in Entry /\ e.item = i
  BY <1>1, <1>2 DEF Entry, Base, TypeOK
<1> HIDE DEF e, i
<1>5. MsgItems' = MsgItems \cup {e.item}
  BY <1>3, <1>4, MsgAppend DEF Base, TypeOK
<1>6. QED
  BY <1>2, <1>3, <1>4, <1>5 DEF e, i

\* Only CollectItem, GetChanged, ClearChanged, CopySecondHalf and the sends
\* touch the three sequences.
LEMMA NextNoDuplicates == Base /\ NoDuplicates /\ [Next]_vars => NoDuplicates'
<1> SUFFICES ASSUME Base, NoDuplicates, [Next]_vars PROVE NoDuplicates'
  OBVIOUS
<1> USE DEF uartVars, txVars, sendVars, linkVars
<1>1. CASE CollectItem
  <2>1. Head(acitr) \in Item /\ changed \in Seq(Item)
    BY <1>1, ToSetHeadTail DEF CollectItem, Base, TypeOK
  <2>2. IsInjective(changed')
    BY <1>1, <2>1, PushIfNewProperties DEF CollectItem, NoDuplicates
  <2>3. QED
    BY <1>1, <2>2 DEF CollectItem, NoDuplicates
<1>2. CASE GetChanged
  <2>1. msg = << >> /\ msg' = << >> /\ changed' = changed /\ snapshot' = changed
    BY <1>2 DEF GetChanged, Base, PlaceInv
  <2>2. QED
    BY <2>1 DEF NoDuplicates
<1>3. CASE ClearChanged
  <2>1. IsInjective(changed')
    BY <1>3 DEF ClearChanged, IsInjective
  <2>2. QED
    BY <1>3, <2>1 DEF ClearChanged, NoDuplicates
<1>4. CASE CopySecondHalf
  <2> DEFINE i == Head(snapshot)
             e == [item |-> i, hi |-> half, lo |-> value[i]]
  <2>1. /\ i \in Item /\ e \in Entry /\ msg' = Append(msg, e) /\ e.item = i
        /\ snapshot' = Tail(snapshot) /\ snapshot # << >>
        /\ ToSet(snapshot) = {i} \cup ToSet(snapshot')
    BY <1>4, CopySecondHalfStep DEF Base, PlaceInv, CopySecondHalf
  <2>2. IsInjective(snapshot') /\ i \notin ToSet(snapshot')
    BY <2>1, InjectiveTail DEF NoDuplicates, Base, TypeOK
  <2> HIDE DEF e, i
  <2>3. /\ Len(msg') = Len(msg) + 1 /\ Len(msg) \in Nat
        /\ msg'[Len(msg) + 1] = e
        /\ \A k \in 1..Len(msg) : msg'[k] = msg[k]
    BY <2>1, MsgAppend DEF Base, TypeOK
  <2>4. \A k \in 1..Len(msg) : msg[k].item # i
    BY <2>1 DEF NoDuplicates
  <2>5. \A j, k \in 1..Len(msg') : msg'[j].item = msg'[k].item => j = k
    BY <2>1, <2>3, <2>4 DEF NoDuplicates
  <2>6. \A k \in 1..Len(msg') : msg'[k].item \notin ToSet(snapshot')
    BY <2>1, <2>2, <2>3 DEF NoDuplicates
  <2>7. changed' = changed
    BY <1>4 DEF CopySecondHalf
  <2>8. QED
    BY <2>2, <2>5, <2>6, <2>7 DEF NoDuplicates
<1>5. CASE Drop \/ Deliver \/ Cut
  <2>1. msg' = << >> /\ UNCHANGED <<changed, snapshot>>
    BY <1>5 DEF Drop, Deliver, Cut, NotifyLast
  <2>2. QED
    BY <2>1 DEF NoDuplicates
<1>6. CASE \/ ReadLine \/ WriteItem \/ Signal \/ HandlerReturn
           \/ CopyFirstHalf \/ EncodeDone \/ SendInterface \/ NotifyPacket
           \/ LinkStep \/ UNCHANGED vars
  <2>1. UNCHANGED <<changed, snapshot, msg>>
    BY <1>6 DEF ReadLine, WriteItem, Signal, HandlerReturn, CopyFirstHalf,
                EncodeDone, SendInterface, NotifyPacket, LinkStep, SessionStart,
                SessionEnd, LinkUpOrDown, vars
  <2>2. QED
    BY <2>1 DEF NoDuplicates
<1>7. QED
  BY <1>1, <1>2, <1>3, <1>4, <1>5, <1>6 DEF Next, UartStep, TxStep

\* However often the data lines repeat an item, it is in the list at most once,
\* and so in the message (sig_obd_data_changed_handler, run).
THEOREM NoDuplicatesCorrect == Spec => []NoDuplicates
<1>1. Init => NoDuplicates
  BY DEF Init, NoDuplicates, IsInjective
<1>2. QED
  BY <1>1, InitBase, NextBase, NextNoDuplicates, PTL DEF Spec

-----------------------------------------------------------------------------
(* The copy of the list is a beginning of the list.                        *)

\* The list can only grow at its end until it is cleared.
LEMMA NextSnapshotIsPrefix ==
  Base /\ SnapshotIsPrefix /\ [Next]_vars => SnapshotIsPrefix'
<1> SUFFICES ASSUME Base, SnapshotIsPrefix, [Next]_vars, txPc' = "clear"
             PROVE  IsPrefix(snapshot', changed')
  BY DEF SnapshotIsPrefix
<1> USE DEF uartVars, txVars, sendVars, linkVars
<1>1. CASE CollectItem
  <2>1. Head(acitr) \in Item /\ changed \in Seq(Item) /\ snapshot \in Seq(Item)
    BY <1>1, ToSetHeadTail DEF CollectItem, Base, TypeOK
  <2>2. IsPrefix(snapshot, changed)
    BY <1>1 DEF CollectItem, SnapshotIsPrefix
  <2>3. QED
    BY <1>1, <2>1, <2>2, PushIfNewProperties DEF CollectItem
<1>2. CASE GetChanged
  BY <1>2 DEF GetChanged, IsPrefix, Base, TypeOK
<1>3. CASE \/ ReadLine \/ WriteItem \/ Signal \/ HandlerReturn \/ LinkStep
           \/ UNCHANGED vars
  <2>1. UNCHANGED <<changed, snapshot, txPc>>
    BY <1>3 DEF ReadLine, WriteItem, Signal, HandlerReturn, LinkStep,
                SessionStart, SessionEnd, LinkUpOrDown, vars
  <2>2. QED
    BY <2>1 DEF SnapshotIsPrefix
<1>4. CASE \/ ClearChanged \/ CopyFirstHalf \/ CopySecondHalf \/ EncodeDone
           \/ Drop \/ SendInterface \/ NotifyPacket \/ Deliver \/ Cut
  BY <1>4 DEF ClearChanged, CopyFirstHalf, CopySecondHalf, EncodeDone, Drop,
              SendInterface, NotifyPacket, Deliver, Cut, NotifyLast
<1>5. QED
  BY <1>1, <1>2, <1>3, <1>4 DEF Next, UartStep, TxStep

\* What clear_changed_obd_data() drops is what was appended since the copy.
THEOREM SnapshotIsPrefixCorrect == Spec => []SnapshotIsPrefix
<1>1. Init => SnapshotIsPrefix
  BY DEF Init, SnapshotIsPrefix
<1>2. QED
  BY <1>1, InitBase, NextBase, NextSnapshotIsPrefix, PTL DEF Spec

-----------------------------------------------------------------------------
(* A value the client does not have is on its way or was dropped.          *)

\* S stands for items written and not yet put into acitr: none here, where an
\* item is written and put there in one step; the dummy device has one.

\* The items the transmission task has still to find in the list.
ToCome(S) == ToSet(acitr) \cup ToSet(changed) \cup S

\* A copied value, and a copied half of one, that is not the device's any
\* more: the item has been written since and is to come once more.
CopiesTracked(S) ==
    /\ \A k \in 1..Len(msg) :
          <<msg[k].hi, msg[k].lo>> # <<value[msg[k].item], value[msg[k].item]>>
              => msg[k].item \in ToCome(S)
    /\ half # NoHalf /\ half # value[Head(snapshot)] => Head(snapshot) \in ToCome(S)

StaleTracked(S) ==
    \A i \in Item :
        client[i] # <<value[i], value[i]>> => i \in OnItsWay \cup lost \cup S

Tracked(S) == CopiesTracked(S) /\ StaleTracked(S)

\* A round of the handler adds the item to the list.
LEMMA CollectItemStep ==
  ASSUME Base, CollectItem
  PROVE  ToSet(changed') = ToSet(changed) \cup {Head(acitr)}
<1> DEFINE i == Head(acitr)
<1>1. i \in Item
  BY ToSetHeadTail DEF CollectItem, Base, TypeOK
<1>2. changed' = PushIfNew(changed, i) /\ changed \in Seq(Item)
  BY DEF CollectItem, Base, TypeOK
<1> HIDE DEF i
<1>3. ToSet(PushIfNew(changed, i)) = ToSet(changed) \cup {i}
  BY <1>1, <1>2, PushIfNewProperties
<1>4. QED
  BY <1>2, <1>3 DEF i

\* A write makes an item one that is to come; every later step hands it on.
LEMMA NextTracked ==
  ASSUME NEW S, Base, Tracked(S), [Next]_vars
  PROVE  Tracked(S)'
<1> USE DEF uartVars, txVars, sendVars, linkVars
<1>1. CASE ReadLine
  <2>1. acitr = << >> /\ acitr' = << >>
    BY <1>1 DEF ReadLine, Base, PlaceInv
  <2>2. UNCHANGED <<value, changed, acitr, snapshot, half, msg, client, lost>>
    BY <1>1, <2>1 DEF ReadLine
  <2>3. QED
    BY <2>2 DEF Tracked, CopiesTracked, ToCome, StaleTracked, OnItsWay, MsgItems
<1>2. CASE WriteItem
  <2> DEFINE i == Head(lineLeft)
  <2>1. i \in Item /\ acitr' = Append(acitr, i)
    BY <1>2, ToSetHeadTail DEF WriteItem, Base, TypeOK
  <2>2. ToSet(acitr') = ToSet(acitr) \cup {i}
    BY <2>1, ToSetAppend DEF Base, TypeOK
  <2>3. /\ \A j \in Item \ {i} : value'[j] = value[j]
        /\ UNCHANGED <<changed, snapshot, half, msg, client, lost>>
    BY <1>2 DEF WriteItem, Base, TypeOK
  <2> HIDE DEF i
  <2>4. \A k \in 1..Len(msg) : msg[k].item \in Item
    BY MsgEntry DEF Base, TypeOK
  <2>5. half # NoHalf => Head(snapshot) \in Item
    BY ToSetHeadTail DEF Base, TypeOK, PlaceInv
  <2>6. CopiesTracked(S)'
    BY <2>2, <2>3, <2>4, <2>5 DEF Tracked, CopiesTracked, ToCome
  <2>7. StaleTracked(S)'
    BY <2>2, <2>3 DEF Tracked, StaleTracked, OnItsWay, MsgItems
  <2>8. QED
    BY <2>6, <2>7 DEF Tracked
<1>3. CASE CollectItem
  <2> DEFINE i == Head(acitr)
  <2>1. /\ i \in Item /\ Tail(acitr) \in Seq(Item) /\ acitr' = Tail(acitr)
        /\ ToSet(acitr) = {i} \cup ToSet(acitr')
    BY <1>3, ToSetHeadTail DEF CollectItem, Base, TypeOK
  <2>2. ToSet(changed') = ToSet(changed) \cup {i}
    BY <1>3, CollectItemStep
  <2>3. lost' = lost \ {i} /\ UNCHANGED <<value, snapshot, half, msg, client>>
    BY <1>3 DEF CollectItem
  <2> HIDE DEF i
  <2>4. ToCome(S)' = ToCome(S)
    BY <2>1, <2>2 DEF ToCome
  <2>5. CopiesTracked(S)'
    BY <2>3, <2>4 DEF Tracked, CopiesTracked
  <2>6. StaleTracked(S)'
    BY <2>1, <2>2, <2>3 DEF Tracked, StaleTracked, OnItsWay, MsgItems
  <2>7. QED
    BY <2>5, <2>6 DEF Tracked
<1>4. CASE GetChanged
  <2>1. /\ snapshot = << >> /\ half = NoHalf /\ snapshot' = changed
        /\ UNCHANGED <<value, changed, acitr, half, msg, client, lost>>
    BY <1>4 DEF GetChanged, Base, PlaceInv
  <2>2. CopiesTracked(S)'
    BY <2>1 DEF Tracked, CopiesTracked, ToCome
  <2>3. OnItsWay \subseteq OnItsWay'
    BY <2>1, ToSetEmpty DEF OnItsWay, MsgItems
  <2>4. StaleTracked(S)'
    BY <2>1, <2>3 DEF Tracked, StaleTracked
  <2>5. QED
    BY <2>2, <2>4 DEF Tracked
<1>5. CASE ClearChanged
  <2>1. /\ msg = << >> /\ half = NoHalf
        /\ lost' = lost \cup (ToSet(changed) \ ToSet(snapshot))
        /\ UNCHANGED <<value, acitr, snapshot, half, msg, client>>
    BY <1>5 DEF ClearChanged, Base, PlaceInv
  <2>2. CopiesTracked(S)'
    BY <2>1 DEF CopiesTracked
  <2>3. StaleTracked(S)'
    BY <2>1 DEF Tracked, StaleTracked, OnItsWay, MsgItems
  <2>4. QED
    BY <2>2, <2>3 DEF Tracked
<1>6. CASE CopyFirstHalf
  <2>1. /\ half' = value[Head(snapshot)]
        /\ UNCHANGED <<value, changed, acitr, snapshot, msg, client, lost>>
    BY <1>6 DEF CopyFirstHalf
  <2>2. QED
    BY <2>1 DEF Tracked, CopiesTracked, ToCome, StaleTracked, OnItsWay, MsgItems
<1>7. CASE CopySecondHalf
  <2> DEFINE i == Head(snapshot)
             e == [item |-> i, hi |-> half, lo |-> value[i]]
  <2>1. /\ i \in Item /\ e \in Entry /\ msg' = Append(msg, e)
        /\ e.item = i /\ e.hi = half /\ e.lo = value[i]
        /\ ToSet(snapshot) = {i} \cup ToSet(snapshot')
        /\ MsgItems' = MsgItems \cup {i}
    BY <1>7, CopySecondHalfStep
  <2>2. half # value[i] => i \in ToCome(S)
    BY <1>7 DEF CopySecondHalf, Tracked, CopiesTracked
  <2> HIDE DEF e, i
  <2>3. /\ Len(msg') = Len(msg) + 1 /\ Len(msg) \in Nat
        /\ msg'[Len(msg) + 1] = e
        /\ \A k \in 1..Len(msg) : msg'[k] = msg[k]
    BY <2>1, MsgAppend DEF Base, TypeOK
  <2>4. half' = NoHalf /\ UNCHANGED <<value, changed, acitr, client, lost>>
    BY <1>7 DEF CopySecondHalf
  <2>5. ToCome(S)' = ToCome(S)
    BY <2>4 DEF ToCome
  <2>6. ASSUME NEW k \in 1..Len(msg')
        PROVE  <<msg'[k].hi, msg'[k].lo>> # <<value[msg'[k].item], value[msg'[k].item]>>
                  => msg'[k].item \in ToCome(S)
    <3>1. CASE k = Len(msg) + 1
      BY <3>1, <2>1, <2>2, <2>3
    <3>2. CASE k # Len(msg) + 1
      <4>1. k \in 1..Len(msg) /\ msg'[k] = msg[k]
        BY <3>2, <2>3
      <4>2. QED
        BY <4>1 DEF Tracked, CopiesTracked
    <3>3. QED
      BY <3>1, <3>2
  <2>7. CopiesTracked(S)'
    BY <2>4, <2>5, <2>6 DEF CopiesTracked
  <2>8. OnItsWay' = OnItsWay
    BY <2>1, <2>4 DEF OnItsWay
  <2>9. StaleTracked(S)'
    BY <2>4, <2>8 DEF Tracked, StaleTracked
  <2>10. QED
    BY <2>7, <2>9 DEF Tracked
<1>8. CASE Deliver
  <2>1. /\ msg' = << >> /\ half = NoHalf
        /\ UNCHANGED <<value, changed, acitr, snapshot, half, lost>>
        /\ client' = [i \in Item |-> IF i \in MsgItems
                        THEN <<EntryFor(i).hi, EntryFor(i).lo>> ELSE client[i]]
    BY <1>8 DEF Deliver, NotifyLast, Base, PlaceInv
  <2>2. CopiesTracked(S)'
    BY <2>1 DEF CopiesTracked
  <2>3. ASSUME NEW i \in Item, client'[i] # <<value[i], value[i]>>
        PROVE  i \in OnItsWay' \cup lost' \cup S
    <3>1. ToCome(S) \subseteq OnItsWay' \cup S
      BY <2>1 DEF ToCome, OnItsWay
    <3>2. CASE i \in MsgItems
      <4>1. PICK k \in 1..Len(msg) : EntryFor(i) = msg[k] /\ msg[k].item = i
        BY <3>2, DeliveredEntry
      <4>2. client'[i] = <<msg[k].hi, msg[k].lo>>
        BY <2>1, <3>2, <4>1
      <4>3. i \in ToCome(S)
        BY <2>3, <4>1, <4>2 DEF Tracked, CopiesTracked
      <4>4. QED
        BY <3>1, <4>3
    <3>3. CASE i \notin MsgItems
      <4>1. client[i] # <<value[i], value[i]>>
        BY <2>1, <2>3, <3>3
      <4>2. i \in ToCome(S) \cup ToSet(snapshot) \cup lost
        BY <3>3, <4>1 DEF Tracked, StaleTracked, OnItsWay, ToCome
      <4>3. QED
        BY <2>1, <3>1, <4>2 DEF OnItsWay
    <3>4. QED
      BY <3>2, <3>3
  <2>4. StaleTracked(S)'
    BY <2>1, <2>3 DEF StaleTracked
  <2>5. QED
    BY <2>2, <2>4 DEF Tracked
<1>9. CASE Drop \/ Cut
  <2>1. /\ msg' = << >> /\ half = NoHalf
        /\ lost' = lost \cup (MsgItems \ ToSet(changed))
        /\ UNCHANGED <<value, changed, acitr, snapshot, half, client>>
    BY <1>9 DEF Drop, Cut, NotifyLast, Base, PlaceInv
  <2>2. CopiesTracked(S)'
    BY <2>1 DEF CopiesTracked
  <2>3. OnItsWay \subseteq OnItsWay' \cup lost'
    BY <2>1 DEF OnItsWay
  <2>4. StaleTracked(S)'
    BY <2>1, <2>3 DEF Tracked, StaleTracked
  <2>5. QED
    BY <2>2, <2>4 DEF Tracked
<1>10. CASE \/ Signal \/ HandlerReturn \/ EncodeDone \/ SendInterface
            \/ NotifyPacket \/ LinkStep \/ UNCHANGED vars
  <2>1. UNCHANGED <<value, changed, acitr, snapshot, half, msg, client, lost>>
    BY <1>10 DEF Signal, HandlerReturn, EncodeDone, SendInterface, NotifyPacket,
                 LinkStep, SessionStart, SessionEnd, LinkUpOrDown, vars
  <2>2. QED
    BY <2>1 DEF Tracked, CopiesTracked, ToCome, StaleTracked, OnItsWay, MsgItems
<1>11. QED
  BY <1>1, <1>2, <1>3, <1>4, <1>5, <1>6, <1>7, <1>8, <1>9, <1>10
     DEF Next, UartStep, TxStep

\* The unlocked copies in run() are repaired: an item whose value at the client
\* is old or torn is on its way, or was dropped: by the clear, without a client,
\* or with a packet of its message.
THEOREM StaleIsTrackedCorrect == Spec => []StaleIsTracked
<1>1. Init => Tracked({})
  BY DEF Init, Tracked, CopiesTracked, StaleTracked
<1>2. Tracked({}) => StaleIsTracked
  BY DEF Tracked, StaleTracked, StaleIsTracked
<1>3. Base /\ Tracked({}) /\ [Next]_vars => Tracked({})'
  BY NextTracked
<1>4. QED
  BY <1>1, <1>2, <1>3, InitBase, NextBase, PTL DEF Spec

-----------------------------------------------------------------------------
(* The list mutex keeps the items of a data line together.                 *)

\* The items have all of a line, or nothing of it.
Has(items, line) == line \subseteq items \/ line \cap items = {}

\* While a line is on its way into the list: the items written and those left
\* are the line; in the handler, the items it has yet to see and those in the
\* list have all of it, and the list has the other lines whole.
LineOnItsWay ==
    /\ uartPc = "write" =>
        \E line \in Lines : ToSet(line) = ToSet(acitr) \cup ToSet(lineLeft)
    /\ uartPc = "collect" =>
        \E line \in Lines :
            /\ ToSet(acitr) \subseteq ToSet(line)
            /\ ToSet(line) \subseteq ToSet(acitr) \cup ToSet(changed)
            /\ \A other \in Lines \ {line} : Has(ToSet(changed), ToSet(other))

Whole == LineOnItsWay /\ LinesAreWhole

\* WholeOrNone is Has for every line.
LEMMA WholeOrNoneHas ==
  ASSUME NEW s
  PROVE  WholeOrNone(s) <=> \A line \in Lines : Has(ToSet(s), ToSet(line))
  BY DEF WholeOrNone, Has

\* The lines are disjoint, so collecting one leaves the others as they were.
LEMMA NextWhole == Base /\ Whole /\ [Next]_vars => Whole'
<1> SUFFICES ASSUME Base, Whole, [Next]_vars PROVE Whole'
  OBVIOUS
<1> USE DEF uartVars, txVars, sendVars, linkVars
<1>1. CASE ReadLine
  <2>1. /\ lineLeft' \in Lines /\ acitr' = << >> /\ uartPc' = "write"
        /\ UNCHANGED <<changed, listMutex, snapshot, txPc>>
    BY <1>1 DEF ReadLine
  <2>2. LineOnItsWay'
    BY <2>1, ToSetEmpty DEF LineOnItsWay
  <2>3. LinesAreWhole'
    BY <2>1 DEF Whole, LinesAreWhole
  <2>4. QED
    BY <2>2, <2>3 DEF Whole
<1>2. CASE WriteItem
  <2> DEFINE i == Head(lineLeft)
  <2>1. /\ i \in Item /\ acitr' = Append(acitr, i) /\ acitr \in Seq(Item)
        /\ lineLeft' = Tail(lineLeft) /\ ToSet(lineLeft) = {i} \cup ToSet(lineLeft')
    BY <1>2, ToSetHeadTail DEF WriteItem, Base, TypeOK
  <2>2. ToSet(acitr') = ToSet(acitr) \cup {i}
    BY <2>1, ToSetAppend
  <2>3. uartPc = "write" /\ UNCHANGED <<uartPc, changed, listMutex, snapshot, txPc>>
    BY <1>2 DEF WriteItem
  <2> HIDE DEF i
  <2>4. LineOnItsWay'
    BY <2>1, <2>2, <2>3 DEF Whole, LineOnItsWay
  <2>5. LinesAreWhole'
    BY <2>3 DEF Whole, LinesAreWhole
  <2>6. QED
    BY <2>4, <2>5 DEF Whole
<1>3. CASE Signal
  <2>1. /\ uartPc = "write" /\ uartPc' = "collect" /\ lineLeft = << >>
        /\ listMutex = "free" /\ listMutex' = "uart"
        /\ UNCHANGED <<changed, acitr, snapshot, txPc>>
    BY <1>3 DEF Signal
  <2>2. PICK line \in Lines : ToSet(line) = ToSet(acitr)
    BY <2>1, ToSetEmpty DEF Whole, LineOnItsWay
  <2>3. \A other \in Lines : Has(ToSet(changed), ToSet(other))
    BY <2>1, WholeOrNoneHas DEF Whole, LinesAreWhole
  <2>4. LineOnItsWay'
    BY <2>1, <2>2, <2>3 DEF LineOnItsWay
  <2>5. LinesAreWhole'
    BY <2>1 DEF Whole, LinesAreWhole
  <2>6. QED
    BY <2>4, <2>5 DEF Whole
<1>4. CASE CollectItem
  <2> DEFINE i == Head(acitr)
  <2>1. /\ i \in Item /\ acitr' = Tail(acitr)
        /\ ToSet(acitr) = {i} \cup ToSet(acitr')
    BY <1>4, ToSetHeadTail DEF CollectItem, Base, TypeOK
  <2>2. ToSet(changed') = ToSet(changed) \cup {i}
    BY <1>4, CollectItemStep
  <2>3. /\ uartPc = "collect" /\ listMutex = "uart"
        /\ UNCHANGED <<uartPc, listMutex, snapshot, txPc>>
    BY <1>4 DEF CollectItem, Base, PlaceInv
  <2> HIDE DEF i
  <2>4. PICK line \in Lines :
            /\ ToSet(acitr) \subseteq ToSet(line)
            /\ ToSet(line) \subseteq ToSet(acitr) \cup ToSet(changed)
            /\ \A other \in Lines \ {line} : Has(ToSet(changed), ToSet(other))
    BY <2>3 DEF Whole, LineOnItsWay
  <2>5. ASSUME NEW other \in Lines \ {line}
        PROVE  Has(ToSet(changed'), ToSet(other))
    <3>1. i \notin ToSet(other)
      BY <2>1, <2>4, LinesAssumption
    <3>2. QED
      BY <2>2, <2>4, <3>1 DEF Has
  <2>6. /\ ToSet(acitr') \subseteq ToSet(line)
        /\ ToSet(line) \subseteq ToSet(acitr') \cup ToSet(changed')
    BY <2>1, <2>2, <2>4
  <2>7. LineOnItsWay'
    BY <2>3, <2>5, <2>6 DEF LineOnItsWay
  <2>8. LinesAreWhole'
    BY <2>3 DEF Whole, LinesAreWhole
  <2>9. QED
    BY <2>7, <2>8 DEF Whole
<1>5. CASE HandlerReturn
  <2>1. /\ uartPc = "collect" /\ uartPc' = "read" /\ acitr = << >>
        /\ UNCHANGED <<changed, snapshot, txPc>>
    BY <1>5 DEF HandlerReturn
  <2>2. \A line \in Lines : Has(ToSet(changed), ToSet(line))
    BY <2>1, ToSetEmpty DEF Whole, LineOnItsWay, Has
  <2>3. WholeOrNone(changed)
    BY <2>2, WholeOrNoneHas
  <2>4. LinesAreWhole'
    BY <2>1, <2>3 DEF Whole, LinesAreWhole
  <2>5. LineOnItsWay'
    BY <2>1 DEF LineOnItsWay
  <2>6. QED
    BY <2>4, <2>5 DEF Whole
<1>6. CASE GetChanged
  <2>1. /\ listMutex = "free" /\ snapshot' = changed
        /\ UNCHANGED <<changed, listMutex, uartPc, lineLeft, acitr>>
    BY <1>6 DEF GetChanged
  <2>2. LineOnItsWay'
    BY <2>1 DEF Whole, LineOnItsWay
  <2>3. LinesAreWhole'
    BY <2>1 DEF Whole, LinesAreWhole
  <2>4. QED
    BY <2>2, <2>3 DEF Whole
<1>7. CASE ClearChanged
  <2>1. /\ listMutex = "free" /\ changed' = << >> /\ txPc' = "encode"
        /\ uartPc # "collect"
        /\ UNCHANGED <<listMutex, uartPc, lineLeft, acitr>>
    BY <1>7 DEF ClearChanged, Base, PlaceInv
  <2>2. LineOnItsWay'
    BY <2>1 DEF Whole, LineOnItsWay
  <2>3. LinesAreWhole'
    BY <2>1, ToSetEmpty DEF LinesAreWhole, WholeOrNone
  <2>4. QED
    BY <2>2, <2>3 DEF Whole
<1>8. CASE \/ CopyFirstHalf \/ CopySecondHalf \/ EncodeDone \/ Drop
           \/ SendInterface \/ NotifyPacket \/ Deliver \/ Cut
  <2>1. /\ txPc' # "clear"
        /\ UNCHANGED <<changed, listMutex, uartPc, lineLeft, acitr>>
    BY <1>8 DEF CopyFirstHalf, CopySecondHalf, EncodeDone, Drop, SendInterface,
                NotifyPacket, Deliver, Cut, NotifyLast
  <2>2. LineOnItsWay'
    BY <2>1 DEF Whole, LineOnItsWay
  <2>3. LinesAreWhole'
    BY <2>1 DEF Whole, LinesAreWhole
  <2>4. QED
    BY <2>2, <2>3 DEF Whole
<1>9. CASE LinkStep \/ UNCHANGED vars
  <2>1. UNCHANGED <<changed, listMutex, uartPc, lineLeft, acitr, snapshot, txPc>>
    BY <1>9 DEF LinkStep, SessionStart, SessionEnd, LinkUpOrDown, vars
  <2>2. LineOnItsWay'
    BY <2>1 DEF Whole, LineOnItsWay
  <2>3. LinesAreWhole'
    BY <2>1 DEF Whole, LinesAreWhole
  <2>4. QED
    BY <2>2, <2>3 DEF Whole
<1>10. QED
  BY <1>1, <1>2, <1>3, <1>4, <1>5, <1>6, <1>7, <1>8, <1>9
     DEF Next, UartStep, TxStep

\* A signal's items are in the list together or not at all, whenever the list
\* is read (obd_data_list_mutex), for lines without common items.
THEOREM LinesAreWholeCorrect == Spec => []LinesAreWhole
<1>1. Init => Whole
  BY ToSetEmpty DEF Init, Whole, LineOnItsWay, LinesAreWhole, WholeOrNone
<1>2. Whole => LinesAreWhole
  BY DEF Whole
<1>3. QED
  BY <1>1, <1>2, InitBase, NextBase, NextWhole, PTL DEF Spec
=============================================================================
