----------------------- MODULE DiagnosisDevices_proofs -----------------------
(***************************************************************************)
(* Proofs about the program with the dummy device or the I2C device, for   *)
(* any elements, ranges and values.  The steps the dummy shares with the   *)
(* UART device's path keep what ObdDataPipeline_proofs shows they keep.    *)
(***************************************************************************)
EXTENDS DiagnosisDevices, ObdDataPipeline_proofs, TLAPS

-----------------------------------------------------------------------------
(* The dummy device.                                                       *)

\* Between two visits of the loop an element is within its bounds, or was
\* never changed; on a visit it is as far as the stores done so far take it.
WithinReach ==
    /\ \A i \in Item :
            i \notin Changing => value[i] \in Lowest[i]..Highest[i] \cup {InitValue}
    /\ store = "max" => value[Head(lineLeft)] \in Reach(Head(lineLeft))
    /\ store = "min" => LET i == Head(lineLeft) IN
            value[i] \in Reach(i) /\ value[i] <= Highest[i]

\* The loop is at an element during the stores, and before the manager is
\* connected nothing has been copied.
Places ==
    /\ store # "sum" => uartPc = "write" /\ lineLeft # << >>
    /\ manager # "connected" => ~session /\ msg = << >> /\ half = NoHalf /\ txPc = "get"

DummyInv ==
    /\ Base
    /\ store \in {"sum", "max", "min"}
    /\ manager \in {"none", "listens", "connected"}
    /\ Places
    /\ WithinReach
    /\ Tracked(Changing)

\* What is tracked depends on the elements being changed, not on their name.
LEMMA TrackedChanging ==
  ASSUME NEW S, Changing' = S, Tracked(S)'
  PROVE  Tracked(Changing)'
BY DEF Tracked, CopiesTracked, ToCome, StaleTracked

\* The element the loop is at, and what the ranges say of it.
LEMMA Visited ==
  ASSUME DummyInv, lineLeft # << >>
  PROVE  LET i == Head(lineLeft) IN
            /\ i \in Item /\ Tail(lineLeft) \in Seq(Item)
            /\ Lowest[i] \in Int /\ Highest[i] \in Int /\ MaxDelta[i] \in Nat
            /\ Lowest[i] <= Highest[i] /\ InitValue \in Int
            /\ Reach(i) \subseteq Value
<1>1. Head(lineLeft) \in Item /\ Tail(lineLeft) \in Seq(Item)
  BY ToSetHeadTail DEF DummyInv, Base, TypeOK
<1>2. QED
  BY <1>1, RangeAssumption

\* A write to an element, before or together with its place in the list.
LEMMA StoreTracked ==
  ASSUME Base, NEW S, NEW T, Tracked(S), NEW i \in Item,
         \A j \in Item \ {i} : value'[j] = value[j],
         UNCHANGED <<changed, snapshot, half, msg, client, lost>>,
         ToSet(acitr) \cup S \cup {i} \subseteq ToSet(acitr') \cup T
  PROVE  Tracked(T)'
<1>1. \A k \in 1..Len(msg) : msg[k].item \in Item
  BY MsgEntry DEF Base, TypeOK
<1>2. half # NoHalf => Head(snapshot) \in Item
  BY ToSetHeadTail DEF Base, TypeOK, PlaceInv
<1>3. CopiesTracked(T)'
  BY <1>1, <1>2 DEF Tracked, CopiesTracked, ToCome
<1>4. StaleTracked(T)'
  BY DEF Tracked, StaleTracked, OnItsWay, MsgItems
<1>5. QED
  BY <1>3, <1>4 DEF Tracked

\* The steps of the pipeline, of which the dummy's reader does not take the
\* two that read and write a data line.
LEMMA PipelineKeeps ==
  ASSUME DummyInv, [Next]_vars,
         UNCHANGED <<value, lineLeft, store>>, manager' \in {"none", "listens", "connected"},
         Places'
  PROVE  DummyInv'
<1>1. Base'
  BY NextBase DEF DummyInv
<1>2. PICK S : S = Changing
  OBVIOUS
<1>3. Changing' = S
  BY <1>2 DEF Changing
<1>4. Tracked(S)
  BY <1>2 DEF DummyInv
<1>5. Tracked(S)'
  BY <1>4, NextTracked DEF DummyInv
<1>6. Tracked(Changing)'
  BY <1>3, <1>5, TrackedChanging
<1>7. WithinReach'
  BY DEF DummyInv, WithinReach, Changing
<1>8. QED
  BY <1>1, <1>6, <1>7 DEF DummyInv

\* Nothing has been changed yet.
LEMMA DummyInvInit == DummyInit => DummyInv
<1> SUFFICES ASSUME DummyInit PROVE DummyInv
  OBVIOUS
<1>1. Base
  BY InitBase DEF DummyInit
<1>2. WithinReach
  BY DEF DummyInit, Init, WithinReach, Changing
<1>3. Tracked(Changing)
  BY DEF DummyInit, Init, Tracked, CopiesTracked, StaleTracked, Changing
<1>4. Places
  BY DEF DummyInit, Init, Places
<1>5. QED
  BY <1>1, <1>2, <1>3, <1>4 DEF DummyInit, DummyInv

\* A store to the element the loop is at, by the place of the store.
LEMMA StoreKeeps ==
  ASSUME DummyInv, NEW at, NEW v \in Value, NEW next \in {"sum", "max", "min"},
         Store(at, v, next),
         at \in {"sum", "max", "min"},
         \/ /\ next # "sum" /\ UNCHANGED <<lineLeft, acitr>>
         \/ /\ next = "sum" /\ lineLeft' = Tail(lineLeft)
            /\ acitr' = Append(acitr, Head(lineLeft)),
         LET i == Head(lineLeft) IN
            /\ next = "sum" => v \in Lowest[i]..Highest[i]
            /\ next = "max" => v \in Reach(i)
            /\ next = "min" => v \in Reach(i) /\ v <= Highest[i]
  PROVE  DummyInv'
<1> USE DEF uartVars, txVars, sendVars, linkVars
<1>1. PICK i \in Item : i = Head(lineLeft)
  BY Visited DEF Store, Visits
<1>2. /\ uartPc = "write" /\ lineLeft # << >> /\ store = at /\ store' = next
      /\ UNCHANGED <<changed, listMutex, uartPc, txPc, snapshot, half, msg,
                     unsent, whole, session, link, client, lost, manager>>
      /\ value' = [value EXCEPT ![i] = v]
  BY <1>1 DEF Store, Visits
<1>3. value' \in [Item -> Value] /\ value'[i] = v /\ \A j \in Item \ {i} : value'[j] = value[j]
  BY <1>2 DEF DummyInv, Base, TypeOK
<1>4. Tail(lineLeft) \in Seq(Item)
  BY <1>2, Visited
<1>5. /\ Append(acitr, i) \in Seq(Item)
      /\ ToSet(Append(acitr, i)) = ToSet(acitr) \cup {i}
  BY ToSetAppend DEF DummyInv, Base, TypeOK
<1>6. Base'
  <2>1. TypeOK'
    BY <1>1, <1>2, <1>3, <1>4, <1>5 DEF DummyInv, Base, TypeOK, MsgSize
  <2>2. PlaceInv'
    BY <1>2 DEF DummyInv, Base, PlaceInv
  <2>3. QED
    BY <2>1, <2>2 DEF Base
<1>7. Changing \subseteq {i}
  BY <1>1 DEF Changing
<1>8. WithinReach'
  <2>1. CASE next # "sum"
    <3>1. Changing' = {i}
      BY <1>1, <1>2, <2>1 DEF Changing
    <3>2. QED
      BY <1>1, <1>2, <1>3, <1>7, <2>1, <3>1 DEF DummyInv, WithinReach
  <2>2. CASE next = "sum"
    BY <1>1, <1>2, <1>3, <1>7, <2>2 DEF DummyInv, WithinReach, Changing
  <2>3. QED
    BY <2>1, <2>2
<1>9. Places'
  BY <1>2 DEF DummyInv, Places
<1>10. Tracked(Changing)'
  <2>1. PICK S : S = Changing
    OBVIOUS
  <2>2. Tracked(S)
    BY <2>1 DEF DummyInv
  <2>3. CASE next # "sum"
    <3>1. Changing' = {i}
      BY <1>1, <1>2, <2>3 DEF Changing
    <3>2. ToSet(acitr) \cup S \cup {i} \subseteq ToSet(acitr') \cup {i}
      BY <1>7, <2>1, <2>3
    <3>3. Tracked({i})'
      BY <1>2, <1>3, <2>2, <3>2, StoreTracked DEF DummyInv
    <3>4. QED
      BY <3>1, <3>3, TrackedChanging
  <2>4. CASE next = "sum"
    <3>1. Changing' = {}
      BY <1>2, <2>4 DEF Changing
    <3>2. ToSet(acitr) \cup S \cup {i} \subseteq ToSet(acitr') \cup {}
      BY <1>1, <1>5, <1>7, <2>1, <2>4
    <3>3. Tracked({})'
      BY <1>2, <1>3, <2>2, <3>2, StoreTracked DEF DummyInv
    <3>4. QED
      BY <3>1, <3>3, TrackedChanging
  <2>5. QED
    BY <2>3, <2>4
<1>11. QED
  BY <1>2, <1>6, <1>8, <1>9, <1>10 DEF DummyInv

\* The stores of the loop.
LEMMA StoresKeep == DummyInv /\ (DummyChange \/ DummyBelowMax \/ DummyAboveMin) => DummyInv'
<1> SUFFICES ASSUME DummyInv, DummyChange \/ DummyBelowMax \/ DummyAboveMin
             PROVE  DummyInv'
  OBVIOUS
<1> DEFINE i == Head(lineLeft)
<1>1. lineLeft # << >>
  BY DEF DummyChange, DummyBelowMax, DummyAboveMin, Store, Visits
<1>2. /\ i \in Item
      /\ Lowest[i] \in Int /\ Highest[i] \in Int /\ MaxDelta[i] \in Nat
      /\ Lowest[i] <= Highest[i] /\ InitValue \in Int
      /\ Reach(i) \subseteq Value
  BY <1>1, Visited
<1>3. CASE DummyChange
  <2>1. PICK delta \in -MaxDelta[i]..MaxDelta[i] : Store("sum", value[i] + delta, "max")
    BY <1>3 DEF DummyChange
  <2>2. value[i] \in Lowest[i]..Highest[i] \cup {InitValue}
    BY <1>2, <2>1 DEF Store, Visits, DummyInv, WithinReach, Changing
  <2>3. value[i] + delta \in Reach(i)
    <3> HIDE DEF i
    <3>1. QED
      BY <1>2, <2>1, <2>2 DEF Reach, AtMost, AtLeast
  <2>4. UNCHANGED <<lineLeft, acitr>>
    BY <1>3 DEF DummyChange
  <2>5. QED
    BY <1>2, <2>1, <2>3, <2>4, StoreKeeps
<1>4. CASE DummyBelowMax
  <2> DEFINE v == AtMost(value[i], Highest[i])
  <2>1. Store("max", v, "min") /\ UNCHANGED <<lineLeft, acitr>>
    BY <1>4 DEF DummyBelowMax
  <2>2. value[i] \in Reach(i)
    BY <2>1 DEF Store, Visits, DummyInv, WithinReach
  <2>3. v \in Reach(i) /\ v <= Highest[i]
    <3> HIDE DEF i
    <3>1. QED
      BY <1>2, <2>2 DEF Reach, AtMost, AtLeast
  <2>4. QED
    BY <1>2, <2>1, <2>3, StoreKeeps
<1>5. CASE DummyAboveMin
  <2> DEFINE v == AtLeast(value[i], Lowest[i])
  <2>1. /\ Store("min", v, "sum") /\ lineLeft' = Tail(lineLeft)
        /\ acitr' = Append(acitr, i)
    BY <1>5 DEF DummyAboveMin
  <2>2. value[i] \in Reach(i) /\ value[i] <= Highest[i]
    BY <2>1 DEF Store, Visits, DummyInv, WithinReach
  <2>3. v \in Lowest[i] .. Highest[i] /\ v \in Reach(i)
    <3> HIDE DEF i
    <3>1. QED
      BY <1>2, <2>2 DEF Reach, AtMost, AtLeast
  <2>4. QED
    BY <1>2, <2>1, <2>3, StoreKeeps
<1>6. QED
  BY <1>3, <1>4, <1>5

\* A round, an element left as it is, and the end of a round nobody hears of.
LEMMA LoopKeeps == DummyInv /\ (DummyRound \/ DummySkip \/ DummyUnheard) => DummyInv'
<1> SUFFICES ASSUME DummyInv, DummyRound \/ DummySkip \/ DummyUnheard
             PROVE  DummyInv'
  OBVIOUS
<1> USE DEF uartVars, txVars, sendVars, linkVars
<1>1. /\ store = "sum" /\ store' = "sum" /\ manager' = manager
      /\ UNCHANGED <<value, changed, listMutex, txPc, snapshot, half, msg,
                     unsent, whole, session, link, client>>
  BY DEF DummyRound, DummySkip, DummyUnheard, Visits, DummyInv, Places
<1>2. Changing = {} /\ Changing' = {}
  BY <1>1 DEF Changing
<1>3. /\ lineLeft' \in Seq(Item) /\ (acitr' = acitr \/ acitr' = << >>)
      /\ uartPc \in {"read", "write"} /\ uartPc' \in {"read", "write"}
      /\ uartPc' = "read" => acitr' = << >>
      /\ lost' \in SUBSET Item
  <2>1. CASE DummyRound
    BY <2>1, RangeAssumption DEF DummyRound, DummyInv, Base, TypeOK
  <2>2. CASE DummySkip
    BY <2>2, Visited DEF DummySkip, Visits, DummyInv, Base, TypeOK
  <2>3. CASE DummyUnheard
    BY <2>3 DEF DummyUnheard, DummyInv, Base, TypeOK, ToSet
  <2>4. QED
    BY <2>1, <2>2, <2>3
<1>4. Base'
  <2>1. TypeOK'
    <3>1. acitr' \in Seq(Item)
      <4>1. acitr \in Seq(Item) /\ << >> \in Seq(Item)
        BY DEF DummyInv, Base, TypeOK
      <4>2. QED
        BY <1>3, <4>1
    <3>2. TypeOK
      BY DEF DummyInv, Base
    <3>3. QED
      BY <1>1, <1>3, <3>1, <3>2 DEF TypeOK, MsgSize
  <2>2. PlaceInv'
    BY <1>1, <1>3 DEF DummyInv, Base, PlaceInv
  <2>3. QED
    BY <2>1, <2>2 DEF Base
<1>5. Tracked({})
  BY <1>2 DEF DummyInv
<1>6. Tracked({})'
  <2>1. CASE DummyUnheard /\ acitr # << >>
    <3>1. msg = << >> /\ half = NoHalf /\ lost' = lost \cup ToSet(acitr)
      BY <2>1 DEF DummyUnheard, DummyInv, Places
    <3>2. CopiesTracked({})'
      BY <1>1, <3>1 DEF CopiesTracked
    <3>3. StaleTracked({})'
      BY <1>1, <1>5, <3>1 DEF Tracked, StaleTracked, OnItsWay, MsgItems
    <3>4. QED
      BY <3>2, <3>3 DEF Tracked
  <2>2. CASE DummyRound \/ DummySkip \/ acitr = << >>
    <3>1. UNCHANGED <<acitr, lost>>
      BY <2>2, ToSetEmpty DEF DummyRound, DummySkip, DummyUnheard, DummyInv, Base, PlaceInv
    <3>2. QED
      BY <1>1, <1>5, <3>1 DEF Tracked, CopiesTracked, StaleTracked, ToCome, OnItsWay, MsgItems
  <2>3. QED
    BY <2>1, <2>2
<1>7. Tracked(Changing)'
  BY <1>2, <1>6, TrackedChanging
<1>8. WithinReach' /\ Places'
  BY <1>1, <1>2 DEF DummyInv, WithinReach, Places
<1>9. QED
  BY <1>1, <1>4, <1>7, <1>8 DEF DummyInv

\* All the steps of a program with the dummy device.
LEMMA DummyInvNext == DummyInv /\ [DummyNext]_dummyVars => DummyInv'
<1> SUFFICES ASSUME DummyInv, [DummyNext]_dummyVars PROVE DummyInv'
  OBVIOUS
<1> USE DEF uartVars, txVars, sendVars, linkVars
<1>1. CASE DummyRound \/ DummySkip \/ DummyUnheard
  BY <1>1, LoopKeeps
<1>2. CASE DummyChange \/ DummyBelowMax \/ DummyAboveMin
  BY <1>2, StoresKeep
<1>3. CASE DummySignal \/ ((CollectItem \/ HandlerReturn) /\ UNCHANGED <<store, manager>>)
  <2>1. Next /\ UNCHANGED <<value, lineLeft, store, manager, txVars, linkVars>>
    BY <1>3 DEF DummySignal, Signal, CollectItem, HandlerReturn, Next, UartStep
  <2>2. Places'
    <3>1. store = "sum"
      BY <1>3 DEF DummySignal, Signal, CollectItem, HandlerReturn, DummyInv, Places
    <3>2. QED
      BY <2>1, <3>1 DEF DummyInv, Places
  <2>3. QED
    BY <2>1, <2>2, PipelineKeeps DEF DummyInv
<1>4. CASE DummyListen \/ DummyConnect \/ UNCHANGED dummyVars
  <2>1. UNCHANGED <<vars, store>> /\ manager' \in {"none", "listens", "connected"}
    BY <1>4 DEF DummyListen, DummyConnect, dummyVars, DummyInv
  <2>2. Places'
    BY <1>4, <2>1 DEF DummyListen, DummyConnect, dummyVars, DummyInv, Places, vars
  <2>3. UNCHANGED <<value, lineLeft>>
    BY <2>1 DEF vars
  <2>4. QED
    BY <2>1, <2>2, <2>3, PipelineKeeps
<1>5. CASE DummyServer
  <2>1. /\ Next /\ UNCHANGED <<value, lineLeft, uartPc, store, manager>>
    BY <1>5 DEF DummyServer, Next, TxStep, LinkStep, GetChanged, ClearChanged,
                CopyFirstHalf, CopySecondHalf, EncodeDone, Drop, SendInterface,
                NotifyPacket, Deliver, Cut, NotifyLast, SessionStart,
                SessionEnd, LinkUpOrDown
  <2>2. manager = "connected"
    BY <1>5 DEF DummyServer, TxStep, GetChanged, ClearChanged, CopyFirstHalf,
                CopySecondHalf, EncodeDone, Drop, SendInterface, NotifyPacket,
                Deliver, Cut, NotifyLast, DummyInv, Places
  <2>3. Places'
    BY <2>1, <2>2 DEF DummyInv, Places
  <2>4. QED
    BY <2>1, <2>3, PipelineKeeps DEF DummyInv
<1>6. QED
  BY <1>1, <1>2, <1>3, <1>4, <1>5 DEF DummyNext, DummyReader

-----------------------------------------------------------------------------
(* The I2C device: its task and its owner, whatever the bus does.          *)

LEMMA I2cInvInit == I2cInit => I2cInv
BY ReaderAssumption
   DEF I2cInit, ExInit, I2cInv, I2cTypeOK, ExTypeOK, TaskFollowsFlag,
       CallbackFollowsDevice, ReaderIsOwned

\* The steps of the owner: the constructor and the destructor.
LEMMA I2cOwnerKeeps == I2cInv /\ I2cOwner => I2cInv'
<1> SUFFICES ASSUME I2cInv, I2cOwner PROVE I2cInv'
  OBVIOUS
<1> USE ReaderAssumption
        DEF I2cInv, I2cTypeOK, ExTypeOK, TaskFollowsFlag, CallbackFollowsDevice,
            ReaderIsOwned, Goes, exVars
<1>1. CASE I2cBegin
  BY <1>1 DEF I2cBegin
<1>2. CASE I2cNewThread
  <2>1. CASE Goes("state", "task") /\ MakeState(reader)
    BY <1>2, <2>1 DEF I2cNewThread, MakeState
  <2>2. CASE Goes("task", "return") /\ CreateTask(reader)
    BY <1>2, <2>2 DEF I2cNewThread, CreateTask
  <2>3. CASE Goes("task", "return") /\ CreateTaskFails(reader)
    BY <1>2, <2>3 DEF I2cNewThread, CreateTaskFails
  <2>4. CASE Goes("return", "onReceive") /\ DropState(reader)
    BY <1>2, <2>4 DEF I2cNewThread, DropState
  <2>5. QED
    BY <1>2, <2>1, <2>2, <2>3, <2>4 DEF I2cNewThread
<1>3. CASE I2cOnReceive
  BY <1>3 DEF I2cOnReceive
<1>4. CASE I2cAssigned
  BY <1>4 DEF I2cAssigned
<1>5. CASE I2cEndMembers
  BY <1>5 DEF I2cEndMembers
<1>6. CASE I2cStop
  BY <1>6 DEF I2cStop
<1>7. CASE I2cJoin
  BY <1>7 DEF I2cJoin, ExJoinReturn
<1>8. QED
  BY <1>1, <1>2, <1>3, <1>4, <1>5, <1>6, <1>7 DEF I2cOwner

\* The steps of the reading task.
LEMMA I2cReaderKeeps == I2cInv /\ I2cReader => I2cInv'
<1> SUFFICES ASSUME I2cInv, I2cReader PROVE I2cInv'
  OBVIOUS
<1> USE ReaderAssumption
        DEF I2cInv, I2cTypeOK, ExTypeOK, TaskFollowsFlag, CallbackFollowsDevice,
            ReaderIsOwned, exVars
<1>1. CASE I2cTest
  BY <1>1 DEF I2cTest, Reads
<1>2. CASE I2cRead
  BY <1>2 DEF I2cRead, Reads
<1>3. CASE I2cCheck
  BY <1>3 DEF I2cCheck, Reads
<1>4. CASE I2cCall
  BY <1>4 DEF I2cCall, Reads
<1>5. CASE I2cTask
  <2>1. CASE Enter(reader) /\ UNCHANGED <<devicePc, stop, callback, readPc, astray>>
    BY <2>1 DEF Enter
  <2>2. CASE TaskEnds(reader) /\ UNCHANGED <<devicePc, stop, callback, readPc, astray>>
    BY <2>2 DEF TaskEnds
  <2>3. CASE FunctionReturns(reader) /\ UNCHANGED <<devicePc, stop, callback, readPc, astray>>
    BY <2>3 DEF FunctionReturns
  <2>4. CASE astray' = "functor" /\ UNCHANGED <<exVars, devicePc, stop, callback, readPc>>
    BY <2>4
  <2>5. QED
    BY <1>5, <2>1, <2>2, <2>3, <2>4 DEF I2cTask
<1>6. QED
  BY <1>1, <1>2, <1>3, <1>4, <1>5 DEF I2cReader

\* All of them, and none.
LEMMA I2cInvNext == I2cInv /\ [I2cNext]_i2cVars => I2cInv'
<1>1. I2cInv /\ UNCHANGED i2cVars => I2cInv'
  BY DEF i2cVars, exVars, I2cInv, I2cTypeOK, ExTypeOK, TaskFollowsFlag,
         CallbackFollowsDevice, ReaderIsOwned
<1>2. QED
  BY <1>1, I2cOwnerKeeps, I2cReaderKeeps DEF I2cNext

\* The interface ends when its task is out of it, and a message does harm only
\* while the callback is assigned, for any set of threads
\* (~I2CInterface, v_slave_read_thread_main).
THEOREM ReaderIsOwnedCorrect == I2cSpec => []ReaderIsOwned
<1>1. I2cInv => ReaderIsOwned
  BY DEF I2cInv
<1>2. QED
  BY I2cInvInit, I2cInvNext, <1>1, PTL DEF I2cSpec

-----------------------------------------------------------------------------
(* The program with one of the devices.                                    *)

\* The device that is not there does not move.
LEMMA DevicesInv == DevicesSpec => [](DummyInv /\ I2cInv)
<1>1. DevicesInit => DummyInv /\ I2cInv
  BY DummyInvInit, I2cInvInit DEF DevicesInit
<1>2. DummyInv /\ I2cInv /\ [DevicesNext]_deviceVars => (DummyInv /\ I2cInv)'
  <2> SUFFICES ASSUME DummyInv, I2cInv, [DevicesNext]_deviceVars
               PROVE  DummyInv' /\ I2cInv'
    OBVIOUS
  <2>1. [DummyNext]_dummyVars /\ [I2cNext]_i2cVars
    BY DEF DevicesNext, WithDummy, WithI2c, deviceVars
  <2>2. QED
    BY <2>1, DummyInvNext, I2cInvNext
<1>3. QED
  BY <1>1, <1>2, PTL DEF DevicesSpec

\* The dummy with what it feeds and the I2C device keep their types, for any
\* elements, ranges and values (update_data, v_slave_read_thread_main).
THEOREM DevicesTypeCorrect == DevicesSpec => []DevicesTypeOK
<1>1. DummyInv /\ I2cInv /\ (device \in {"dummy", "i2c"}) => DevicesTypeOK
  BY DEF DummyInv, Base, I2cInv, DummyTypeOK, DevicesTypeOK
<1>2. DevicesInit => device \in {"dummy", "i2c"}
  BY DEF DevicesInit
<1>3. device \in {"dummy", "i2c"} /\ [DevicesNext]_deviceVars => (device \in {"dummy", "i2c"})'
  BY DEF DevicesNext, WithDummy, WithI2c, deviceVars
<1>4. QED
  BY <1>1, <1>2, <1>3, DevicesInv, PTL DEF DevicesSpec

\* A value the client has and the dummy has not, a moment's value out of its
\* bounds among them, is on its way to be replaced, or its notification was
\* dropped or heard by nobody.
THEOREM MomentIsTrackedCorrect == DevicesSpec => []MomentIsTracked
<1>1. DummyInv => MomentIsTracked
  BY DEF DummyInv, Tracked, StaleTracked, MomentIsTracked
<1>2. QED
  BY <1>1, DevicesInv, PTL

\* The I2C task never runs without the device it works for.
THEOREM DevicesReaderIsOwned == DevicesSpec => []ReaderIsOwned
<1>1. I2cInv => ReaderIsOwned
  BY DEF I2cInv
<1>2. QED
  BY <1>1, DevicesInv, PTL
=============================================================================
