---------------------------- MODULE DummyDevice -----------------------------
(***************************************************************************)
(* DummyDiagnosisDevice in the place of the UART device: its reader task   *)
(* changes random elements of the list by random amounts and notifies      *)
(* them.  Two things are different from a data line:                       *)
(*   - an element is changed in place, in three stores - the sum, and the  *)
(*     two bounds - so that a value out of its bounds is in the list for a *)
(*     moment, and a copy can have it;                                     *)
(*   - the task starts in the constructor of the device, and its first     *)
(*     signals may find no handler of the CommunicationManager.            *)
(* The places of the reader are those of the pipeline: "read" between two  *)
(* rounds, "write" in update_data(), "collect" in the manager's handler;   *)
(* lineLeft has the elements the loop has still to visit.                  *)
(***************************************************************************)
EXTENDS ObdDataPipeline

CONSTANTS
    List,       \* dummy_obd_data: all the elements, in their order
    Lowest,     \* Lowest[i]: the field min of an element
    Highest,    \* Highest[i]: the field max
    MaxDelta    \* MaxDelta[i]: the most a round changes it by

AtMost(x, bound) == IF x < bound THEN x ELSE bound
AtLeast(x, bound) == IF x < bound THEN bound ELSE x

\* What a change can make of an element that is within its bounds, or has its
\* initial value: value_f, which the table does not give and which is zero.
\* That is below the bounds of an element like the battery's voltage.
Reach(i) == AtMost(Lowest[i], InitValue) - MaxDelta[i] ..
            AtLeast(Highest[i], InitValue) + MaxDelta[i]

ASSUME RangeAssumption ==
    /\ List \in Seq(Item) /\ IsInjective(List)
    /\ {Lowest, Highest, MaxDelta} \subseteq [Item -> Int]
    /\ \A i \in Item : /\ Lowest[i] <= Highest[i]
                       /\ MaxDelta[i] \in 0..(Highest[i] - Lowest[i])
                       /\ Reach(i) \subseteq Value
    /\ InitValue \in Int

VARIABLES
    store,      \* the store the reader does next, of the three
    manager     \* the CommunicationManager: built, and connected to the device

dummyVars == <<vars, store, manager>>

DummyTypeOK ==
    /\ TypeOK
    /\ store \in {"sum", "max", "min"}
    /\ manager \in {"none", "listens", "connected"}

DummyInit == Init /\ store = "sum" /\ manager = "none"

-----------------------------------------------------------------------------
(* update_data().                                                          *)

DummyRound ==
    /\ uartPc = "read"
    /\ lineLeft' = List
    /\ acitr' = << >>
    /\ uartPc' = "write"
    /\ UNCHANGED <<value, changed, listMutex, txVars, linkVars, client, lost,
                   store, manager>>

Visits(at) == uartPc = "write" /\ lineLeft # << >> /\ store = at

\* rand() % 4 != 0: the element stays as it is.
DummySkip ==
    /\ Visits("sum")
    /\ lineLeft' = Tail(lineLeft)
    /\ UNCHANGED <<value, changed, listMutex, uartPc, acitr, txVars, linkVars,
                   client, lost, store, manager>>

\* One of the stores to the element the loop is at.
Store(at, v, next) ==
    /\ Visits(at)
    /\ value' = [value EXCEPT ![Head(lineLeft)] = v]
    /\ store' = next
    /\ UNCHANGED <<changed, listMutex, uartPc, txVars, linkVars, client, lost,
                   manager>>

\* value_f += delta_value or value_f -= delta_value.
DummyChange ==
    /\ Visits("sum")
    /\ \E delta \in -MaxDelta[Head(lineLeft)]..MaxDelta[Head(lineLeft)] :
            Store("sum", value[Head(lineLeft)] + delta, "max")
    /\ UNCHANGED <<lineLeft, acitr>>

\* "Accept boundaries": std::min with the upper one, ...
DummyBelowMax ==
    /\ Store("max", AtMost(value[Head(lineLeft)], Highest[Head(lineLeft)]), "min")
    /\ UNCHANGED <<lineLeft, acitr>>

\* Mutant: an element the lower bound has not moved is not put into the list.
DummyAboveMinQuiet ==
    /\ Store("min", AtLeast(value[Head(lineLeft)], Lowest[Head(lineLeft)]), "sum")
    /\ lineLeft' = Tail(lineLeft)
    /\ acitr' = IF value' = value THEN acitr ELSE Append(acitr, Head(lineLeft))

\* Mutant: the lower bound is forgotten.
DummyAboveNothing ==
    /\ Store("min", value[Head(lineLeft)], "sum")
    /\ lineLeft' = Tail(lineLeft)
    /\ acitr' = Append(acitr, Head(lineLeft))

\* ... and std::max with the lower one; a_changed_obd_data.push_back(itr).
DummyAboveMin ==
    /\ Store("min", AtLeast(value[Head(lineLeft)], Lowest[Head(lineLeft)]), "sum")
    /\ lineLeft' = Tail(lineLeft)
    /\ acitr' = Append(acitr, Head(lineLeft))

\* The signal is raised for a list with elements, and heard by the manager, ...
DummySignal ==
    /\ Signal
    /\ acitr # << >> /\ manager # "none"
    /\ UNCHANGED <<store, manager>>

\* ... or by nobody; without elements there is no signal.
DummyUnheard ==
    /\ uartPc = "write" /\ lineLeft = << >>
    /\ acitr = << >> \/ manager = "none"
    /\ lost' = lost \cup ToSet(acitr)
    /\ acitr' = << >>
    /\ uartPc' = "read"
    /\ UNCHANGED <<value, changed, listMutex, lineLeft, txVars, linkVars,
                   client, store, manager>>

\* thread_diagnosis_reader_main: rounds for ever.
DummyReader ==
    \/ DummyRound \/ DummySkip \/ DummyChange \/ DummyBelowMax \/ DummyAboveMin
    \/ DummySignal \/ DummyUnheard
    \/ (CollectItem \/ HandlerReturn) /\ UNCHANGED <<store, manager>>

\* The manager is constructed, after the device: it connects its handler, ...
DummyListen ==
    /\ manager = "none"
    /\ manager' = "listens"
    /\ UNCHANGED <<vars, store>>

\* ... and itself to the device, which only notes it; nobody disconnects.
DummyConnect ==
    /\ manager = "listens"
    /\ manager' = "connected"
    /\ UNCHANGED <<vars, store>>

\* The server is constructed after that; no phone comes before that.
DummyServer == (TxStep \/ (manager = "connected" /\ LinkStep)) /\ UNCHANGED <<store, manager>>

DummyNext == DummyReader \/ DummyListen \/ DummyConnect \/ DummyServer

-----------------------------------------------------------------------------
(* Properties.                                                             *)

\* The element between its first store and its place in the list.
Changing == IF store # "sum" THEN {Head(lineLeft)} ELSE {}

\* A value the client has and the device has not - an older one, a mix, or one
\* of a moment between two stores - is on its way to be replaced, or belongs to
\* a notification that was dropped or that nobody heard.
\* (update_data, dummy_diagnosis_device.cpp:96-141.)
MomentIsTracked ==
    \A i \in Item :
        client[i] # <<value[i], value[i]>> => i \in OnItsWay \cup lost \cup Changing

\* The client was sent such a value (the initial value is never sent).
OutOfBounds(i) ==
    /\ client[i] # <<InitValue, InitValue>>
    /\ \E half_ \in ToSet(client[i]) : half_ \notin Lowest[i]..Highest[i]

\* A value out of its bounds does not stay with the client: in a session the
\* element is sent again, or its notification was dropped.
\* ("Accept boundaries", dummy_diagnosis_device.cpp:121.)
OutOfBoundsIsSentAgain ==
    \A i \in Item :
        OutOfBounds(i) ~> (i \in MsgItems \cup lost \/ ~OutOfBounds(i) \/ ~session)
=============================================================================
