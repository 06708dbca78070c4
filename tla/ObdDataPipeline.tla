-------------------------- MODULE ObdDataPipeline --------------------------
(***************************************************************************)
(* The path of an OBD value from the vehicle to the phone:                 *)
(*                                                                         *)
(*   UART reader task    writes the values of one data line, item by item, *)
(*     (parse_uart_      into the device's list and then raises the signal *)
(*      data_line)       sig_obd_data_received;                            *)
(*   CommunicationManager  collects the items the signal names in          *)
(*                       ait_changed_obd_data, under obd_data_list_mutex;  *)
(*   transmission task   (OBDDataBLETransmissionThread::run) copies that   *)
(*                       list, clears it, copies the value of every item   *)
(*                       into a message and notifies the client, packet by *)
(*                       packet.                                           *)
(*                                                                         *)
(* The list holds iterators, not values: the value that is sent is the one *)
(* in the device's list when the message is built.  That read takes no     *)
(* lock, so the copy of a float may mix two writes: a value is read as two *)
(* halves, in two steps.                                                   *)
(***************************************************************************)
EXTENDS Integers, Sequences, SequencesExt

CONSTANTS
    Item,       \* elements of the OBD data list (an iterator names one)
    Value,      \* the values an element can have
    InitValue,  \* its value before the first data line
    NoHalf,     \* no half of a value has been copied
    Lines,      \* the item sequences a data line can update
    Reading,    \* the values a data line can carry for an item
    PacketSize  \* BLE_MAX_PACKET_SIZE

ASSUME InitValueAssumption == InitValue \in Value
ASSUME NoHalfAssumption == NoHalf \notin Value
ASSUME LinesAssumption ==
    /\ Lines \subseteq Seq(Item)
    /\ \A l1, l2 \in Lines : l1 # l2 => ToSet(l1) \cap ToSet(l2) = {}
ASSUME ReadingAssumption == Reading \in [Item -> SUBSET Value]
ASSUME PacketAssumption == PacketSize \in Nat \ {0, 1}

VARIABLES
    value,      \* ao_obd_data: the device's current values
    changed,    \* ait_changed_obd_data of the CommunicationManager
    listMutex,  \* owner of obd_data_list_mutex
    uartPc,     \* where the reader task is in parse_uart_data_line
    lineLeft,   \* the items of the line not written yet
    acitr,      \* the items written and not yet handed to the manager
    txPc,       \* where the transmission task is in run()
    snapshot,   \* changed_items, those not copied into the message yet
    half,       \* the first half of the value being copied
    msg,        \* the message under construction
    unsent,     \* its bytes that send() has not put into a packet yet
    whole,      \* history: the packets so far arrived at one client
    session,    \* the server thread has the transmission task running
    link,       \* a client is connected
    client,     \* the values the client has received last
    lost        \* history: items dropped since they were last notified

uartVars == <<uartPc, lineLeft, acitr>>
sendVars == <<unsent, whole>>
txVars   == <<txPc, snapshot, half, msg, sendVars>>
linkVars == <<session, link>>
vars == <<value, changed, listMutex, uartVars, txVars, linkVars, client, lost>>

\* A copied element: the item and the two halves of the copied value.
Entry == [item : Item, hi : Value, lo : Value]

\* Its size: the header, and an identifier and a float for each item.
MsgSize == 6 + 5 * Len(msg)

TypeOK ==
    /\ value \in [Item -> Value]
    /\ changed \in Seq(Item)
    /\ listMutex \in {"free", "uart"}
    /\ uartPc \in {"read", "write", "collect"}
    /\ lineLeft \in Seq(Item)
    /\ acitr \in Seq(Item)
    /\ txPc \in {"get", "clear", "encode", "send", "notify"}
    /\ snapshot \in Seq(Item)
    /\ half \in Value \cup {NoHalf}
    /\ msg \in Seq(Entry)
    /\ unsent \in 0..MsgSize /\ whole \in BOOLEAN
    /\ session \in BOOLEAN
    /\ link \in BOOLEAN
    /\ client \in [Item -> Value \X Value]
    /\ lost \in SUBSET Item

Init ==
    /\ value = [i \in Item |-> InitValue]
    /\ changed = << >>
    /\ listMutex = "free"
    /\ uartPc = "read"
    /\ lineLeft = << >>
    /\ acitr = << >>
    /\ txPc = "get"
    /\ snapshot = << >>
    /\ half = NoHalf
    /\ msg = << >>
    /\ unsent = 0 /\ whole = TRUE
    /\ session = FALSE
    /\ link = FALSE
    /\ client = [i \in Item |-> <<InitValue, InitValue>>]
    /\ lost = {}

-----------------------------------------------------------------------------
(* The reader task.                                                        *)

\* A well-formed line arrived: it names the items of one group.
ReadLine ==
    /\ uartPc = "read"
    /\ \E line \in Lines : lineLeft' = line
    /\ acitr' = << >>
    /\ uartPc' = "write"
    /\ UNCHANGED <<value, changed, listMutex, txVars, linkVars, client, lost>>

\* Mutant: the written item is not put into the list for the signal.
WriteItemSilently ==
    /\ uartPc = "write"
    /\ lineLeft # << >>
    /\ \E v \in Reading[Head(lineLeft)] : value' = [value EXCEPT ![Head(lineLeft)] = v]
    /\ lineLeft' = Tail(lineLeft)
    /\ UNCHANGED <<uartPc, acitr, changed, listMutex, txVars, linkVars, client, lost>>

\* itr->value_f = ...; acitr.push_back(citr), for the next item of the line.
WriteItem ==
    /\ uartPc = "write"
    /\ lineLeft # << >>
    /\ \E v \in Reading[Head(lineLeft)] : value' = [value EXCEPT ![Head(lineLeft)] = v]
    /\ acitr' = Append(acitr, Head(lineLeft))
    /\ lineLeft' = Tail(lineLeft)
    /\ UNCHANGED <<uartPc, changed, listMutex, txVars, linkVars, client, lost>>

\* All items written: the signal calls the manager's handler, which locks.
Signal ==
    /\ uartPc = "write"
    /\ lineLeft = << >>
    /\ listMutex = "free"
    /\ listMutex' = "uart"
    /\ uartPc' = "collect"
    /\ UNCHANGED <<value, changed, lineLeft, acitr, txVars, linkVars, client,
                   lost>>

\* Mutants: no test for an item that is in the list; a list built backwards.
PushAlways(s, i) == Append(s, i)
PushIfNewInFront(s, i) == IF i \in ToSet(s) THEN s ELSE <<i>> \o s

\* One round of the loop of sig_obd_data_changed_handler.
PushIfNew(s, i) == IF i \in ToSet(s) THEN s ELSE Append(s, i)

CollectItem ==
    /\ uartPc = "collect"
    /\ acitr # << >>
    /\ changed' = PushIfNew(changed, Head(acitr))
    /\ acitr' = Tail(acitr)
    /\ lost' = lost \ {Head(acitr)}
    /\ UNCHANGED <<value, listMutex, uartPc, lineLeft, txVars, linkVars,
                   client>>

\* Mutant: the mutex is not released.
HandlerReturnLocked ==
    /\ uartPc = "collect"
    /\ acitr = << >>
    /\ uartPc' = "read"
    /\ UNCHANGED <<value, changed, listMutex, lineLeft, acitr, txVars, linkVars,
                   client, lost>>

\* The handler returns and the lock_guard releases the mutex.
HandlerReturn ==
    /\ uartPc = "collect"
    /\ acitr = << >>
    /\ listMutex' = "free"
    /\ uartPc' = "read"
    /\ UNCHANGED <<value, changed, lineLeft, acitr, txVars, linkVars, client,
                   lost>>

-----------------------------------------------------------------------------
(* The transmission task.                                                  *)

\* Mutant: the list is copied without the mutex.
GetChangedUnlocked ==
    /\ txPc = "get"
    /\ session
    /\ snapshot' = changed
    /\ txPc' = "clear"
    /\ UNCHANGED <<value, changed, listMutex, uartVars, half, msg, sendVars,
                   linkVars, client, lost>>

\* get_changed_obd_data(): a copy of the list, under the list mutex.
GetChanged ==
    /\ txPc = "get"
    /\ session
    /\ listMutex = "free"
    /\ snapshot' = changed
    /\ txPc' = "clear"
    /\ UNCHANGED <<value, changed, listMutex, uartVars, half, msg, sendVars,
                   linkVars, client, lost>>

\* Mutant: the mutex is not released.
ClearChangedLocked ==
    /\ txPc = "clear"
    /\ listMutex = "free"
    /\ listMutex' = "uart"
    /\ changed' = << >>
    /\ lost' = lost \cup (ToSet(changed) \ ToSet(snapshot))
    /\ txPc' = "encode"
    /\ UNCHANGED <<value, uartVars, snapshot, half, msg, sendVars, linkVars,
                   client>>

\* clear_changed_obd_data(): a critical section of its own.
ClearChanged ==
    /\ txPc = "clear"
    /\ listMutex = "free"
    /\ changed' = << >>
    /\ lost' = lost \cup (ToSet(changed) \ ToSet(snapshot))
    /\ txPc' = "encode"
    /\ UNCHANGED <<value, listMutex, uartVars, snapshot, half, msg, sendVars,
                   linkVars, client>>

\* The memcpy of the value of the next item, one half at a time.
CopyFirstHalf ==
    /\ txPc = "encode"
    /\ snapshot # << >>
    /\ half = NoHalf
    /\ half' = value[Head(snapshot)]
    /\ UNCHANGED <<value, changed, listMutex, uartVars, txPc, snapshot, msg,
                   sendVars, linkVars, client, lost>>

\* Mutant: the field is appended before its first half has been copied.
CopySecondHalfEarly ==
    /\ txPc = "encode"
    /\ snapshot # << >>
    /\ msg' = Append(msg, [item |-> Head(snapshot), hi |-> half,
                           lo |-> value[Head(snapshot)]])
    /\ snapshot' = Tail(snapshot)
    /\ half' = NoHalf
    /\ UNCHANGED <<value, changed, listMutex, uartVars, txPc, sendVars, linkVars,
                   client, lost>>

CopySecondHalf ==
    /\ txPc = "encode"
    /\ half # NoHalf
    /\ msg' = Append(msg, [item |-> Head(snapshot), hi |-> half,
                           lo |-> value[Head(snapshot)]])
    /\ snapshot' = Tail(snapshot)
    /\ half' = NoHalf
    /\ UNCHANGED <<value, changed, listMutex, uartVars, txPc, sendVars, linkVars,
                   client, lost>>

\* Every item is copied: send_interface is called unless the message is empty.
EncodeDone ==
    /\ txPc = "encode"
    /\ snapshot = << >>
    /\ txPc' = IF msg = << >> THEN "get" ELSE "send"
    /\ UNCHANGED <<value, changed, listMutex, uartVars, snapshot, half, msg,
                   sendVars, linkVars, client, lost>>

MsgItems == {msg[k].item : k \in 1..Len(msg)}

\* The entry the client finds for an item.
EntryFor(i) == msg[CHOOSE k \in 1..Len(msg) : msg[k].item = i]

\* send_interface returns without sending when no client is connected, ...
Drop ==
    /\ txPc = "send"
    /\ ~link
    /\ lost' = lost \cup (MsgItems \ ToSet(changed))
    /\ msg' = << >>
    /\ txPc' = "get"
    /\ UNCHANGED <<value, changed, listMutex, uartVars, snapshot, half,
                   sendVars, linkVars, client>>

\* ... and calls send() when one is, at this moment.
SendInterface ==
    /\ txPc = "send"
    /\ link
    /\ unsent' = MsgSize /\ whole' = TRUE
    /\ txPc' = "notify"
    /\ UNCHANGED <<value, changed, listMutex, uartVars, snapshot, half, msg,
                   linkVars, client, lost>>

\* A round of the loop of send() that is not the last.  notify() says nothing
\* of the packet: without a client, or room in the radio's buffers, it is lost.
NotifyPacket ==
    /\ txPc = "notify"
    /\ unsent >= PacketSize
    /\ unsent' = unsent - (PacketSize - 1)
    /\ whole' \in {whole /\ link, FALSE}
    /\ UNCHANGED <<value, changed, listMutex, uartVars, txPc, snapshot, half,
                   msg, linkVars, client, lost>>

\* The last round, after which run() begins again.
NotifyLast ==
    /\ txPc = "notify"
    /\ unsent < PacketSize
    /\ unsent' = 0 /\ whole' = TRUE
    /\ msg' = << >>
    /\ txPc' = "get"
    /\ UNCHANGED <<value, changed, listMutex, uartVars, snapshot, half,
                   linkVars>>

\* All the packets arrived: the client gets the values in the message.
Deliver ==
    /\ NotifyLast
    /\ whole /\ link
    /\ client' = [i \in Item |->
                    IF i \in MsgItems
                    THEN <<EntryFor(i).hi, EntryFor(i).lo>> ELSE client[i]]
    /\ UNCHANGED lost

\* This packet or one before it did not arrive: the message is of no use to
\* the client, and nothing in send() tells.
Cut ==
    /\ NotifyLast
    /\ lost' = lost \cup (MsgItems \ ToSet(changed))
    /\ UNCHANGED client

-----------------------------------------------------------------------------
(* The server thread and the radio, seen from here.                        *)

\* start_communication_threads(), after a handshake with a client.
SessionStart ==
    /\ ~session /\ link
    /\ session' = TRUE
    /\ UNCHANGED <<value, changed, listMutex, uartVars, txVars, link, client,
                   lost>>

\* join_communication_threads(): the task finishes the cycle it is in.
SessionEnd ==
    /\ session
    /\ session' = FALSE
    /\ UNCHANGED <<value, changed, listMutex, uartVars, txVars, link, client,
                   lost>>

\* A message that has begun does not go on at the next client.
LinkUpOrDown ==
    /\ link' = ~link
    /\ whole' = (whole /\ unsent \in {0, MsgSize})
    /\ UNCHANGED <<value, changed, listMutex, uartVars, txPc, snapshot, half,
                   msg, unsent, session, client, lost>>

UartStep == ReadLine \/ WriteItem \/ Signal \/ CollectItem \/ HandlerReturn
TxStep   == \/ GetChanged \/ ClearChanged \/ CopyFirstHalf \/ CopySecondHalf
            \/ EncodeDone \/ Drop \/ SendInterface \/ NotifyPacket
            \/ Deliver \/ Cut
LinkStep == SessionStart \/ SessionEnd \/ LinkUpOrDown

Next == UartStep \/ TxStep \/ LinkStep

Spec == Init /\ [][Next]_vars

\* Both tasks keep running.  The mutex is handed out fairly to the task that
\* keeps asking for it (GetChanged and ClearChanged are blocked and unblocked
\* again and again by the handler); nothing is assumed of lines and clients.
FairSpec ==
    /\ Spec
    /\ WF_vars(UartStep /\ ~ReadLine)
    /\ WF_vars(TxStep)
    /\ SF_vars(ClearChanged) /\ SF_vars(GetChanged)

-----------------------------------------------------------------------------
(* Properties.                                                             *)

\* The items whose new value is on its way: still to be notified, in the
\* manager's list, or in the transmission task's hands.
OnItsWay == ToSet(acitr) \cup ToSet(changed) \cup ToSet(snapshot) \cup MsgItems

\* An item is at most once in the list, in the copy of it and in the message,
\* whatever the data lines repeat: the list (and so the 16-bit size of the
\* message built from it) cannot grow past the number of items.
NoDuplicates ==
    /\ IsInjective(changed)
    /\ IsInjective(snapshot)
    /\ \A j, k \in 1..Len(msg) : msg[j].item = msg[k].item => j = k
    /\ \A k \in 1..Len(msg) : msg[k].item \notin ToSet(snapshot)

\* An item whose value at the client is not the device's - older, or a mix of
\* two writes - is on its way to it, or was dropped in one of the three places
\* where a notification is: the clear, a send without a client, and a message
\* of which not every packet arrived (the link went after the check in
\* send_interface or between two packets, or the radio had no room).
\* The unlocked copy of a value is therefore repaired by a later message.
StaleIsTracked ==
    \A i \in Item : client[i] # <<value[i], value[i]>> => i \in OnItsWay \cup lost

\* During a session a notified item is sent, or falls in the gap between the
\* read and the clear of the list; it never waits in the list for ever.
NotifiedIsSentOrDropped ==
    \A i \in Item : i \in ToSet(changed) ~> (i \in MsgItems \cup lost \/ ~session)

\* Until it clears the list, the copy the transmission task took is the
\* beginning of the list: what the clear drops is what was appended since.
SnapshotIsPrefix == txPc = "clear" => IsPrefix(snapshot, changed)

\* The list mutex keeps a signal in one piece: outside the handler the list
\* has all the items of a data line or none of them, and so has the copy.
\* (The groups of items the UART device updates are disjoint.)
WholeOrNone(s) ==
    \A line \in Lines : ToSet(line) \subseteq ToSet(s)
                       \/ ToSet(line) \cap ToSet(s) = {}

LinesAreWhole ==
    /\ listMutex = "free" => WholeOrNone(changed)
    /\ txPc = "clear" => WholeOrNone(snapshot)
=============================================================================
