----------------------------- MODULE ObdServer -----------------------------
(***************************************************************************)
(* The BLE server of the diagnosis tool: the loop of OBDServerThread::run, *)
(* the handshake of initialize_client_connection, the session that follows *)
(* it and the transmission task a session starts and stops (CyclicThread). *)
(*                                                                         *)
(* The mailbox for the client's messages is the slot of CommandSlot, which *)
(* RxMailbox shows the code implements.  The client and the radio are the  *)
(* environment.  In one half of the behaviours clients come, go and send   *)
(* what they like; in the other one a polite client stays and answers what *)
(* it is asked, in time.                                                   *)
(*                                                                         *)
(* Time is counted in polls: one poll of the session loop without a        *)
(* message is one tick of the two timers.                                  *)
(***************************************************************************)
EXTENDS CyclicThread, Sequences

CONSTANTS
    tx,             \* the thread object of the data transmission
    SilenceLimit,   \* 10 seconds without a message end a session, in ticks
    HeartbeatLimit, \* a heartbeat is due after 5 seconds, in ticks
    Empty           \* no message in the mailbox

ASSUME LimitsAssumption ==
    /\ tx \in Thread
    /\ SilenceLimit \in Nat /\ HeartbeatLimit \in Nat

VARIABLES
    link,           \* MyServerCallbacks::m_bo_device_connected
    slot,           \* the message that waits for the server thread
    srvPc,          \* where the server thread is
    state,          \* server_connection_state
    mode,           \* m_en_transmission_mode
    interval,       \* the cycle time of the transmission thread
    silence,        \* ticks since last_rx_timestamp
    sinceTx,        \* ticks since last_tx_timestamp
    polite,         \* the client is the polite one; chosen once, by Init
    asked,          \* what the polite client has been asked and not answered
    taken,          \* history: the messages taken since the last key request
    cleanStarts     \* history: every task was created, the last one was gone

linkVars  == <<link, slot, asked>>
timerVars == <<silence, sinceTx>>
modeVars  == <<mode, interval>>
histVars  == <<taken, cleanStarts>>
vars == <<threadVars, linkVars, srvPc, state, modeVars, timerVars, histVars, polite>>

\* The commands of obd_ble_shared.hpp the server waits for or acts on.
PublishKey == "PublishEncryptionKey"
Handshake  == "EncryptionHandshake"
DataHash   == "ObdDataHash"
ChangeMode == "ChangeObdTransmissionMode"
KeepAlive  == "ClientKeepAlive"        \* and any other command
Command == {PublishKey, Handshake, DataHash, ChangeMode, KeepAlive}

Mode == {"fast", "slow"}
IntervalOf == [fast |-> 100, slow |-> 500]

\* The first byte of the value: a mode, another number, or no byte at all.
Arg == Mode \cup {"invalid", "missing"}

\* A message; the value of another command does not matter.
Msg == [cmd : Command \ {ChangeMode}, arg : {"invalid"}]
       \cup [cmd : {ChangeMode}, arg : Arg]

State == {"Disconnected", "Init", "InitEncryption", "DataProtocolSync", "Connected"}
SrvPc == {"wait", "settle", "awaitKey", "sendKey", "awaitHandshake",
          "requestHash", "awaitHash", "connected", "failed",
          "receive", "check", "end", "join"}

TypeOK ==
    /\ ThreadTypeOK
    /\ link \in BOOLEAN
    /\ slot \in Msg \cup {Empty}
    /\ srvPc \in SrvPc
    /\ state \in State
    /\ mode \in Mode
    /\ interval \in {100, 500}
    /\ silence \in 0..SilenceLimit + 1
    /\ sinceTx \in 0..HeartbeatLimit + 1
    /\ polite \in BOOLEAN
    /\ asked \in {"nothing", "key", "handshake", "hash"}
    /\ taken \in Seq(Command)
    /\ cleanStarts \in BOOLEAN

Init ==
    /\ ThreadInit
    /\ link = FALSE /\ slot = Empty /\ asked = "nothing" /\ polite \in BOOLEAN
    /\ srvPc = "wait" /\ state = "Disconnected"
    /\ mode = "fast" /\ interval = 100
    /\ silence = 0 /\ sinceTx = 0
    /\ taken = << >> /\ cleanStarts = TRUE

\* send_interface(): a command reaches the client only when one is connected.
Send(what) == asked' = IF link /\ polite THEN what ELSE asked

-----------------------------------------------------------------------------
(* The server thread: connecting.                                          *)

\* while (is_connected() == false) sleep 2 s: ends when it sees a client.
SeeClient ==
    /\ srvPc = "wait"
    /\ link
    /\ srvPc' = "settle"
    /\ UNCHANGED <<threadVars, linkVars, state, modeVars, timerVars, histVars>>

\* sleep 1 s; CONNECTION_STATE_INIT; request the client's key.
RequestKey ==
    /\ srvPc = "settle"
    /\ state' = "Init"
    /\ Send("key")
    /\ srvPc' = "awaitKey"
    /\ taken' = << >>
    /\ UNCHANGED <<threadVars, link, slot, modeVars, timerVars, cleanStarts>>

\* Mutant: any message will do.
TakeAny(command, ok) ==
    /\ slot # Empty
    /\ slot' = Empty
    /\ srvPc' = ok
    /\ taken' = Append(taken, slot.cmd)
    /\ UNCHANGED <<threadVars, link, asked, state, modeVars, timerVars, cleanStarts>>

\* Mutant: the mailbox is not emptied.
TakeACopy(command, ok) ==
    /\ slot # Empty
    /\ srvPc' = IF slot.cmd = command THEN ok ELSE "failed"
    /\ taken' = Append(taken, slot.cmd)
    /\ UNCHANGED <<threadVars, linkVars, state, modeVars, timerVars, cleanStarts>>

\* server_receive_command(): a message is taken; is it the expected one?
TakeExpected(command, ok) ==
    /\ slot # Empty
    /\ slot' = Empty
    /\ srvPc' = IF slot.cmd = command THEN ok ELSE "failed"
    /\ taken' = Append(taken, slot.cmd)
    /\ UNCHANGED <<threadVars, link, asked, state, modeVars, timerVars, cleanStarts>>

AwaitKey       == srvPc = "awaitKey" /\ TakeExpected(PublishKey, "sendKey")
AwaitHandshake == srvPc = "awaitHandshake" /\ TakeExpected(Handshake, "requestHash")
AwaitHash      == srvPc = "awaitHash" /\ TakeExpected(DataHash, "connected")

\* No message within 10 s (the key) or 2 s (the others).  A polite client is
\* faster than that.
AwaitTimeout ==
    /\ srvPc \in {"awaitKey", "awaitHandshake", "awaitHash"}
    /\ slot = Empty
    /\ asked = "nothing"
    /\ srvPc' = "failed"
    /\ UNCHANGED <<threadVars, linkVars, state, modeVars, timerVars, histVars>>

\* CONNECTION_STATE_INIT_ENCRYPTION; send the server's key.
SendKey ==
    /\ srvPc = "sendKey"
    /\ state' = "InitEncryption"
    /\ Send("handshake")
    /\ srvPc' = "awaitHandshake"
    /\ UNCHANGED <<threadVars, link, slot, modeVars, timerVars, histVars>>

\* CONNECTION_STATE_DATA_PROTOCOL_SYNC; ask for the hash of the data table.
RequestHash ==
    /\ srvPc = "requestHash"
    /\ state' = "DataProtocolSync"
    /\ Send("hash")
    /\ srvPc' = "awaitHash"
    /\ UNCHANGED <<threadVars, link, slot, modeVars, timerVars, histVars>>

\* disconnect() does nothing; the loop starts again with the same client.
InitFailed ==
    /\ srvPc = "failed"
    /\ state' = "Disconnected"
    /\ srvPc' = "wait"
    /\ UNCHANGED <<threadVars, linkVars, modeVars, timerVars, histVars>>

\* CONNECTION_STATE_CONNECTED; start_communication_threads().
Established ==
    /\ srvPc = "connected"
    /\ state' = "Connected"
    /\ \/ StartTask(tx) /\ cleanStarts' = (cleanStarts /\ Live(tx) = {})
       \/ StartFails /\ cleanStarts' = FALSE
    /\ silence' = 0 /\ sinceTx' = 0
    /\ srvPc' = "receive"
    /\ UNCHANGED <<linkVars, modeVars, taken>>

-----------------------------------------------------------------------------
(* The server thread: a session.                                           *)

\* Mutant: the thread keeps its cycle time.
SetModeOnly(m) == mode' = m /\ UNCHANGED interval

\* set_obd_transmission_mode(): the early return leaves mode and interval.
SetMode(m) ==
    IF mode = m THEN UNCHANGED modeVars
                ELSE mode' = m /\ interval' = IntervalOf[m]

\* server_process_received_command().  The byte of an empty value is read
\* all the same: what is found there may be a mode or not.
Process(msg) ==
    IF msg.cmd # ChangeMode \/ msg.arg = "invalid" THEN UNCHANGED modeVars
    ELSE IF msg.arg \in Mode THEN SetMode(msg.arg)
    ELSE UNCHANGED modeVars \/ \E m \in Mode : SetMode(m)

\* A message of the client is fetched and processed, in less than a tick.
ReceiveCommand ==
    /\ srvPc = "receive"
    /\ slot # Empty
    /\ slot' = Empty
    /\ Process(slot)
    /\ silence' = 0
    /\ \E tick \in 0..1 : sinceTx' = sinceTx + tick
    /\ srvPc' = "check"
    /\ UNCHANGED <<threadVars, link, asked, state, histVars>>

\* Mutant: last_rx_timestamp is taken in every round.
ReceiveTimeoutCounts ==
    /\ srvPc = "receive"
    /\ slot = Empty
    /\ silence' = 0 /\ sinceTx' = sinceTx + 1
    /\ srvPc' = "check"
    /\ UNCHANGED <<threadVars, linkVars, state, modeVars, histVars>>

ReceiveTimeout ==
    /\ srvPc = "receive"
    /\ slot = Empty
    /\ silence' = silence + 1 /\ sinceTx' = sinceTx + 1
    /\ srvPc' = "check"
    /\ UNCHANGED <<threadVars, linkVars, state, modeVars, histVars>>

\* Mutants: last_tx_timestamp is never taken again, or taken in every round.
CheckTimersOnce ==
    /\ srvPc = "check"
    /\ srvPc' = IF silence > SilenceLimit THEN "end" ELSE "receive"
    /\ UNCHANGED <<threadVars, linkVars, state, modeVars, timerVars, histVars>>

CheckTimersReset ==
    /\ srvPc = "check"
    /\ srvPc' = IF silence > SilenceLimit THEN "end" ELSE "receive"
    /\ sinceTx' = 0
    /\ UNCHANGED <<threadVars, linkVars, state, modeVars, silence, histVars>>

\* The rest of the loop: the silence of the client, and the heartbeat.
CheckTimers ==
    /\ srvPc = "check"
    /\ srvPc' = IF silence > SilenceLimit THEN "end" ELSE "receive"
    /\ sinceTx' = IF sinceTx > HeartbeatLimit THEN 0 ELSE sinceTx
    /\ UNCHANGED <<threadVars, linkVars, state, modeVars, silence, histVars>>

\* Mutant: the transmission thread is not told to stop.
EndSessionOnly ==
    /\ srvPc = "end"
    /\ state' = "Disconnected"
    /\ srvPc' = "join"
    /\ UNCHANGED <<threadVars, linkVars, modeVars, timerVars, histVars>>

\* CONNECTION_STATE_DISCONNECTED; join_communication_threads().
EndSession ==
    /\ srvPc = "end"
    /\ state' = "Disconnected"
    /\ JoinCall(tx)
    /\ srvPc' = "join"
    /\ UNCHANGED <<linkVars, modeVars, timerVars, histVars>>

Joined ==
    /\ srvPc = "join"
    /\ JoinReturn(tx)
    /\ srvPc' = "wait"
    /\ silence' = 0 /\ sinceTx' = 0     \* the timers end with the session
    /\ UNCHANGED <<linkVars, state, modeVars, histVars>>

ServerThread ==
    /\ \/ SeeClient \/ RequestKey \/ AwaitKey \/ SendKey \/ AwaitHandshake
       \/ RequestHash \/ AwaitHash \/ AwaitTimeout \/ InitFailed \/ Established
       \/ ReceiveCommand \/ ReceiveTimeout \/ CheckTimers \/ EndSession \/ Joined
    /\ UNCHANGED polite

-----------------------------------------------------------------------------
(* The transmission task.                                                  *)

TxTask(k) ==
    /\ TaskStep(k)
    /\ UNCHANGED <<linkVars, srvPc, state, modeVars, timerVars, histVars, polite>>

-----------------------------------------------------------------------------
(* The client and the BLE stack.                                           *)

\* onConnect.  What the last client has left in the mailbox stays there.
Connect ==
    /\ ~link
    /\ link' = TRUE
    /\ UNCHANGED <<threadVars, slot, asked, srvPc, state, modeVars, timerVars,
                   histVars, polite>>

Disconnect ==
    /\ link
    /\ link' = FALSE
    /\ UNCHANGED <<threadVars, slot, asked, srvPc, state, modeVars, timerVars,
                   histVars, polite>>

\* A message of the client fills the mailbox; it is lost when that is full.
Write(command) ==
    /\ link
    /\ slot' \in IF slot = Empty
                 THEN {m \in Msg : m.cmd = command} ELSE {slot}
    /\ UNCHANGED <<threadVars, link, srvPc, state, modeVars, timerVars, histVars, polite>>

ClientSends == \E command \in Command : Write(command) /\ UNCHANGED asked

AnyClient == ~polite /\ (Connect \/ Disconnect \/ ClientSends)

\* The polite client answers every command once, ...
Reply == [key |-> PublishKey, handshake |-> Handshake, hash |-> DataHash]

Answer ==
    /\ asked # "nothing"
    /\ Write(Reply[asked])
    /\ asked' = "nothing"

\* ... and in a session it sends what it likes.
PoliteClient ==
    /\ polite
    /\ Connect \/ Answer \/ (state = "Connected" /\ ClientSends)

Next == \/ ServerThread
        \/ \E k \in Task : TxTask(k)
        \/ AnyClient \/ PoliteClient

Spec == Init /\ [][Next]_vars

\* The tasks of the tool keep running.  Only the polite client has to do
\* anything: it connects, and it answers.
FairSpec == /\ Spec
            /\ WF_vars(ServerThread)
            /\ \A k \in Task : WF_vars(TxTask(k))
            /\ WF_vars(polite /\ Connect) /\ WF_vars(polite /\ Answer)

-----------------------------------------------------------------------------
(* Properties.                                                             *)

InSession == srvPc \in {"receive", "check", "end"}

\* A session starts only after the three messages of the handshake, in their
\* order and with no other message between them.
HandshakeOrder ==
    InSession => taken = <<PublishKey, Handshake, DataHash>>

\* The transmission task belongs to the session: in one there is one task at
\* most and no stop request waits for it; outside of one every task there
\* still is has been told to stop.  (Only if no start has failed, and none has
\* met the task of the session before: the code relies on both.)
TxTaskFollowsSession ==
    cleanStarts =>
        /\ Cardinality(Live(tx)) <= 1
        /\ InSession => /\ ~terminate[tx]
                        /\ \A k \in Live(tx) : taskPc[k] \in {"test", "run", "sleep"}
        /\ ~InSession => \A k \in Live(tx) :
                            terminate[tx] \/ taskPc[k] = "clearHandle"

\* The interval of the transmission thread is always the one of the mode the
\* client has chosen, whatever is sent as a mode and however often.
IntervalFollowsMode == interval = IntervalOf[mode]

\* A session outlives the last message of a client that has gone for good by
\* the silence limit only, and then its transmission task goes too.
DeadLinkEndsSession ==
    <>[](~link) => <>[](~InSession /\ (cleanStarts => Live(tx) = {}))

\* In a session that goes on heartbeats are sent again and again, however much
\* the client sends, as long as time passes.
Tick == srvPc = "receive" /\ sinceTx' > sinceTx
Heartbeat == srvPc = "check" /\ srvPc' # "check" /\ sinceTx > HeartbeatLimit

HeartbeatGoesOn == <>[]InSession /\ []<><<Tick>>_vars => []<><<Heartbeat>>_vars

\* A client that answers what it is asked gets its session, the first time and
\* every time the server waits for it with an empty mailbox and no answer on its
\* way, whatever the sessions and the refused handshakes before have left
\* behind: only what waits in the mailbox makes the server refuse such a client.
\* (obd_ble_interface.cpp:511-528.)
PoliteClientConnects ==
    polite /\ srvPc = "wait" /\ slot = Empty /\ asked = "nothing"
        ~> state = "Connected"
=============================================================================
