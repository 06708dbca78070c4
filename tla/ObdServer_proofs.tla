-------------------------- MODULE ObdServer_proofs --------------------------
(***************************************************************************)
(* Proofs about the BLE server, for any number of tasks and thread objects *)
(* and any limits of the two timers.                                       *)
(***************************************************************************)
EXTENDS ObdServer, FiniteSetTheorems, SequenceTheorems, TLAPS

-----------------------------------------------------------------------------
(* The inductive invariant.                                                *)

\* A poll begins with timers that have not run out: CheckTimers has seen to it.
TimersRun == srvPc = "receive" => silence <= SilenceLimit /\ sinceTx <= HeartbeatLimit

\* What has been taken of the handshake, by the place of the server thread.
HandshakeSoFar ==
    /\ srvPc = "awaitKey" => taken = << >>
    /\ srvPc \in {"sendKey", "awaitHandshake"} => taken = <<PublishKey>>
    /\ srvPc \in {"requestHash", "awaitHash"} => taken = <<PublishKey, Handshake>>
    /\ srvPc \in {"connected", "receive", "check", "end"}
            => taken = <<PublishKey, Handshake, DataHash>>

\* The server starts tasks for one object only, and a task is there while it
\* has a place.
TasksAreTx ==
    \A k \in Task : /\ owner[k] \in {tx, NoThread}
                    /\ owner[k] = NoThread <=> taskPc[k] = "none"

\* With clean starts a session has the one task; what is left of it after the
\* session is on its way out, and it clears the flag just before it has gone.
OneTask ==
    cleanStarts =>
        /\ \A j, k \in Task : owner[j] = tx /\ owner[k] = tx => j = k
        /\ InSession =>
              /\ ~terminate[tx]
              /\ \E k \in Task : owner[k] = tx
              /\ \A k \in Task : owner[k] = tx => taskPc[k] \in {"test", "run", "sleep"}
        /\ ~InSession =>
              /\ terminate[tx] => \E k \in Task : owner[k] = tx
              /\ \A k \in Task : owner[k] = tx => (terminate[tx] <=> taskPc[k] # "clearHandle")

ServerInv ==
    /\ TypeOK /\ TimersRun
    /\ HandshakeSoFar
    /\ IntervalFollowsMode
    /\ TasksAreTx /\ OneTask

-----------------------------------------------------------------------------
(* The steps of the server thread.                                         *)

\* A message in the mailbox is a message.
LEMMA SlotMessage ==
  ASSUME TypeOK, slot # Empty
  PROVE  /\ slot \in Msg /\ slot.cmd \in Command
         /\ slot.cmd = ChangeMode => slot.arg \in Arg
<1>1. slot \in Msg
  BY DEF TypeOK
<1>2. QED
  BY <1>1 DEF Msg, Command

\* A message of the handshake: the thread goes on, or the handshake has failed.
LEMMA TakeExpectedStep ==
  ASSUME TypeOK, NEW command, NEW ok \in SrvPc, TakeExpected(command, ok)
  PROVE  /\ slot' = Empty /\ taken' \in Seq(Command)
         /\ \/ srvPc' = ok /\ taken' = Append(taken, command)
            \/ srvPc' = "failed"
         /\ UNCHANGED <<threadVars, link, asked, state, modeVars, timerVars, cleanStarts>>
<1>1. slot.cmd \in Command
  BY SlotMessage DEF TakeExpected
<1>2. Append(taken, slot.cmd) \in Seq(Command)
  BY <1>1 DEF TypeOK
<1>3. QED
  BY <1>1, <1>2 DEF TakeExpected

\* A sequence that goes on with an element.
LEMMA AppendIs ==
  ASSUME NEW S, NEW s \in Seq(S), NEW e \in S, NEW t \in Seq(S),
         Len(t) = Len(s) + 1, t[Len(s) + 1] = e,
         \A i \in 1..Len(s) : t[i] = s[i]
  PROVE  Append(s, e) = t
<1>1. /\ Append(s, e) \in Seq(S) /\ Len(Append(s, e)) = Len(s) + 1
      /\ Append(s, e)[Len(s) + 1] = e
      /\ \A i \in 1..Len(s) : Append(s, e)[i] = s[i]
  BY AppendProperties
<1>2. \A i \in 1..Len(s) + 1 : Append(s, e)[i] = t[i]
  BY <1>1
<1>3. QED
  BY <1>1, <1>2, SeqEqual

\* The messages of the handshake, one after the other.
LEMMA AppendToHandshake ==
  ASSUME NEW a, NEW b, NEW c
  PROVE  /\ Append(<< >>, a) = <<a>>
         /\ Append(<<a>>, b) = <<a, b>>
         /\ Append(<<a, b>>, c) = <<a, b, c>>
<1> DEFINE S == {a, b, c}
<1>1. Append(<< >>, a) = <<a>>
  OBVIOUS
<1>2. Append(<<a>>, b) = <<a, b>>
  <2>1. <<a>> \in Seq(S) /\ <<a, b>> \in Seq(S) /\ b \in S
    OBVIOUS
  <2>2. /\ Len(<<a>>) = 1 /\ Len(<<a, b>>) = Len(<<a>>) + 1
        /\ <<a, b>>[Len(<<a>>) + 1] = b
        /\ \A i \in 1..Len(<<a>>) : <<a, b>>[i] = <<a>>[i]
    OBVIOUS
  <2> HIDE DEF S
  <2>3. QED
    BY <2>1, <2>2, AppendIs
<1>3. Append(<<a, b>>, c) = <<a, b, c>>
  <2>1. <<a, b>> \in Seq(S) /\ <<a, b, c>> \in Seq(S) /\ c \in S
    OBVIOUS
  <2>2. /\ Len(<<a, b>>) = 2 /\ Len(<<a, b, c>>) = Len(<<a, b>>) + 1
        /\ <<a, b, c>>[Len(<<a, b>>) + 1] = c
        /\ \A i \in 1..Len(<<a, b>>) : <<a, b, c>>[i] = <<a, b>>[i]
    OBVIOUS
  <2> HIDE DEF S
  <2>3. QED
    BY <2>1, <2>2, AppendIs
<1>4. QED
  BY <1>1, <1>2, <1>3

\* What a message does to the mode.
LEMMA ProcessStep ==
  ASSUME TypeOK, IntervalFollowsMode, slot # Empty, Process(slot)
  PROVE  mode' \in Mode /\ interval' \in {100, 500} /\ IntervalFollowsMode'
<1> USE DEF IntervalFollowsMode, TypeOK, modeVars, IntervalOf, Mode
<1>1. ASSUME NEW m \in Mode, SetMode(m)
      PROVE  mode' \in Mode /\ interval' \in {100, 500} /\ IntervalFollowsMode'
  BY <1>1 DEF SetMode
<1>2. CASE UNCHANGED modeVars
  BY <1>2
<1>3. QED
  BY <1>1, <1>2 DEF Process

\* Types and timers.
LEMMA ServerTypes ==
  ASSUME ServerInv, ServerThread
  PROVE  TypeOK' /\ TimersRun'
<1> USE LimitsAssumption
    DEF ServerInv, TypeOK, TimersRun, linkVars, timerVars, modeVars, histVars,
        SrvPc, State
<1>1. CASE SeeClient \/ AwaitTimeout \/ InitFailed
  BY <1>1 DEF SeeClient, AwaitTimeout, InitFailed, threadVars, ThreadTypeOK, ServerThread
<1>2. CASE RequestKey \/ SendKey \/ RequestHash
  <2>1. taken' \in Seq(Command)
    <3>1. << >> \in Seq(Command)
      OBVIOUS
    <3>2. taken' = << >> \/ taken' = taken
      BY <1>2 DEF RequestKey, SendKey, RequestHash
    <3>3. QED
      BY <3>1, <3>2
  <2>2. QED
    BY <1>2, <2>1 DEF RequestKey, SendKey, RequestHash, Send, threadVars, ThreadTypeOK, ServerThread
<1>3. CASE AwaitKey \/ AwaitHandshake \/ AwaitHash
  <2>1. ASSUME NEW command, NEW ok \in {"sendKey", "requestHash", "connected"},
               TakeExpected(command, ok)
        PROVE  TypeOK' /\ TimersRun'
    <3>1. /\ slot' = Empty /\ taken' \in Seq(Command) /\ srvPc' \in {ok, "failed"}
          /\ UNCHANGED <<threadVars, link, asked, state, modeVars, timerVars, cleanStarts>>
      BY <2>1, TakeExpectedStep
    <3>2. QED
      BY <3>1 DEF threadVars, ThreadTypeOK, ServerThread
  <2>2. QED
    BY <1>3, <2>1 DEF AwaitKey, AwaitHandshake, AwaitHash
<1>4. CASE Established
  <2>1. ThreadTypeOK'
    BY <1>4 DEF Established, StartTask, StartFails, threadVars, ThreadTypeOK, TaskPc
  <2>2. cleanStarts' \in BOOLEAN
    BY <1>4 DEF Established
  <2>3. QED
    BY <1>4, <2>1, <2>2 DEF Established, ServerThread
<1>5. CASE ReceiveCommand
  <2>1. mode' \in Mode /\ interval' \in {100, 500}
    BY <1>5, ProcessStep DEF ReceiveCommand
  <2>2. silence' \in 0..SilenceLimit + 1 /\ sinceTx' \in 0..HeartbeatLimit + 1
    BY <1>5 DEF ReceiveCommand
  <2>3. QED
    BY <1>5, <2>1, <2>2 DEF ReceiveCommand, threadVars, ThreadTypeOK, ServerThread
<1>6. CASE ReceiveTimeout
  BY <1>6 DEF ReceiveTimeout, threadVars, ThreadTypeOK, ServerThread
<1>7. CASE CheckTimers
  BY <1>7 DEF CheckTimers, threadVars, ThreadTypeOK, ServerThread
<1>8. CASE EndSession
  <2>1. ThreadTypeOK'
    <3>1. CASE UNCHANGED threadVars
      BY <3>1 DEF threadVars, ThreadTypeOK
    <3>2. CASE Stop(tx)
      BY <3>2 DEF Stop, ThreadTypeOK
    <3>3. QED
      BY <1>8, <3>1, <3>2 DEF EndSession, JoinCall
  <2>2. QED
    BY <1>8, <2>1 DEF EndSession, ServerThread
<1>9. CASE Joined
  BY <1>9 DEF Joined, JoinReturn, threadVars, ThreadTypeOK, ServerThread
<1>10. QED
  BY <1>1, <1>2, <1>3, <1>4, <1>5, <1>6, <1>7, <1>8, <1>9 DEF ServerThread

\* The handshake, message by message, and the mode.
LEMMA ServerHandshake ==
  ASSUME ServerInv, ServerThread
  PROVE  HandshakeSoFar' /\ IntervalFollowsMode'
<1> USE DEF ServerInv, HandshakeSoFar, IntervalFollowsMode, modeVars, histVars
<1>1. CASE \/ SeeClient \/ AwaitTimeout \/ InitFailed \/ RequestKey \/ SendKey
           \/ RequestHash \/ Established \/ ReceiveTimeout \/ CheckTimers
           \/ EndSession \/ Joined
  BY <1>1 DEF SeeClient, AwaitTimeout, InitFailed, RequestKey, SendKey,
     RequestHash, Established, ReceiveTimeout, CheckTimers, EndSession, Joined
<1>2. CASE AwaitKey
  <2>1. /\ \/ srvPc' = "sendKey" /\ taken' = Append(<< >>, PublishKey)
           \/ srvPc' = "failed"
        /\ UNCHANGED modeVars
    BY <1>2, TakeExpectedStep DEF AwaitKey, SrvPc
  <2>2. Append(<< >>, PublishKey) = <<PublishKey>>
    BY AppendToHandshake
  <2>3. QED
    BY <2>1, <2>2
<1>3. CASE AwaitHandshake
  <2>1. /\ \/ srvPc' = "requestHash" /\ taken' = Append(<<PublishKey>>, Handshake)
           \/ srvPc' = "failed"
        /\ UNCHANGED modeVars
    BY <1>3, TakeExpectedStep DEF AwaitHandshake, SrvPc
  <2>2. Append(<<PublishKey>>, Handshake) = <<PublishKey, Handshake>>
    BY AppendToHandshake
  <2>3. QED
    BY <2>1, <2>2
<1>4. CASE AwaitHash
  <2>1. /\ \/ srvPc' = "connected" /\ taken' = Append(<<PublishKey, Handshake>>, DataHash)
           \/ srvPc' = "failed"
        /\ UNCHANGED modeVars
    BY <1>4, TakeExpectedStep DEF AwaitHash, SrvPc
  <2>2. Append(<<PublishKey, Handshake>>, DataHash) = <<PublishKey, Handshake, DataHash>>
    BY AppendToHandshake
  <2>3. QED
    BY <2>1, <2>2
<1>5. CASE ReceiveCommand
  <2>1. IntervalFollowsMode'
    BY <1>5, ProcessStep DEF ReceiveCommand
  <2>2. HandshakeSoFar'
    BY <1>5 DEF ReceiveCommand
  <2>3. QED
    BY <2>1, <2>2
<1>6. QED
  BY <1>1, <1>2, <1>3, <1>4, <1>5 DEF ServerThread

\* The one task: who has started it, and who tells it to stop.
LEMMA ServerTasks ==
  ASSUME ServerInv, ServerThread
  PROVE  TasksAreTx' /\ OneTask'
<1> USE LimitsAssumption, NoThreadAssumption
    DEF ServerInv, TypeOK, ThreadTypeOK, TasksAreTx, OneTask, InSession, histVars
<1>1. CASE /\ UNCHANGED <<threadVars, cleanStarts>>
           /\ InSession' = InSession
  BY <1>1 DEF threadVars
<1>2. CASE \/ SeeClient \/ RequestKey \/ AwaitKey \/ SendKey \/ AwaitHandshake
           \/ RequestHash \/ AwaitHash \/ AwaitTimeout \/ InitFailed
           \/ ReceiveCommand \/ ReceiveTimeout \/ CheckTimers \/ Joined
  <2>1. UNCHANGED <<threadVars, cleanStarts>>
    BY <1>2 DEF SeeClient, RequestKey, AwaitKey, SendKey, AwaitHandshake,
       RequestHash, AwaitHash, AwaitTimeout, InitFailed, ReceiveCommand,
       ReceiveTimeout, CheckTimers, Joined, JoinReturn, TakeExpected
  <2>2. InSession' = InSession
    BY <1>2 DEF SeeClient, RequestKey, AwaitKey, SendKey, AwaitHandshake,
       RequestHash, AwaitHash, AwaitTimeout, InitFailed, ReceiveCommand,
       ReceiveTimeout, CheckTimers, Joined, TakeExpected
  <2>3. QED
    BY <1>1, <2>1, <2>2
<1>3. CASE Established
  <2>1. CASE StartTask(tx) /\ cleanStarts' = (cleanStarts /\ Live(tx) = {})
    <3>1. PICK k \in Task : /\ taskPc[k] = "none"
                            /\ taskPc' = [taskPc EXCEPT ![k] = "test"]
                            /\ owner' = [owner EXCEPT ![k] = tx]
                            /\ UNCHANGED <<terminate, handle>>
      BY <2>1 DEF StartTask
    <3>2. /\ taskPc'[k] = "test" /\ owner'[k] = tx
          /\ \A j \in Task \ {k} : taskPc'[j] = taskPc[j] /\ owner'[j] = owner[j]
      BY <3>1
    <3>3. TasksAreTx'
      BY <3>2
    <3>4. ~InSession /\ InSession'
      BY <1>3 DEF Established
    <3>5. ASSUME cleanStarts' PROVE \A j \in Task : owner[j] # tx
      <4>1. Live(tx) = {}
        BY <2>1, <3>5
      <4>2. QED
        BY <4>1 DEF Live
    <3>6. OneTask'
      BY <2>1, <3>1, <3>2, <3>4, <3>5
    <3>7. QED
      BY <3>3, <3>6
  <2>2. CASE StartFails /\ cleanStarts' = FALSE
    BY <2>2 DEF StartFails, threadVars
  <2>3. QED
    BY <1>3, <2>1, <2>2 DEF Established
<1>4. CASE EndSession
  <2>1. InSession /\ ~InSession' /\ UNCHANGED cleanStarts
    BY <1>4 DEF EndSession
  <2>2. UNCHANGED <<taskPc, owner>> /\ terminate'[tx] = TRUE
    BY <1>4 DEF EndSession, JoinCall, Stop, threadVars
  <2>3. QED
    BY <2>1, <2>2
<1>5. QED
  BY <1>2, <1>3, <1>4 DEF ServerThread

LEMMA ServerThreadKeeps == ServerInv /\ ServerThread => ServerInv'
  BY ServerTypes, ServerHandshake, ServerTasks DEF ServerInv

-----------------------------------------------------------------------------
(* The steps of a task and of the client.                                  *)

\* A task clears the flag only when it is the last one that could need it.
LEMMA TxTaskKeeps ==
  ASSUME ServerInv, NEW k \in Task, TxTask(k)
  PROVE  ServerInv'
<1> USE LimitsAssumption, NoThreadAssumption
    DEF ServerInv, linkVars, modeVars, timerVars, histVars
<1>1. UNCHANGED <<linkVars, srvPc, state, modeVars, timerVars, histVars, polite>>
  BY DEF TxTask
<1>2. taskPc[k] # "none" /\ owner[k] = tx
  BY DEF TxTask, TaskStep, Test, Run, Wake, ClearTerminate, ClearHandle, TasksAreTx
<1>3. /\ \A j \in Task \ {k} : taskPc'[j] = taskPc[j] /\ owner'[j] = owner[j]
      /\ ThreadTypeOK'
  <2> USE <1>2 DEF TypeOK, ThreadTypeOK, TaskPc
  <2>1. CASE Test(k)
    BY <2>1 DEF Test
  <2>2. CASE Run(k) \/ Wake(k)
    BY <2>2 DEF Run, Wake
  <2>3. CASE ClearTerminate(k)
    BY <2>3 DEF ClearTerminate
  <2>4. CASE ClearHandle(k)
    BY <2>4 DEF ClearHandle
  <2>5. QED
    BY <2>1, <2>2, <2>3, <2>4 DEF TxTask, TaskStep
<1>4. TypeOK' /\ TimersRun' /\ HandshakeSoFar' /\ IntervalFollowsMode'
  BY <1>1, <1>3 DEF TypeOK, TimersRun, HandshakeSoFar, IntervalFollowsMode
<1>5. \/ /\ owner'[k] = tx /\ UNCHANGED terminate
         /\ \/ taskPc[k] = "test" /\ terminate[tx] /\ taskPc'[k] = "clearTerminate"
            \/ taskPc[k] = "test" /\ ~terminate[tx] /\ taskPc'[k] = "run"
            \/ taskPc[k] = "run" /\ taskPc'[k] = "sleep"
            \/ taskPc[k] = "sleep" /\ taskPc'[k] = "test"
      \/ /\ owner'[k] = tx /\ taskPc[k] = "clearTerminate"
         /\ taskPc'[k] = "clearHandle" /\ terminate'[tx] = FALSE
      \/ /\ taskPc[k] = "clearHandle" /\ taskPc'[k] = "none"
         /\ owner'[k] = NoThread /\ UNCHANGED terminate
  BY <1>2 DEF TxTask, TaskStep, Test, Run, Wake, ClearTerminate, ClearHandle,
              TypeOK, ThreadTypeOK
<1>6. TasksAreTx'
  BY <1>3, <1>5 DEF TasksAreTx
<1>7. ASSUME cleanStarts PROVE \A j \in Task : owner[j] = tx => j = k
  BY <1>2, <1>7 DEF OneTask
<1>8. cleanStarts' = cleanStarts /\ InSession' = InSession
  BY <1>1 DEF InSession
<1>9. OneTask'
  <2> SUFFICES ASSUME cleanStarts' PROVE OneTask'
    BY DEF OneTask
  <2>1. \A j \in Task : owner'[j] = tx => j = k
    BY <1>3, <1>7, <1>8
  <2>2. CASE InSession
    <3>1. ~terminate[tx] /\ taskPc[k] \in {"test", "run", "sleep"}
      BY <1>2, <1>8, <2>2 DEF OneTask
    <3>2. ~terminate'[tx] /\ owner'[k] = tx /\ taskPc'[k] \in {"test", "run", "sleep"}
      BY <1>5, <3>1
    <3>3. QED
      BY <1>8, <2>1, <2>2, <3>2 DEF OneTask
  <2>3. CASE ~InSession
    <3>1. terminate[tx] <=> taskPc[k] # "clearHandle"
      BY <1>2, <1>8, <2>3 DEF OneTask
    <3>2. /\ terminate'[tx] => owner'[k] = tx
          /\ owner'[k] = tx => (terminate'[tx] <=> taskPc'[k] # "clearHandle")
      BY <1>5, <3>1
    <3>3. QED
      BY <1>8, <2>1, <2>3, <3>2 DEF OneTask
  <2>4. QED
    BY <2>2, <2>3
<1>10. QED
  BY <1>4, <1>6, <1>9

\* A client changes the link, the mailbox and what it has been asked.
LEMMA ClientKeeps == ServerInv /\ (AnyClient \/ PoliteClient) => ServerInv'
<1> SUFFICES ASSUME ServerInv, AnyClient \/ PoliteClient PROVE ServerInv'
  OBVIOUS
<1>1. UNCHANGED <<threadVars, srvPc, state, modeVars, timerVars, histVars, polite>>
  BY DEF AnyClient, PoliteClient, Connect, Disconnect, ClientSends, Answer, Write
<1>2. link' \in BOOLEAN /\ slot' \in Msg \cup {Empty} /\ asked' \in {"nothing", "key", "handshake", "hash"}
  <2>1. CASE Connect \/ Disconnect
    BY <2>1 DEF Connect, Disconnect, ServerInv, TypeOK
  <2>2. CASE ClientSends \/ Answer
    <3>1. PICK command : Write(command)
      BY <2>2 DEF ClientSends, Answer
    <3>2. slot' \in Msg \cup {Empty} /\ link' \in BOOLEAN
      BY <3>1 DEF Write, ServerInv, TypeOK
    <3>3. QED
      BY <2>2, <3>2 DEF ClientSends, Answer, ServerInv, TypeOK
  <2>3. QED
    BY <2>1, <2>2 DEF AnyClient, PoliteClient
<1>3. QED
  BY <1>1, <1>2
     DEF ServerInv, TypeOK, ThreadTypeOK, TimersRun, HandshakeSoFar,
         IntervalFollowsMode, TasksAreTx, OneTask, InSession, threadVars,
         modeVars, timerVars, histVars

-----------------------------------------------------------------------------
(* The theorems.                                                           *)

LEMMA ServerInvInit == Init => ServerInv
<1> SUFFICES ASSUME Init PROVE ServerInv
  OBVIOUS
<1>1. << >> \in Seq(Command)
  OBVIOUS
<1>2. ThreadTypeOK
  BY DEF Init, ThreadInit, ThreadTypeOK, TaskPc
<1>3. TypeOK
  <2>1. taken \in Seq(Command)
    BY <1>1 DEF Init
  <2>2. /\ link \in BOOLEAN /\ polite \in BOOLEAN /\ cleanStarts \in BOOLEAN
        /\ slot \in Msg \cup {Empty}
        /\ asked \in {"nothing", "key", "handshake", "hash"}
    BY DEF Init
  <2>3. srvPc \in SrvPc /\ state \in State /\ mode \in Mode
    BY DEF Init, SrvPc, State, Mode
  <2>4. /\ interval \in {100, 500}
        /\ silence \in 0..SilenceLimit + 1 /\ sinceTx \in 0..HeartbeatLimit + 1
    BY LimitsAssumption DEF Init
  <2>5. QED
    BY <1>2, <2>1, <2>2, <2>3, <2>4 DEF TypeOK
<1>4. TimersRun /\ HandshakeSoFar /\ IntervalFollowsMode
  BY DEF Init, TimersRun, HandshakeSoFar, IntervalFollowsMode, IntervalOf
<1>5. TasksAreTx /\ OneTask
  BY LimitsAssumption, NoThreadAssumption
     DEF Init, ThreadInit, TasksAreTx, OneTask, InSession
<1>6. QED
  BY <1>3, <1>4, <1>5 DEF ServerInv

LEMMA ServerInvariant == Spec => []ServerInv
<1>1. ServerInv /\ UNCHANGED vars => ServerInv'
  BY DEF vars, ServerInv, TypeOK, ThreadTypeOK, TimersRun, HandshakeSoFar,
         IntervalFollowsMode, TasksAreTx, OneTask, InSession, threadVars,
         linkVars, modeVars, timerVars, histVars
<1>2. ServerInv /\ [Next]_vars => ServerInv'
  BY <1>1, ServerThreadKeeps, TxTaskKeeps, ClientKeeps DEF Next
<1>3. QED
  BY ServerInvInit, <1>2, PTL DEF Spec

\* The server keeps its types; the timers count no further than one tick
\* beyond their limits, whatever the limits are.
THEOREM ServerTypeCorrect == Spec => []TypeOK
<1>1. ServerInv => TypeOK
  BY DEF ServerInv
<1>2. QED
  BY <1>1, ServerInvariant, PTL

\* A session starts only after the three messages of the handshake, whatever
\* waited in the mailbox and however often clients came and went.
THEOREM HandshakeOrderCorrect == Spec => []HandshakeOrder
<1>1. ServerInv => HandshakeOrder
  BY DEF ServerInv, HandshakeSoFar, HandshakeOrder, InSession
<1>2. QED
  BY <1>1, ServerInvariant, PTL

\* The cycle time is the mode's, after any commands with any values.
THEOREM IntervalFollowsModeCorrect == Spec => []IntervalFollowsMode
<1>1. ServerInv => IntervalFollowsMode
  BY DEF ServerInv
<1>2. QED
  BY <1>1, ServerInvariant, PTL

\* With clean starts a session has the transmission task to itself, and leaves
\* none behind that has not been told to stop, for any number of tasks.
THEOREM TxTaskFollowsSessionCorrect == Spec => []TxTaskFollowsSession
<1>1. ServerInv => TxTaskFollowsSession
  <2> SUFFICES ASSUME ServerInv, cleanStarts
               PROVE  /\ Cardinality(Live(tx)) <= 1
                      /\ InSession => /\ ~terminate[tx]
                                      /\ \A k \in Live(tx) : taskPc[k] \in {"test", "run", "sleep"}
                      /\ ~InSession => \A k \in Live(tx) :
                                          terminate[tx] \/ taskPc[k] = "clearHandle"
    BY DEF TxTaskFollowsSession
  <2>1. \A j, k \in Live(tx) : j = k
    BY DEF Live, ServerInv, OneTask
  <2>2. Live(tx) = {} \/ \E k \in Task : Live(tx) = {k}
    BY <2>1 DEF Live
  <2>3. Cardinality(Live(tx)) <= 1
    BY <2>2, FS_EmptySet, FS_Singleton
  <2>4. QED
    BY <2>3 DEF Live, ServerInv, OneTask
<1>2. QED
  BY <1>1, ServerInvariant, PTL
=============================================================================
