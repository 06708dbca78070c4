------------------------- MODULE Application_proofs -------------------------
(***************************************************************************)
(* Proofs about the life of the application, for any measuring threads and *)
(* any number of tasks.  The invariant has one part for each owner of      *)
(* state: the repository's loops, the two std_ex::threads, the server.     *)
(***************************************************************************)
EXTENDS Application, TLAPS

-----------------------------------------------------------------------------
(* The inductive invariant.                                                *)

\* What the loops of the repository have started: one task at most for each
\* thread they have been at, and no other.
StartedTasks ==
    /\ callPc \in {"idle", "started"} => position = 0
    /\ callPc = "wait" => ~LoopEnd
    /\ \A k \in Task : owner[k] = NoThread <=> taskPc[k] = "none"
    /\ \A k \in Task : owner[k] # NoThread =>
            \E i \in 1..Len(Threads) :
                /\ owner[k] = Threads[i]
                /\ callPc # "idle"
                /\ callPc = "start" => i <= position
    /\ \A j, k \in Task : owner[j] = owner[k] /\ owner[k] # NoThread => j = k

\* The task of a thread is stopping, or will find the flag set.
Stopping(t) ==
    \A k \in Task : owner[k] = t => terminate[t] \/ taskPc[k] = "clearHandle"

\* Who has been told to stop stays so, although a task clears the flag itself.
StoppedThreads ==
    /\ callPc = "stop" => \A i \in 1..position : Stopping(Threads[i])
    /\ callPc \in {"join", "wait", "joined"} =>
            \A i \in 1..Len(Threads) : Stopping(Threads[i])

\* The place at which the constructor of x calls xTaskCreate, and those up to it.
TaskPlace == [x \in ExThread |-> IF x = "sender" THEN "senderTask" ELSE "deviceTask"]
BeforeTask ==
    [x \in ExThread |->
        IF x = "sender" THEN {"sender", "senderTask"}
        ELSE {"sender", "senderTask", "senderReturn", "device", "deviceTask"}]

\* A std_ex::thread has one task in its life, and join() waits for its end.
ExThreadsFollow ==
    \A x \in ExThread :
        /\ mainPc \in BeforeTask[x] => exTask[x] = "none" /\ ~terminated[x]
        /\ mainPc = TaskPlace[x] => x \in alive
        /\ terminated[x] => exTask[x] \in {"none", "ended"}

\* What startup() has done by the place of the main task.
ServerIsBuilt ==
    /\ mainPc \in {"interface", "listen", "serverTask"} => txThread
    /\ mainPc \in {"listen", "serverTask"} => advertised
    /\ mainPc = "serverTask" => listening

RepositoryInv == RepositoryTypeOK /\ StartedTasks /\ StoppedThreads
MainInv == ExThreadsFollow /\ EndedIsIdle /\ ServerIsBuilt /\ ServerIsServed
AppInv == TypeOK /\ RepositoryInv /\ MainInv

-----------------------------------------------------------------------------
(* The repository and the tasks of its threads.                            *)

\* A stop request for a thread, of the repository or not, stops that thread
\* and leaves those that are stopping alone.
LEMMA StopKeeps ==
  ASSUME RepositoryInv, NEW t \in Thread, Stop(t)
  PROVE  /\ ThreadTypeOK' /\ (Stopping(t))'
         /\ \A u \in Thread : Stopping(u) => (Stopping(u))'
BY DEF RepositoryInv, RepositoryTypeOK, ThreadTypeOK, Stop, Stopping

LEMMA CurrentThread ==
  ASSUME RepositoryInv, ~LoopEnd
  PROVE  /\ position + 1 \in 1..Len(Threads)
         /\ Current = Threads[position + 1] /\ Current \in Thread
BY ThreadsAssumption DEF RepositoryInv, RepositoryTypeOK, Current, LoopEnd

\* start_all_threads().
LEMMA StartKeeps ==
  RepositoryInv /\ (StartAll \/ StartOne \/ StartOneFails \/ StartAllReturn) => RepositoryInv'
<1> SUFFICES ASSUME RepositoryInv, StartAll \/ StartOne \/ StartOneFails \/ StartAllReturn
             PROVE  RepositoryInv'
  OBVIOUS
<1> USE ThreadsAssumption DEF RepositoryInv, RepositoryTypeOK, StoppedThreads, LoopEnd
<1>1. CASE StartAll \/ StartOneFails \/ StartAllReturn
  BY <1>1 DEF StartAll, StartOneFails, StartFails, StartAllReturn, Leave, NextElement,
              LoopEnd, threadVars, ThreadTypeOK, StartedTasks, Stopping
<1>2. CASE StartOne
  <2>1. PICK k \in Task : /\ taskPc[k] = "none"
                          /\ taskPc' = [taskPc EXCEPT ![k] = "test"]
                          /\ owner' = [owner EXCEPT ![k] = Current]
                          /\ UNCHANGED <<terminate, handle>>
    BY <1>2 DEF StartOne, StartTask
  <2>2. /\ callPc = "start" /\ callPc' = "start" /\ position' = position + 1
        /\ ~LoopEnd
    BY <1>2 DEF StartOne, NextElement
  <2>3. /\ position + 1 \in 1..Len(Threads)
        /\ Current = Threads[position + 1] /\ Current \in Thread
    BY <2>2, CurrentThread
  <2>4. RepositoryTypeOK'
    BY <2>1, <2>2, <2>3 DEF ThreadTypeOK, TaskPc
  <2>5. \A j \in Task : owner[j] # Current
    BY <2>2, <2>3, MembersAssumption, NoThreadAssumption DEF StartedTasks
  <2>6. StartedTasks'
    <3>1. \A j \in Task : owner'[j] = NoThread <=> taskPc'[j] = "none"
      BY <2>1, <2>3, NoThreadAssumption DEF StartedTasks, ThreadTypeOK
    <3>2. \A j \in Task : owner'[j] # NoThread =>
              \E i \in 1..Len(Threads) : owner'[j] = Threads[i] /\ i <= position'
      BY <2>1, <2>2, <2>3 DEF StartedTasks, ThreadTypeOK
    <3>3. \A i, j \in Task : owner'[i] = owner'[j] /\ owner'[j] # NoThread => i = j
      BY <2>1, <2>5 DEF StartedTasks, ThreadTypeOK
    <3>4. QED
      BY <2>2, <3>1, <3>2, <3>3 DEF StartedTasks
  <2>7. QED
    BY <2>2, <2>4, <2>6
<1>3. QED
  BY <1>1, <1>2

\* A step of join_all_threads() starts nothing.
LEMMA NothingStarted ==
  ASSUME StartedTasks, callPc # "idle", callPc' \notin {"idle", "start", "started"},
         UNCHANGED <<owner, taskPc>>, callPc' = "wait" => ~LoopEnd'
  PROVE  StartedTasks'
<1>1. ASSUME NEW k \in Task, owner[k] # NoThread
      PROVE  \E i \in 1..Len(Threads) : owner[k] = Threads[i]
  BY <1>1 DEF StartedTasks
<1>2. QED
  BY <1>1 DEF StartedTasks

\* join_all_threads().
LEMMA JoinKeeps ==
  /\ RepositoryInv
  /\ JoinAll \/ StopOne \/ StopAllDone \/ JoinOne \/ JoinOneReturn \/ JoinAllReturn
  => RepositoryInv'
<1> SUFFICES ASSUME RepositoryInv,
                    JoinAll \/ StopOne \/ StopAllDone \/ JoinOne \/ JoinOneReturn \/ JoinAllReturn
             PROVE  RepositoryInv'
  OBVIOUS
<1> USE ThreadsAssumption
<1>1. CASE JoinAll \/ StopAllDone \/ JoinOneReturn \/ JoinAllReturn
  <2> USE <1>1 DEF JoinAll, StopAllDone, JoinOneReturn, JoinReturn, JoinAllReturn, Leave,
                   threadVars
  <2>1. UNCHANGED threadVars
    OBVIOUS
  <2>2. StartedTasks'
    BY NothingStarted DEF RepositoryInv
  <2>3. RepositoryTypeOK'
    BY DEF RepositoryInv, RepositoryTypeOK, ThreadTypeOK, StartedTasks, LoopEnd
  <2>4. \A i \in 1..Len(Threads) : Stopping(Threads[i]) => (Stopping(Threads[i]))'
    BY <2>1 DEF Stopping
  <2>5. callPc' \in {"join", "wait", "joined"} =>
            \A i \in 1..Len(Threads) : Stopping(Threads[i])
    BY DEF RepositoryInv, RepositoryTypeOK, StoppedThreads, LoopEnd
  <2>6. callPc' = "stop" => position' = 0
    BY DEF RepositoryInv, RepositoryTypeOK, StartedTasks
  <2>7. StoppedThreads'
    BY <2>4, <2>5, <2>6 DEF StoppedThreads
  <2>8. QED
    BY <2>2, <2>3, <2>7 DEF RepositoryInv
<1>2. CASE StopOne
  <2>1. /\ callPc = "stop" /\ callPc' = "stop" /\ position' = position + 1
        /\ ~LoopEnd /\ Stop(Current)
    BY <1>2 DEF StopOne, NextElement
  <2>2. PICK t \in Thread : t = Current /\ t = Threads[position + 1]
    BY <2>1, CurrentThread
  <2>3. /\ ThreadTypeOK' /\ (Stopping(t))'
        /\ \A u \in Thread : Stopping(u) => (Stopping(u))'
    BY <2>1, <2>2, StopKeeps
  <2>4. StartedTasks'
    BY <2>1, NothingStarted DEF Stop, RepositoryInv
  <2>5. position \in Nat /\ position + 1 \in 1..Len(Threads)
    BY <2>1, CurrentThread DEF RepositoryInv, RepositoryTypeOK
  <2>6. \A i \in 1..position' : (Stopping(Threads[i]))'
    <3> SUFFICES ASSUME NEW i \in 1..position' PROVE (Stopping(Threads[i]))'
      OBVIOUS
    <3>1. CASE i = position + 1
      BY <2>2, <2>3, <3>1
    <3>2. CASE i \in 1..position
      <4>1. Threads[i] \in Thread /\ Stopping(Threads[i])
        BY <2>1, <2>5, <3>2 DEF RepositoryInv, StoppedThreads
      <4>2. QED
        BY <2>3, <4>1
    <3>3. QED
      BY <2>1, <2>5, <3>1, <3>2
  <2>7. QED
    BY <2>1, <2>3, <2>4, <2>5, <2>6 DEF RepositoryInv, RepositoryTypeOK, StoppedThreads
<1>3. CASE JoinOne
  <2>1. /\ callPc = "join" /\ callPc' = "wait" /\ position' = position
        /\ ~LoopEnd /\ JoinCall(Current)
    BY <1>3 DEF JoinOne
  <2>2. PICK t \in Thread : t = Current
    BY <2>1, CurrentThread
  <2>3. ThreadTypeOK' /\ \A u \in Thread : Stopping(u) => (Stopping(u))'
    <3>1. CASE Stop(t)
      BY <3>1, StopKeeps
    <3>2. CASE UNCHANGED threadVars
      BY <3>2 DEF threadVars, Stopping, RepositoryInv, RepositoryTypeOK, ThreadTypeOK
    <3>3. QED
      BY <2>1, <2>2, <3>1, <3>2 DEF JoinCall
  <2>4. UNCHANGED <<owner, taskPc>>
    BY <2>1 DEF JoinCall, Stop, threadVars
  <2>5. StartedTasks'
    BY <2>1, <2>4, NothingStarted DEF RepositoryInv, LoopEnd
  <2>6. StoppedThreads'
    BY <2>1, <2>3 DEF RepositoryInv, StoppedThreads
  <2>7. QED
    BY <2>1, <2>3, <2>5, <2>6 DEF RepositoryInv, RepositoryTypeOK
<1>4. QED
  BY <1>1, <1>2, <1>3

\* The tasks: a task that clears the flag is the only one of its thread.
LEMMA TaskKeeps ==
  ASSUME RepositoryInv, NEW k \in Task, TaskStep(k), UNCHANGED <<callPc, position>>
  PROVE  RepositoryInv'
<1> USE DEF RepositoryInv, RepositoryTypeOK, ThreadTypeOK, TaskPc
<1>1. owner[k] # NoThread /\ owner[k] \in Thread
  BY DEF TaskStep, Test, Run, Wake, ClearTerminate, ClearHandle, StartedTasks
<1>2. ThreadTypeOK'
  BY <1>1 DEF TaskStep, Test, Run, Wake, ClearTerminate, ClearHandle
<1>3. StartedTasks'
  <2> USE <1>1 DEF StartedTasks, LoopEnd
  <2>1. CASE Test(k) \/ Run(k) \/ Wake(k)
    BY <2>1 DEF Test, Run, Wake
  <2>2. CASE ClearTerminate(k)
    BY <2>2 DEF ClearTerminate
  <2>3. CASE ClearHandle(k)
    BY <2>3 DEF ClearHandle
  <2>4. QED
    BY <2>1, <2>2, <2>3 DEF TaskStep
<1>4. \A t \in Thread : Stopping(t) => (Stopping(t))'
  <2>1. CASE Test(k) \/ Run(k) \/ Wake(k)
    BY <2>1 DEF Test, Run, Wake, Stopping
  <2>2. CASE ClearTerminate(k)
    BY <1>1, <2>2 DEF ClearTerminate, Stopping, StartedTasks
  <2>3. CASE ClearHandle(k)
    BY <2>3, NoThreadAssumption DEF ClearHandle, Stopping
  <2>4. QED
    BY <2>1, <2>2, <2>3 DEF TaskStep
<1>5. \A i \in 1..Len(Threads) : Threads[i] \in Thread
  BY ThreadsAssumption
<1>6. StoppedThreads'
  BY <1>4, <1>5 DEF StoppedThreads
<1>7. QED
  BY <1>2, <1>3, <1>6

\* shutdown() joins the thread of the server, which is none of the repository's.
LEMMA ShutdownKeeps ==
  ASSUME RepositoryInv, JoinCall(server), UNCHANGED <<callPc, position>>
  PROVE  RepositoryInv'
<1>1. ThreadTypeOK' /\ \A u \in Thread : Stopping(u) => (Stopping(u))'
  BY StopKeeps, MembersAssumption
     DEF JoinCall, threadVars, Stopping, RepositoryInv, RepositoryTypeOK, ThreadTypeOK
<1>2. UNCHANGED <<owner, taskPc>>
  BY DEF JoinCall, Stop, threadVars
<1>3. StartedTasks'
  BY <1>2 DEF RepositoryInv, StartedTasks, LoopEnd
<1>4. \A i \in 1..Len(Threads) : Threads[i] \in Thread
  BY ThreadsAssumption
<1>5. StoppedThreads'
  BY <1>1, <1>4 DEF RepositoryInv, RepositoryTypeOK, StoppedThreads
<1>6. QED
  BY <1>1, <1>3, <1>5 DEF RepositoryInv, RepositoryTypeOK

LEMMA RepositoryUnchanged == RepositoryInv /\ UNCHANGED repositoryVars => RepositoryInv'
BY DEF repositoryVars, threadVars, RepositoryInv, RepositoryTypeOK, ThreadTypeOK,
       StartedTasks, StoppedThreads, Stopping, LoopEnd

-----------------------------------------------------------------------------
(* The main task, the tasks of the other members, and the phone.           *)

LEMMA AppInvInit == Init => AppInv
<1> SUFFICES ASSUME Init PROVE AppInv
  OBVIOUS
<1> USE ThreadsAssumption, MembersAssumption, NoThreadAssumption
        DEF Init, RepositoryInit, ThreadInit, ExInit
<1>1. TypeOK
  <2>1. 0 \in 0..Len(Threads)
    OBVIOUS
  <2>2. QED
    BY <2>1 DEF TypeOK, RepositoryTypeOK, ThreadTypeOK, ExTypeOK, TaskPc, Members, Places
<1>2. RepositoryInv
  BY <1>1 DEF TypeOK, RepositoryInv, StartedTasks, StoppedThreads
<1>3. MainInv
  BY DEF MainInv, ExThreadsFollow, EndedIsIdle, ServerIsBuilt, ServerIsServed, TaskPlace
<1>4. QED
  BY <1>1, <1>2, <1>3 DEF AppInv

\* The constructor.
LEMMA ConstructKeeps == AppInv /\ Construct => AppInv'
<1> SUFFICES ASSUME AppInv, Construct PROVE AppInv'
  OBVIOUS
<1> USE MembersAssumption
        DEF AppInv, MainInv, TypeOK, ExTypeOK, Members, Places, ExThreadsFollow, EndedIsIdle,
            ServerIsBuilt, ServerIsServed, TaskPlace, BeforeTask, Goto, exVars, serverVars,
            taskVars
<1>1. CASE BuildSender
  <2> USE <1>1 DEF BuildSender, New, MakeState, CreateTask, CreateTaskFails, DropState
  <2>1. RepositoryInv'
    BY RepositoryUnchanged
  <2>2. MainInv'
    OBVIOUS
  <2>3. TypeOK'
    BY <2>1 DEF RepositoryInv
  <2>4. QED
    <3> HIDE DEF TypeOK, MainInv
    <3>1. QED
      BY <2>1, <2>2, <2>3
<1>2. CASE BuildDevice
  <2> USE <1>2 DEF BuildDevice, New, MakeState, CreateTask, CreateTaskFails, DropState
  <2>1. RepositoryInv'
    BY RepositoryUnchanged
  <2>2. MainInv'
    OBVIOUS
  <2>3. TypeOK'
    BY <2>1 DEF RepositoryInv
  <2>4. QED
    <3> HIDE DEF TypeOK, MainInv
    <3>1. QED
      BY <2>1, <2>2, <2>3
<1>3. CASE BuildManager \/ BuildServer
  <2> USE <1>3 DEF BuildManager, BuildServer
  <2>1. RepositoryInv'
    BY RepositoryUnchanged
  <2>2. MainInv'
    OBVIOUS
  <2>3. TypeOK'
    BY <2>1 DEF RepositoryInv
  <2>4. QED
    <3> HIDE DEF TypeOK, MainInv
    <3>1. QED
      BY <2>1, <2>2, <2>3
<1>4. CASE CreateTransmission \/ InitInterface \/ Listen \/ StartServer
  <2> USE <1>4 DEF CreateTransmission, InitInterface, Listen, StartServer
  <2>1. RepositoryInv'
    BY RepositoryUnchanged
  <2>2. MainInv'
    OBVIOUS
  <2>3. TypeOK'
    BY <2>1 DEF RepositoryInv
  <2>4. QED
    <3> HIDE DEF TypeOK, MainInv
    <3>1. QED
      BY <2>1, <2>2, <2>3
<1>5. CASE StartMeasuring
  <2> USE <1>5 DEF StartMeasuring
  <2>1. RepositoryInv'
    BY StartKeeps
  <2>2. QED
    BY <2>1 DEF RepositoryInv
<1>6. QED
  BY <1>1, <1>2, <1>3, <1>4, <1>5 DEF Construct

\* The destructor: a member goes when its std_ex::thread has been joined.
LEMMA DestructKeeps == AppInv /\ Destruct => AppInv'
<1> SUFFICES ASSUME AppInv, Destruct PROVE AppInv'
  OBVIOUS
<1> USE MembersAssumption
        DEF AppInv, MainInv, TypeOK, ExTypeOK, Members, Places, ExThreadsFollow, EndedIsIdle,
            ServerIsBuilt, ServerIsServed, TaskPlace, BeforeTask, Goto, exVars, serverVars,
            taskVars
<1>1. CASE Join
  <2> USE <1>1 DEF Join
  <2>1. RepositoryInv'
    BY JoinKeeps
  <2>2. QED
    BY <2>1 DEF RepositoryInv
<1>2. CASE Shutdown
  <2> USE <1>2 DEF Shutdown
  <2>1. RepositoryInv'
    BY ShutdownKeeps
  <2>2. QED
    BY <2>1 DEF RepositoryInv
<1>3. CASE ShutdownReturn
  <2> USE <1>3 DEF ShutdownReturn
  <2>1. RepositoryInv'
    BY RepositoryUnchanged DEF JoinReturn, repositoryVars
  <2>2. QED
    BY <2>1 DEF RepositoryInv
<1>4. CASE EndThreads \/ EndServer \/ EndManager
  <2> USE <1>4 DEF EndThreads, EndServer, EndManager, End
  <2>1. RepositoryInv'
    BY RepositoryUnchanged
  <2>2. MainInv'
    OBVIOUS
  <2>3. TypeOK'
    BY <2>1 DEF RepositoryInv
  <2>4. QED
    <3> HIDE DEF TypeOK, MainInv
    <3>1. QED
      BY <2>1, <2>2, <2>3
<1>5. CASE EndSender \/ EndDevice
  <2> USE <1>5 DEF EndSender, EndDevice, JoinAndEnd, End, ExJoinReturn
  <2>1. RepositoryInv'
    BY RepositoryUnchanged
  <2>2. MainInv'
    OBVIOUS
  <2>3. TypeOK'
    BY <2>1 DEF RepositoryInv
  <2>4. QED
    <3> HIDE DEF TypeOK, MainInv
    <3>1. QED
      BY <2>1, <2>2, <2>3
<1>6. QED
  BY <1>1, <1>2, <1>3, <1>4, <1>5 DEF Destruct

\* A program that goes wild is left as it is.
LEMMA WildKeeps ==
  ASSUME AppInv, NEW what \in {"functor", "manager", "server", "thread"}, GoesWild(what)
  PROVE  AppInv'
<1> USE DEF GoesWild, AppInv
<1>1. RepositoryInv'
  BY RepositoryUnchanged
<1>2. QED
  BY <1>1 DEF RepositoryInv, MainInv, TypeOK, ExTypeOK, ExThreadsFollow, EndedIsIdle,
              ServerIsBuilt, ServerIsServed, TaskPlace, BeforeTask, exVars, serverVars,
              taskVars

\* The tasks of the sender and of the device.
LEMMA ExTaskKeeps == \A x \in ExThread : AppInv /\ ExTask(x) => AppInv'
<1> SUFFICES ASSUME AppInv, NEW x \in ExThread, ExTask(x) PROVE AppInv'
  OBVIOUS
<1>1. CASE UsesFreedFunctor(x) /\ GoesWild("functor")
  BY <1>1, WildKeeps
<1>2. CASE /\ Enter(x) \/ TaskEnds(x) \/ FunctionReturns(x)
           /\ UNCHANGED <<repositoryVars, MainVars, taskVars>>
  <2> USE <1>2 DEF AppInv
  <2>1. RepositoryInv'
    BY RepositoryUnchanged
  <2>2. ExTypeOK'
    BY DEF Enter, TaskEnds, FunctionReturns, TypeOK, ExTypeOK
  <2>3. ExThreadsFollow'
    BY DEF Enter, TaskEnds, FunctionReturns, MainVars, MainInv, TypeOK, ExTypeOK,
           ExThreadsFollow, TaskPlace, BeforeTask
  <2>4. EndedIsIdle'
    BY DEF Enter, TaskEnds, FunctionReturns, MainVars, MainInv, TypeOK, ExTypeOK, EndedIsIdle
  <2>5. ServerIsBuilt' /\ ServerIsServed'
    BY DEF MainVars, MainInv, ServerIsBuilt, ServerIsServed, serverVars, taskVars
  <2>6. QED
    BY <2>1, <2>2, <2>3, <2>4, <2>5
       DEF RepositoryInv, MainInv, MainVars, TypeOK, serverVars, taskVars
<1>3. QED
  BY <1>1, <1>2 DEF ExTask

\* Who runs neither the main task nor a std_ex::thread has to keep the
\* repository's invariant only, if the server's task is not one of his making.
LEMMA MainKeeps ==
  ASSUME AppInv, RepositoryInv', UNCHANGED <<exVars, MainVars>>, link' \in BOOLEAN,
         srv' = srv \/ (srv # "none" /\ srv' \in {"waits", "serves"})
  PROVE  AppInv'
<1> USE DEF AppInv, MainVars, exVars, serverVars
<1>1. MainInv'
  BY DEF MainInv, ExThreadsFollow, EndedIsIdle, ServerIsBuilt, ServerIsServed, TaskPlace,
         BeforeTask
<1>2. TypeOK'
  BY DEF RepositoryInv, TypeOK, ExTypeOK
<1>3. QED
  BY <1>1, <1>2

\* The tasks of the measuring threads and of the server, and the phone.
LEMMA OthersKeep ==
  AppInv /\ (ReaderSignals \/ (\E k \in Task : MeasuringTask(k)) \/ ServerTask \/ Phone) => AppInv'
<1> SUFFICES ASSUME AppInv,
                    ReaderSignals \/ (\E k \in Task : MeasuringTask(k)) \/ ServerTask \/ Phone
             PROVE  AppInv'
  OBVIOUS
<1>1. CASE GoesWild("manager") \/ GoesWild("server") \/ GoesWild("thread")
  BY <1>1, WildKeeps
<1>2. link \in BOOLEAN /\ RepositoryInv
  BY DEF AppInv, TypeOK
<1>3. ASSUME NEW k \in Task, TaskStep(k),
             UNCHANGED <<callPc, position, exVars, MainVars, taskVars>>
      PROVE  AppInv'
  BY <1>2, <1>3, TaskKeeps, MainKeeps DEF taskVars
<1>4. CASE /\ srv \in {"waits", "serves"} /\ srv' \in {"waits", "serves"}
           /\ UNCHANGED <<repositoryVars, exVars, MainVars, link>>
  BY <1>2, <1>4, RepositoryUnchanged, MainKeeps
<1>5. CASE link' = ~link /\ UNCHANGED <<repositoryVars, exVars, MainVars, srv>>
  BY <1>2, <1>5, RepositoryUnchanged, MainKeeps
<1>6. CASE \E k \in Task : MeasuringTask(k)
  BY <1>1, <1>3, <1>6 DEF MeasuringTask
<1>7. CASE ServerTask
  BY <1>1, <1>4, <1>7 DEF ServerTask
<1>8. CASE Phone
  BY <1>1, <1>5, <1>8 DEF Phone
<1>9. QED
  BY <1>1, <1>6, <1>7, <1>8 DEF ReaderSignals

LEMMA AppInvNext == AppInv /\ [Next]_appVars => AppInv'
<1>1. AppInv /\ UNCHANGED appVars => AppInv'
  BY RepositoryUnchanged
     DEF appVars, AppInv, RepositoryInv, MainInv, TypeOK, ExTypeOK, ExThreadsFollow,
         EndedIsIdle, ServerIsBuilt, ServerIsServed, TaskPlace, BeforeTask, exVars,
         serverVars, taskVars
<1>2. QED
  BY <1>1, ConstructKeeps, DestructKeeps, ExTaskKeeps, OthersKeep DEF Next

-----------------------------------------------------------------------------
(* The theorems.                                                           *)

LEMMA AppInvCorrect == Spec => []AppInv
BY AppInvInit, AppInvNext, PTL DEF Spec

\* The state of the application has its types; the loops of the repository stay
\* within its list (start_all_threads, join_all_threads).
THEOREM ApplicationTypeCorrect == Spec => []TypeOK
<1>1. AppInv => TypeOK
  BY DEF AppInv
<1>2. QED
  BY <1>1, AppInvCorrect, PTL

\* When join_all_threads() has returned, every task there is is stopping or
\* will find its flag set, for any number of threads and tasks
\* (thread_repository.cpp:20-35, thread.cpp:82-103).
THEOREM JoinedIsStoppingCorrect == Spec => []JoinedIsStopping
<1>1. AppInv => JoinedIsStopping
  <2> SUFFICES ASSUME AppInv, callPc = "joined", NEW k \in Task, owner[k] # NoThread
               PROVE  terminate[owner[k]] \/ taskPc[k] = "clearHandle"
    BY DEF JoinedIsStopping
  <2>1. PICK i \in 1..Len(Threads) : owner[k] = Threads[i]
    BY DEF AppInv, RepositoryInv, StartedTasks
  <2>2. Stopping(Threads[i])
    BY DEF AppInv, RepositoryInv, StoppedThreads
  <2>3. QED
    BY <2>1, <2>2 DEF Stopping
<1>2. QED
  BY <1>1, AppInvCorrect, PTL

\* Neither the device nor the sender is destroyed while a task runs its methods
\* (std_ex::thread::join).
THEOREM EndedIsIdleCorrect == Spec => []EndedIsIdle
<1>1. AppInv => EndedIsIdle
  BY DEF AppInv, MainInv
<1>2. QED
  BY <1>1, AppInvCorrect, PTL

\* The server serves a phone only when startup() has made what a session needs
\* (obd_ble_interface.cpp:163-179).
THEOREM ServerIsServedCorrect == Spec => []ServerIsServed
<1>1. AppInv => ServerIsServed
  BY DEF AppInv, MainInv
<1>2. QED
  BY <1>1, AppInvCorrect, PTL
=============================================================================
