---------------------------- MODULE Application -----------------------------
(***************************************************************************)
(* The life of a DiagnosisReaderApplication: the main task constructs the  *)
(* members, starts the tasks of the program and may destroy everything     *)
(* again, while the tasks run.                                             *)
(*                                                                         *)
(*   sender   OBDIICnCI2CDummySender, a std_ex::thread                     *)
(*   device   OBDIICnCUARTDiagnosisDevice, a std_ex::thread (the reader)   *)
(*   manager  CommunicationManager, which listens to the device            *)
(*   server   BLEOBDDataServer with OBDServerThread, a Thread              *)
(*   threads  the ThreadRepository with the measuring CyclicThreads        *)
(*                                                                         *)
(* A member lives from its constructor on to its destructor, in `alive'.   *)
(* A task that uses a member, a thread object or a functor after its end   *)
(* may do anything: the model says so in `wild' and stops.                 *)
(***************************************************************************)
EXTENDS ThreadRepository, StdExThread

CONSTANT server     \* the Thread object of the BLE server

ASSUME MembersAssumption ==
    /\ ExThread = {"sender", "device"}      \* the members that have one
    /\ server \in Thread
    /\ \A i \in 1..Len(Threads) : Threads[i] # server
    /\ \A i, j \in 1..Len(Threads) : Threads[i] = Threads[j] => i = j

VARIABLES
    mainPc,     \* what the main task does next
    alive,      \* the members that exist
    connected,  \* the manager's handler is connected to the device's signal
    running,    \* server_is_running
    txThread,   \* the server has a transmission thread object
    advertised, \* init_interface() has been called: a phone may connect
    listening,  \* the handler for received commands is connected
    link,       \* a phone is connected
    srv,        \* the task of the server: waiting for a phone, or serving it
    wild        \* what was used after its end

serverVars == <<running, txThread, advertised, listening>>
taskVars == <<link, srv>>
appVars == <<repositoryVars, exVars, mainPc, alive, connected, serverVars,
             taskVars, wild>>

Members == {"sender", "device", "manager", "server", "threads"}

\* The places of the main task, in the order it comes to them.
Places == {"sender", "senderTask", "senderReturn",
           "device", "deviceTask", "deviceReturn", "manager",
           "server", "startup", "interface", "listen", "serverTask", "measure",
           "loop",
           "join", "shutdown", "shutdownWait", "endThreads", "endServer",
           "endManager", "endSender", "endDevice", "ended"}

TypeOK ==
    /\ RepositoryTypeOK
    /\ ExTypeOK
    /\ mainPc \in Places
    /\ alive \in SUBSET Members
    /\ {connected, running, txThread, advertised, listening, link} \subseteq BOOLEAN
    /\ srv \in {"none", "waits", "serves"}
    /\ wild \in {"no", "functor", "manager", "server", "thread"}

Init ==
    /\ RepositoryInit
    /\ ExInit
    /\ mainPc = "sender"
    /\ alive = {"threads"}      \* its constructor has nothing to do
    /\ connected = FALSE /\ running = FALSE /\ txThread = FALSE
    /\ advertised = FALSE /\ listening = FALSE /\ link = FALSE
    /\ srv = "none"
    /\ wild = "no"

\* A program that has gone wild has no steps.
Sane == wild = "no"

\* The main task goes on to the place behind the present one.
Goto(from, to) == Sane /\ mainPc = from /\ mainPc' = to /\ UNCHANGED wild

-----------------------------------------------------------------------------
(* The constructor.                                                        *)

\* The constructor of x makes a std_ex::thread as its last statement, in
\* three steps: the functor, xTaskCreate, and the return.
New(x, at, task, return, next) ==
    /\ \/ Goto(at, task) /\ MakeState(x) /\ alive' = alive \cup {x}
       \/ Goto(task, return) /\ CreateTask(x) /\ UNCHANGED alive
       \/ Goto(task, return) /\ CreateTaskFails(x) /\ UNCHANGED alive
       \/ Goto(return, next) /\ DropState(x) /\ UNCHANGED alive
    /\ UNCHANGED <<repositoryVars, connected, serverVars, taskVars>>

BuildSender == New("sender", "sender", "senderTask", "senderReturn", "device")
BuildDevice == New("device", "device", "deviceTask", "deviceReturn", "manager")

\* The manager connects its handler; connect() has nothing to do for this
\* device, and nobody reads is_connected.
BuildManager ==
    /\ Goto("manager", "server")
    /\ alive' = alive \cup {"manager"}
    /\ connected' = TRUE
    /\ UNCHANGED <<repositoryVars, exVars, serverVars, taskVars>>

BuildServer ==
    /\ Goto("server", "startup")
    /\ alive' = alive \cup {"server"}
    /\ UNCHANGED <<repositoryVars, exVars, connected, serverVars, taskVars>>

\* startup(), which is called once: the transmission thread object, ...
CreateTransmission ==
    /\ Goto("startup", "interface")
    /\ ~running
    /\ running' = TRUE /\ txThread' = TRUE
    /\ UNCHANGED <<repositoryVars, exVars, alive, connected, advertised, listening, taskVars>>

\* Mutant: the task is started when the hardware is ready, before anyone
\* listens to the phone.
InitInterfaceAndStart ==
    /\ Goto("interface", "listen")
    /\ advertised' = TRUE
    /\ srv' = "waits"
    /\ UNCHANGED <<repositoryVars, exVars, alive, connected, running, txThread, listening, link>>

\* ... the BLE hardware, ...
InitInterface ==
    /\ Goto("interface", "listen")
    /\ advertised' = TRUE
    /\ UNCHANGED <<repositoryVars, exVars, alive, connected, running, txThread, listening, taskVars>>

\* ... the handler for received commands, ...
Listen ==
    /\ Goto("listen", "serverTask")
    /\ listening' = TRUE
    /\ UNCHANGED <<repositoryVars, exVars, alive, connected, running, txThread, advertised, taskVars>>

\* ... and the task, if there is memory for it.
StartServer ==
    /\ Goto("serverTask", "measure")
    /\ srv' \in {"none", "waits"}
    /\ UNCHANGED <<repositoryVars, exVars, alive, connected, serverVars, link>>

\* The measuring threads; the items of interest are set, but not asked for.
StartMeasuring ==
    /\ \/ Goto("measure", "measure") /\ (StartAll \/ StartOne \/ StartOneFails)
       \/ Goto("measure", "loop") /\ StartAllReturn
    /\ UNCHANGED <<exVars, alive, connected, serverVars, taskVars>>

-----------------------------------------------------------------------------
(* The destructor, and after it those of the members in reverse order.     *)

\* The program may delete the application; the sketch has no code for it.
Join ==
    /\ \/ Goto("loop", "join") /\ JoinAll
       \/ Goto("join", "join") /\ (StopOne \/ StopAllDone \/ JoinOne \/ JoinOneReturn)
       \/ Goto("join", "shutdown") /\ JoinAllReturn
    /\ UNCHANGED <<exVars, alive, connected, serverVars, taskVars>>

\* shutdown(): join() of the server thread, whose task looks at no flag.
Shutdown ==
    /\ Goto("shutdown", "shutdownWait")
    /\ running
    /\ JoinCall(server)
    /\ UNCHANGED <<callPc, position, exVars, alive, connected, serverVars, taskVars>>

ShutdownReturn ==
    /\ Goto("shutdownWait", "endThreads")
    /\ JoinReturn(server)
    /\ running' = FALSE
    /\ UNCHANGED <<callPc, position, exVars, alive, connected, txThread, advertised, listening, taskVars>>

\* A member that does not wait for anything.  The handler of the manager stays
\* connected.  The thread objects of a repository or a server go with it: their
\* destructors would join a task with a handle, and none has one.
End(name, at, next) ==
    /\ Goto(at, next)
    /\ alive' = alive \ {name}
    /\ UNCHANGED <<repositoryVars, exVars, connected, serverVars, taskVars>>

\* A member that joins its std_ex::thread first.
JoinAndEnd(x, at, next) == ExJoinReturn(x) /\ End(x, at, next)

EndThreads == End("threads", "endThreads", "endServer")
EndServer == End("server", "endServer", "endManager")
EndManager == End("manager", "endManager", "endSender")
EndSender == JoinAndEnd("sender", "endSender", "endDevice")
EndDevice == JoinAndEnd("device", "endDevice", "ended")

Construct == \/ BuildSender \/ BuildDevice \/ BuildManager \/ BuildServer
             \/ CreateTransmission \/ InitInterface \/ Listen \/ StartServer
             \/ StartMeasuring

Destruct == \/ Join \/ Shutdown \/ ShutdownReturn \/ EndThreads \/ EndServer
            \/ EndManager \/ EndSender \/ EndDevice

-----------------------------------------------------------------------------
(* The tasks.                                                              *)

GoesWild(what) ==
    /\ Sane
    /\ wild' = what
    /\ UNCHANGED <<repositoryVars, exVars, mainPc, alive, connected, serverVars, taskVars>>

MainVars == <<mainPc, alive, connected, serverVars, wild>>

\* The reader's function never returns.  That of the sender returns at once:
\* `this-bo_terminate == false' is a pointer compared with null.
ExTask(x) ==
    \/ /\ Sane
       /\ Enter(x) \/ TaskEnds(x) \/ (x = "sender" /\ FunctionReturns(x))
       /\ UNCHANGED <<repositoryVars, MainVars, taskVars>>
    \/ UsesFreedFunctor(x) /\ GoesWild("functor")

\* A data line that is read calls the handler, once there is one; what it does
\* while the manager exists is in ObdDataPipeline.
ReaderSignals ==
    /\ exTask["device"] = "runs" /\ connected /\ "manager" \notin alive
    /\ GoesWild("manager")

MeasuringTask(k) ==
    \/ /\ Sane /\ "threads" \in alive
       /\ TaskStep(k)
       /\ UNCHANGED <<callPc, position, exVars, MainVars, taskVars>>
    \/ taskPc[k] # "none" /\ "threads" \notin alive /\ GoesWild("thread")

\* The server thread: it waits for a phone and serves it, for ever.
ServerTask ==
    \/ /\ Sane /\ "server" \in alive
       /\ \/ srv = "waits" /\ link /\ srv' = "serves"
          \/ srv = "serves" /\ srv' = "waits"
       /\ UNCHANGED <<repositoryVars, exVars, MainVars, link>>
    \/ srv # "none" /\ "server" \notin alive /\ GoesWild("server")

\* A phone comes and goes, from when the tool is advertised.  What it writes
\* is given to the server, also to one that is gone.
Phone ==
    \/ /\ Sane /\ advertised
       /\ link' = ~link
       /\ UNCHANGED <<repositoryVars, exVars, MainVars, srv>>
    \/ link /\ listening /\ "server" \notin alive /\ GoesWild("server")

Next == \/ Construct \/ Destruct
        \/ \E x \in ExThread : ExTask(x)
        \/ ReaderSignals
        \/ \E k \in Task : MeasuringTask(k)
        \/ ServerTask
        \/ Phone

Spec == Init /\ [][Next]_appVars

\* FreeRTOS runs every task.  Nothing makes the program end (Join), a phone
\* come (Phone), or a freed functor or member do harm.
FairSpec ==
    /\ Spec
    /\ WF_appVars(Construct \/ (mainPc # "loop" /\ Destruct))
    /\ \A x \in ExThread : WF_appVars(ExTask(x))

-----------------------------------------------------------------------------
(* Properties.                                                             *)

\* The server serves a phone only when what a session needs is there: somebody
\* listens to the phone's commands, and there is a thread to start.
\* (startup: obd_ble_interface.cpp:163-179.)
ServerIsServed == srv # "none" => listening /\ txThread /\ advertised

\* join() of a std_ex::thread, unlike the one of Thread, does wait: neither the
\* device nor the sender is destroyed while a task runs its methods.
EndedIsIdle ==
    \A x \in ExThread :
        exTask[x] \in {"ready", "runs", "returned"} => x \in alive

\* The destructor of the sender comes to its end, whether the task could be
\* created or not, and whenever it ended.
SenderIsJoined == mainPc = "endSender" ~> (mainPc = "endDevice" \/ wild # "no")
=============================================================================
