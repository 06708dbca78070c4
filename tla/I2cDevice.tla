----------------------------- MODULE I2cDevice ------------------------------
(***************************************************************************)
(* OBDIICnCI2CDiagnosisDevice and its I2CInterface, a slave: the task that *)
(* reads the bus is started by begin(), in the constructor of the device,  *)
(* before onReceive() has stored the function it calls, and it is stopped  *)
(* and joined by the destructor of the interface, when the other members   *)
(* of the device are gone.                                                 *)
(*                                                                         *)
(* A std::function is assigned in several stores: between the one that     *)
(* makes it "not null" and the one with the code to call, a call may go    *)
(* anywhere.  After that, and after the use of a freed functor, nothing is *)
(* known of the program: the model stops.                                  *)
(***************************************************************************)
EXTENDS StdExThread

CONSTANT reader     \* the std_ex::thread of the interface

ASSUME ReaderAssumption == reader \in ExThread

VARIABLES
    devicePc,   \* where the task is that owns the device
    stop,       \* bo_stop_thread
    callback,   \* pf_receive_callback
    readPc,     \* where the reading task is in v_slave_read_thread_main
    astray      \* the place a wild jump was made from

i2cVars == <<exVars, devicePc, stop, callback, readPc, astray>>

I2cTypeOK ==
    /\ ExTypeOK
    /\ devicePc \in {"begin", "state", "task", "return", "onReceive",
                     "assign", "use", "stop", "join", "ended"}
    /\ stop \in BOOLEAN
    /\ callback \in {"null", "half", "set", "gone"}
    /\ readPc \in {"test", "read", "check", "call"}
    /\ astray \in {"no", "functor", "callback"}

\* The flag has no value before begin().
I2cInit ==
    /\ ExInit
    /\ devicePc = "begin"
    /\ stop \in BOOLEAN
    /\ callback = "null"
    /\ readPc = "test"
    /\ astray = "no"

Goes(from, to) == astray = "no" /\ devicePc = from /\ devicePc' = to

-----------------------------------------------------------------------------
(* The constructor of the device.                                          *)

\* begin(): the driver is installed, and what that returns is not looked at.
I2cBegin ==
    /\ Goes("begin", "state")
    /\ stop' = FALSE
    /\ UNCHANGED <<exVars, callback, readPc, astray>>

\* The task is created, if there is memory for it.
I2cNewThread ==
    /\ \/ Goes("state", "task") /\ MakeState(reader)
       \/ Goes("task", "return") /\ (CreateTask(reader) \/ CreateTaskFails(reader))
       \/ Goes("return", "onReceive") /\ DropState(reader)
    /\ UNCHANGED <<stop, callback, readPc, astray>>

\* onReceive(): the function is not null any more, ...
I2cOnReceive ==
    /\ Goes("onReceive", "assign")
    /\ callback' = "half"
    /\ UNCHANGED <<exVars, stop, readPc, astray>>

\* ... and has its code.
I2cAssigned ==
    /\ Goes("assign", "use")
    /\ callback' = "set"
    /\ UNCHANGED <<exVars, stop, readPc, astray>>

-----------------------------------------------------------------------------
(* The destructor.                                                         *)

\* thread_diagnosis_reader is null; the list and the error codes are destroyed
\* while the task still runs.
I2cEndMembers ==
    /\ Goes("use", "stop")
    /\ UNCHANGED <<exVars, stop, callback, readPc, astray>>

\* Mutant: the task is not told to stop.
I2cStopNobody ==
    /\ Goes("stop", "join")
    /\ UNCHANGED <<exVars, stop, callback, readPc, astray>>

\* ~I2CInterface(): the task is told to stop ...
I2cStop ==
    /\ Goes("stop", "join")
    /\ stop' = TRUE
    /\ UNCHANGED <<exVars, callback, readPc, astray>>

\* Mutant: the interface does not wait for its task.
I2cDoNotJoin ==
    /\ Goes("join", "ended")
    /\ callback' = "gone"
    /\ UNCHANGED <<exVars, stop, readPc, astray>>

\* ... and joined; the function is destroyed with the other members.
I2cJoin ==
    /\ Goes("join", "ended")
    /\ ExJoinReturn(reader)
    /\ callback' = "gone"
    /\ UNCHANGED <<stop, readPc, astray>>

I2cOwner == \/ I2cBegin \/ I2cNewThread \/ I2cOnReceive
            \/ I2cAssigned \/ I2cEndMembers \/ I2cStop \/ I2cJoin
-----------------------------------------------------------------------------
(* v_slave_read_thread_main, in the task of the interface.                 *)

\* A step of the loop, from one place to the next.
Reads(from, to) ==
    /\ astray = "no"
    /\ exTask[reader] = "runs"
    /\ readPc = from /\ readPc' = to
    /\ UNCHANGED <<exVars, devicePc, stop, callback>>

I2cTest == ~stop /\ Reads("test", "read") /\ UNCHANGED astray

\* Bytes arrived; or none did for 10 ms, or the driver has an error.
I2cRead == (Reads("read", "check") \/ Reads("read", "test")) /\ UNCHANGED astray

I2cCheck ==
    /\ \/ callback = "null" /\ Reads("check", "test")
       \/ callback # "null" /\ Reads("check", "call")
    /\ UNCHANGED astray

\* on_i2c_receive of the device, which traces a byte and uses no member of it.
I2cCall ==
    /\ Reads("call", "test")
    /\ astray' = IF callback = "set" THEN "no" ELSE "callback"

\* The loop ends; the task, late or not, begins and ends as every such task.
I2cTask ==
    \/ /\ astray = "no"
       /\ Enter(reader) \/ TaskEnds(reader)
          \/ (stop /\ readPc = "test" /\ FunctionReturns(reader))
       /\ UNCHANGED <<devicePc, stop, callback, readPc, astray>>
    \/ /\ astray = "no" /\ UsesFreedFunctor(reader)
       /\ astray' = "functor"
       /\ UNCHANGED <<exVars, devicePc, stop, callback, readPc>>

I2cReader == I2cTest \/ I2cRead \/ I2cCheck \/ I2cCall \/ I2cTask

I2cNext == I2cOwner \/ I2cReader

I2cSpec == I2cInit /\ [][I2cNext]_i2cVars

-----------------------------------------------------------------------------
(* Properties.                                                             *)

\* The interface ends only when its task is out of it, and a received message
\* leads the program astray only in the one moment in which onReceive() is
\* assigning the function: not before, when there is none, and not after, when
\* it is being destroyed.  (i2c_interface.cpp:64-72, 102-105, 218-238.)
ReaderIsOwned ==
    /\ exTask[reader] \in {"ready", "runs", "returned"} => devicePc # "ended"
    /\ astray = "callback" => devicePc = "assign"

\* Why: a task is created once at most, join() waits for the end of it, and the
\* callback follows the places of the device.
TaskFollowsFlag ==
    /\ devicePc \in {"begin", "state", "task"} =>
            exTask[reader] = "none" /\ ~terminated[reader]
    /\ terminated[reader] => exTask[reader] \in {"none", "ended"}

CallbackFollowsDevice ==
    /\ devicePc \in {"begin", "state", "task", "return", "onReceive"} <=> callback = "null"
    /\ devicePc = "assign" <=> callback = "half"
    /\ devicePc = "ended" <=> callback = "gone"
    /\ readPc = "call" => callback # "null"

I2cInv == I2cTypeOK /\ TaskFollowsFlag /\ CallbackFollowsDevice /\ ReaderIsOwned

\* The destructor comes to its end, whatever the bus does, whether the task
\* could be created or not: it is at most a read away from its test.
\* (i2c_interface.cpp:64-72.)
DestructionEnds == devicePc = "stop" ~> (devicePc = "ended" \/ astray # "no")
=============================================================================
