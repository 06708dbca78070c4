---------------------------- MODULE CyclicThread ----------------------------
(***************************************************************************)
(* Thread and CyclicThread: an object that starts FreeRTOS tasks, asks     *)
(* them to stop with the flag terminate, and has a member task_handle that *)
(* join() watches.  start_task() stores the handle of the new task in a    *)
(* local variable of the same name, so the member stays nullptr.           *)
(*                                                                         *)
(* The module has the steps of a task and the operations of an object; the *)
(* modules that use threads extend it with the task that calls them.       *)
(***************************************************************************)
EXTENDS Integers, FiniteSets

CONSTANTS
    Thread,     \* the thread objects
    Task,       \* the FreeRTOS tasks there can be at one time
    NoThread    \* the owner of a task that does not exist

ASSUME NoThreadAssumption == NoThread \notin Thread

VARIABLES
    terminate,  \* terminate[t]: the object's flag
    handle,     \* handle[t]: the member task_handle is not nullptr
    taskPc,     \* where a task is in CyclicThread::main
    owner       \* the object a task runs for

threadVars == <<terminate, handle, taskPc, owner>>

TaskPc == {"none", "test", "run", "sleep", "clearTerminate", "clearHandle"}

ThreadTypeOK ==
    /\ terminate \in [Thread -> BOOLEAN]
    /\ handle \in [Thread -> BOOLEAN]
    /\ taskPc \in [Task -> TaskPc]
    /\ owner \in [Task -> Thread \cup {NoThread}]

ThreadInit ==
    /\ terminate = [t \in Thread |-> FALSE]
    /\ handle = [t \in Thread |-> FALSE]
    /\ taskPc = [k \in Task |-> "none"]
    /\ owner = [k \in Task |-> NoThread]

\* The tasks of an object, those it has been told to stop included.
Live(t) == {k \in Task : owner[k] = t}

-----------------------------------------------------------------------------
(* Operations of an object.                                                *)

\* start(): xTaskCreate, with the handle of the task in a local variable.
StartTask(t) ==
    \E k \in Task :
        /\ taskPc[k] = "none"
        /\ taskPc' = [taskPc EXCEPT ![k] = "test"]
        /\ owner' = [owner EXCEPT ![k] = t]
        /\ UNCHANGED <<terminate, handle>>

\* start() when xTaskCreate has no memory left: its result is not looked at.
StartFails == UNCHANGED threadVars

Stop(t) ==
    /\ terminate' = [terminate EXCEPT ![t] = TRUE]
    /\ UNCHANGED <<handle, taskPc, owner>>

\* The first half of join(): stop() unless the flag is set.  A task that has
\* ended has cleared the flag, and then it is set again with no task to see it.
JoinCall(t) == IF terminate[t] THEN UNCHANGED threadVars ELSE Stop(t)

\* The end of the wait of join().
JoinReturn(t) == ~handle[t] /\ UNCHANGED threadVars

-----------------------------------------------------------------------------
(* CyclicThread::main, the steps of a task.                                *)

\* while (this->terminate == false)
Test(k) ==
    /\ taskPc[k] = "test"
    /\ taskPc' = [taskPc EXCEPT ![k] =
                    IF terminate[owner[k]] THEN "clearTerminate" ELSE "run"]
    /\ UNCHANGED <<terminate, handle, owner>>

Run(k) ==
    /\ taskPc[k] = "run"
    /\ taskPc' = [taskPc EXCEPT ![k] = "sleep"]
    /\ UNCHANGED <<terminate, handle, owner>>

Wake(k) ==
    /\ taskPc[k] = "sleep"
    /\ taskPc' = [taskPc EXCEPT ![k] = "test"]
    /\ UNCHANGED <<terminate, handle, owner>>

\* this->terminate = false;
ClearTerminate(k) ==
    /\ taskPc[k] = "clearTerminate"
    /\ terminate' = [terminate EXCEPT ![owner[k]] = FALSE]
    /\ taskPc' = [taskPc EXCEPT ![k] = "clearHandle"]
    /\ UNCHANGED <<handle, owner>>

\* this->task_handle = nullptr; vTaskDelete(nullptr);
ClearHandle(k) ==
    /\ taskPc[k] = "clearHandle"
    /\ handle' = [handle EXCEPT ![owner[k]] = FALSE]
    /\ taskPc' = [taskPc EXCEPT ![k] = "none"]
    /\ owner' = [owner EXCEPT ![k] = NoThread]
    /\ UNCHANGED terminate

TaskStep(k) == Test(k) \/ Run(k) \/ Wake(k) \/ ClearTerminate(k) \/ ClearHandle(k)
=============================================================================
