---------------------------- MODULE StdExThread -----------------------------
(***************************************************************************)
(* std_ex::thread: an object that runs a function in a FreeRTOS task.  Its *)
(* constructor puts the function into a functor on the heap, hands a       *)
(* pointer to the functor to the new task, and destroys the functor when   *)
(* it returns.  The task uses the functor twice, without a copy: to call   *)
(* the function, and after it to find the object whose flag join() waits   *)
(* for.  A task that comes too late uses freed memory: it may still work,  *)
(* or the program is lost.                                                 *)
(*                                                                         *)
(* The module has the operations of an object and the steps of its task;   *)
(* the modules that use such threads extend it with the task that          *)
(* constructs and destroys them.                                           *)
(***************************************************************************)
EXTENDS Integers

CONSTANT ExThread   \* the std_ex::thread objects

VARIABLES
    functor,    \* functor[x]: what the pointer of the task points to
    exTask,     \* exTask[x]: where the task is in _State_impl::_M_run
    terminated  \* terminated[x]: the flag _M_bo_thread_terminated

exVars == <<functor, exTask, terminated>>

ExTypeOK ==
    /\ functor \in [ExThread -> {"none", "live", "freed"}]
    /\ exTask \in [ExThread -> {"none", "ready", "runs", "returned", "ended"}]
    /\ terminated \in [ExThread -> BOOLEAN]

\* The flag of an object that is not constructed yet has no value; FALSE
\* stands for it.
ExInit ==
    /\ functor = [x \in ExThread |-> "none"]
    /\ exTask = [x \in ExThread |-> "none"]
    /\ terminated = [x \in ExThread |-> FALSE]

-----------------------------------------------------------------------------
(* The constructor, up to the call of xTaskCreate, that call, and the      *)
(* return with which the unique_ptr destroys the functor.                  *)

\* Mutant: the flag is not set, and the new object has any value in it.
MakeStateOnly(x) ==
    /\ functor' = [functor EXCEPT ![x] = "live"]
    /\ \E flag \in BOOLEAN : terminated' = [terminated EXCEPT ![x] = flag]
    /\ UNCHANGED exTask

MakeState(x) ==
    /\ functor' = [functor EXCEPT ![x] = "live"]
    /\ terminated' = [terminated EXCEPT ![x] = FALSE]
    /\ UNCHANGED exTask

CreateTask(x) ==
    /\ exTask' = [exTask EXCEPT ![x] = "ready"]
    /\ UNCHANGED <<functor, terminated>>

CreateTaskFails(x) ==
    /\ terminated' = [terminated EXCEPT ![x] = TRUE]
    /\ UNCHANGED <<functor, exTask>>

\* Mutant: the flag is reset behind xTaskCreate, by when the task may have
\* ended.
DropStateAndReset(x) ==
    /\ functor' = [functor EXCEPT ![x] = "freed"]
    /\ terminated' = [terminated EXCEPT ![x] = exTask[x] = "none"]
    /\ UNCHANGED exTask

DropState(x) ==
    /\ functor' = [functor EXCEPT ![x] = "freed"]
    /\ UNCHANGED <<exTask, terminated>>

\* The end of the wait of join().
ExJoinReturn(x) == terminated[x] /\ UNCHANGED exVars

-----------------------------------------------------------------------------
(* _State_impl::_M_run, the steps of the task.                             *)

\* _M_func(): also the outcome of a late call that finds the functor intact.
Enter(x) ==
    /\ exTask[x] = "ready"
    /\ exTask' = [exTask EXCEPT ![x] = "runs"]
    /\ UNCHANGED <<functor, terminated>>

\* The function returns.
FunctionReturns(x) ==
    /\ exTask[x] = "runs"
    /\ exTask' = [exTask EXCEPT ![x] = "returned"]
    /\ UNCHANGED <<functor, terminated>>

\* _M_owning_thread->_M_bo_thread_terminated = true; vTaskDelete(nullptr);
TaskEnds(x) ==
    /\ exTask[x] = "returned"
    /\ exTask' = [exTask EXCEPT ![x] = "ended"]
    /\ terminated' = [terminated EXCEPT ![x] = TRUE]
    /\ UNCHANGED functor

\* The task is about to use a functor that does not exist any more.
UsesFreedFunctor(x) == exTask[x] \in {"ready", "returned"} /\ functor[x] = "freed"
=============================================================================
