-------------------------- MODULE ThreadRepository --------------------------
(***************************************************************************)
(* ThreadRepository over CyclicThread objects: the loops of                *)
(* start_all_threads() and join_all_threads(), statement by statement.     *)
(* Application extends it with the task that calls them.                   *)
(***************************************************************************)
EXTENDS CyclicThread, Sequences

CONSTANT Threads    \* m_threads, in the order add_thread was called

ASSUME ThreadsAssumption == Threads \in Seq(Thread)

VARIABLES
    callPc,     \* which operation of the repository runs
    position    \* how many elements of m_threads its loop has done

repositoryVars == <<threadVars, callPc, position>>

RepositoryTypeOK ==
    /\ ThreadTypeOK
    /\ callPc \in {"idle", "start", "started", "stop", "join", "wait", "joined"}
    /\ position \in 0..Len(Threads)

RepositoryInit == ThreadInit /\ callPc = "idle" /\ position = 0

Current == Threads[position + 1]
LoopEnd == position = Len(Threads)

\* Go on with the next element, or leave the loop for pc.
NextElement == position' = position + 1 /\ UNCHANGED callPc
\* Mutants: the next loop goes on where this one has ended, or behind it.
LeaveAtEnd(pc) == LoopEnd /\ callPc' = pc /\ UNCHANGED <<position, threadVars>>
LeaveBehind(pc) ==
    LoopEnd /\ position' = position + 1 /\ callPc' = pc /\ UNCHANGED threadVars

Leave(pc) == LoopEnd /\ position' = 0 /\ callPc' = pc /\ UNCHANGED threadVars

-----------------------------------------------------------------------------
StartAll ==
    /\ callPc = "idle"
    /\ callPc' = "start"
    /\ UNCHANGED <<threadVars, position>>

StartOne == callPc = "start" /\ ~LoopEnd /\ StartTask(Current) /\ NextElement
StartOneFails == callPc = "start" /\ ~LoopEnd /\ StartFails /\ NextElement
StartAllReturn == callPc = "start" /\ Leave("started")

JoinAll ==
    /\ callPc = "started"
    /\ callPc' = "stop"
    /\ UNCHANGED <<threadVars, position>>

StopOne == callPc = "stop" /\ ~LoopEnd /\ Stop(Current) /\ NextElement
StopAllDone == callPc = "stop" /\ Leave("join")

\* join() of the next thread: the stop request, then the wait for the task.
JoinOne ==
    /\ callPc = "join" /\ ~LoopEnd
    /\ JoinCall(Current)
    /\ callPc' = "wait"
    /\ UNCHANGED position

JoinOneReturn ==
    /\ callPc = "wait"
    /\ JoinReturn(Current)
    /\ callPc' = "join" /\ position' = position + 1

JoinAllReturn == callPc = "join" /\ Leave("joined")

-----------------------------------------------------------------------------
(* Properties.                                                             *)

\* A stop request is never lost: once join_all_threads() has returned, every
\* task of the repository is stopping, or will find the flag set.
JoinedIsStopping ==
    callPc = "joined" =>
        \A k \in Task : owner[k] # NoThread =>
            terminate[owner[k]] \/ taskPc[k] = "clearHandle"

\* "Wait for all threads to have finished" (thread_repository.cpp:29): when
\* join_all_threads() has returned, there are no tasks left.
JoinedMeansFinished == callPc = "joined" => \A t \in Thread : Live(t) = {}
=============================================================================
