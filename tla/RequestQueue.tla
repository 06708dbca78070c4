---------------------------- MODULE RequestQueue ----------------------------
(***************************************************************************)
(* BLESendRequestQueue: application threads put commands for the client    *)
(* into a queue, and wait for the reply if they want one; the server       *)
(* thread, in every round of its session loop, sends what is queued.       *)
(*                                                                         *)
(* All waiting callers share one atomic flag,                              *)
(* m_bo_current_request_reply_received.  The server holds the queue's      *)
(* mutex for as long as it drains the queue, the waits for the replies     *)
(* included.  A caller's wait and the server's wait for its reply have the *)
(* same timeout, but the second one starts later.  Callers need no session *)
(* to queue a command, and the queue is not emptied when a session ends:   *)
(* what is left is sent in the next one, to whoever the client is then.    *)
(***************************************************************************)
EXTENDS Integers, Sequences, SequencesExt

CONSTANTS
    Caller,     \* the threads that use the queue
    MaxCalls,   \* bound: the calls each of them makes
    NoRequest   \* the server thread has no request in hand

\* A request: who has made it, the number of the call, and whether a reply is
\* wanted (send_command_and_wait_for_reply) or not (send_command).
Request == [from : Caller, call : 1..MaxCalls, wait : BOOLEAN]

ASSUME CallsAssumption == MaxCalls \in Nat /\ NoRequest \notin Request

VARIABLES
    queue,      \* m_ble_request_queue
    mutex,      \* the owner of m_ble_requeust_queue_mutex
    replyFlag,  \* m_bo_current_request_reply_received
    callPc,     \* where a caller is
    calls,      \* how many calls it has begun: names its request
    result,     \* what its last call returned
    srvPc,      \* where the server thread is in the drain of the queue
    current,    \* current_request
    replied,    \* history: the requests a reply was received for
    heard       \* history: the callers that made no call since the last reply

srvVars == <<srvPc, current>>
histVars == <<replied, heard>>
vars == <<queue, mutex, replyFlag, callPc, calls, result, srvVars, histVars>>

TypeOK ==
    /\ queue \in Seq(Request)
    /\ mutex \in {"free", "server"}
    /\ replyFlag \in BOOLEAN
    /\ callPc \in [Caller -> {"idle", "lockSend", "lockWait", "wait"}]
    /\ calls \in [Caller -> 0..MaxCalls]
    /\ result \in [Caller -> {0, -1}]
    /\ srvPc \in {"noSession", "loop", "drain", "await"}
    /\ current \in Request \cup {NoRequest}
    /\ replied \subseteq Request
    /\ heard \subseteq Caller

\* The constructor leaves the flag uninitialised.
Init ==
    /\ queue = << >> /\ mutex = "free" /\ replyFlag \in BOOLEAN
    /\ callPc = [c \in Caller |-> "idle"]
    /\ calls = [c \in Caller |-> 0]
    /\ result = [c \in Caller |-> 0]
    /\ srvPc = "noSession" /\ current = NoRequest
    /\ replied = {} /\ heard = {}

\* Mutant: the request of the call before.
RequestBefore(c, wait) == [from |-> c, call |-> calls[c] - 1, wait |-> wait]

RequestOf(c, wait) == [from |-> c, call |-> calls[c], wait |-> wait]

-----------------------------------------------------------------------------
(* A caller.                                                               *)

\* send_command(): builds the request.
SendCommand(c) ==
    /\ callPc[c] = "idle" /\ calls[c] < MaxCalls
    /\ calls' = [calls EXCEPT ![c] = @ + 1]
    /\ callPc' = [callPc EXCEPT ![c] = "lockSend"]
    /\ UNCHANGED <<queue, mutex, replyFlag, result, srvVars, histVars>>

\* Mutant: the flag is not reset.
SendAndWaitOn(c) ==
    /\ callPc[c] = "idle" /\ calls[c] < MaxCalls
    /\ calls' = [calls EXCEPT ![c] = @ + 1]
    /\ callPc' = [callPc EXCEPT ![c] = "lockWait"]
    /\ heard' = heard \ {c}
    /\ UNCHANGED <<queue, mutex, replyFlag, result, srvVars, replied>>

\* send_command_and_wait_for_reply(): resets the flag before it queues.
SendAndWait(c) ==
    /\ callPc[c] = "idle" /\ calls[c] < MaxCalls
    /\ calls' = [calls EXCEPT ![c] = @ + 1]
    /\ replyFlag' = FALSE
    /\ callPc' = [callPc EXCEPT ![c] = "lockWait"]
    /\ heard' = heard \ {c}
    /\ UNCHANGED <<queue, mutex, result, srvVars, replied>>

\* enqueue_request(), under the mutex.
Enqueue(c) ==
    /\ callPc[c] \in {"lockSend", "lockWait"}
    /\ mutex = "free"
    /\ LET wait    == callPc[c] = "lockWait"
           request == RequestOf(c, wait)
       IN  /\ queue' = Append(queue, request)
           /\ callPc' = [callPc EXCEPT ![c] = IF wait THEN "wait" ELSE "idle"]
           /\ result' = IF wait THEN result ELSE [result EXCEPT ![c] = 0]
    /\ UNCHANGED <<mutex, replyFlag, calls, srvVars, histVars>>

\* The poll of the flag finds it set.
SeeReply(c) ==
    /\ callPc[c] = "wait"
    /\ replyFlag
    /\ result' = [result EXCEPT ![c] = 0]
    /\ callPc' = [callPc EXCEPT ![c] = "idle"]
    /\ UNCHANGED <<queue, mutex, replyFlag, calls, srvVars, histVars>>

\* Mutant: the wait has no timeout.
GiveUpNever(c) ==
    /\ callPc[c] = "wait"
    /\ replyFlag
    /\ result' = [result EXCEPT ![c] = -1]
    /\ callPc' = [callPc EXCEPT ![c] = "idle"]
    /\ UNCHANGED <<queue, mutex, replyFlag, calls, srvVars, histVars>>

\* The timeout ends the loop, also when the flag was set after the last poll.
GiveUp(c) ==
    /\ callPc[c] = "wait"
    /\ result' = [result EXCEPT ![c] = -1]
    /\ callPc' = [callPc EXCEPT ![c] = "idle"]
    /\ UNCHANGED <<queue, mutex, replyFlag, calls, srvVars, histVars>>

-----------------------------------------------------------------------------
(* The server thread.                                                      *)

\* A client has come through its handshake.
BeginSession ==
    /\ srvPc = "noSession"
    /\ srvPc' = "loop"
    /\ UNCHANGED <<queue, mutex, replyFlag, callPc, calls, result, current, histVars>>

LockQueue ==
    /\ srvPc = "loop"
    /\ mutex = "free"
    /\ mutex' = "server"
    /\ srvPc' = "drain"
    /\ UNCHANGED <<queue, replyFlag, callPc, calls, result, current, histVars>>

\* The next request is sent; server_send_command() never reports a failure.
SendNext ==
    /\ srvPc = "drain"
    /\ queue # << >>
    /\ current' = Head(queue)
    /\ queue' = Tail(queue)
    /\ srvPc' = IF Head(queue).wait THEN "await" ELSE "drain"
    /\ UNCHANGED <<mutex, replyFlag, callPc, calls, result, histVars>>

\* A message of the client is the reply, whatever it is: the signal of the
\* request calls the handler, which sets the flag.
Reply ==
    /\ srvPc = "await"
    /\ replyFlag' = TRUE
    /\ replied' = replied \cup {current}
    /\ heard' = Caller
    /\ srvPc' = "drain"
    /\ UNCHANGED <<queue, mutex, callPc, calls, result, current>>

NoReply ==
    /\ srvPc = "await"
    /\ srvPc' = "drain"
    /\ UNCHANGED <<queue, mutex, replyFlag, callPc, calls, result, current, histVars>>

\* Mutant: the queue need not be empty.
UnlockEarly ==
    /\ srvPc = "drain"
    /\ mutex' = "free"
    /\ srvPc' \in {"loop", "noSession"}
    /\ current' = NoRequest
    /\ UNCHANGED <<queue, replyFlag, callPc, calls, result, histVars>>

\* The queue is empty, and the session goes on or ends: every session drains
\* the queue at least once.
UnlockQueue ==
    /\ srvPc = "drain"
    /\ queue = << >>
    /\ mutex' = "free"
    /\ srvPc' \in {"loop", "noSession"}
    /\ current' = NoRequest
    /\ UNCHANGED <<queue, replyFlag, callPc, calls, result, histVars>>

Server == LockQueue \/ SendNext \/ Reply \/ NoReply \/ UnlockQueue

CallStep(c) == Enqueue(c) \/ SeeReply(c) \/ GiveUp(c)

Next == \/ Server \/ BeginSession
        \/ \E c \in Caller : SendCommand(c) \/ SendAndWait(c) \/ CallStep(c)

Spec == Init /\ [][Next]_vars

\* The threads run; nothing makes a session begin.  Between two drains the
\* server polls for a message, so a thread that waits for the mutex gets it in
\* the end.
FairSpec ==
    /\ Spec
    /\ WF_vars(Server)
    /\ \A c \in Caller : WF_vars(CallStep(c)) /\ SF_vars(Enqueue(c))

-----------------------------------------------------------------------------
(* Properties.                                                             *)

\* A call never takes a reply for its own that came before it was made: the
\* flag a waiting caller finds set was set after that caller reset it.
ReplyIsYoungerThanCall ==
    \A c \in Caller :
        callPc[c] \in {"lockWait", "wait"} /\ replyFlag => c \in heard

\* No call hangs, though the callers wait for a mutex that the server keeps
\* while it waits for the client, and also when there is no client; and what
\* they queue is sent, unless no session ever begins again.
CallsReturn == \A c \in Caller : callPc[c] # "idle" ~> callPc[c] = "idle"
QueueDrains == queue # << >> ~> (queue = << >> \/ [](srvPc = "noSession"))

\* "Class to handle command queues being sent via an BLE interface, thread
\* safe" (ble_request_queue.hpp:53): a call that returns 0 has had the reply
\* to its own request, not to one of another thread or of an older call.
ReplyIsForTheCall ==
    [][\A c \in Caller : SeeReply(c) => RequestOf(c, TRUE) \in replied]_vars
=============================================================================
