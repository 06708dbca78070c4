------------------------ MODULE RequestQueue_proofs -------------------------
(* Proofs about the request queue, for any callers and any number of calls.  *)
EXTENDS RequestQueue, SequenceTheorems, TLAPS

\* A caller on its way into the queue has begun a call; the server waits for
\* the reply to a request it has.
InHand ==
    /\ \A c \in Caller : callPc[c] # "idle" => calls[c] \in 1..MaxCalls
    /\ srvPc = "await" => current \in Request

\* The mutex is the server's from the first request of a drain to the last, the
\* waits for the replies included, and no caller keeps it.
LockedInDrain == mutex = "server" <=> srvPc \in {"drain", "await"}

QueueInv == TypeOK /\ InHand /\ LockedInDrain /\ ReplyIsYoungerThanCall

LEMMA QueueInit == Init => QueueInv
<1> SUFFICES ASSUME Init PROVE QueueInv
  OBVIOUS
<1>1. queue \in Seq(Request)
  BY DEF Init
<1>2. TypeOK
  <2>1. calls \in [Caller -> 0..MaxCalls]
    BY CallsAssumption DEF Init
  <2>2. QED
    BY <1>1, <2>1 DEF Init, TypeOK
<1>3. InHand /\ LockedInDrain /\ ReplyIsYoungerThanCall
  BY DEF Init, InHand, LockedInDrain, ReplyIsYoungerThanCall
<1>4. QED
  BY <1>2, <1>3 DEF QueueInv

\* The steps of a caller.
LEMMA CallerKeeps ==
  ASSUME QueueInv, NEW c \in Caller, SendCommand(c) \/ SendAndWait(c) \/ CallStep(c)
  PROVE  QueueInv'
<1> USE CallsAssumption
    DEF QueueInv, TypeOK, InHand, LockedInDrain, ReplyIsYoungerThanCall,
        srvVars, histVars
<1>1. CASE SendCommand(c)
  <2>1. /\ callPc' \in [Caller -> {"idle", "lockSend", "lockWait", "wait"}]
        /\ calls' \in [Caller -> 0..MaxCalls]
        /\ callPc'[c] = "lockSend" /\ calls'[c] \in 1..MaxCalls
        /\ \A d \in Caller \ {c} : callPc'[d] = callPc[d] /\ calls'[d] = calls[d]
    BY <1>1 DEF SendCommand
  <2>2. UNCHANGED <<queue, mutex, replyFlag, result, srvVars, histVars>>
    BY <1>1 DEF SendCommand
  <2>3. QED
    BY <2>1, <2>2
<1>2. CASE SendAndWait(c)
  <2>1. /\ callPc' \in [Caller -> {"idle", "lockSend", "lockWait", "wait"}]
        /\ calls' \in [Caller -> 0..MaxCalls]
        /\ callPc'[c] = "lockWait" /\ calls'[c] \in 1..MaxCalls
        /\ \A d \in Caller \ {c} : callPc'[d] = callPc[d] /\ calls'[d] = calls[d]
    BY <1>2 DEF SendAndWait
  <2>2. /\ replyFlag' = FALSE /\ heard' \subseteq Caller
        /\ UNCHANGED <<queue, mutex, result, srvVars, replied>>
    BY <1>2 DEF SendAndWait
  <2>3. QED
    BY <2>1, <2>2
<1>3. CASE Enqueue(c)
  <2>1. calls[c] \in 1..MaxCalls
    BY <1>3 DEF Enqueue
  <2>2. \A wait \in BOOLEAN : RequestOf(c, wait) \in Request
    BY <2>1 DEF RequestOf, Request
  <2>3. queue' \in Seq(Request)
    <3>1. PICK r \in Request : queue' = Append(queue, r)
      BY <1>3, <2>2 DEF Enqueue
    <3>2. QED
      BY <3>1, AppendProperties
  <2>4. QED
    BY <1>3, <2>1, <2>3 DEF Enqueue
<1>4. CASE SeeReply(c) \/ GiveUp(c)
  <2>1. /\ callPc' \in [Caller -> {"idle", "lockSend", "lockWait", "wait"}]
        /\ callPc'[c] = "idle"
        /\ \A d \in Caller \ {c} : callPc'[d] = callPc[d]
        /\ result' \in [Caller -> {0, -1}]
    BY <1>4 DEF SeeReply, GiveUp
  <2>2. UNCHANGED <<queue, mutex, replyFlag, calls, srvVars, histVars>>
    BY <1>4 DEF SeeReply, GiveUp
  <2>3. QED
    BY <2>1, <2>2
<1>5. QED
  BY <1>1, <1>2, <1>3, <1>4 DEF CallStep

\* The steps of the server thread.
LEMMA ServerKeeps ==
  ASSUME QueueInv, Server \/ BeginSession
  PROVE  QueueInv'
<1> USE DEF QueueInv, TypeOK, InHand, LockedInDrain, ReplyIsYoungerThanCall,
            srvVars, histVars
<1>1. CASE BeginSession
  BY <1>1 DEF BeginSession
<1>2. CASE LockQueue
  BY <1>2 DEF LockQueue
<1>3. CASE SendNext
  <2>1. Head(queue) \in Request /\ Tail(queue) \in Seq(Request)
    BY <1>3, HeadTailProperties DEF SendNext
  <2>2. QED
    BY <1>3, <2>1 DEF SendNext
<1>4. CASE Reply
  BY <1>4 DEF Reply
<1>5. CASE NoReply
  BY <1>5 DEF NoReply
<1>6. CASE UnlockQueue
  BY <1>6 DEF UnlockQueue
<1>7. QED
  BY <1>1, <1>2, <1>3, <1>4, <1>5, <1>6 DEF Server

LEMMA QueueInvariant == Spec => []QueueInv
<1>1. QueueInv /\ UNCHANGED vars => QueueInv'
  BY DEF vars, QueueInv, TypeOK, InHand, LockedInDrain, ReplyIsYoungerThanCall,
         srvVars, histVars
<1>2. QueueInv /\ [Next]_vars => QueueInv'
  BY <1>1, CallerKeeps, ServerKeeps DEF Next
<1>3. QED
  BY QueueInit, <1>2, PTL DEF Spec

\* The queue keeps its types: every request that is sent is one a caller made.
THEOREM QueueTypeCorrect == Spec => []TypeOK
<1>1. QueueInv => TypeOK
  BY DEF QueueInv
<1>2. QED
  BY <1>1, QueueInvariant, PTL

\* However many threads share the flag, a call never takes a reply for its own
\* that came before it was made.
THEOREM ReplyIsYoungerThanCallCorrect == Spec => []ReplyIsYoungerThanCall
<1>1. QueueInv => ReplyIsYoungerThanCall
  BY DEF QueueInv
<1>2. QED
  BY <1>1, QueueInvariant, PTL
=============================================================================
