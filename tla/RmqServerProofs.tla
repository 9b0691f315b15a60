-------------------------- MODULE RmqServerProofs --------------------------
(***************************************************************************)
(* The safety properties of RmqServer, for every set of requests and every *)
(* number of attempts, failures and losses.                                *)
(***************************************************************************)
EXTENDS RmqServer, SequenceTheorems, TLAPS

\* What waits in the delivery channel was sent, is there once, and has not run.
QueueInv ==
    /\ queue \in Seq(Requests)
    /\ \A i \in 1..Len(queue) : queue[i] \in sent /\ runs[queue[i]] = 0
    /\ \A i, j \in 1..Len(queue) : queue[i] = queue[j] => i = j

\* The delivery in serveCall is no longer in the channel, and has not run
\* before its handler is called.
InHandInv ==
    worker \in {"handle", "publish"} =>
        /\ serving[1] \in Requests /\ serving[1] \in sent
        /\ \A i \in 1..Len(queue) : queue[i] # serving[1]
        /\ worker = "handle" => runs[serving[1]] = 0

\* Only requests that were sent have run, and one that is not settled is the
\* one whose reply is about to be published.
RunsInv ==
    /\ runs \in [Requests -> {0, 1}]
    /\ \A r \in Requests : runs[r] = 1 => r \in sent
    /\ \A r \in Requests :
          runs[r] = 1 /\ r \notin settled => worker = "publish" /\ serving[1] = r

\* Shutdown is past eg.Wait only when the worker has returned.
ShutdownInv == shutdown \in {"close", "done"} => worker \in {"exited", "failed"}

\* The worker leaves AttemptConnect without an error only with a channel.
ChannelInv == worker \in {"new", "select", "handle", "publish", "consume"} => channel # "nil"

IndInv == QueueInv /\ InHandInv /\ RunsInv /\ ShutdownInv /\ ChannelInv

-----------------------------------------------------------------------------
\* Start: the worker enters its loop.
LEMMA StartKeeps ==
    ASSUME IndInv, Start
    PROVE  IndInv'
<1>1. QueueInv' /\ InHandInv' /\ RunsInv'
  BY DEF IndInv, QueueInv, InHandInv, RunsInv, Start, WorkerGoes, requestVars
<1>2. ShutdownInv' /\ ChannelInv'
  BY DEF IndInv, ShutdownInv, ChannelInv, Start, WorkerGoes, requestVars
<1> QED BY <1>1, <1>2 DEF IndInv

\* The worker takes stop between two deliveries.
LEMMA WorkerStopKeeps ==
    ASSUME IndInv, WorkerStop
    PROVE  IndInv'
<1>1. QueueInv' /\ InHandInv' /\ RunsInv'
  BY DEF IndInv, QueueInv, InHandInv, RunsInv, WorkerStop, WorkerGoes, requestVars,
     appVars
<1>2. ShutdownInv' /\ ChannelInv'
  BY DEF IndInv, ShutdownInv, ChannelInv, WorkerStop, WorkerGoes, requestVars, appVars
<1> QED BY <1>1, <1>2 DEF IndInv

\* A delivery leaves the channel and is in hand.
LEMMA ReceiveKeeps ==
    ASSUME IndInv, Receive
    PROVE  IndInv'
<1>1. QueueInv'
  BY DEF IndInv, QueueInv, InHandInv, Receive, WorkerGoes, appVars
<1>2. InHandInv'
  BY DEF IndInv, InHandInv, QueueInv, Receive, WorkerGoes, appVars
<1>3. RunsInv'
  BY DEF IndInv, RunsInv, InHandInv, QueueInv, Receive, WorkerGoes, appVars
<1>4. ShutdownInv'
  BY DEF IndInv, ShutdownInv, Receive, WorkerGoes, appVars
<1>5. ChannelInv'
  BY DEF IndInv, ChannelInv, Receive, WorkerGoes, appVars
<1> QED BY <1>1, <1>2, <1>3, <1>4, <1>5 DEF IndInv

\* The handler of the delivery in hand runs, for the first time.
LEMMA HandleKeeps ==
    ASSUME IndInv, Handle
    PROVE  IndInv'
<1>1. QueueInv'
  BY DEF IndInv, QueueInv, InHandInv, Handle, WorkerGoes, appVars
<1>2. InHandInv'
  BY DEF IndInv, InHandInv, QueueInv, Handle, WorkerGoes, appVars
<1>3. RunsInv'
  BY DEF IndInv, RunsInv, InHandInv, QueueInv, Handle, WorkerGoes, appVars
<1>4. ShutdownInv'
  BY DEF IndInv, ShutdownInv, Handle, WorkerGoes, appVars
<1>5. ChannelInv'
  BY DEF IndInv, ChannelInv, Handle, WorkerGoes, appVars
<1> QED BY <1>1, <1>2, <1>3, <1>4, <1>5 DEF IndInv

\* The reply is published and the delivery acknowledged.
LEMMA PublishReplyKeeps ==
    ASSUME IndInv, PublishReply
    PROVE  IndInv'
<1>1. QueueInv'
  BY DEF IndInv, QueueInv, InHandInv, PublishReply, appVars
<1>2. InHandInv'
  BY DEF IndInv, InHandInv, QueueInv, PublishReply, appVars
<1>3. RunsInv'
  BY DEF IndInv, RunsInv, InHandInv, QueueInv, PublishReply, appVars
<1>4. ShutdownInv'
  BY DEF IndInv, ShutdownInv, PublishReply, appVars
<1>5. ChannelInv'
  BY DEF IndInv, ChannelInv, PublishReply, appVars
<1> QED BY <1>1, <1>2, <1>3, <1>4, <1>5 DEF IndInv

\* AttemptConnect starts with an empty channel and ends with one, on a queue of its own.
LEMMA ReconnectKeeps ==
    ASSUME IndInv, Reconnect
    PROVE  IndInv'
<1>1. queue' = queue \/ queue' = <<>>
  BY DEF Reconnect, Redelivered
<1>2. UNCHANGED <<sent, serving, runs, settled, shutdown>>
  BY DEF Reconnect, appVars
<1>3. /\ worker \in {"select", "dial", "channel", "consume"}
      /\ worker' \in {"select", "dial", "channel", "consume", "send"}
      /\ worker' \in {"select", "consume"} => channel' # "nil"
  <2>1. CASE AttemptConnect
    BY <2>1 DEF AttemptConnect
  <2>2. CASE Dial
    BY <2>2 DEF Dial, AttemptFailed
  <2>3. CASE OpenChannel
    BY <2>3 DEF OpenChannel, AttemptFailed
  <2>4. CASE ConsumeFails
    BY <2>4 DEF ConsumeFails, AttemptFailed
  <2>5. CASE Consume
    BY <2>5 DEF Consume, IndInv, ChannelInv
  <2> QED BY <2>1, <2>2, <2>3, <2>4, <2>5 DEF Reconnect
<1>4. QueueInv'
  <2>1. CASE queue' = queue
    BY <1>2, <2>1 DEF IndInv, QueueInv
  <2>2. CASE queue' = <<>>
    BY <1>2, <2>2 DEF QueueInv
  <2> QED BY <1>1, <2>1, <2>2
<1>5. InHandInv' /\ RunsInv'
  BY <1>2, <1>3 DEF IndInv, InHandInv, RunsInv
<1>6. ShutdownInv' /\ ChannelInv'
  BY <1>2, <1>3 DEF IndInv, ShutdownInv, ChannelInv
<1> QED BY <1>4, <1>5, <1>6 DEF IndInv

\* The worker gives up.
LEMMA WorkerFailKeeps ==
    ASSUME IndInv, WorkerFail
    PROVE  IndInv'
<1>1. QueueInv' /\ InHandInv' /\ RunsInv'
  BY DEF IndInv, QueueInv, InHandInv, RunsInv, WorkerFail, WorkerGoes, requestVars
<1>2. ShutdownInv' /\ ChannelInv'
  BY DEF IndInv, ShutdownInv, ChannelInv, WorkerFail, WorkerGoes, requestVars
<1> QED BY <1>1, <1>2 DEF IndInv

\* app receives the error.
LEMMA AppNotifiedKeeps ==
    ASSUME IndInv, AppNotified
    PROVE  IndInv'
<1>1. QueueInv' /\ InHandInv' /\ RunsInv'
  BY DEF IndInv, QueueInv, InHandInv, RunsInv, AppNotified, connVars, requestVars
<1>2. ShutdownInv' /\ ChannelInv'
  BY DEF IndInv, ShutdownInv, ChannelInv, AppNotified, connVars, requestVars
<1> QED BY <1>1, <1>2 DEF IndInv

\* app receives a signal or the failure of another server.
LEMMA AppInterruptedKeeps ==
    ASSUME IndInv, AppInterrupted
    PROVE  IndInv'
<1>1. QueueInv' /\ InHandInv' /\ RunsInv'
  BY DEF IndInv, QueueInv, InHandInv, RunsInv, AppInterrupted, connVars, requestVars
<1>2. ShutdownInv' /\ ChannelInv'
  BY DEF IndInv, ShutdownInv, ChannelInv, AppInterrupted, connVars, requestVars
<1> QED BY <1>1, <1>2 DEF IndInv

\* Shutdown closes stop.
LEMMA ShutdownStopKeeps ==
    ASSUME IndInv, ShutdownStop
    PROVE  IndInv'
<1>1. QueueInv' /\ InHandInv' /\ RunsInv'
  BY DEF IndInv, QueueInv, InHandInv, RunsInv, ShutdownStop, connVars, requestVars
<1>2. ShutdownInv' /\ ChannelInv'
  BY DEF IndInv, ShutdownInv, ChannelInv, ShutdownStop, connVars, requestVars
<1> QED BY <1>1, <1>2 DEF IndInv

\* eg.Wait returns after the worker.
LEMMA ShutdownWaitKeeps ==
    ASSUME IndInv, ShutdownWait
    PROVE  IndInv'
<1>1. QueueInv' /\ InHandInv' /\ RunsInv'
  BY DEF IndInv, QueueInv, InHandInv, RunsInv, ShutdownWait, connVars, requestVars
<1>2. ShutdownInv' /\ ChannelInv'
  BY DEF IndInv, ShutdownInv, ChannelInv, ShutdownWait, connVars, requestVars
<1> QED BY <1>1, <1>2 DEF IndInv

\* closeConnection, or its panic.
LEMMA ShutdownCloseKeeps ==
    ASSUME IndInv, ShutdownClose
    PROVE  IndInv'
<1>1. QueueInv' /\ InHandInv' /\ RunsInv'
  BY Zenon DEF IndInv, QueueInv, InHandInv, RunsInv, ShutdownClose, CloseConnection,
     connVars, requestVars
<1>2. ShutdownInv' /\ ChannelInv'
  BY Zenon DEF IndInv, ShutdownInv, ChannelInv, ShutdownClose, CloseConnection,
     connVars, requestVars
<1> QED BY <1>1, <1>2 DEF IndInv

\* A request is sent once, so it is nowhere in the server yet.
LEMMA RequestKeeps ==
    ASSUME NEW r \in Requests, IndInv, Request(r)
    PROVE  IndInv'
<1>1. /\ r \notin sent /\ sent' = sent \union {r}
      /\ UNCHANGED <<connVars, serving, runs, settled, appVars>>
  BY DEF Request
<1>2. CASE queue' = queue
  <2>1. QueueInv' /\ InHandInv' /\ RunsInv'
    BY <1>1, <1>2 DEF IndInv, QueueInv, InHandInv, RunsInv, connVars
  <2> QED BY <1>1, <2>1 DEF IndInv, ShutdownInv, ChannelInv, connVars, appVars
<1>3. CASE queue' = Append(queue, r)
  <2>1. /\ queue' \in Seq(Requests) /\ Len(queue') = Len(queue) + 1
        /\ \A i \in 1..Len(queue) : queue'[i] = queue[i]
        /\ queue'[Len(queue) + 1] = r
    BY <1>3 DEF IndInv, QueueInv
  <2>2. Len(queue) \in Nat /\ runs[r] = 0
    BY <1>1 DEF IndInv, QueueInv, RunsInv
  <2>3. QueueInv'
    BY <1>1, <2>1, <2>2 DEF IndInv, QueueInv
  <2>4. InHandInv'
    BY <1>1, <2>1, <2>2 DEF IndInv, InHandInv, connVars
  <2>5. RunsInv'
    BY <1>1 DEF IndInv, RunsInv, connVars
  <2>6. ShutdownInv' /\ ChannelInv'
    BY <1>1 DEF IndInv, ShutdownInv, ChannelInv, connVars, appVars
  <2> QED BY <2>3, <2>4, <2>5, <2>6 DEF IndInv
<1> QED BY <1>2, <1>3 DEF Request

\* What the worker can still receive is a prefix of what had been delivered.
LEMMA DisconnectedKeeps ==
    ASSUME IndInv, Disconnected
    PROVE  IndInv'
<1>1. PICK n \in 0..Len(queue) : queue' = SubSeq(queue, 1, n)
  BY DEF Disconnected
<1>2. /\ queue' \in Seq(Requests) /\ Len(queue') = n
      /\ \A i \in 1..Len(queue') : i \in 1..Len(queue) /\ queue'[i] = queue[i]
  <2>1. Len(queue) \in Nat /\ \A i \in 1..n : queue[i] \in Requests
    BY DEF IndInv, QueueInv
  <2>2. /\ n \in Int /\ Len(queue') = n /\ queue' \in Seq(Requests)
        /\ \A i \in 1..n : queue'[i] = queue[i]
    BY <1>1, <2>1, SubSeqProperties
  <2> QED BY <2>1, <2>2
<1>3. UNCHANGED <<sent, serving, runs, settled, shutdown, worker>>
  BY DEF Disconnected, ChannelClosed, ConnectionLost, appVars
<1>4. QueueInv' /\ InHandInv'
  BY <1>2, <1>3 DEF IndInv, QueueInv, InHandInv
<1>5. RunsInv' /\ ShutdownInv'
  BY <1>3 DEF IndInv, RunsInv, ShutdownInv
<1>6. ChannelInv'
  BY DEF IndInv, ChannelInv, Disconnected, ChannelClosed, ConnectionLost
<1> QED BY <1>4, <1>5, <1>6 DEF IndInv

-----------------------------------------------------------------------------
\* The server starts in the invariant.
LEMMA InitInv == Init => IndInv
  BY DEF Init, ConnInit, IndInv, QueueInv, InHandInv, RunsInv, ShutdownInv, ChannelInv

\* The invariant is inductive.
LEMMA NextInv == IndInv /\ [Next]_vars => IndInv'
<1> SUFFICES ASSUME IndInv, [Next]_vars PROVE IndInv'
  OBVIOUS
<1>1. CASE Start \/ AppInterrupted \/ Disconnected
  BY <1>1, StartKeeps, AppInterruptedKeeps, DisconnectedKeeps
<1>2. CASE Worker
  BY <1>2, WorkerStopKeeps, ReceiveKeeps, HandleKeeps, PublishReplyKeeps, ReconnectKeeps,
     WorkerFailKeeps, Zenon DEF Worker
<1>3. CASE App
  BY <1>3, AppNotifiedKeeps, ShutdownStopKeeps, ShutdownWaitKeeps, ShutdownCloseKeeps DEF App
<1>4. CASE \E r \in Requests : Request(r)
  BY <1>4, RequestKeeps
<1>5. CASE UNCHANGED vars
  <2>1. QueueInv' /\ InHandInv' /\ RunsInv'
    BY <1>5 DEF IndInv, QueueInv, InHandInv, RunsInv, vars, connVars, requestVars
  <2> QED BY <1>5, <2>1 DEF IndInv, ShutdownInv, ChannelInv, vars, connVars, appVars
<1> QED BY <1>1, <1>2, <1>3, <1>4, <1>5, Zenon DEF Next

\* Every state of the server satisfies the invariant.
LEMMA Invariance == Spec => []IndInv
  BY InitInv, NextInv, PTL DEF Spec

(***************************************************************************)
(* The handler of a request runs at most once, through any number of       *)
(* reconnects with deliveries in hand or in the channel (handleMessages,   *)
(* serveCall, AttemptConnect).                                             *)
(***************************************************************************)
THEOREM HandlersRunOnce == Spec => []AtMostOnce
<1>1. IndInv => AtMostOnce
  BY DEF IndInv, RunsInv, AtMostOnce
<1> QED BY <1>1, Invariance, PTL

(***************************************************************************)
(* Shutdown returns only when no handler runs and every request whose      *)
(* handler ran has had its reply published or refused (Shutdown, eg.Wait). *)
(***************************************************************************)
THEOREM ShutdownDrains == Spec => []DrainedOnShutdown
<1>1. IndInv => DrainedOnShutdown
  BY DEF IndInv, RunsInv, ShutdownInv, DrainedOnShutdown
<1> QED BY <1>1, Invariance, PTL

(***************************************************************************)
(* serveCall never publishes on a nil channel: the worker serves again     *)
(* only after AttemptConnect has opened one.                               *)
(***************************************************************************)
THEOREM RepliesHaveChannel == Spec => []ReplyChannelExists
<1>1. IndInv => ReplyChannelExists
  BY DEF IndInv, ChannelInv, ReplyChannelExists
<1> QED BY <1>1, Invariance, PTL
=============================================================================
