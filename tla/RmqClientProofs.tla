--------------------------- MODULE RmqClientProofs ---------------------------
(***************************************************************************)
(* The safety of RmqClient for any calls, replicas and bounds: a call      *)
(* returns its own verdict, one server's replies close no done channel     *)
(* twice, the nil channel is met only between attempts to connect, and     *)
(* nothing is sent once Shutdown has returned.                             *)
(***************************************************************************)
EXTENDS RmqClient, SequenceTheorems, TLAPS

Outstanding(c) == \E s \in Replicas : <<s, c>> \in requests
Queued(c) == \E i \in 1..Len(queue) : queue[i].corr = c
Served(c) == serving # <<>> /\ serving[1] = c
OneServer == \A s, t \in Replicas : s = t

\* The worker is in serveCall exactly while it holds a delivery.
ServingInv == worker = "serve" <=> serving # <<>>

\* Every reply on its way to a call, and every one it has been given, is one
\* that a server gave to that call.
AnswerInv ==
    /\ \A i \in 1..Len(queue) :
          queue[i].corr \in Calls => queue[i].reply \in answers[queue[i].corr]
    /\ serving # <<>> => serving[2] \in answers[serving[1]]
    /\ \A c \in closed : reply[c] \in answers[c]
    /\ OwnReply

\* One server's reply to a call is in one place: still to be given, in the
\* queue, in serveCall or taken; before the request is sent it is nowhere.
OnceInv ==
    /\ NoDoubleClose
    /\ \A c \in Calls : pc[c] \in {"idle", "pre", "publish"} =>
          ~Outstanding(c) /\ ~Queued(c) /\ ~Served(c) /\ c \notin closed
    /\ \A c \in Calls : Outstanding(c) => ~Queued(c) /\ ~Served(c) /\ c \notin closed
    /\ \A c \in Calls : Queued(c) => ~Served(c) /\ c \notin closed
    /\ \A c \in Calls : Served(c) => c \notin closed
    /\ \A i, j \in 1..Len(queue) :
          queue[i].corr \in Calls /\ queue[i].corr = queue[j].corr => i = j

\* conn.Channel is nil only from a failed Connection.Channel to the next one
\* that succeeds, and a panic on it leaves it so.
ChannelInv ==
    /\ channel = "nil" =>
          worker \in {"dial", "channel", "send", "sent", "failed"} /\ failures > 0
    /\ panicked = "publish on nil channel" => channel = "nil"

\* Shutdown closes the connection after the worker has gone, so nobody opens
\* another channel.
CloseInv ==
    /\ shutdown \in {"close", "done"} => worker \in {"exited", "failed"}
    /\ shutdown = "done" => channel # "up"

IndInv ==
    /\ TypeOK
    /\ ServingInv
    /\ AnswerInv
    /\ OneServer => OnceInv
    /\ ChannelInv
    /\ CloseInv

-----------------------------------------------------------------------------
(* Lemmas: what a step must do so as to keep the invariant. *)

Places == {"idle", "pre", "publish", "add", "wait", "return", "done"}
Unsent == {"idle", "pre", "publish"}
Verdicts == {"nil", "unmarshal", "bad_handler", "internal"}

\* The state in which New returns satisfies the invariant.
LEMMA InitInv == Init => IndInv
<1> SUFFICES ASSUME Init PROVE IndInv
  OBVIOUS
<1> USE DEF Init, ConnInit
<1>1. CallerTypeOK /\ StopTypeOK
  BY Zenon DEF CallerTypeOK, StopTypeOK, Results
<1>2. ConnTypeOK
  <2>1. 0 \in 0..Attempts /\ 0 \in Nat
    BY ConnectionBounds
  <2> QED BY <2>1, Zenon DEF ConnTypeOK
<1>3. WorkerTypeOK /\ BrokerTypeOK
  BY ForeignAssumption DEF WorkerTypeOK, BrokerTypeOK
<1>4. ServingInv /\ AnswerInv /\ ChannelInv /\ CloseInv
  BY DEF ServingInv, AnswerInv, OwnReply, ChannelInv, CloseInv
<1>5. OnceInv
  BY DEF OnceInv, NoDoubleClose, Outstanding, Queued, Served
<1> QED BY <1>1, <1>2, <1>3, <1>4, <1>5 DEF IndInv, TypeOK

\* What does not touch the callers, the deliveries and the broker keeps what
\* is said of the replies.
LEMMA RepliesKept ==
    ASSUME IndInv, UNCHANGED <<callerVars, workerVars, brokerVars, panicked>>
    PROVE  AnswerInv' /\ (OneServer => OnceInv')
<1> USE DEF callerVars, workerVars, brokerVars
<1>1. AnswerInv'
  BY DEF IndInv, AnswerInv, OwnReply
<1>2. OneServer => OnceInv'
  BY Zenon DEF IndInv, OnceInv, NoDoubleClose, Outstanding, Queued, Served
<1> QED BY <1>1, <1>2

\* A step of RemoteCall that sends nothing moves the call on, maybe with a
\* result; a server's verdict it returns only if the server gave it.
LEMMA CallerInv ==
    ASSUME IndInv, NEW c \in Calls, NEW p \in Places, NEW r \in Results,
           p \in Unsent => pc[c] \in Unsent,
           r \in Verdicts => r = result[c] \/ \E a \in answers[c] : Outcome(a) = r,
           pc' = [pc EXCEPT ![c] = p],
           result' = [result EXCEPT ![c] = r],
           calls' \subseteq Calls,
           worker' = worker \/ (worker = "send" /\ worker' = "sent"),
           UNCHANGED <<closed, reply, workerVars, stopVars, brokerVars, panicked,
                       left, connection, channel, open, rejected, bound, orphans,
                       losses, failures>>
    PROVE  IndInv'
<1> USE DEF workerVars, stopVars, brokerVars
<1>1. pc \in [Calls -> Places] /\ result \in [Calls -> Results]
  BY DEF IndInv, TypeOK, CallerTypeOK, Places
<1>2. pc' \in [Calls -> Places] /\ result' \in [Calls -> Results]
  BY <1>1
<1>3. TypeOK'
  <2>1. CallerTypeOK' /\ StopTypeOK' /\ BrokerTypeOK'
    BY <1>2, Zenon DEF IndInv, TypeOK, CallerTypeOK, StopTypeOK, BrokerTypeOK, Places
  <2>2. ConnTypeOK' /\ WorkerTypeOK'
    <3>1. ConnTypeOK'
      BY Zenon DEF IndInv, TypeOK, ConnTypeOK
    <3>2. WorkerTypeOK'
      BY Zenon DEF IndInv, TypeOK, WorkerTypeOK
    <3> QED BY <3>1, <3>2
  <2> QED BY <2>1, <2>2 DEF TypeOK
<1>4. ServingInv' /\ ChannelInv' /\ CloseInv'
  BY Zenon DEF IndInv, ServingInv, ChannelInv, CloseInv
<1>5. OwnReply'
  BY <1>1 DEF IndInv, AnswerInv, OwnReply, Verdicts
<1>6. AnswerInv'
  BY <1>5 DEF IndInv, AnswerInv
<1>7. ASSUME OneServer PROVE OnceInv'
  <2>1. \A d \in Calls : pc'[d] \in Unsent => pc[d] \in Unsent
    BY <1>1
  <2> QED BY <1>7, <2>1, Zenon
      DEF IndInv, OnceInv, NoDoubleClose, Outstanding, Queued, Served, Unsent
<1> QED BY <1>3, <1>4, <1>6, <1>7 DEF IndInv

\* Begin, preRemoteCallWait, addCall, the waits of remoteCallWait and the
\* deferred deleteCall.
LEMMA SilentCallerInv ==
    ASSUME IndInv, NEW c \in Calls,
           \/ Begin(c) \/ PreInterrupted(c) \/ PrePasses(c) \/ AddCall(c)
           \/ WaitInterrupted(c) \/ WaitTimeout(c) \/ WaitDone(c) \/ Return(c)
    PROVE  IndInv'
<1> USE DEF workerVars, stopVars, brokerVars, connVars, Goto, Leave, Places, Unsent,
            Verdicts, Results
<1>1. /\ pc \in [Calls -> Places] /\ result \in [Calls -> Results]
      /\ calls \subseteq Calls
  BY DEF IndInv, TypeOK, CallerTypeOK
<1>2. result = [result EXCEPT ![c] = result[c]] /\ result[c] \in Results
  BY <1>1
<1>3. ASSUME NEW p \in {"done", "return"}, Interrupted(c, p) PROVE IndInv'
  <2>1. calls' \subseteq Calls
    BY <1>1, <1>3 DEF Interrupted
  <2>2. worker' = worker \/ (worker = "send" /\ worker' = "sent")
    BY <1>3 DEF Interrupted, WorkerGoes
  <2>3. UNCHANGED <<closed, reply, workerVars, stopVars, brokerVars, panicked,
                    left, connection, channel, open, rejected, bound, orphans,
                    losses, failures>>
    BY <1>3 DEF Interrupted, WorkerGoes
  <2>4. PICK r \in {"canceled", "notified", "stopped"} : Leave(c, p, r)
    BY <1>3 DEF Interrupted
  <2> QED BY <2>1, <2>2, <2>3, <2>4, CallerInv, Zenon
<1>4. CASE PreInterrupted(c) \/ WaitInterrupted(c)
  BY <1>3, <1>4 DEF PreInterrupted, WaitInterrupted
<1>5. CASE Begin(c)
  BY <1>1, <1>2, <1>5, CallerInv, Zenon DEF Begin
<1>6. CASE PrePasses(c)
  BY <1>1, <1>2, <1>6, CallerInv, Zenon DEF PrePasses
<1>7. CASE AddCall(c)
  <2>1. calls' \subseteq Calls
    BY <1>1, <1>7 DEF AddCall
  <2> QED BY <1>2, <1>7, <2>1, CallerInv, Zenon DEF AddCall
<1>8. CASE WaitTimeout(c)
  BY <1>1, <1>8, CallerInv, Zenon DEF WaitTimeout
<1>9. CASE WaitDone(c)
  <2>1. reply[c] \in answers[c] /\ answers[c] \subseteq Replies
    BY <1>9 DEF WaitDone, IndInv, AnswerInv, TypeOK, BrokerTypeOK
  <2>2. Outcome(reply[c]) \in Verdicts
    BY <2>1, Zenon DEF Outcome, Replies
  <2>3. Leave(c, "return", Outcome(reply[c]))
    BY <1>9 DEF WaitDone
  <2> QED BY <1>1, <1>9, <2>1, <2>2, <2>3, CallerInv, Zenon DEF WaitDone
<1>10. CASE Return(c)
  <2>1. calls' \subseteq Calls
    BY <1>1, <1>10 DEF Return
  <2> QED BY <1>2, <1>10, <2>1, CallerInv, Zenon DEF Return
<1> QED BY <1>4, <1>5, <1>6, <1>7, <1>8, <1>9, <1>10
\* publish: the request reaches the servers, is lost, or is never sent.
LEMMA PublishInv ==
    ASSUME IndInv, NEW c \in Calls, panicked = "no", Publish(c)
    PROVE  IndInv'
<1> USE DEF workerVars, stopVars
<1>1. /\ UNCHANGED <<calls, closed, reply, serving, queue, stop, notify, ctxDone, shutdown,
                     worker, left, connection, channel, open, bound, orphans, losses,
                     failures, exchange, answers, foreign>>
      /\ pc[c] = "publish"
  BY Zenon DEF Publish
<1>2. CASE /\ channel = "nil"
           /\ panicked' = "publish on nil channel"
           /\ UNCHANGED <<pc, result, rejected, requests>>
  <2>1. TypeOK'
    <3>1. CallerTypeOK' /\ StopTypeOK' /\ BrokerTypeOK'
      BY <1>1, <1>2, Zenon DEF IndInv, TypeOK, CallerTypeOK, StopTypeOK, BrokerTypeOK
    <3>2. ConnTypeOK' /\ WorkerTypeOK'
      <4>1. ConnTypeOK'
        BY <1>1, <1>2, Zenon DEF IndInv, TypeOK, ConnTypeOK
      <4>2. WorkerTypeOK'
        BY <1>1, <1>2, Zenon DEF IndInv, TypeOK, WorkerTypeOK
      <4> QED BY <4>1, <4>2
    <3> QED BY <3>1, <3>2 DEF TypeOK
  <2>2. ServingInv' /\ ChannelInv' /\ CloseInv'
    BY <1>1, <1>2, Zenon DEF IndInv, ServingInv, ChannelInv, CloseInv
  <2>3. AnswerInv'
    BY <1>1, <1>2, Zenon DEF IndInv, AnswerInv, OwnReply
  <2>4. OneServer => OnceInv'
    BY <1>1, <1>2, Zenon DEF IndInv, OnceInv, NoDoubleClose, Outstanding, Queued, Served
  <2> QED BY <2>1, <2>2, <2>3, <2>4 DEF IndInv
<1>3. CASE /\ channel # "nil"
           /\ Leave(c, "done", "publish")
           /\ UNCHANGED <<rejected, requests, panicked>>
  <2>1. calls' \subseteq Calls
    BY <1>1 DEF IndInv, TypeOK, CallerTypeOK
  <2> QED BY <1>1, <1>3, <2>1, CallerInv, Zenon
      DEF Leave, Goto, Places, Results, Unsent, Verdicts, brokerVars
<1>4. CASE /\ channel = "up"
           /\ Goto(c, "add")
           /\ rejected' = (rejected \/ ~exchange)
           /\ requests' \in {requests} \cup
                 IF exchange THEN {requests \cup (Replicas \X {c})} ELSE {}
           /\ UNCHANGED <<result, panicked>>
  <2>1. pc \in [Calls -> Places]
    BY DEF IndInv, TypeOK, CallerTypeOK, Places
  <2>2. pc' = [pc EXCEPT ![c] = "add"] /\ pc' \in [Calls -> Places]
    BY <1>4, <2>1 DEF Goto, Places
  <2>3. /\ requests' \subseteq Replicas \X Calls
        /\ \A d \in Calls \ {c}, s \in Replicas : <<s, d>> \in requests' => <<s, d>> \in requests
    BY <1>4 DEF IndInv, TypeOK, BrokerTypeOK
  <2>4. CallerTypeOK' /\ StopTypeOK' /\ BrokerTypeOK'
    BY <1>1, <1>4, <2>2, <2>3, Zenon
       DEF IndInv, TypeOK, CallerTypeOK, StopTypeOK, BrokerTypeOK, Places
  <2>5. ConnTypeOK' /\ WorkerTypeOK'
    <3>1. ConnTypeOK'
      BY <1>1, <1>4, Zenon DEF IndInv, TypeOK, ConnTypeOK
    <3>2. WorkerTypeOK'
      BY <1>1, <1>4, Zenon DEF IndInv, TypeOK, WorkerTypeOK
    <3> QED BY <3>1, <3>2
  <2>6. ServingInv' /\ ChannelInv' /\ CloseInv'
    BY <1>1, <1>4, Zenon DEF IndInv, ServingInv, ChannelInv, CloseInv
  <2>7. AnswerInv'
    BY <1>1, <1>4 DEF IndInv, AnswerInv, OwnReply
  <2>8. ASSUME OneServer PROVE OnceInv'
    <3>1. /\ \A d \in Calls : pc'[d] \in Unsent => d # c /\ pc[d] \in Unsent
          /\ pc[c] \in Unsent
      BY <1>1, <2>1, <2>2 DEF Unsent
    <3>2. \A d \in Calls : d # c /\ Outstanding(d)' => Outstanding(d)
      BY <2>3 DEF Outstanding
    <3>3. /\ \A d \in Calls : Queued(d)' <=> Queued(d)
          /\ \A d \in Calls : Served(d)' <=> Served(d)
      BY <1>1 DEF Queued, Served
    <3>4. OnceInv
      BY <2>8 DEF IndInv
    <3> QED BY <1>1, <1>4, <3>1, <3>2, <3>3, <3>4 DEF OnceInv, NoDoubleClose, Unsent
  <2> QED BY <2>4, <2>5, <2>6, <2>7, <2>8 DEF IndInv, TypeOK
<1> QED BY <1>2, <1>3, <1>4, Zenon DEF Publish

-----------------------------------------------------------------------------
(* The worker, its connection and Shutdown. *)

\* An attempt to connect that fails leaves a goroutine that dials again or
\* gives up; left stays in its range.
LEMMA AttemptFailedType ==
    ASSUME IndInv, worker \in {"dial", "channel", "consume"}, AttemptFailed
    PROVE  /\ left' \in 0..Attempts /\ failures' \in Nat /\ failures' > 0
           /\ worker' \in {"send", "dial"}
           /\ worker' = "dial" => left' > 0
<1>1. left \in 0..Attempts /\ left > 0 /\ failures \in Nat
  BY DEF IndInv, TypeOK, ConnTypeOK
<1> QED BY <1>1, ConnectionBounds DEF AttemptFailed
WorkerPlaces == {"select", "serve", "dial", "channel", "consume", "send", "sent",
                 "exited", "failed"}

\* A step that leaves the callers, the deliveries and the broker alone has to
\* care for the connection and for the order of Shutdown only.
LEMMA WorkerInv ==
    ASSUME IndInv, panicked = "no",
           UNCHANGED <<callerVars, workerVars, brokerVars, panicked>>,
           ConnTypeOK', StopTypeOK', CloseInv',
           worker' \in WorkerPlaces,
           worker' = "serve" <=> worker = "serve",
           channel' = "nil" =>
               worker' \in {"dial", "channel", "send", "sent", "failed"} /\ failures' > 0
    PROVE  IndInv'
<1>1. CallerTypeOK' /\ WorkerTypeOK' /\ BrokerTypeOK'
  BY Zenon DEF IndInv, TypeOK, CallerTypeOK, WorkerTypeOK, BrokerTypeOK, callerVars,
               workerVars, brokerVars, WorkerPlaces
<1>2. ServingInv' /\ ChannelInv'
  BY Zenon DEF IndInv, ServingInv, ChannelInv, workerVars
<1> QED BY <1>1, <1>2, RepliesKept, Zenon DEF IndInv, TypeOK

\* handleMessages begins to reconnect, and the steps of connect.
LEMMA ReconnectInv ==
    ASSUME IndInv, panicked = "no", Reconnect
    PROVE  IndInv'
<1> USE DEF stopVars
<1>1. ConnTypeOK /\ ChannelInv /\ CloseInv
  BY DEF IndInv, TypeOK
<1>2. StopTypeOK'
  BY Zenon DEF IndInv, TypeOK, StopTypeOK, Reconnect
<1>3. UNCHANGED <<callerVars, workerVars, brokerVars, panicked, shutdown>>
  BY Zenon DEF Reconnect
<1>4. ASSUME ConnTypeOK',
             worker \in {"select", "dial", "channel", "consume"},
             worker' \in {"select", "dial", "channel", "consume", "send"},
             channel' = "nil" =>
                 worker' \in {"dial", "channel", "send"} /\ failures' > 0
      PROVE  IndInv'
  <2>1. CloseInv'
    BY <1>1, <1>3, <1>4, Zenon DEF CloseInv
  <2> QED BY <1>2, <1>3, <1>4, <2>1, WorkerInv, Zenon DEF WorkerPlaces
<1>5. CASE AttemptConnect
  <2>1. Attempts \in 0..Attempts /\ Attempts > 0
    BY ConnectionBounds
  <2>2. ConnTypeOK'
    BY <1>1, <1>5, <2>1, Zenon DEF ConnTypeOK, AttemptConnect
  <2> QED BY <1>1, <1>4, <1>5, <2>2, Zenon DEF AttemptConnect, ChannelInv
<1>6. CASE Dial
  <2>1. (IF bound THEN orphans + 1 ELSE orphans) \in Nat
    BY <1>1 DEF ConnTypeOK
  <2>2. CASE connection' = "up" /\ worker' = "channel" /\ UNCHANGED <<left, failures>>
    <3>1. ConnTypeOK'
      BY <1>1, <1>6, <2>1, <2>2, Zenon DEF ConnTypeOK, Dial
    <3> QED BY <1>1, <1>4, <1>6, <2>2, <3>1, Zenon DEF Dial, ChannelInv
  <2>3. CASE connection' \in {"nil", "down"} /\ AttemptFailed
    <3>1. /\ left' \in 0..Attempts /\ failures' \in Nat /\ failures' > 0
          /\ worker' \in {"send", "dial"}
          /\ worker' = "dial" => left' > 0
      BY <1>6, <2>3, AttemptFailedType, Zenon DEF Dial
    <3>2. ConnTypeOK'
      BY <1>1, <1>6, <2>1, <2>3, <3>1, Zenon DEF ConnTypeOK, Dial
    <3> QED BY <1>4, <1>6, <3>1, <3>2, Zenon DEF Dial
  <2> QED BY <1>6, <2>2, <2>3, Zenon DEF Dial
<1>7. CASE OpenChannel
  <2>1. CASE channel' = "up" /\ worker' = "consume" /\ UNCHANGED <<connection, left, failures>>
    <3>1. ConnTypeOK'
      BY <1>1, <1>7, <2>1, Zenon DEF ConnTypeOK, OpenChannel
    <3> QED BY <1>4, <1>7, <2>1, <3>1, Zenon DEF OpenChannel
  <2>2. CASE channel' = "nil" /\ connection' \in {"up", "down"} /\ AttemptFailed
    <3>1. /\ left' \in 0..Attempts /\ failures' \in Nat /\ failures' > 0
          /\ worker' \in {"send", "dial"}
          /\ worker' = "dial" => left' > 0
      BY <1>7, <2>2, AttemptFailedType, Zenon DEF OpenChannel
    <3>2. ConnTypeOK'
      BY <1>1, <1>7, <2>2, <3>1, Zenon DEF ConnTypeOK, OpenChannel
    <3> QED BY <1>4, <1>7, <3>1, <3>2, Zenon DEF OpenChannel
  <2> QED BY <1>7, <2>1, <2>2, Zenon DEF OpenChannel
<1>8. CASE Consume
  <2>1. ConnTypeOK'
    BY <1>1, <1>8, Zenon DEF ConnTypeOK, Consume
  <2> QED BY <1>1, <1>4, <1>8, <2>1, Zenon DEF Consume, ChannelInv
<1>9. CASE ConsumeFails
  <2>1. /\ left' \in 0..Attempts /\ failures' \in Nat /\ failures' > 0
        /\ worker' \in {"send", "dial"}
        /\ worker' = "dial" => left' > 0
    BY <1>9, AttemptFailedType, Zenon DEF ConsumeFails
  <2>2. ConnTypeOK'
    BY <1>1, <1>9, <2>1, Zenon DEF ConnTypeOK, ConsumeFails
  <2> QED BY <1>4, <1>9, <2>1, <2>2, Zenon DEF ConsumeFails
<1> QED BY <1>5, <1>6, <1>7, <1>8, <1>9, Zenon DEF Reconnect
\* The select finds stop closed, or the error has been handed over.
LEMMA WorkerEndsInv ==
    ASSUME IndInv, panicked = "no", WorkerStop \/ WorkerFail
    PROVE  IndInv'
<1>1. UNCHANGED <<callerVars, workerVars, brokerVars, panicked, shutdown, left, connection,
                  channel, open, rejected, bound, orphans, losses, failures>>
  BY Zenon DEF WorkerStop, WorkerFail, WorkerGoes, stopVars
<1>2. \/ worker = "select" /\ worker' = "exited"
      \/ worker = "sent" /\ worker' = "failed"
  BY Zenon DEF WorkerStop, WorkerFail, WorkerGoes
<1>3. StopTypeOK'
  BY Zenon DEF IndInv, TypeOK, StopTypeOK, WorkerStop, WorkerFail, stopVars
<1>4. ConnTypeOK'
  BY <1>1, <1>2, Zenon DEF IndInv, TypeOK, ConnTypeOK
<1>5. CloseInv'
  BY <1>1, <1>2, Zenon DEF IndInv, CloseInv
<1>6. channel' = "nil" => worker' = "failed" /\ failures' > 0
  BY <1>1, <1>2, Zenon DEF IndInv, ChannelInv
<1> QED BY <1>1, <1>2, <1>3, <1>4, <1>5, <1>6, WorkerInv, Zenon DEF WorkerPlaces

\* Shutdown closes stop, waits for the worker and closes the connection.
LEMMA ShutdownInv ==
    ASSUME IndInv, panicked = "no", Shutdown \/ ShutdownWait \/ ShutdownClose
    PROVE  IndInv'
<1>1. UNCHANGED <<callerVars, workerVars, brokerVars, worker, failures>>
  BY Zenon DEF Shutdown, ShutdownWait, ShutdownClose, CloseConnection, connVars
<1>2. StopTypeOK'
  BY Zenon DEF IndInv, TypeOK, StopTypeOK, Shutdown, ShutdownWait, ShutdownClose
<1>3. ConnTypeOK'
  <2>1. CASE UNCHANGED connVars
    BY <2>1, Zenon DEF IndInv, TypeOK, ConnTypeOK, connVars
  <2>2. CASE CloseConnection
    BY <2>2, Zenon DEF IndInv, TypeOK, ConnTypeOK, CloseConnection
  <2> QED BY <2>1, <2>2, Zenon DEF Shutdown, ShutdownWait, ShutdownClose
<1>4. channel' = "nil" => channel = "nil"
  BY Zenon DEF Shutdown, ShutdownWait, ShutdownClose, CloseConnection, connVars
<1>5. CloseInv'
  <2>1. CASE Shutdown \/ ShutdownWait
    BY <2>1, Zenon DEF IndInv, CloseInv, Shutdown, ShutdownWait, connVars
  <2>2. CASE ShutdownClose
    BY <2>2, Zenon DEF IndInv, CloseInv, ShutdownClose, CloseConnection, connVars
  <2> QED BY <2>1, <2>2
<1>6. worker \in WorkerPlaces
  BY DEF IndInv, TypeOK, WorkerTypeOK, WorkerPlaces
<1>7. CASE UNCHANGED panicked
  BY <1>1, <1>2, <1>3, <1>4, <1>5, <1>6, <1>7, WorkerInv, Zenon DEF IndInv, ChannelInv
<1>8. CASE ShutdownClose /\ panicked' = "close of nil connection"
  <2>1. CallerTypeOK' /\ WorkerTypeOK' /\ BrokerTypeOK'
    BY <1>1, Zenon DEF IndInv, TypeOK, CallerTypeOK, WorkerTypeOK, BrokerTypeOK, callerVars,
                       workerVars, brokerVars
  <2>2. ServingInv' /\ ChannelInv'
    BY <1>1, <1>4, <1>8, Zenon DEF IndInv, ServingInv, ChannelInv, workerVars
  <2>3. AnswerInv'
    BY <1>1 DEF IndInv, AnswerInv, OwnReply, callerVars, workerVars, brokerVars
  <2>4. OneServer => OnceInv'
    BY <1>1, <1>8, Zenon DEF IndInv, OnceInv, NoDoubleClose, Outstanding, Queued, Served,
                             callerVars, workerVars, brokerVars
  <2> QED BY <1>2, <1>3, <1>5, <2>1, <2>2, <2>3, <2>4 DEF IndInv, TypeOK
<1> QED BY <1>7, <1>8, Zenon DEF Shutdown, ShutdownWait, ShutdownClose

-----------------------------------------------------------------------------
(* Deliveries. *)

\* A queue that is a piece of the queue before, k deliveries on, holds no
\* reply and no repetition that the queue before did not hold.
LEMMA QueuePiece ==
    ASSUME IndInv, NEW k \in Nat, UNCHANGED answers,
           queue' \in Seq(Delivery), Len(queue') + k <= Len(queue),
           \A i \in 1..Len(queue') : queue'[i] = queue[i + k]
    PROVE  /\ \A i \in 1..Len(queue') :
                 queue'[i].corr \in Calls => queue'[i].reply \in answers'[queue'[i].corr]
           /\ \A c \in Calls : Queued(c)' => Queued(c)
           /\ OneServer => \A i, j \in 1..Len(queue') :
                 queue'[i].corr \in Calls /\ queue'[i].corr = queue'[j].corr => i = j
<1>1. queue \in Seq(Delivery)
  BY DEF IndInv, TypeOK, WorkerTypeOK
<1>2. Len(queue) \in Nat /\ Len(queue') \in Nat
  BY <1>1
<1>3. \A i \in 1..Len(queue') : i + k \in 1..Len(queue) /\ queue'[i] = queue[i + k]
  BY <1>2
<1>4. \A i \in 1..Len(queue') :
        queue'[i].corr \in Calls => queue'[i].reply \in answers'[queue'[i].corr]
  BY <1>3 DEF IndInv, AnswerInv
<1>5. \A c \in Calls : Queued(c)' => Queued(c)
  BY <1>3 DEF Queued
<1>6. ASSUME OneServer, NEW i \in 1..Len(queue'), NEW j \in 1..Len(queue'),
             queue'[i].corr \in Calls, queue'[i].corr = queue'[j].corr
      PROVE  i = j
  <2>1. i + k = j + k
    BY <1>3, <1>6, Zenon DEF IndInv, OnceInv
  <2> QED BY <2>1, <1>2
<1> QED BY <1>4, <1>5, <1>6, Zenon

\* The connection ends; of what had been delivered a first part is left.
LEMMA DisconnectedInv ==
    ASSUME IndInv, panicked = "no", Disconnected
    PROVE  IndInv'
<1>1. UNCHANGED <<callerVars, serving, stopVars, brokerVars, panicked, worker, failures>>
  BY Zenon DEF Disconnected, ChannelClosed, ConnectionLost
<1>2. ConnTypeOK'
  <2>1. losses + 1 \in Nat
    BY DEF IndInv, TypeOK, ConnTypeOK
  <2> QED BY <2>1, Zenon DEF IndInv, TypeOK, ConnTypeOK, Disconnected, ChannelClosed,
                             ConnectionLost
<1>3. channel' # "up" /\ (channel' = "nil" => channel = "nil")
  BY Zenon DEF Disconnected, ChannelClosed, ConnectionLost
<1>4. queue \in Seq(Delivery)
  BY DEF IndInv, TypeOK, WorkerTypeOK
<1>5. PICK n \in 0..Len(queue) : queue' = SubSeq(queue, 1, n)
  BY DEF Disconnected
<1>6. /\ queue' \in Seq(Delivery) /\ Len(queue') = n
      /\ \A i \in 1..n : queue'[i] = queue[i + 0]
  BY <1>4, <1>5, SubSeqProperties
<1>7. Len(queue') + 0 <= Len(queue)
  BY <1>4, <1>6
<1>8. /\ \A i \in 1..Len(queue') :
             queue'[i].corr \in Calls => queue'[i].reply \in answers'[queue'[i].corr]
      /\ \A c \in Calls : Queued(c)' => Queued(c)
      /\ OneServer => \A i, j \in 1..Len(queue') :
             queue'[i].corr \in Calls /\ queue'[i].corr = queue'[j].corr => i = j
  <2>1. 0 \in Nat
    OBVIOUS
  <2> QED BY <1>1, <1>6, <1>7, <2>1, QueuePiece, Zenon DEF brokerVars
<1>9. TypeOK'
  <2>1. CallerTypeOK' /\ WorkerTypeOK'
    BY <1>1, <1>6, Zenon DEF IndInv, TypeOK, CallerTypeOK, WorkerTypeOK, callerVars
  <2>2. StopTypeOK' /\ BrokerTypeOK'
    BY <1>1, Zenon DEF IndInv, TypeOK, StopTypeOK, BrokerTypeOK, stopVars, brokerVars
  <2> QED BY <1>2, <2>1, <2>2 DEF TypeOK
<1>10. ServingInv' /\ ChannelInv' /\ CloseInv'
  BY <1>1, <1>3, Zenon DEF IndInv, ServingInv, ChannelInv, CloseInv, stopVars
<1>11. AnswerInv'
  BY <1>1, <1>8 DEF IndInv, AnswerInv, OwnReply, callerVars, brokerVars
<1>12. ASSUME OneServer PROVE OnceInv'
  BY <1>1, <1>8, <1>12, Zenon DEF IndInv, OnceInv, NoDoubleClose, Outstanding, Served,
                                  callerVars, brokerVars
<1> QED BY <1>9, <1>10, <1>11, <1>12 DEF IndInv
\* A delivery is taken from the queue; getCall finds its call or nothing.
LEMMA ReceiveInv ==
    ASSUME IndInv, panicked = "no", Receive
    PROVE  IndInv'
<1>1. queue \in Seq(Delivery) /\ queue # <<>>
  BY DEF IndInv, TypeOK, WorkerTypeOK, Receive
<1>2. /\ queue' \in Seq(Delivery) /\ Len(queue') = Len(queue) - 1
      /\ \A i \in 1..Len(queue') : queue'[i] = queue[i + 1]
      /\ Head(queue) = queue[1] /\ Head(queue) \in Delivery
  BY <1>1, HeadTailProperties DEF Receive
<1>3. Len(queue') + 1 <= Len(queue) /\ 1 \in 1..Len(queue) /\ 1 \in Nat
  BY <1>1, <1>2
<1>4. UNCHANGED <<callerVars, stopVars, brokerVars, panicked>>
  BY Zenon DEF Receive
<1>5. /\ \A i \in 1..Len(queue') :
             queue'[i].corr \in Calls => queue'[i].reply \in answers'[queue'[i].corr]
      /\ \A c \in Calls : Queued(c)' => Queued(c)
      /\ OneServer => \A i, j \in 1..Len(queue') :
             queue'[i].corr \in Calls /\ queue'[i].corr = queue'[j].corr => i = j
  BY <1>2, <1>3, <1>4, QueuePiece, Zenon DEF brokerVars
<1>6. CallerTypeOK' /\ StopTypeOK' /\ BrokerTypeOK'
  BY <1>4, Zenon DEF IndInv, TypeOK, CallerTypeOK, StopTypeOK, BrokerTypeOK, callerVars,
                     stopVars, brokerVars
<1>7. CASE UNCHANGED <<connVars, serving>>
  <2>1. ConnTypeOK' /\ WorkerTypeOK'
    <3>1. ConnTypeOK'
      BY <1>2, <1>7, Zenon DEF IndInv, TypeOK, ConnTypeOK, connVars
    <3>2. WorkerTypeOK'
      BY <1>2, <1>7, Zenon DEF IndInv, TypeOK, WorkerTypeOK, connVars
    <3> QED BY <3>1, <3>2
  <2>2. ServingInv' /\ ChannelInv' /\ CloseInv'
    BY <1>4, <1>7, Zenon DEF IndInv, ServingInv, ChannelInv, CloseInv, stopVars, connVars
  <2>3. AnswerInv'
    BY <1>4, <1>5, <1>7 DEF IndInv, AnswerInv, OwnReply, callerVars, brokerVars
  <2>4. ASSUME OneServer PROVE OnceInv'
    BY <1>4, <1>5, <1>7, <2>4, Zenon DEF IndInv, OnceInv, NoDoubleClose, Outstanding, Served,
                                         callerVars, brokerVars
  <2> QED BY <1>6, <2>1, <2>2, <2>3, <2>4, Zenon DEF IndInv, TypeOK
<1>8. ASSUME NEW c \in Targets(Head(queue)), WorkerGoes("select", "serve"),
             serving' = <<c, Head(queue).reply>>
      PROVE  IndInv'
  <2>1. c \in Calls /\ c = queue[1].corr /\ serving' = <<c, queue[1].reply>>
    BY <1>2, <1>8 DEF Targets, IndInv, TypeOK, CallerTypeOK
  <2>2. /\ serving' \in Calls \X Replies /\ serving' # <<>>
        /\ serving'[1] = c /\ serving'[2] = queue[1].reply
    BY <1>2, <2>1 DEF Delivery
  <2>3. ConnTypeOK' /\ WorkerTypeOK'
    <3>1. ConnTypeOK'
      BY <1>2, <1>8, <2>2, Zenon DEF IndInv, TypeOK, ConnTypeOK, WorkerGoes
    <3>2. WorkerTypeOK'
      BY <1>2, <1>8, <2>2, Zenon DEF IndInv, TypeOK, WorkerTypeOK, WorkerGoes
    <3> QED BY <3>1, <3>2
  <2>4. ServingInv' /\ ChannelInv' /\ CloseInv'
    BY <1>4, <1>8, <2>2, Zenon DEF IndInv, ServingInv, ChannelInv, CloseInv, stopVars,
                                   WorkerGoes
  <2>5. serving'[2] \in answers'[serving'[1]]
    BY <1>3, <1>4, <2>1, <2>2 DEF IndInv, AnswerInv, brokerVars
  <2>6. AnswerInv'
    BY <1>4, <1>5, <2>5 DEF IndInv, AnswerInv, OwnReply, callerVars, brokerVars
  <2>7. ASSUME OneServer PROVE OnceInv'
    <3>1. Queued(c)
      BY <1>3, <2>1 DEF Queued
    <3>2. ~Queued(c)'
      <4> SUFFICES ASSUME NEW i \in 1..Len(queue'), queue'[i].corr = c PROVE FALSE
        BY DEF Queued
      <4>1. i + 1 \in 1..Len(queue) /\ queue[i + 1].corr = queue[1].corr /\ i + 1 # 1
        BY <1>1, <1>2, <2>1
      <4> QED BY <1>3, <2>1, <2>7, <4>1 DEF IndInv, OnceInv
    <3>3. \A d \in Calls : Served(d)' => d = c
      BY <2>2 DEF Served
    <3>4. UNCHANGED <<pc, closed, panicked, requests>>
      BY <1>4 DEF callerVars, brokerVars
    <3>5. \A d \in Calls : Outstanding(d)' <=> Outstanding(d)
      BY <3>4 DEF Outstanding
    <3> QED BY <1>5, <2>7, <3>1, <3>2, <3>3, <3>4, <3>5, Zenon
        DEF IndInv, OnceInv, NoDoubleClose
  <2> QED BY <1>6, <2>3, <2>4, <2>6, <2>7, Zenon DEF IndInv, TypeOK
<1> QED BY <1>7, <1>8, Zenon DEF Receive

\* The call gets its reply and its done channel is closed.
LEMMA ServeCallInv ==
    ASSUME IndInv, panicked = "no", ServeCall
    PROVE  IndInv'
<1> DEFINE c == serving[1]
<1>1. serving \in Calls \X Replies /\ serving # <<>>
  BY Zenon DEF IndInv, TypeOK, WorkerTypeOK, ServingInv, ServeCall
<1>2. c \in Calls /\ serving[2] \in Replies /\ serving[2] \in answers[c]
  BY <1>1 DEF IndInv, AnswerInv
<1>3. reply \in [Calls -> Replies \cup {"none"}] /\ closed \subseteq Calls
  BY DEF IndInv, TypeOK, CallerTypeOK
<1>4. /\ reply' = [reply EXCEPT ![c] = serving[2]] /\ closed' = closed \cup {c}
      /\ WorkerGoes("serve", "select") /\ serving' = <<>>
      /\ UNCHANGED <<pc, result, calls, queue, stopVars, brokerVars>>
      /\ panicked' = IF c \in closed THEN "close of closed channel" ELSE "no"
  BY Zenon DEF ServeCall
<1>5. reply' \in [Calls -> Replies \cup {"none"}] /\ closed' \subseteq Calls
  BY <1>2, <1>3, <1>4, Zenon
<1>6. CallerTypeOK' /\ StopTypeOK' /\ BrokerTypeOK'
  BY <1>4, <1>5, Zenon DEF IndInv, TypeOK, CallerTypeOK, StopTypeOK, BrokerTypeOK,
                           stopVars, brokerVars
<1>7. ConnTypeOK' /\ WorkerTypeOK'
  <2>1. ConnTypeOK'
    BY <1>4, Zenon DEF IndInv, TypeOK, ConnTypeOK, WorkerGoes
  <2>2. WorkerTypeOK'
    BY <1>4, Zenon DEF IndInv, TypeOK, WorkerTypeOK, WorkerGoes
  <2> QED BY <2>1, <2>2
<1>8. ServingInv' /\ ChannelInv' /\ CloseInv'
  BY <1>4, Zenon DEF IndInv, ServingInv, ChannelInv, CloseInv, stopVars, WorkerGoes
<1>9. AnswerInv'
  <2>1. \A d \in closed' : reply'[d] \in answers'[d]
    BY <1>2, <1>3, <1>4, Zenon DEF IndInv, AnswerInv, brokerVars
  <2> QED BY <1>4, <2>1, Zenon DEF IndInv, AnswerInv, OwnReply, brokerVars
<1>10. ASSUME OneServer PROVE OnceInv'
  <2>1. OnceInv /\ Served(c) /\ \A d \in Calls : ~Served(d)'
    BY <1>1, <1>4, <1>10, Zenon DEF Served, IndInv
  <2>2. c \notin closed
    BY <1>2, <2>1 DEF OnceInv
  <2>3. UNCHANGED <<pc, queue, requests>>
    BY <1>4, Zenon DEF brokerVars
  <2>4. \A d \in Calls : /\ Outstanding(d)' <=> Outstanding(d)
                         /\ Queued(d)' <=> Queued(d)
    BY <2>3 DEF Outstanding, Queued
  <2>5. pc[c] \notin {"idle", "pre", "publish"} /\ ~Outstanding(c) /\ ~Queued(c)
    BY <1>2, <2>1, Zenon DEF OnceInv
  <2>6. \A d \in closed' : d \in closed \/ d = c
    BY <1>4, Zenon
  <2>7. NoDoubleClose'
    BY <1>4, <2>2 DEF NoDoubleClose
  <2> QED BY <2>1, <2>3, <2>4, <2>5, <2>6, <2>7, Zenon DEF OnceInv
<1> QED BY <1>6, <1>7, <1>8, <1>9, <1>10, Zenon DEF IndInv, TypeOK
-----------------------------------------------------------------------------
(* The broker and the servers. *)

\* A server declares its exchange.
LEMMA ServerDeclaresInv ==
    ASSUME IndInv, ServerDeclares
    PROVE  IndInv'
<1>1. /\ UNCHANGED <<callerVars, workerVars, connVars, stopVars, requests, answers, foreign,
                     panicked>>
      /\ exchange' = TRUE
  BY Zenon DEF ServerDeclares
<1>2. CallerTypeOK' /\ StopTypeOK' /\ BrokerTypeOK'
  BY <1>1, Zenon DEF IndInv, TypeOK, CallerTypeOK, StopTypeOK, BrokerTypeOK, callerVars,
                     stopVars
<1>3. ConnTypeOK' /\ WorkerTypeOK'
  <2>1. ConnTypeOK'
    BY <1>1, Zenon DEF IndInv, TypeOK, ConnTypeOK, connVars
  <2>2. WorkerTypeOK'
    BY <1>1, Zenon DEF IndInv, TypeOK, WorkerTypeOK, connVars, workerVars
  <2> QED BY <2>1, <2>2
<1>4. ServingInv' /\ ChannelInv' /\ CloseInv'
  BY <1>1, Zenon DEF IndInv, ServingInv, ChannelInv, CloseInv, stopVars, connVars, workerVars
<1>5. AnswerInv'
  BY <1>1 DEF IndInv, AnswerInv, OwnReply, callerVars, workerVars
<1>6. OneServer => OnceInv'
  BY <1>1, Zenon DEF IndInv, OnceInv, NoDoubleClose, Outstanding, Queued, Served, callerVars,
                     workerVars
<1> QED BY <1>2, <1>3, <1>4, <1>5, <1>6, Zenon DEF IndInv, TypeOK

\* A delivery goes to the end of the queue.
LEMMA QueueGrows ==
    ASSUME IndInv, NEW d \in Delivery, queue' = Append(queue, d)
    PROVE  /\ queue' \in Seq(Delivery)
           /\ Len(queue') = Len(queue) + 1 /\ Len(queue) \in Nat
           /\ \A i \in 1..Len(queue) : queue'[i] = queue[i]
           /\ queue'[Len(queue) + 1] = d
           /\ \A i \in 1..Len(queue') : i \in 1..Len(queue) \/ i = Len(queue) + 1
<1>1. queue \in Seq(Delivery)
  BY DEF IndInv, TypeOK, WorkerTypeOK
<1> QED BY <1>1

\* The server publishes one answer to a request, whatever becomes of it.
LEMMA OneAnswer ==
    ASSUME NEW h \in Handlings, NEW c, NEW q \in Seq(Delivery)
    PROVE  \E r \in Replies :
              /\ {Answers(h)[k] : k \in DOMAIN Answers(h)} = {r}
              /\ q \o Deliveries(c, Answers(h)) = Append(q, [corr |-> c, reply |-> r])
<1>1. PICK r \in Replies : Answers(h) = <<r>>
  BY Zenon DEF Answers, Handlings, Replies
<1>2. {Answers(h)[k] : k \in DOMAIN Answers(h)} = {r}
  BY <1>1
<1>3. Deliveries(c, Answers(h)) = <<[corr |-> c, reply |-> r]>>
  BY <1>1 DEF Deliveries
<1>4. q \o Deliveries(c, Answers(h)) = Append(q, [corr |-> c, reply |-> r])
  BY <1>3
<1> QED BY <1>2, <1>4

\* A server answers a request; its answer reaches the queue or is lost.
LEMMA AnswerStepInv ==
    ASSUME IndInv, NEW s \in Replicas, NEW c \in Calls, Answer(s, c)
    PROVE  IndInv'
<1>1. UNCHANGED <<callerVars, serving, connVars, stopVars, exchange, foreign, panicked>>
  BY Zenon DEF Answer
<1>2. /\ <<s, c>> \in requests /\ requests' = requests \ {<<s, c>>}
      /\ requests \subseteq Replicas \X Calls
  BY Zenon DEF Answer, IndInv, TypeOK, BrokerTypeOK
<1>3. queue \in Seq(Delivery) /\ answers \in [Calls -> SUBSET Replies]
  BY DEF IndInv, TypeOK, WorkerTypeOK, BrokerTypeOK
<1>4. PICK r \in Replies :
         /\ answers' = [answers EXCEPT ![c] = @ \cup {r}]
         /\ queue' \in {queue, Append(queue, [corr |-> c, reply |-> r])}
  <2>1. PICK h \in Handlings :
           /\ answers' = [answers EXCEPT ![c] = @ \cup {Answers(h)[k] : k \in DOMAIN Answers(h)}]
           /\ queue' \in {queue} \cup
                 IF open THEN {queue \o Deliveries(c, Answers(h))} ELSE {}
    BY Zenon DEF Answer
  <2>2. PICK r \in Replies :
           /\ {Answers(h)[k] : k \in DOMAIN Answers(h)} = {r}
           /\ queue \o Deliveries(c, Answers(h)) = Append(queue, [corr |-> c, reply |-> r])
    BY <1>3, OneAnswer, Zenon
  <2> QED BY <2>1, <2>2, Zenon
<1>5. /\ answers' \in [Calls -> SUBSET Replies]
      /\ r \in answers'[c]
      /\ \A d \in Calls : answers[d] \subseteq answers'[d]
  BY <1>3, <1>4
<1>6. [corr |-> c, reply |-> r] \in Delivery
  BY DEF Delivery
<1>7. queue' \in Seq(Delivery)
  BY <1>3, <1>4, <1>6, QueueGrows
<1>8. CallerTypeOK' /\ StopTypeOK' /\ BrokerTypeOK'
  <2>1. requests' \subseteq Replicas \X Calls
    BY <1>2
  <2> QED BY <1>1, <1>5, <2>1, Zenon DEF IndInv, TypeOK, CallerTypeOK, StopTypeOK,
                                       BrokerTypeOK, callerVars, stopVars
<1>9. ConnTypeOK' /\ WorkerTypeOK'
  <2>1. ConnTypeOK'
    BY <1>1, <1>7, Zenon DEF IndInv, TypeOK, ConnTypeOK, connVars
  <2>2. WorkerTypeOK'
    BY <1>1, <1>7, Zenon DEF IndInv, TypeOK, WorkerTypeOK, connVars
  <2> QED BY <2>1, <2>2
<1>10. ServingInv' /\ ChannelInv' /\ CloseInv'
  BY <1>1, Zenon DEF IndInv, ServingInv, ChannelInv, CloseInv, stopVars, connVars
<1>11. AnswerInv'
  <2>1. \A i \in 1..Len(queue) :
          queue[i].corr \in Calls => queue[i].reply \in answers'[queue[i].corr]
    BY <1>5 DEF IndInv, AnswerInv
  <2>2. \A i \in 1..Len(queue') :
          queue'[i].corr \in Calls => queue'[i].reply \in answers'[queue'[i].corr]
    <3>1. CASE queue' = queue
      BY <2>1, <3>1
    <3>2. CASE queue' = Append(queue, [corr |-> c, reply |-> r])
      BY <1>5, <1>6, <2>1, <3>2, QueueGrows
    <3> QED BY <1>4, <3>1, <3>2
  <2>3. serving' # <<>> => serving'[2] \in answers'[serving'[1]]
    <3>1. serving # <<>> => serving[1] \in Calls
      BY DEF IndInv, TypeOK, WorkerTypeOK
    <3> QED BY <1>1, <1>5, <3>1 DEF IndInv, AnswerInv
  <2>4. \A d \in closed' : reply'[d] \in answers'[d]
    <3>1. closed \subseteq Calls
      BY DEF IndInv, TypeOK, CallerTypeOK
    <3> QED BY <1>1, <1>5, <3>1 DEF IndInv, AnswerInv, callerVars
  <2>5. OwnReply'
    BY <1>1, <1>5 DEF IndInv, AnswerInv, OwnReply, callerVars
  <2> QED BY <2>2, <2>3, <2>4, <2>5 DEF AnswerInv
<1>12. ASSUME OneServer PROVE OnceInv'
  <2>1. OnceInv /\ UNCHANGED <<pc, closed, serving, panicked>>
    BY <1>1, <1>12 DEF IndInv, callerVars
  <2>2. Outstanding(c) /\ ~Outstanding(c)'
    BY <1>2, <1>12, Zenon DEF Outstanding, OneServer
  <2>3. \A d \in Calls : Outstanding(d)' => Outstanding(d)
    BY <1>2 DEF Outstanding
  <2>4. \A d \in Calls : Served(d)' <=> Served(d)
    BY <2>1 DEF Served
  <2>5. \A d \in Calls : Queued(d)' => Queued(d) \/ d = c
    <3>1. CASE queue' = queue
      BY <3>1 DEF Queued
    <3>2. CASE queue' = Append(queue, [corr |-> c, reply |-> r])
      BY <1>6, <3>2, QueueGrows DEF Queued
    <3> QED BY <1>4, <3>1, <3>2
  <2>6. \A i, j \in 1..Len(queue') :
          queue'[i].corr \in Calls /\ queue'[i].corr = queue'[j].corr => i = j
    <3>1. CASE queue' = queue
      BY <2>1, <3>1, Zenon DEF OnceInv
    <3>2. CASE queue' = Append(queue, [corr |-> c, reply |-> r])
      <4>1. \A i \in 1..Len(queue) : queue[i].corr # c
        BY <2>1, <2>2, Zenon DEF OnceInv, Queued
      <4>2. /\ Len(queue') = Len(queue) + 1
            /\ \A i \in 1..Len(queue) : queue'[i] = queue[i]
            /\ queue'[Len(queue) + 1].corr = c
            /\ \A i \in 1..Len(queue') : i \in 1..Len(queue) \/ i = Len(queue) + 1
        BY <1>6, <3>2, QueueGrows
      <4> QED BY <2>1, <4>1, <4>2, Zenon DEF OnceInv
    <3> QED BY <1>4, <3>1, <3>2
  <2> QED BY <2>1, <2>2, <2>3, <2>4, <2>5, <2>6, Zenon DEF OnceInv, NoDoubleClose
<1> QED BY <1>8, <1>9, <1>10, <1>11, <1>12, Zenon DEF IndInv, TypeOK
\* A reply to another client of the exchange arrives.
LEMMA ForeignReplyInv ==
    ASSUME IndInv, ForeignReply
    PROVE  IndInv'
<1> DEFINE d == [corr |-> Foreign, reply |-> "success"]
<1>1. /\ UNCHANGED <<callerVars, serving, connVars, stopVars, exchange, requests, answers,
                     panicked>>
      /\ queue' = Append(queue, d)
  BY Zenon DEF ForeignReply
<1>2. d \in Delivery /\ d.corr \notin Calls
  BY ForeignAssumption DEF Delivery, Replies
<1>3. foreign' \in 0..MaxForeign
  BY ForeignAssumption DEF ForeignReply, IndInv, TypeOK, BrokerTypeOK
<1>4. /\ queue' \in Seq(Delivery)
      /\ \A i \in 1..Len(queue) : queue'[i] = queue[i]
      /\ \A i \in 1..Len(queue') : queue'[i].corr \in Calls => i \in 1..Len(queue)
  BY <1>1, <1>2, QueueGrows
<1>5. CallerTypeOK' /\ StopTypeOK' /\ BrokerTypeOK'
  BY <1>1, <1>3, Zenon DEF IndInv, TypeOK, CallerTypeOK, StopTypeOK, BrokerTypeOK, callerVars,
                           stopVars
<1>6. ConnTypeOK' /\ WorkerTypeOK'
  <2>1. ConnTypeOK'
    BY <1>1, <1>4, Zenon DEF IndInv, TypeOK, ConnTypeOK, connVars
  <2>2. WorkerTypeOK'
    BY <1>1, <1>4, Zenon DEF IndInv, TypeOK, WorkerTypeOK, connVars
  <2> QED BY <2>1, <2>2
<1>7. ServingInv' /\ ChannelInv' /\ CloseInv'
  BY <1>1, Zenon DEF IndInv, ServingInv, ChannelInv, CloseInv, stopVars, connVars
<1>8. AnswerInv'
  <2>1. \A i \in 1..Len(queue') :
          queue'[i].corr \in Calls => queue'[i].reply \in answers'[queue'[i].corr]
    BY <1>1, <1>4 DEF IndInv, AnswerInv
  <2> QED BY <1>1, <2>1 DEF IndInv, AnswerInv, OwnReply, callerVars
<1>9. ASSUME OneServer PROVE OnceInv'
  <2>1. \A c \in Calls : Queued(c)' => Queued(c)
    BY <1>4 DEF Queued
  <2>2. \A i, j \in 1..Len(queue') :
          queue'[i].corr \in Calls /\ queue'[i].corr = queue'[j].corr => i = j
    BY <1>4, <1>9, Zenon DEF IndInv, OnceInv
  <2> QED BY <1>1, <1>9, <2>1, <2>2, Zenon DEF IndInv, OnceInv, NoDoubleClose, Outstanding,
                                               Served, callerVars
<1> QED BY <1>5, <1>6, <1>7, <1>8, <1>9, Zenon DEF IndInv, TypeOK

-----------------------------------------------------------------------------
(* The theorems. *)

\* A step that changes nothing keeps the invariant.
LEMMA StutterInv == ASSUME IndInv, UNCHANGED vars PROVE IndInv'
<1> USE DEF vars
<1>1. CallerTypeOK' /\ StopTypeOK' /\ BrokerTypeOK'
  BY Zenon DEF IndInv, TypeOK, CallerTypeOK, StopTypeOK, BrokerTypeOK, callerVars, stopVars,
               brokerVars
<1>2. ConnTypeOK' /\ WorkerTypeOK'
  <2>1. ConnTypeOK'
    BY Zenon DEF IndInv, TypeOK, ConnTypeOK, connVars
  <2>2. WorkerTypeOK'
    BY Zenon DEF IndInv, TypeOK, WorkerTypeOK, connVars, workerVars
  <2> QED BY <2>1, <2>2
<1>3. ServingInv' /\ ChannelInv' /\ CloseInv'
  BY Zenon DEF IndInv, ServingInv, ChannelInv, CloseInv, stopVars, connVars, workerVars
<1> QED BY <1>1, <1>2, <1>3, RepliesKept, Zenon DEF IndInv, TypeOK

\* The invariant is inductive.
LEMMA NextInv == ASSUME IndInv, [Next]_vars PROVE IndInv'
<1>1. ASSUME panicked = "no", NEW c \in Calls, Begin(c) \/ Caller(c) PROVE IndInv'
  BY <1>1, SilentCallerInv, PublishInv, Zenon DEF Caller
<1>2. ASSUME panicked = "no", Worker PROVE IndInv'
  BY <1>2, WorkerEndsInv, ReceiveInv, ServeCallInv, ReconnectInv, Zenon DEF Worker
<1>3. ASSUME panicked = "no", Environment PROVE IndInv'
  BY <1>3, ServerDeclaresInv, ForeignReplyInv, DisconnectedInv, AnswerStepInv, Zenon
     DEF Environment
<1> QED BY <1>1, <1>2, <1>3, ShutdownInv, StutterInv, Zenon DEF Next

\* The inductive invariant holds in every behaviour.
THEOREM Invariance == Spec => []IndInv
BY InitInv, NextInv, PTL DEF Spec

\* The client, its connection and the broker stay well formed.
THEOREM TypeCorrect == Spec => []TypeOK
BY Invariance, PTL DEF IndInv

\* remoteCallWait returns a server's verdict only if a server gave it on this
\* very call, however many servers there are and however late, lost or mixed
\* with the replies to others their replies are.
THEOREM CallsGetOwnReply == Spec => []OwnReply
<1>1. IndInv => OwnReply
  BY DEF IndInv, AnswerInv
<1> QED BY <1>1, Invariance, PTL

\* With one server on the exchange serveCall closes no done channel twice.
THEOREM OneServerClosesOnce == ASSUME OneServer PROVE Spec => []NoDoubleClose
<1>1. IndInv => NoDoubleClose
  BY DEF IndInv, OnceInv
<1> QED BY <1>1, Invariance, PTL

\* publish meets a nil conn.Channel only from a failed Connection.Channel to
\* the next attempt that opens one, never once AttemptConnect has succeeded.
THEOREM NilOnlyBetweenAttempts == Spec => []NilChannelOnlyBetweenAttempts
<1>1. IndInv => NilChannelOnlyBetweenAttempts
  BY Zenon DEF IndInv, ChannelInv, NilChannelOnlyBetweenAttempts
<1> QED BY <1>1, Invariance, PTL

\* Once Shutdown has returned, publish puts nothing on the wire, not even for
\* a call that had passed preRemoteCallWait before.
THEOREM ShutdownSilences == Spec => NothingSentAfterShutdown
<1>1. ASSUME IndInv, [Next]_vars, shutdown = "done" PROVE requests' \subseteq requests
  <2>1. channel # "up" /\ shutdown = "done"
    BY <1>1 DEF IndInv, CloseInv
  <2>2. ASSUME NEW c \in Calls, Begin(c) \/ Caller(c) PROVE requests' \subseteq requests
    BY <2>1, <2>2, Zenon DEF Begin, Caller, PreInterrupted, PrePasses, Publish, AddCall,
        WaitInterrupted, WaitTimeout, WaitDone, Return, Interrupted, brokerVars
  <2>3. ASSUME Worker PROVE requests' \subseteq requests
    BY <2>3, Zenon DEF Worker, WorkerStop, Receive, ServeCall, Reconnect, WorkerFail, brokerVars
  <2>4. ASSUME Environment PROVE requests' \subseteq requests
    BY <2>4, Zenon DEF Environment, ServerDeclares, ForeignReply, Disconnected, Answer,
                       brokerVars
  <2>5. ASSUME Shutdown \/ ShutdownWait \/ ShutdownClose PROVE requests' \subseteq requests
    BY <2>5, Zenon DEF Shutdown, ShutdownWait, ShutdownClose, brokerVars
  <2>6. ASSUME UNCHANGED vars PROVE requests' \subseteq requests
    BY <2>6, Zenon DEF vars, brokerVars
  <2> QED BY <1>1, <2>2, <2>3, <2>4, <2>5, <2>6, Zenon DEF Next
<1>2. IndInv /\ [Next]_vars => [shutdown = "done" => requests' \subseteq requests]_vars
  BY <1>1
<1> QED BY <1>2, Invariance, PTL DEF Spec, NothingSentAfterShutdown
=============================================================================
