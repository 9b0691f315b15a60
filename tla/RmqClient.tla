------------------------------ MODULE RmqClient ------------------------------
(***************************************************************************)
(* pkg/rabbitmq/rmq_rpc/client: the RPC client over RabbitMQ.  Callers of  *)
(* RemoteCall, the one worker goroutine that reads the replies and         *)
(* reconnects, and Shutdown run concurrently; the broker and the servers   *)
(* that answer are external.                                               *)
(*                                                                         *)
(* A call is its correlation id.  The worker assigns the fields of conn    *)
(* while callers read conn.Channel without a lock; a pointer is one word,  *)
(* so a racing reader sees the old or the new one, which the interleaving  *)
(* of these steps covers.                                                  *)
(***************************************************************************)
EXTENDS RmqConnection, Sequences

CONSTANTS
    Calls,        \* the invocations of RemoteCall
    Replicas,     \* server instances whose queues hang on the server exchange
    Foreign,      \* the correlation id of another client's call
    MaxForeign    \* bound on replies to other clients of the exchange

ASSUME ForeignAssumption == Foreign \notin Calls /\ MaxForeign \in Nat

\* What a server puts in the reply: the Type, and whether it has a body.
Replies == {"success", "success_no_body", "bad_handler", "internal"}

\* What RemoteCall returned.
Results == {"none", "nil", "unmarshal", "bad_handler", "internal",
            "timeout", "stopped", "notified", "canceled", "publish"}

Delivery == [corr : Calls \cup {Foreign}, reply : Replies]

VARIABLES
    pc,          \* where each RemoteCall is
    result,      \* what it returns
    calls,       \* Client.calls: the registered correlation ids
    closed,      \* calls whose done channel is closed
    reply,       \* pendingCall.status and body
    serving,     \* the delivery in serveCall
    queue,       \* conn.Delivery's undelivered messages
    stop,        \* Client.stop is closed
    notify,      \* Client.notify is closed
    ctxDone,     \* Client.ctx is canceled
    shutdown,    \* where Shutdown is
    panicked     \* what ended the process, or "no"

\* The broker and the servers.
VARIABLES
    exchange,    \* the server exchange has been declared
    requests,    \* <<server, call>>: requests that a server still holds
    answers,     \* history: what servers answered to each call
    foreign      \* counter for MaxForeign

callerVars == <<pc, result, calls, closed, reply>>
workerVars == <<serving, queue>>
stopVars   == <<stop, notify, ctxDone, shutdown>>
brokerVars == <<exchange, requests, answers, foreign>>
vars == <<callerVars, connVars, workerVars, stopVars, brokerVars, panicked>>

-----------------------------------------------------------------------------
\* New has connected (its failure returns no client) and started the worker.
Init ==
    /\ pc = [c \in Calls |-> "idle"]
    /\ result = [c \in Calls |-> "none"]
    /\ calls = {}
    /\ closed = {}
    /\ reply = [c \in Calls |-> "none"]
    /\ worker = "select"
    /\ ConnInit
    /\ serving = <<>>
    /\ queue = <<>>
    /\ stop = FALSE /\ notify = FALSE /\ ctxDone = FALSE
    /\ shutdown = "idle"
    /\ panicked = "no"
    /\ exchange \in BOOLEAN
    /\ requests = {}
    /\ answers = [c \in Calls |-> {}]
    /\ foreign = 0

-----------------------------------------------------------------------------
(* RemoteCall.                                                             *)

Goto(c, place) == pc' = [pc EXCEPT ![c] = place]

Leave(c, place, res) ==
    /\ Goto(c, place)
    /\ result' = [result EXCEPT ![c] = res]

Begin(c) ==
    /\ pc[c] = "idle"
    /\ Goto(c, "pre")
    /\ UNCHANGED <<result, calls, closed, reply, workerVars, connVars, stopVars,
                   brokerVars, panicked>>

\* The cases of a select on ctx.Done, notify and stop: one that is ready is
\* taken.  The worker's send on the unbuffered notify meets one receiver.
Interrupted(c, place) ==
    /\ \/ ctxDone /\ Leave(c, place, "canceled") /\ UNCHANGED connVars
       \/ notify /\ Leave(c, place, "notified") /\ UNCHANGED connVars
       \/ WorkerGoes("send", "sent") /\ Leave(c, place, "notified")
       \/ stop /\ Leave(c, place, "stopped") /\ UNCHANGED connVars
    /\ UNCHANGED <<calls, closed, reply, workerVars, stopVars, brokerVars, panicked>>

\* preRemoteCallWait.
PreInterrupted(c) == pc[c] = "pre" /\ Interrupted(c, "done")

PrePasses(c) ==
    /\ pc[c] = "pre"
    /\ ~ctxDone /\ ~notify /\ worker # "send" /\ ~stop
    /\ Goto(c, "publish")
    /\ UNCHANGED <<result, calls, closed, reply, workerVars, connVars, stopVars,
                   brokerVars, panicked>>

\* publish: marshalling or the channel may fail; a nil channel panics.  What
\* is written to the connection may still be lost, and the broker ends the
\* channel when the server exchange does not exist.
Publish(c) ==
    /\ pc[c] = "publish"
    /\ \/ /\ channel = "up"
          /\ Goto(c, "add")
          /\ rejected' = (rejected \/ ~exchange)
          /\ requests' \in {requests} \cup
                IF exchange THEN {requests \cup (Replicas \X {c})} ELSE {}
          /\ UNCHANGED <<result, panicked>>
       \/ /\ channel # "nil"
          /\ Leave(c, "done", "publish")
          /\ UNCHANGED <<rejected, requests, panicked>>
       \/ /\ channel = "nil"
          /\ panicked' = "publish on nil channel"
          /\ UNCHANGED <<pc, result, rejected, requests>>
    /\ UNCHANGED <<calls, closed, reply, workerVars, stopVars, worker, left, connection,
                   channel, open, bound, orphans, losses, failures,
                   exchange, answers, foreign>>

\* addCall, after the request is on its way.
AddCall(c) ==
    /\ pc[c] = "add"
    /\ calls' = calls \cup {c}
    /\ Goto(c, "wait")
    /\ UNCHANGED <<result, closed, reply, workerVars, connVars, stopVars, brokerVars, panicked>>

WaitInterrupted(c) == pc[c] = "wait" /\ Interrupted(c, "return")

\* Mutation: remoteCallWait has no timer.
WaitTimeoutNever(c) == FALSE /\ UNCHANGED vars

WaitTimeout(c) ==
    /\ pc[c] = "wait"
    /\ Leave(c, "return", "timeout")
    /\ UNCHANGED <<calls, closed, reply, workerVars, connVars, stopVars, brokerVars, panicked>>

\* The switch on call.status.
Outcome(s) ==
    CASE s = "success"         -> "nil"
      [] s = "success_no_body" -> "unmarshal"
      [] s = "bad_handler"     -> "bad_handler"
      [] s = "internal"        -> "internal"
      [] OTHER                 -> "nil"

WaitDone(c) ==
    /\ pc[c] = "wait"
    /\ c \in closed
    /\ Leave(c, "return", Outcome(reply[c]))
    /\ UNCHANGED <<calls, closed, reply, workerVars, connVars, stopVars, brokerVars, panicked>>

\* The deferred deleteCall.
Return(c) ==
    /\ pc[c] = "return"
    /\ calls' = calls \ {c}
    /\ Goto(c, "done")
    /\ UNCHANGED <<result, closed, reply, workerVars, connVars, stopVars, brokerVars, panicked>>

-----------------------------------------------------------------------------
(* The worker: start, handleMessages, serveCall, AttemptConnect.  The      *)
(* select's case on ctx.Done is never ready: ctx is canceled only once     *)
(* this goroutine has returned.                                            *)

WorkerStop ==
    /\ stop
    /\ WorkerGoes("select", "exited")
    /\ UNCHANGED <<callerVars, workerVars, stopVars, brokerVars, panicked>>

\* Mutation: the worker answers whatever call is registered.
TargetsAny(d) == calls

\* The call that getCall finds for a delivery.
Targets(d) == {d.corr} \cap calls

\* A delivery is received and getCall looks its call up; one that is not
\* registered is acknowledged and forgotten.
Receive ==
    /\ worker = "select"
    /\ queue # <<>>
    /\ queue' = Tail(queue)
    /\ \/ /\ Targets(Head(queue)) = {}
          /\ UNCHANGED <<connVars, serving>>
       \/ \E c \in Targets(Head(queue)) :
             /\ WorkerGoes("select", "serve")
             /\ serving' = <<c, Head(queue).reply>>
    /\ UNCHANGED <<callerVars, stopVars, brokerVars, panicked>>

\* The rest of serveCall: closing a closed channel panics.
ServeCall ==
    /\ worker = "serve"
    /\ reply' = [reply EXCEPT ![serving[1]] = serving[2]]
    /\ panicked' = IF serving[1] \in closed THEN "close of closed channel" ELSE "no"
    /\ closed' = closed \cup {serving[1]}
    /\ WorkerGoes("serve", "select")
    /\ serving' = <<>>
    /\ UNCHANGED <<pc, result, calls, queue, stopVars, brokerVars>>

\* reconnect, once the delivery channel is drained and closed.
Reconnect ==
    /\ \/ queue = <<>> /\ AttemptConnect
       \/ Dial \/ OpenChannel \/ Consume \/ ConsumeFails
    /\ UNCHANGED <<callerVars, workerVars, stopVars, brokerVars, panicked>>

\* notify has handed the error over: close(notify) and return err, on which
\* the errgroup cancels ctx.
WorkerFail ==
    /\ WorkerGoes("sent", "failed")
    /\ notify' = TRUE
    /\ ctxDone' = TRUE
    /\ UNCHANGED <<callerVars, workerVars, stop, shutdown, brokerVars, panicked>>

-----------------------------------------------------------------------------
(* Shutdown.                                                               *)

Shutdown ==
    /\ shutdown = "idle"
    /\ stop' = TRUE
    /\ shutdown' = "wait"
    /\ UNCHANGED <<callerVars, workerVars, connVars, notify, ctxDone, brokerVars, panicked>>

\* eg.Wait, which cancels ctx when it returns.
ShutdownWait ==
    /\ shutdown = "wait"
    /\ worker \in {"exited", "failed"}
    /\ ctxDone' = TRUE
    /\ shutdown' = "close"
    /\ UNCHANGED <<callerVars, workerVars, connVars, stop, notify, brokerVars, panicked>>

\* Mutation: the connection is left open.
ShutdownNoClose ==
    /\ shutdown = "close"
    /\ shutdown' = "done"
    /\ UNCHANGED <<callerVars, workerVars, connVars, stop, notify, ctxDone, brokerVars, panicked>>

\* closeConnection: Close on a nil connection panics.
ShutdownClose ==
    /\ shutdown = "close"
    /\ \/ /\ CloseConnection
          /\ shutdown' = "done"
          /\ UNCHANGED panicked
       \/ /\ connection = "nil"
          /\ panicked' = "close of nil connection"
          /\ UNCHANGED <<connVars, shutdown>>
    /\ UNCHANGED <<callerVars, workerVars, stop, notify, ctxDone, brokerVars>>

-----------------------------------------------------------------------------
(* The broker and the servers.                                             *)

ServerDeclares ==
    /\ ~exchange
    /\ exchange' = TRUE
    /\ UNCHANGED <<callerVars, workerVars, connVars, stopVars, requests, answers, foreign,
                   panicked>>

\* What can become of a request in the server.
Handlings == {"no_handler", "error", "response", "unmarshalable"}

\* Mutation: the error path does not return.
AnswersTwice(h) ==
    CASE h = "no_handler" -> <<"bad_handler">>
      [] h = "error"      -> <<"internal", "success">>
      [] h = "response"   -> <<"success">>
      [] OTHER            -> <<"success_no_body">>

\* What the server's serveCall publishes.
Answers(h) ==
    CASE h = "no_handler" -> <<"bad_handler">>
      [] h = "error"      -> <<"internal">>
      [] h = "response"   -> <<"success">>
      [] OTHER            -> <<"success_no_body">>

Deliveries(c, rs) == [k \in DOMAIN rs |-> [corr |-> c, reply |-> rs[k]]]

\* A server answers a request; the reply reaches this client's queue if there
\* is one and no publish or network failure loses it.
Answer(s, c) ==
    /\ <<s, c>> \in requests
    /\ requests' = requests \ {<<s, c>>}
    /\ \E h \in Handlings :
          /\ answers' = [answers EXCEPT ![c] = @ \cup {Answers(h)[k] : k \in DOMAIN Answers(h)}]
          /\ queue' \in {queue} \cup
                IF open THEN {queue \o Deliveries(c, Answers(h))} ELSE {}
    /\ UNCHANGED <<callerVars, serving, connVars, stopVars, exchange, foreign, panicked>>

\* A reply to another client that consumes from the same exchange.
ForeignReply ==
    /\ foreign < MaxForeign
    /\ open
    /\ foreign' = foreign + 1
    /\ queue' = Append(queue, [corr |-> Foreign, reply |-> "success"])
    /\ UNCHANGED <<callerVars, serving, connVars, stopVars, exchange, requests, answers,
                   panicked>>

\* The channel or the connection ends; the worker can still read some of what
\* had been delivered before it finds the delivery channel closed.
Disconnected ==
    /\ ChannelClosed \/ ConnectionLost
    /\ queue' \in {SubSeq(queue, 1, n) : n \in 0 .. Len(queue)}
    /\ UNCHANGED <<callerVars, serving, stopVars, brokerVars, panicked>>

-----------------------------------------------------------------------------
Caller(c) ==
    \/ PreInterrupted(c) \/ PrePasses(c) \/ Publish(c) \/ AddCall(c)
    \/ WaitInterrupted(c) \/ WaitTimeout(c) \/ WaitDone(c) \/ Return(c)

Worker ==
    \/ WorkerStop \/ Receive \/ ServeCall \/ Reconnect \/ WorkerFail

Environment ==
    \/ ServerDeclares \/ ForeignReply \/ Disconnected
    \/ \E s \in Replicas, c \in Calls : Answer(s, c)

Next ==
    /\ panicked = "no"
    /\ \/ \E c \in Calls : Begin(c) \/ Caller(c)
       \/ Worker
       \/ Shutdown \/ ShutdownWait \/ ShutdownClose
       \/ Environment

Spec == Init /\ [][Next]_vars

Running(A) == panicked = "no" /\ A

\* Goroutines that can run do run, and a select that keeps finding stop ready
\* takes it some time, because select chooses among the ready cases at random.
Fairness ==
    /\ \A c \in Calls : WF_vars(Running(Caller(c)))
    /\ WF_vars(Running(Worker))
    /\ SF_vars(Running(WorkerStop))
    /\ WF_vars(Running(ShutdownWait \/ ShutdownClose))

FairSpec == Spec /\ Fairness

-----------------------------------------------------------------------------
(* Properties.                                                             *)

CallerTypeOK ==
    /\ pc \in [Calls -> {"idle", "pre", "publish", "add", "wait", "return", "done"}]
    /\ result \in [Calls -> Results]
    /\ calls \subseteq Calls
    /\ closed \subseteq Calls
    /\ reply \in [Calls -> Replies \cup {"none"}]

WorkerTypeOK ==
    /\ worker \in {"select", "serve", "dial", "channel", "consume", "send", "sent",
                   "exited", "failed"}
    /\ serving \in {<<>>} \cup (Calls \X Replies)
    /\ queue \in Seq(Delivery)

StopTypeOK ==
    /\ stop \in BOOLEAN /\ notify \in BOOLEAN /\ ctxDone \in BOOLEAN
    /\ shutdown \in {"idle", "wait", "close", "done"}
    /\ panicked \in {"no", "publish on nil channel", "close of closed channel",
                     "close of nil connection"}

BrokerTypeOK ==
    /\ exchange \in BOOLEAN
    /\ requests \subseteq Replicas \X Calls
    /\ answers \in [Calls -> SUBSET Replies]
    /\ foreign \in 0 .. MaxForeign

\* The type invariant of the client, its worker and the broker.
TypeOK == CallerTypeOK /\ ConnTypeOK /\ WorkerTypeOK /\ StopTypeOK /\ BrokerTypeOK

\* A call returns a server's verdict only if a server gave that verdict on
\* this very call, whatever replies to other calls, to other clients or to
\* calls that timed out come in between.
OwnReply ==
    \A c \in Calls :
        result[c] \in {"nil", "unmarshal", "bad_handler", "internal"} =>
            \E a \in answers[c] : Outcome(a) = result[c]

\* With one server on the exchange no delivery closes a done channel twice,
\* through reconnects, timeouts and late replies.
NoDoubleClose == panicked # "close of closed channel"

\* Once Shutdown has returned, no call puts a request on the wire, not even
\* one that had passed its checks before.
NothingSentAfterShutdown ==
    [][shutdown = "done" => requests' \subseteq requests]_vars

\* Every RemoteCall returns, whatever the broker, the servers and the worker
\* do, unless the process has panicked.
EveryCallReturns ==
    \A c \in Calls : pc[c] = "pre" ~> pc[c] = "done" \/ panicked # "no"

\* Shutdown, once called, returns.
ShutdownReturns == shutdown = "wait" ~> shutdown = "done" \/ panicked # "no"

\* Shutdown, once called, returns, unless reconnecting has used up every attempt
\* and the worker's error still waits for a RemoteCall to receive it.
ShutdownReturnsUnlessGivenUp ==
    shutdown = "wait" ~>
        shutdown = "done" \/ panicked # "no" \/ (worker = "send" /\ left = 0)

\* A RemoteCall ends the process on a nil conn.Channel only after an attempt to
\* reconnect has failed in Connection.Channel and before another has opened a
\* channel: never once AttemptConnect has succeeded.
NilChannelOnlyBetweenAttempts ==
    panicked = "publish on nil channel" =>
        worker \in {"dial", "channel", "send", "sent", "failed"} /\ failures > 0

==============================================================================
