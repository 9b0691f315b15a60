------------------------------ MODULE RmqServer ------------------------------
(***************************************************************************)
(* pkg/rabbitmq/rmq_rpc/server: the RPC server over RabbitMQ, and the part *)
(* of internal/app that waits for its failure and shuts it down.  One      *)
(* worker goroutine consumes the requests, runs the handlers, publishes    *)
(* the replies and reconnects.                                             *)
(***************************************************************************)
EXTENDS RmqConnection, Sequences

CONSTANT Requests  \* the requests that clients publish, each once

VARIABLES
    sent,      \* requests that clients have published
    queue,     \* deliveries the worker has not received
    requeued,  \* what the broker took back, unacknowledged, when a channel ended
    serving,   \* the delivery in serveCall and the status it will publish
    runs,      \* how often the handler of each request has run
    settled,   \* requests that serveCall has finished with
    stop,      \* Server.stop is closed
    notify,    \* what is in the buffer of Server.notify: empty or error
    notified,  \* app has received the error
    shutdown,  \* where app and Server.Shutdown are
    panicked   \* what ended the process, or "no"

requestVars == <<sent, queue, requeued, serving, runs, settled>>
appVars == <<stop, notify, notified, shutdown>>
vars == <<connVars, requestVars, appVars, panicked>>

\* New has connected; Start has not been called.
Init ==
    /\ worker = "new"
    /\ ConnInit
    /\ sent = {}
    /\ queue = <<>>
    /\ requeued = <<>>
    /\ serving = <<>>
    /\ runs = [r \in Requests |-> 0]
    /\ settled = {}
    /\ stop = FALSE
    /\ notify = "empty"
    /\ notified = FALSE
    /\ shutdown = "starting"
    /\ panicked = "no"

-----------------------------------------------------------------------------
(* The worker: Start, handleMessages, serveCall.  As in the client the     *)
(* select's case on ctx.Done is never ready.                               *)

Start ==
    /\ shutdown = "starting"
    /\ WorkerGoes("new", "select")
    /\ shutdown' = "waiting"
    /\ UNCHANGED <<requestVars, stop, notify, notified, panicked>>

WorkerStop ==
    /\ stop
    /\ WorkerGoes("select", "exited")
    /\ UNCHANGED <<requestVars, appVars, panicked>>

\* A delivery is received and its handler looked up in the router.
Receive ==
    /\ worker = "select"
    /\ queue # <<>>
    /\ queue' = Tail(queue)
    /\ \/ /\ WorkerGoes("select", "handle")
          /\ serving' = <<Head(queue), "none">>
       \/ /\ WorkerGoes("select", "publish")
          /\ serving' = <<Head(queue), "bad_handler">>
    /\ UNCHANGED <<sent, requeued, runs, settled, appVars, panicked>>

\* callHandler, then json.Marshal, whose error is only logged.
Handle ==
    /\ WorkerGoes("handle", "publish")
    /\ runs' = [runs EXCEPT ![serving[1]] = @ + 1]
    /\ \E status \in {"internal", "success", "success_no_body"} :
          serving' = <<serving[1], status>>
    /\ UNCHANGED <<sent, queue, requeued, settled, appVars, panicked>>

\* publish, whose error is only logged, and the deferred ack.  The exchange
\* a request names in ReplyTo may not exist.
PublishReply ==
    /\ worker = "publish"
    /\ worker' = "select"
    /\ rejected' \in IF channel = "up" THEN {rejected, TRUE} ELSE {rejected}
    /\ settled' = settled \cup {serving[1]}
    /\ serving' = <<>>
    /\ UNCHANGED <<left, connection, channel, open, bound, orphans, losses, failures,
                   sent, queue, requeued, runs, appVars, panicked>>

\* Mutation: the queue is not exclusive, so a new connection gets back what
\* the old one had not acknowledged.
RedeliveredShared(unacked) == unacked

\* What a queue declared by a new connection holds of the old one's messages:
\* nothing, the queue is exclusive to its connection and has a fresh name.
Redelivered(unacked) == <<>>

\* reconnect, once the delivery channel is drained and closed.
Reconnect ==
    /\ \/ queue = <<>> /\ AttemptConnect /\ UNCHANGED <<queue, requeued>>
       \/ (Dial \/ OpenChannel \/ ConsumeFails) /\ UNCHANGED <<queue, requeued>>
       \/ Consume /\ queue' = Redelivered(requeued) /\ requeued' = <<>>
    /\ UNCHANGED <<sent, serving, runs, settled, appVars, panicked>>

\* Mutation: notify has no buffer, so the send waits for app to receive.
WorkerFailUnbuffered ==
    /\ shutdown = "waiting"
    /\ WorkerGoes("send", "failed")
    /\ notify' = "error"
    /\ UNCHANGED <<requestVars, stop, notified, shutdown, panicked>>

\* Mutation: the error is returned to the errgroup and not sent.
WorkerFailSilent ==
    /\ WorkerGoes("send", "failed")
    /\ UNCHANGED <<requestVars, appVars, panicked>>

\* The error goes into notify's buffer of one, notify is closed, the worker
\* returns.
WorkerFail ==
    /\ WorkerGoes("send", "failed")
    /\ notify' = "error"
    /\ UNCHANGED <<requestVars, stop, notified, shutdown, panicked>>

-----------------------------------------------------------------------------
(* app.waitForShutdownSignal and shutdownServers, and Server.Shutdown.     *)

\* The select in app receives from Notify.
AppNotified ==
    /\ shutdown = "waiting"
    /\ notify = "error"
    /\ notify' = "empty"
    /\ notified' = TRUE
    /\ shutdown' = "stop"
    /\ UNCHANGED <<connVars, requestVars, stop, panicked>>

\* A signal, or the failure of another server.
AppInterrupted ==
    /\ shutdown = "waiting"
    /\ shutdown' = "stop"
    /\ UNCHANGED <<connVars, requestVars, stop, notify, notified, panicked>>

ShutdownStop ==
    /\ shutdown = "stop"
    /\ stop' = TRUE
    /\ shutdown' = "wait"
    /\ UNCHANGED <<connVars, requestVars, notify, notified, panicked>>

\* Mutation: Shutdown does not wait for the worker.
ShutdownNoWait ==
    /\ shutdown = "wait"
    /\ shutdown' = "close"
    /\ UNCHANGED <<connVars, requestVars, stop, notify, notified, panicked>>

\* eg.Wait.
ShutdownWait ==
    /\ shutdown = "wait"
    /\ worker \in {"exited", "failed"}
    /\ shutdown' = "close"
    /\ UNCHANGED <<connVars, requestVars, stop, notify, notified, panicked>>

\* closeConnection: Close on a nil connection panics.
ShutdownClose ==
    /\ shutdown = "close"
    /\ \/ /\ CloseConnection
          /\ shutdown' = "done"
          /\ UNCHANGED panicked
       \/ /\ connection = "nil"
          /\ panicked' = "close of nil connection"
          /\ UNCHANGED <<connVars, shutdown>>
    /\ UNCHANGED <<requestVars, stop, notify, notified>>

-----------------------------------------------------------------------------
(* Clients and the broker.                                                 *)

\* A client publishes a request, which reaches the queue or is lost.
Request(r) ==
    /\ r \notin sent
    /\ sent' = sent \cup {r}
    /\ queue' \in {queue} \cup IF open THEN {Append(queue, r)} ELSE {}
    /\ UNCHANGED <<connVars, requeued, serving, runs, settled, appVars, panicked>>

\* The channel or the connection ends.  The worker can still receive some of
\* what had been delivered; the broker takes back all that is not acknowledged.
Disconnected ==
    /\ ChannelClosed \/ ConnectionLost
    /\ queue' \in {SubSeq(queue, 1, n) : n \in 0 .. Len(queue)}
    /\ requeued' = (IF serving = <<>> THEN <<>> ELSE <<serving[1]>>) \o queue
    /\ UNCHANGED <<sent, serving, runs, settled, appVars, panicked>>

-----------------------------------------------------------------------------
Worker ==
    \/ WorkerStop \/ Receive \/ Handle \/ PublishReply \/ Reconnect \/ WorkerFail

App ==
    \/ AppNotified \/ ShutdownStop \/ ShutdownWait \/ ShutdownClose

Next ==
    /\ panicked = "no"
    /\ \/ Start \/ Worker \/ App \/ AppInterrupted
       \/ (\E r \in Requests : Request(r)) \/ Disconnected

Spec == Init /\ [][Next]_vars

Running(A) == panicked = "no" /\ A

\* The goroutines run; handlers and the Shutdown of the servers that app stops
\* before this one return; a select that keeps finding stop
\* ready takes it some time, because select chooses at random.
Fairness ==
    /\ WF_vars(Running(Worker))
    /\ SF_vars(Running(WorkerStop))
    /\ WF_vars(Running(App))

FairSpec == Spec /\ Fairness

-----------------------------------------------------------------------------
(* Properties.                                                             *)

\* A request's handler runs at most once, although an unacknowledged delivery
\* can still be in the worker's hands when its channel ends and the worker
\* reconnects.
AtMostOnce == \A r \in Requests : runs[r] <= 1

\* When Shutdown has returned, every request whose handler ran has had its
\* reply published, or refused by the channel, and been acknowledged, and no
\* handler runs from then on: the resources it uses can be released.
DrainedOnShutdown ==
    shutdown = "done" =>
        /\ worker \notin {"handle", "publish"}
        /\ \A r \in Requests : runs[r] > 0 => r \in settled

\* The worker never publishes a reply on a nil channel, on which Publish would
\* panic, although a failed attempt to reconnect leaves one behind.
ReplyChannelExists == worker \in {"handle", "publish"} => channel # "nil"

\* Shutdown, once called, returns, even when reconnecting was given up and
\* nobody receives the error.
ShutdownReturns == shutdown = "stop" ~> shutdown = "done" \/ panicked # "no"

\* A server that gave up reconnecting does not stay up deaf: app is told, or
\* is stopping already, and shuts the server down.
GivingUpEndsServer ==
    worker = "send" ~> shutdown = "done" \/ panicked # "no"

\* Shutdown does not panic when the worker has failed to reconnect.
ShutdownDoesNotPanic == panicked # "close of nil connection"

==============================================================================
