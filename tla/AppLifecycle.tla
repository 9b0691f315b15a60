---------------------------- MODULE AppLifecycle ----------------------------
(***************************************************************************)
(* The process from main to its end: migrations, the pool, the four        *)
(* servers with their goroutines and handlers, the signal, the sequential  *)
(* shutdown, and the release of the pool.  The RabbitMQ server is here as  *)
(* module RmqServer shows it to the application; the others are modelled   *)
(* in full.  Handlers are not assumed to end.                              *)
(***************************************************************************)
EXTENDS Naturals, Sequences, FiniteSets

CONSTANTS Attempts,       \* of opening the database (20) and the pool (10)
          MaxSignals      \* bound: SIGINT and SIGTERM that arrive

ASSUME AttemptsAssumption == Attempts \in Nat \ {0}
ASSUME MaxSignalsAssumption == MaxSignals \in Nat

Servers == {"http", "grpc", "rmq", "nats"}

VARIABLES
    main,       \* where main() is
    left,       \* attempts left in the current retry loop
    pool,       \* "none", "open", "closing" or "closed"
    go,         \* per server: the state of the goroutine in its errgroup
    stopped,    \* per server: Shutdown has told it to stop
    notify,     \* per server: the notify channel, buffered with one place
    busy,       \* per server: a handler, "none", "between" queries or in a "query"
    caught,     \* who is registered for signals: "http" and "main"
    httpDone,   \* the context of the HTTP server is cancelled
    interrupt,  \* a signal waits in the channel of waitForShutdown
    signals,    \* signals that have arrived
    late,       \* the HTTP server ended with a handler still running
    nilConn,    \* the RabbitMQ server's last dial left no connection
    natsCall,   \* the call of a NATS client: its message, its reply or its result
    natsRan,    \* what the handler did for this very call
    natsOld,    \* a message whose caller has gone waits in the subscription; bound: one
    end         \* how the process ended, "no" before

vars == <<main, left, pool, go, stopped, notify, busy, caught, httpDone, interrupt,
          signals, late, nilConn, natsCall, natsRan, natsOld, end>>
nats == <<natsCall, natsRan, natsOld>>

Empty == [err |-> FALSE, closed |-> FALSE]
Init ==
    /\ main = "migrate" /\ left = Attempts /\ pool = "none"
    /\ go = [s \in Servers |-> "idle"]
    /\ stopped = [s \in Servers |-> FALSE]
    /\ notify = [s \in Servers |-> Empty]
    /\ busy = [s \in Servers |-> "none"]
    /\ caught = {} /\ httpDone = FALSE /\ interrupt = FALSE /\ signals = 0
    /\ late = FALSE /\ nilConn = FALSE /\ end = "no"
    /\ natsCall = "error" /\ natsRan = "no" /\ natsOld = FALSE

servers == <<go, stopped, notify, busy, late, nilConn, nats>>
signalling == <<caught, httpDone, interrupt, signals>>

-----------------------------------------------------------------------------
(* Start-up: each step goes on or ends the process with a fatal error. *)
Step(from, to) ==
    /\ end = "no" /\ main = from /\ main' = to
    /\ UNCHANGED <<servers, signalling, end>>
Fatal(from) ==
    /\ end = "no" /\ main = from /\ end' = "fatal"
    /\ UNCHANGED <<main, left, pool, servers, signalling>>

AttemptFailsOnce(from) ==
    /\ end = "no" /\ main = from
    /\ left' = left - 1
    /\ UNCHANGED <<main, pool, servers, signalling, end>>
\* An attempt fails; after the last one the error is fatal.
AttemptFails(from) ==
    /\ end = "no" /\ main = from
    /\ left' = left - 1
    /\ end' = IF left' > 0 THEN "no" ELSE "fatal"
    /\ UNCHANGED <<main, pool, servers, signalling>>

runMigrations ==
    \/ Fatal("migrate")      \* no PG_URL
    \/ Step("migrate", "up") /\ left' = Attempts /\ UNCHANGED pool
    \/ AttemptFails("migrate")
    \/ Step("up", "config") /\ UNCHANGED <<left, pool>>     \* or ErrNoChange
    \/ Fatal("up")
loadConfig ==
    \/ Step("config", "tracing") /\ UNCHANGED <<left, pool>>
    \/ Fatal("config")
newTracing ==
    \/ Step("tracing", "pool") /\ UNCHANGED <<left, pool>>
    \/ Fatal("tracing")
newPostgres ==
    \/ Fatal("pool")         \* the URL does not parse
    \/ Step("pool", "rmqNew") /\ pool' = "open" /\ left' = Attempts
    \/ AttemptFails("pool")

\* The HTTP server registers for signals when it is made, after the others.
httpNewDeaf == UNCHANGED caught
httpNew == caught' = caught \union {"http"}
initServers ==
    \/ Step("rmqNew", "natsNew") /\ UNCHANGED <<left, pool>>
    \/ Fatal("rmqNew")
    \/ /\ end = "no" /\ main = "natsNew" /\ main' = "rmqStart"
       /\ httpNew
       /\ UNCHANGED <<left, pool, servers, httpDone, interrupt, signals, end>>
    \/ Fatal("natsNew")

StartOrder == <<"rmq", "nats", "grpc", "http">>
StartAt(s) == CASE s = "rmq" -> "rmqStart" [] s = "nats" -> "natsStart"
                [] s = "grpc" -> "grpcStart" [] s = "http" -> "httpStart"
startServers ==
    \E i \in 1..4 :
        /\ end = "no" /\ main = StartAt(StartOrder[i])
        /\ main' = IF i < 4 THEN StartAt(StartOrder[i + 1]) ELSE "register"
        /\ go' = [go EXCEPT ![StartOrder[i]] = "starting"]
        /\ UNCHANGED <<left, pool, stopped, notify, busy, late, nilConn, nats,
                       signalling, end>>

-----------------------------------------------------------------------------
(* The goroutines of the servers. *)
Ready(s) == notify[s].err \/ notify[s].closed
EndsUnbuffered(s, err, closed) ==      \* the send waits for the select
    /\ err => main = "select"
    /\ go' = [go EXCEPT ![s] = "done"]
    /\ notify' = [notify EXCEPT ![s] = [err |-> err, closed |-> closed]]
\* The goroutine ends; it may have sent an error, and may close notify.
Ends(s, err, closed) ==
    /\ go' = [go EXCEPT ![s] = "done"]
    /\ notify' = [notify EXCEPT ![s] = [err |-> err, closed |-> closed]]

\* HTTP: the listener fails, or serves until the context is cancelled; then no
\* new requests, and the end comes with the last handler or the grace period.
httpEnds(err) ==      \* both deferred calls: stop() and close(notify)
    /\ Ends("http", err, TRUE)
    /\ httpDone' = TRUE /\ caught' = caught \ {"http"}
httpGoroutine ==
    /\ end = "no"
    /\ \/ /\ go["http"] = "starting"
          /\ go' = [go EXCEPT !["http"] = "serving"]
          /\ UNCHANGED <<notify, late, caught, httpDone>>
       \/ /\ go["http"] = "serving" /\ httpDone
          /\ go' = [go EXCEPT !["http"] = "draining"]
          /\ UNCHANGED <<notify, late, caught, httpDone>>
       \/ /\ go["http"] = "draining" /\ busy["http"] = "none"
          /\ httpEnds(FALSE) /\ UNCHANGED late
       \/ /\ go["http"] = "draining" /\ busy["http"] # "none"
          /\ httpEnds(FALSE) /\ late' = TRUE
    /\ UNCHANGED <<main, left, pool, stopped, busy, interrupt, signals, nilConn, nats, end>>
httpFails ==
    /\ end = "no" /\ go["http"] \in {"starting", "serving"}
    /\ httpEnds(TRUE) /\ late' = (busy["http"] # "none")
    /\ UNCHANGED <<main, left, pool, stopped, busy, interrupt, signals, nilConn,
                   nats, end>>

\* gRPC: GracefulStop makes Serve return nil once the calls have ended; a Serve
\* that comes after GracefulStop fails.  notify is closed only on a failure.
grpcGoroutine ==
    /\ end = "no"
    /\ \/ /\ go["grpc"] = "starting" /\ ~stopped["grpc"]
          /\ go' = [go EXCEPT !["grpc"] = "serving"] /\ UNCHANGED notify
       \/ /\ go["grpc"] = "starting" /\ stopped["grpc"]
          /\ Ends("grpc", TRUE, TRUE)
       \/ /\ go["grpc"] = "serving" /\ stopped["grpc"] /\ busy["grpc"] = "none"
          /\ Ends("grpc", FALSE, FALSE)
    /\ UNCHANGED <<main, left, pool, stopped, busy, late, nilConn, nats, signalling, end>>
grpcFails ==
    /\ end = "no" /\ go["grpc"] \in {"starting", "serving"} /\ ~stopped["grpc"]
    /\ Ends("grpc", TRUE, TRUE)
    /\ UNCHANGED <<main, left, pool, stopped, busy, late, nilConn, nats, signalling, end>>

\* NATS: the goroutine subscribes and waits for stop; the library runs the
\* handlers in a goroutine of its own.
natsGoroutine ==
    /\ end = "no"
    /\ \/ /\ go["nats"] = "starting"
          /\ go' = [go EXCEPT !["nats"] = "serving"] /\ UNCHANGED notify
       \/ /\ go["nats"] = "serving" /\ stopped["nats"]
          /\ Ends("nats", FALSE, FALSE)
    /\ UNCHANGED <<main, left, pool, stopped, busy, late, nilConn, nats, signalling, end>>
natsFails ==
    /\ end = "no" /\ go["nats"] = "starting"
    /\ Ends("nats", TRUE, TRUE)
    /\ UNCHANGED <<main, left, pool, stopped, busy, late, nilConn, nats, signalling, end>>

\* RabbitMQ: the goroutine runs the handlers itself; it ends on stop, or gives
\* up after its reconnect attempts, the last of which may leave no connection.
rmqGoroutine ==
    /\ end = "no" /\ busy["rmq"] = "none"
    /\ \/ /\ go["rmq"] = "starting"
          /\ go' = [go EXCEPT !["rmq"] = "serving"] /\ UNCHANGED notify
       \/ /\ go["rmq"] = "serving" /\ stopped["rmq"]
          /\ Ends("rmq", FALSE, FALSE)
    /\ UNCHANGED <<main, left, pool, stopped, busy, late, nilConn, nats, signalling, end>>
rmqGivesUp ==
    /\ end = "no" /\ go["rmq"] = "serving" /\ busy["rmq"] = "none"
    /\ Ends("rmq", TRUE, TRUE)
    /\ nilConn' \in BOOLEAN
    /\ UNCHANGED <<main, left, pool, stopped, busy, late, nats, signalling, end>>

-----------------------------------------------------------------------------
(* Handlers: a request is accepted, runs queries, and ends.  None is assumed *)
(* to end, nor to be stopped by its context. *)
NatsConnected == ~(stopped["nats"] /\ main \in {"close", "closing", "flush"})
Subscribed == /\ end = "no" /\ NatsConnected
              /\ go["nats"] \in {"serving", "done"} /\ ~notify["nats"].closed
Accepting(s) ==
    CASE s = "http" -> go["http"] = "serving"
      [] s = "grpc" -> go["grpc"] = "serving" /\ ~stopped["grpc"]
      [] s = "rmq"  -> go["rmq"] = "serving"
      [] s = "nats" -> Subscribed

\* The next message of the subscription goes to its handler, the oldest first.
callHandler ==
    \/ natsOld /\ natsOld' = FALSE /\ UNCHANGED <<natsCall, natsRan>>
    \/ /\ ~natsOld /\ natsCall = "sent"
       /\ natsCall' = "taken" /\ natsRan' = "called" /\ UNCHANGED natsOld
Begin(s) ==
    /\ end = "no" /\ busy[s] = "none" /\ Accepting(s)
    /\ busy' = [busy EXCEPT ![s] = "between"]
    /\ IF s = "nats" THEN callHandler ELSE UNCHANGED nats
    /\ UNCHANGED <<main, left, pool, go, stopped, notify, late, nilConn, signalling, end>>
\* A query holds a connection of the pool; a closed pool gives none.
Query(s) ==
    /\ end = "no"
    /\ \/ busy[s] = "between" /\ pool = "open" /\ busy' = [busy EXCEPT ![s] = "query"]
       \/ busy[s] = "query" /\ busy' = [busy EXCEPT ![s] = "between"]
    /\ UNCHANGED <<main, left, pool, go, stopped, notify, late, nilConn, nats, signalling, end>>

\* publish sends a status to the caller whose message it is, which may have
\* gone; a closed connection sends nothing, which the server only logs.
publishToWaiting(status) ==      \* to whoever waits
    natsCall' = IF natsCall \in {"sent", "taken"} /\ NatsConnected THEN status ELSE natsCall
publish(status) ==
    natsCall' = IF natsCall = "taken" /\ NatsConnected THEN status ELSE natsCall
\* handleMessage after its handler: an error of the handler and a response that
\* does not marshal have the same status.
Ran(outcome) == natsRan' = IF natsRan = "called" THEN outcome ELSE natsRan
handleMessage ==
    /\ \/ publish("Success") /\ Ran("ok")
       \/ publish("ErrInternalServer") /\ Ran("failed")
    /\ UNCHANGED natsOld
Finish(s) ==
    /\ end = "no" /\ busy[s] = "between"
    /\ busy' = [busy EXCEPT ![s] = "none"]
    /\ IF s = "nats" THEN handleMessage ELSE UNCHANGED nats
    /\ UNCHANGED <<main, left, pool, go, stopped, notify, late, nilConn, signalling, end>>

processVars == <<main, left, pool, go, stopped, notify, busy, late, nilConn, signalling, end>>
\* handleMessage of a message whose handler is not in the router.
badHandler ==
    /\ busy["nats"] = "none" /\ Subscribed
    /\ \/ natsOld /\ natsOld' = FALSE /\ UNCHANGED natsCall
       \/ ~natsOld /\ natsCall = "sent" /\ natsCall' = "ErrBadHandler" /\ UNCHANGED natsOld
    /\ UNCHANGED <<natsRan, processVars>>

\* RemoteCall of a NATS client in another process.  A request that does not
\* marshal, or that nobody subscribes to, fails at once and is left out.
Returned == {"error", "nil", "bad", "internal"}
remoteCall ==
    /\ natsCall \in Returned /\ Subscribed
    /\ natsCall' = "sent" /\ natsRan' = "no"
    /\ UNCHANGED <<natsOld, processVars>>
\* RequestMsg gives up, on its timeout or another error: a reply is late or lost,
\* a message that no handler has taken waits on or is lost.
remoteCallFails ==
    /\ natsCall \notin Returned /\ natsCall' = "error" /\ natsRan' = "no"
    /\ natsOld' \in {natsOld, natsOld \/ natsCall = "sent"}
    /\ UNCHANGED processVars
\* RequestMsg has the reply: the switch over its status.
remoteCallReturns ==
    /\ \/ natsCall = "Success" /\ natsCall' \in {"nil", "error"}      \* Unmarshal fails
       \/ natsCall = "ErrBadHandler" /\ natsCall' = "bad"
       \/ natsCall = "ErrInternalServer" /\ natsCall' = "internal"
    /\ natsRan' = IF natsCall' = "error" THEN "no" ELSE natsRan
    /\ UNCHANGED <<natsOld, processVars>>

-----------------------------------------------------------------------------
(* Signals, and what main does after it has started the servers. *)
Signal ==
    /\ end = "no" /\ signals < MaxSignals
    /\ signals' = signals + 1
    /\ end' = IF caught = {} THEN "killed" ELSE "no"
    /\ httpDone' = (httpDone \/ "http" \in caught)
    /\ interrupt' = (interrupt \/ "main" \in caught)
    /\ UNCHANGED <<main, left, pool, servers, caught>>

Main(from, to) == end = "no" /\ main = from /\ main' = to
waitForShutdown ==
    /\ Main("register", "select")
    /\ caught' = caught \union {"main"}
    /\ UNCHANGED <<left, pool, servers, httpDone, interrupt, signals, end>>
waitForShutdownSignal ==
    /\ Main("select", "stopHttp")
    /\ \/ interrupt /\ interrupt' = FALSE /\ UNCHANGED notify
       \/ \E s \in Servers : /\ Ready(s)
                             /\ notify' = [notify EXCEPT ![s].err = FALSE]
                             /\ UNCHANGED interrupt
    /\ UNCHANGED <<left, pool, go, stopped, busy, late, nilConn, nats, caught, httpDone,
                   signals, end>>

\* Each Shutdown tells its server to stop and waits for its goroutine.
Tell(s) ==
    /\ stopped' = [stopped EXCEPT ![s] = TRUE]
    /\ UNCHANGED <<left, pool, go, notify, busy, late, nilConn, nats, interrupt, signals, end>>
Wait(s) == go[s] = "done" /\ UNCHANGED <<left, pool, servers, signalling, end>>
httpShutdown ==
    \/ /\ Main("stopHttp", "waitHttp") /\ Tell("http")
       /\ httpDone' = TRUE /\ caught' = caught \ {"http"}
    \/ Main("waitHttp", "stopGrpc") /\ Wait("http")
grpcShutdownNow ==      \* Stop in place of GracefulStop: the calls are not waited for
    \/ Main("stopGrpc", "waitGrpc") /\ Tell("grpc") /\ UNCHANGED <<caught, httpDone>>
    \/ Main("waitGrpc", "stopRmq") /\ UNCHANGED <<left, pool, servers, signalling, end>>
grpcShutdown ==
    \/ Main("stopGrpc", "waitGrpc") /\ Tell("grpc") /\ UNCHANGED <<caught, httpDone>>
    \/ Main("waitGrpc", "stopRmq") /\ busy["grpc"] = "none" /\ Wait("grpc")
\* Without a connection Shutdown panics, and main goes on to its deferred calls.
rmqShutdown ==
    \/ Main("stopRmq", "waitRmq") /\ Tell("rmq") /\ UNCHANGED <<caught, httpDone>>
    \/ ~nilConn /\ Main("waitRmq", "stopNats") /\ Wait("rmq")
    \/ nilConn /\ Main("waitRmq", "close") /\ Wait("rmq")
natsShutdownNoWait ==
    \/ Main("stopNats", "waitNats") /\ Tell("nats") /\ UNCHANGED <<caught, httpDone>>
    \/ Main("waitNats", "close") /\ UNCHANGED <<left, pool, servers, signalling, end>>
natsShutdown ==
    \/ Main("stopNats", "waitNats") /\ Tell("nats") /\ UNCHANGED <<caught, httpDone>>
    \/ Main("waitNats", "close") /\ Wait("nats")

\* The deferred calls: signal.Stop, pg.Close, which waits for the connections
\* in use, and shutdownTracing; then main returns or the panic ends the process.
runReturns ==
    \/ /\ Main("close", "closing") /\ pool' = "closing" /\ caught' = {}
       /\ UNCHANGED <<left, servers, httpDone, interrupt, signals, end>>
    \/ /\ Main("closing", "flush") /\ \A s \in Servers : busy[s] # "query"
       /\ pool' = "closed"
       /\ UNCHANGED <<left, servers, signalling, end>>
    \/ /\ end = "no" /\ main = "flush"
       /\ end' = IF nilConn THEN "panic" ELSE "clean"
       /\ UNCHANGED <<main, left, pool, servers, signalling>>

mainStep ==
    \/ runMigrations \/ loadConfig \/ newTracing \/ newPostgres \/ initServers
    \/ startServers \/ waitForShutdown \/ waitForShutdownSignal
    \/ httpShutdown \/ grpcShutdown \/ rmqShutdown \/ natsShutdown \/ runReturns

Next ==
    \/ mainStep
    \/ httpGoroutine \/ grpcGoroutine \/ natsGoroutine \/ rmqGoroutine
    \/ httpFails \/ grpcFails \/ natsFails \/ rmqGivesUp
    \/ \E s \in Servers : Begin(s) \/ Query(s) \/ Finish(s)
    \/ badHandler \/ remoteCall \/ remoteCallFails \/ remoteCallReturns
    \/ Signal

\* What the Go scheduler and the timers guarantee: goroutines that can run do,
\* the grace period ends, and the select of the RabbitMQ server, which chooses at
\* random, takes stop in the end even when there is always another delivery
\* (strong fairness).  Nothing about handlers, nor about remote callers.
Fairness ==
    /\ WF_vars(mainStep)
    /\ WF_vars(httpGoroutine) /\ WF_vars(grpcGoroutine)
    /\ WF_vars(natsGoroutine) /\ SF_vars(rmqGoroutine)

Spec == Init /\ [][Next]_vars /\ Fairness

-----------------------------------------------------------------------------
Starting == {"rmqStart", "natsStart", "grpcStart", "httpStart", "register"}
Stopping == {"stopHttp", "waitHttp", "stopGrpc", "waitGrpc", "stopRmq", "waitRmq",
             "stopNats", "waitNats"}
Before == {"migrate", "up", "config", "tracing", "pool", "rmqNew", "natsNew"}

\* Every variable has its type, and a retry loop goes on only with attempts left.
TypeOK ==
    /\ main \in Before \union Starting \union {"select"} \union Stopping
                \union {"close", "closing", "flush"}
    /\ left \in 0..Attempts /\ (left = 0 => end = "fatal")
    /\ pool \in {"none", "open", "closing", "closed"}
    /\ go \in [Servers -> {"idle", "starting", "serving", "draining", "done"}]
    /\ stopped \in [Servers -> BOOLEAN]
    /\ notify \in [Servers -> [err : BOOLEAN, closed : BOOLEAN]]
    /\ busy \in [Servers -> {"none", "between", "query"}]
    /\ caught \subseteq {"http", "main"}
    /\ httpDone \in BOOLEAN /\ interrupt \in BOOLEAN
    /\ late \in BOOLEAN /\ nilConn \in BOOLEAN
    /\ signals \in 0..MaxSignals
    /\ natsCall \in Returned \union {"sent", "taken", "Success", "ErrBadHandler",
                                    "ErrInternalServer"}
    /\ natsRan \in {"no", "called", "ok", "failed"} /\ natsOld \in BOOLEAN
    /\ end \in {"no", "fatal", "killed", "panic", "clean"}

\* Safety: when run() begins to close the pool, no gRPC call and no RabbitMQ
\* call is in progress, and an HTTP handler only where the server ended with
\* one still running (Shutdown's grace period, Serve's failure).  NATS handlers
\* run outside the errgroup and may be: they are the exception.
DrainedBeforeClose ==
    pool \in {"closing", "closed"} =>
        /\ busy["grpc"] = "none" /\ busy["rmq"] = "none"
        /\ busy["http"] # "none" => late

\* Safety: a signal ends the process at once only before the servers exist,
\* after they have been shut down, or in the one gap where the HTTP server has
\* ended, on its failure or on an earlier signal, and given its registration
\* back before waitForShutdown takes one.
SignalsCaught ==
    end = "killed" =>
        \/ main \in Before \union {"closing", "flush"}
        \/ main = "register" /\ go["http"] = "done" /\ (notify["http"].err \/ signals > 1)

\* Safety: main returns normally only when every server goroutine has ended and
\* the pool is closed, so nothing started by Run is left behind.
CleanExit ==
    end = "clean" => pool = "closed" /\ \A s \in Servers : go[s] = "done" /\ stopped[s]

Asked == signals > 0 \/ \E s \in Servers : Ready(s)
HeldUp ==
    \/ busy["grpc"] # "none" \/ busy["rmq"] # "none"
    \/ \E s \in Servers : busy[s] = "query"
\* Liveness: after a signal or the failure of any server the process ends,
\* however the servers and their notify channels are caught, unless a gRPC or
\* RabbitMQ handler never ends or a handler never gives its connection back.
StopsUnlessHeldUp == <>Asked => (<>(end # "no") \/ <>[]HeldUp)

\* Safety: what RemoteCall of the NATS client returns is the verdict on this very
\* call, although callers give up and call again while the handlers of their
\* abandoned messages wait or run and the server shuts down: nil only when its
\* own handler succeeded, ErrInternalServer only when that failed, and
\* ErrBadHandler only when no handler was called for it.
OwnVerdict ==
    /\ natsCall = "nil" => natsRan = "ok"
    /\ natsCall = "internal" => natsRan = "failed"
    /\ natsCall = "bad" => natsRan = "no"
=============================================================================
