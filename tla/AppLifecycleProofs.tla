------------------------- MODULE AppLifecycleProofs -------------------------
(***************************************************************************)
(* The safety properties of AppLifecycle, for every number of attempts and *)
(* of signals.                                                             *)
(***************************************************************************)
EXTENDS AppLifecycle, TLAPS

\* Where main is once each Shutdown has returned.  A RabbitMQ server without a
\* connection makes it panic, which skips the Shutdown of the NATS server.
Closing == {"close", "closing", "flush"}
NatsPhase == {"stopNats", "waitNats"} \union Closing
RmqPhase == {"stopRmq", "waitRmq"} \union NatsPhase
GrpcPhase == {"stopGrpc", "waitGrpc"} \union RmqPhase

\* What Shutdown leaves behind stays so: a goroutine that has ended is never
\* started again.
StoppedInv ==
    /\ main = "waitHttp" \/ main \in GrpcPhase => stopped["http"]
    /\ main \in GrpcPhase => go["http"] = "done"
    /\ main = "waitGrpc" \/ main \in RmqPhase => stopped["grpc"]
    /\ main \in RmqPhase => go["grpc"] = "done" /\ busy["grpc"] = "none"
    /\ main = "waitRmq" \/ main \in NatsPhase => stopped["rmq"]
    /\ main \in NatsPhase => go["rmq"] = "done"
    /\ main = "waitNats" => stopped["nats"]
    /\ main \in Closing /\ ~nilConn => go["nats"] = "done" /\ stopped["nats"]
    /\ main = "stopNats" \/ main = "waitNats" => ~nilConn

\* No goroutine runs before it is started, the RabbitMQ goroutine runs its
\* handlers itself, and the HTTP server notes a handler that it leaves behind.
HandlersInv ==
    /\ main \in Before \union {"rmqStart"} => go["rmq"] = "idle"
    /\ busy["rmq"] # "none" => go["rmq"] = "serving"
    /\ go["http"] = "done" /\ busy["http"] # "none" => late

\* Who is registered for signals, and why the HTTP server has stopped.
SignalsInv ==
    /\ main \in Before => caught = {} /\ ~httpDone
    /\ main \in Before \union (Starting \ {"register"}) => go["http"] = "idle"
    /\ go["http"] = "draining" => httpDone
    /\ main \in Starting \ {"register"} => "http" \in caught
    /\ main = "register" =>
          "http" \in caught \/ (go["http"] = "done" /\ (notify["http"].err \/ signals > 0))
    /\ main \in Starting /\ httpDone => signals > 0 \/ go["http"] = "done"
    /\ main \in {"select", "close"} \union Stopping => "main" \in caught

EndInv ==
    /\ pool \in {"closing", "closed"} => main \in {"closing", "flush"}
    /\ main = "flush" => pool = "closed"
    /\ end = "clean" => main = "flush" /\ ~nilConn

IndInv == TypeOK /\ StoppedInv /\ HandlersInv /\ SignalsInv /\ EndInv /\ SignalsCaught
-----------------------------------------------------------------------------
\* A start-up step of main that goes on to another one.
LEMMA StepKeeps ==
    ASSUME NEW from \in Before, NEW to \in Before, IndInv, Step(from, to),
           left' \in 1..Attempts, pool' \in {pool, "open"}
    PROVE  IndInv'
<1>1. TypeOK'
  BY DEF IndInv, TypeOK, nats, Before, Starting, Stopping, Servers, Step, servers, signalling
<1>2. StoppedInv'
  BY DEF IndInv, StoppedInv, Closing, NatsPhase, RmqPhase, GrpcPhase, TypeOK, Servers,
     Before, Step, servers, signalling
<1>3. HandlersInv'
  BY DEF IndInv, HandlersInv, Before, TypeOK, Servers, Step, servers, signalling
<1>4. SignalsInv'
  BY DEF IndInv, SignalsInv, Before, Starting, Stopping, TypeOK, Servers, Step, servers,
     signalling
<1>5. EndInv'
  BY DEF IndInv, EndInv, Before, Step, servers, signalling
<1>6. SignalsCaught'
  BY DEF IndInv, SignalsCaught, Before, Starting, SignalsInv, Stopping, TypeOK, Servers,
     Step, servers, signalling
<1> QED BY <1>1, <1>2, <1>3, <1>4, <1>5, <1>6 DEF IndInv

\* A fatal error during start-up (log.Fatal) changes nothing but the end.
LEMMA FatalKeeps ==
    ASSUME NEW from \in Before, IndInv, Fatal(from)
    PROVE  IndInv'
<1>1. TypeOK'
  BY DEF IndInv, TypeOK, nats, Before, Starting, Stopping, Servers, Fatal, servers, signalling
<1>2. StoppedInv'
  BY DEF IndInv, StoppedInv, Closing, NatsPhase, RmqPhase, GrpcPhase, TypeOK, Servers,
     Before, Fatal, servers, signalling
<1>3. HandlersInv'
  BY DEF IndInv, HandlersInv, Before, TypeOK, Servers, Fatal, servers, signalling
<1>4. SignalsInv'
  BY DEF IndInv, SignalsInv, Before, Starting, Stopping, TypeOK, Servers, Fatal,
     servers, signalling
<1>5. EndInv'
  BY DEF IndInv, EndInv, Before, Fatal, servers, signalling
<1>6. SignalsCaught'
  BY DEF IndInv, SignalsCaught, Before, Starting, SignalsInv, Stopping, TypeOK, Servers,
     Fatal, servers, signalling
<1> QED BY <1>1, <1>2, <1>3, <1>4, <1>5, <1>6 DEF IndInv

\* A failed attempt to reach the database leaves one less, and the last is fatal.
LEMMA AttemptFailsKeeps ==
    ASSUME NEW from \in Before, IndInv, AttemptFails(from)
    PROVE  IndInv'
<1>1. TypeOK'
  BY AttemptsAssumption, MaxSignalsAssumption DEF IndInv, TypeOK, nats, Before, Starting,
     Stopping, Servers, AttemptFails, servers, signalling
<1>2. StoppedInv'
  BY DEF IndInv, StoppedInv, Closing, NatsPhase, RmqPhase, GrpcPhase, TypeOK, Servers,
     Before, AttemptFails, servers, signalling
<1>3. HandlersInv'
  BY DEF IndInv, HandlersInv, Before, TypeOK, Servers, AttemptFails, servers, signalling
<1>4. SignalsInv'
  BY DEF IndInv, SignalsInv, Before, Starting, Stopping, TypeOK, Servers, AttemptFails,
     servers, signalling
<1>5. EndInv'
  BY DEF IndInv, EndInv, Before, AttemptFails, servers, signalling
<1>6. SignalsCaught'
  BY DEF IndInv, SignalsCaught, Before, Starting, SignalsInv, Stopping, TypeOK, Servers,
     AttemptFails, servers, signalling
<1> QED BY <1>1, <1>2, <1>3, <1>4, <1>5, <1>6 DEF IndInv

\* Migrations, configuration, tracing and the pool.
LEMMA StartUpKeeps ==
    ASSUME IndInv, runMigrations \/ loadConfig \/ newTracing \/ newPostgres
    PROVE  IndInv'
<1>1. left \in 0..Attempts /\ (end = "no" => left \in 1..Attempts) /\ Attempts \in 1..Attempts
  BY AttemptsAssumption DEF IndInv, TypeOK
<1>2. {"migrate", "up", "config", "tracing", "pool", "rmqNew"} \subseteq Before
  BY DEF Before
<1>3. CASE runMigrations
  BY <1>1, <1>2, <1>3, StepKeeps, FatalKeeps, AttemptFailsKeeps DEF runMigrations, Step
<1>4. CASE loadConfig
  BY <1>1, <1>2, <1>4, StepKeeps, FatalKeeps DEF loadConfig, Step
<1>5. CASE newTracing
  BY <1>1, <1>2, <1>5, StepKeeps, FatalKeeps DEF newTracing, Step
<1>6. CASE newPostgres
  BY <1>1, <1>2, <1>6, StepKeeps, FatalKeeps, AttemptFailsKeeps DEF newPostgres, Step
<1> QED BY <1>3, <1>4, <1>5, <1>6

\* How a goroutine ends keeps the types of go and notify.
LEMMA EndsType ==
    ASSUME NEW s \in Servers, NEW err \in BOOLEAN, NEW closed \in BOOLEAN,
           TypeOK, Ends(s, err, closed)
    PROVE  /\ go' \in [Servers -> {"idle", "starting", "serving", "draining", "done"}]
           /\ notify' \in [Servers -> [err : BOOLEAN, closed : BOOLEAN]]
  BY DEF TypeOK, Ends

\* Telling a server to stop keeps the type of stopped.
LEMMA TellType ==
    ASSUME NEW s \in Servers, TypeOK, Tell(s)
    PROVE  stopped' \in [Servers -> BOOLEAN]
  BY DEF TypeOK, Tell

\* The servers are made, and the HTTP server registers for signals.
LEMMA initServersKeeps ==
    ASSUME IndInv, initServers
    PROVE  IndInv'
<1>1. CASE Step("rmqNew", "natsNew") /\ UNCHANGED <<left, pool>>
  <2>1. left \in 1..Attempts
    BY <1>1, AttemptsAssumption DEF IndInv, TypeOK, Step
  <2> QED BY <1>1, <2>1, StepKeeps DEF Before
<1>2. CASE Fatal("rmqNew") \/ Fatal("natsNew")
  BY <1>2, FatalKeeps DEF Before
<1>3. CASE /\ end = "no" /\ main = "natsNew" /\ main' = "rmqStart"
           /\ httpNew
           /\ UNCHANGED <<left, pool, servers, httpDone, interrupt, signals, end>>
  <2>1. TypeOK'
    BY <1>3 DEF IndInv, TypeOK, nats, Before, Starting, Stopping, Servers, httpNew, servers
  <2>2. StoppedInv'
    BY <1>3 DEF IndInv, StoppedInv, Closing, NatsPhase, RmqPhase, GrpcPhase, TypeOK,
       Servers, httpNew, servers
  <2>3. HandlersInv'
    BY <1>3 DEF IndInv, HandlersInv, Before, TypeOK,
       Servers, httpNew, servers
  <2>4. SignalsInv'
    BY <1>3 DEF IndInv, SignalsInv, Before, Starting, Stopping, TypeOK,
       Servers, httpNew, servers
  <2>5. EndInv'
    BY <1>3 DEF IndInv, EndInv, httpNew, servers
  <2>6. SignalsCaught'
    BY <1>3 DEF IndInv, SignalsCaught, Before, Starting, SignalsInv, Stopping, TypeOK,
       Servers, httpNew, servers
  <2> QED BY <2>1, <2>2, <2>3, <2>4, <2>5, <2>6 DEF IndInv
<1> QED BY <1>1, <1>2, <1>3 DEF initServers

\* No server is started twice, so what a server is told at its start is new.
LEMMA startServersKeeps ==
    ASSUME IndInv, startServers
    PROVE  IndInv'
<1>1. TypeOK'
  BY DEF IndInv, TypeOK, nats, Before, Starting, Stopping, Servers, startServers, StartAt,
     StartOrder, servers, signalling
<1>2. StoppedInv'
  BY DEF IndInv, StoppedInv, Closing, NatsPhase, RmqPhase, GrpcPhase, TypeOK, Servers,
     startServers, StartAt, StartOrder, servers, signalling
<1>3. HandlersInv'
  BY DEF IndInv, HandlersInv, Before, TypeOK, Servers, startServers, StartAt,
     StartOrder, servers, signalling
<1>4. SignalsInv'
  BY DEF IndInv, SignalsInv, Before, Starting, Stopping, TypeOK, Servers, startServers,
     StartAt, StartOrder, servers, signalling
<1>5. EndInv'
  BY DEF IndInv, EndInv, startServers, StartAt, StartOrder, servers, signalling
<1>6. SignalsCaught'
  BY DEF IndInv, SignalsCaught, Before, Starting, SignalsInv, Stopping, TypeOK, Servers,
     startServers, StartAt, StartOrder, servers, signalling
<1> QED BY <1>1, <1>2, <1>3, <1>4, <1>5, <1>6 DEF IndInv

\* waitForShutdown registers main for signals.
LEMMA waitForShutdownKeeps ==
    ASSUME IndInv, waitForShutdown
    PROVE  IndInv'
<1>1. TypeOK'
  BY DEF IndInv, TypeOK, nats, Before, Starting, Stopping, Servers, waitForShutdown, Main,
     servers
<1>2. SignalsInv'
  BY DEF IndInv, SignalsInv, Before, Starting, Stopping, TypeOK, Servers,
     waitForShutdown, Main, servers
<1>3. SignalsCaught'
  BY DEF IndInv, SignalsCaught, Before, Starting, SignalsInv, Stopping, TypeOK, Servers,
     waitForShutdown, Main, servers
<1>4. StoppedInv' /\ HandlersInv' /\ EndInv'
  BY DEF IndInv, StoppedInv, Closing, NatsPhase, RmqPhase, GrpcPhase, TypeOK, Servers,
     HandlersInv, Before, EndInv, waitForShutdown, Main, servers
<1> QED BY <1>1, <1>2, <1>3, <1>4 DEF IndInv

\* The select of waitForShutdown takes a signal or an error of a server.
LEMMA waitForShutdownSignalKeeps ==
    ASSUME IndInv, waitForShutdownSignal
    PROVE  IndInv'
<1>1. TypeOK'
  <2>1. \A s \in Servers : [notify[s] EXCEPT !.err = FALSE] \in [err : BOOLEAN, closed : BOOLEAN]
    BY ZenonT(30) DEF IndInv, TypeOK
  <2>2. notify' \in [Servers -> [err : BOOLEAN, closed : BOOLEAN]]
    BY <2>1 DEF IndInv, TypeOK, waitForShutdownSignal
  <2>3. UNCHANGED <<left, pool, go, stopped, busy, late, nilConn, nats, caught, httpDone,
                    signals, end>>
    BY Zenon DEF waitForShutdownSignal
  <2>4. main' \in Stopping /\ interrupt' \in BOOLEAN
    BY Zenon DEF IndInv, TypeOK, Stopping, waitForShutdownSignal, Main
  <2> QED BY <2>2, <2>3, <2>4 DEF IndInv, TypeOK, nats
<1>2. SignalsInv'
  BY DEF IndInv, SignalsInv, Before, Starting, Stopping, TypeOK, Servers,
     waitForShutdownSignal, Main, Ready
<1>3. SignalsCaught'
  BY DEF IndInv, SignalsCaught, Before, Starting, SignalsInv, Stopping, TypeOK, Servers,
     waitForShutdownSignal, Main, Ready
<1>4. StoppedInv' /\ HandlersInv' /\ EndInv'
  BY DEF IndInv, StoppedInv, Closing, NatsPhase, RmqPhase, GrpcPhase, TypeOK, Servers,
     HandlersInv, Before, EndInv, waitForShutdownSignal, Main, Ready
<1> QED BY <1>1, <1>2, <1>3, <1>4 DEF IndInv

\* Shutdown of the HTTP server: main is registered while the server is not.
LEMMA httpShutdownKeeps ==
    ASSUME IndInv, httpShutdown
    PROVE  IndInv'
<1>1. TypeOK'
  <2>1. main' \in Stopping \union {"close"}
    BY DEF httpShutdown, Main, Stopping
  <2>2. stopped' \in [Servers -> BOOLEAN]
    BY TellType, Zenon DEF httpShutdown, Wait, servers, IndInv, TypeOK, Servers
  <2>3. UNCHANGED <<left, pool, go, notify, busy, late, nilConn, nats, interrupt, signals, end>>
    BY DEF httpShutdown, Tell, Wait, servers, signalling
  <2>4. caught' \subseteq {"http", "main"} /\ httpDone' \in BOOLEAN
    BY Zenon DEF httpShutdown, Tell, Wait, signalling, IndInv, TypeOK
  <2> QED BY <2>1, <2>2, <2>3, <2>4 DEF IndInv, TypeOK, nats
<1>2. StoppedInv'
  BY DEF IndInv, StoppedInv, Closing, NatsPhase, RmqPhase, GrpcPhase, TypeOK, Servers,
     httpShutdown, Main, Tell, Wait, servers, signalling
<1>3. HandlersInv'
  BY DEF IndInv, HandlersInv, Before, TypeOK, Servers, httpShutdown, Main, Tell, Wait,
     servers, signalling
<1>4. SignalsInv'
  BY DEF IndInv, SignalsInv, Before, Starting, Stopping, TypeOK, Servers, httpShutdown,
     Main, Tell, Wait, servers, signalling
<1>5. EndInv'
  BY DEF IndInv, EndInv, httpShutdown, Main, Tell, Wait, servers, signalling
<1>6. SignalsCaught'
  BY DEF IndInv, SignalsCaught, Before, Starting, SignalsInv, Stopping, TypeOK, Servers,
     httpShutdown, Main, Tell, Wait, servers, signalling
<1> QED BY <1>1, <1>2, <1>3, <1>4, <1>5, <1>6 DEF IndInv

\* Shutdown of the gRPC server returns with no call in progress.
LEMMA grpcShutdownKeeps ==
    ASSUME IndInv, grpcShutdown
    PROVE  IndInv'
<1>1. TypeOK'
  <2>1. main' \in Stopping \union {"close"}
    BY DEF grpcShutdown, Main, Stopping
  <2>2. stopped' \in [Servers -> BOOLEAN]
    BY TellType, Zenon DEF grpcShutdown, Wait, servers, IndInv, TypeOK, Servers
  <2>3. UNCHANGED <<left, pool, go, notify, busy, late, nilConn, nats, interrupt, signals, end>>
    BY DEF grpcShutdown, Tell, Wait, servers, signalling
  <2>4. caught' \subseteq {"http", "main"} /\ httpDone' \in BOOLEAN
    BY Zenon DEF grpcShutdown, Tell, Wait, signalling, IndInv, TypeOK
  <2> QED BY <2>1, <2>2, <2>3, <2>4 DEF IndInv, TypeOK, nats
<1>2. StoppedInv'
  BY DEF IndInv, StoppedInv, Closing, NatsPhase, RmqPhase, GrpcPhase, TypeOK, Servers,
     grpcShutdown, Main, Tell, Wait, servers, signalling
<1>3. HandlersInv'
  BY DEF IndInv, HandlersInv, Before, TypeOK, Servers, grpcShutdown, Main, Tell, Wait,
     servers, signalling
<1>4. SignalsInv'
  BY DEF IndInv, SignalsInv, Before, Starting, Stopping, TypeOK, Servers, grpcShutdown,
     Main, Tell, Wait, servers, signalling
<1>5. EndInv'
  BY DEF IndInv, EndInv, grpcShutdown, Main, Tell, Wait, servers, signalling
<1>6. SignalsCaught'
  BY DEF IndInv, SignalsCaught, Before, Starting, SignalsInv, Stopping, TypeOK, Servers,
     grpcShutdown, Main, Tell, Wait, servers, signalling
<1> QED BY <1>1, <1>2, <1>3, <1>4, <1>5, <1>6 DEF IndInv

\* Shutdown of the RabbitMQ server, which may panic and skip that of NATS.
LEMMA rmqShutdownKeeps ==
    ASSUME IndInv, rmqShutdown
    PROVE  IndInv'
<1>1. TypeOK'
  <2>1. main' \in Stopping \union {"close"}
    BY DEF rmqShutdown, Main, Stopping
  <2>2. stopped' \in [Servers -> BOOLEAN]
    BY TellType, Zenon DEF rmqShutdown, Wait, servers, IndInv, TypeOK, Servers
  <2>3. UNCHANGED <<left, pool, go, notify, busy, late, nilConn, nats, interrupt, signals, end>>
    BY DEF rmqShutdown, Tell, Wait, servers, signalling
  <2>4. caught' \subseteq {"http", "main"} /\ httpDone' \in BOOLEAN
    BY Zenon DEF rmqShutdown, Tell, Wait, signalling, IndInv, TypeOK
  <2> QED BY <2>1, <2>2, <2>3, <2>4 DEF IndInv, TypeOK, nats
<1>2. StoppedInv'
  BY DEF IndInv, StoppedInv, Closing, NatsPhase, RmqPhase, GrpcPhase, TypeOK, Servers,
     rmqShutdown, Main, Tell, Wait, servers, signalling
<1>3. HandlersInv'
  BY DEF IndInv, HandlersInv, Before, TypeOK, Servers, rmqShutdown, Main, Tell, Wait,
     servers, signalling
<1>4. SignalsInv'
  BY DEF IndInv, SignalsInv, Before, Starting, Stopping, TypeOK, Servers, rmqShutdown,
     Main, Tell, Wait, servers, signalling
<1>5. EndInv'
  BY DEF IndInv, EndInv, rmqShutdown, Main, Tell, Wait, servers, signalling
<1>6. SignalsCaught'
  BY DEF IndInv, SignalsCaught, Before, Starting, SignalsInv, Stopping, TypeOK, Servers,
     rmqShutdown, Main, Tell, Wait, servers, signalling
<1> QED BY <1>1, <1>2, <1>3, <1>4, <1>5, <1>6 DEF IndInv

\* Shutdown of the NATS server waits for its goroutine.
LEMMA natsShutdownKeeps ==
    ASSUME IndInv, natsShutdown
    PROVE  IndInv'
<1>1. TypeOK'
  <2>1. main' \in Stopping \union {"close"}
    BY DEF natsShutdown, Main, Stopping
  <2>2. stopped' \in [Servers -> BOOLEAN]
    BY TellType, Zenon DEF natsShutdown, Wait, servers, IndInv, TypeOK, Servers
  <2>3. UNCHANGED <<left, pool, go, notify, busy, late, nilConn, nats, interrupt, signals, end>>
    BY DEF natsShutdown, Tell, Wait, servers, signalling
  <2>4. caught' \subseteq {"http", "main"} /\ httpDone' \in BOOLEAN
    BY Zenon DEF natsShutdown, Tell, Wait, signalling, IndInv, TypeOK
  <2> QED BY <2>1, <2>2, <2>3, <2>4 DEF IndInv, TypeOK, nats
<1>2. StoppedInv'
  BY DEF IndInv, StoppedInv, Closing, NatsPhase, RmqPhase, GrpcPhase, TypeOK, Servers,
     natsShutdown, Main, Tell, Wait, servers, signalling
<1>3. HandlersInv'
  BY DEF IndInv, HandlersInv, Before, TypeOK, Servers, natsShutdown, Main, Tell, Wait,
     servers, signalling
<1>4. SignalsInv'
  BY DEF IndInv, SignalsInv, Before, Starting, Stopping, TypeOK, Servers, natsShutdown,
     Main, Tell, Wait, servers, signalling
<1>5. EndInv'
  BY DEF IndInv, EndInv, natsShutdown, Main, Tell, Wait, servers, signalling
<1>6. SignalsCaught'
  BY DEF IndInv, SignalsCaught, Before, Starting, SignalsInv, Stopping, TypeOK, Servers,
     natsShutdown, Main, Tell, Wait, servers, signalling
<1> QED BY <1>1, <1>2, <1>3, <1>4, <1>5, <1>6 DEF IndInv

\* The deferred calls: the pool closes only here.
LEMMA runReturnsKeeps ==
    ASSUME IndInv, runReturns
    PROVE  IndInv'
<1>1. TypeOK'
  <2>1. main' \in {"closing", "flush"} /\ pool' \in {pool, "closing", "closed"}
    BY DEF runReturns, Main
  <2>2. end' \in {"no", "panic", "clean"} /\ end = "no" /\ caught' \subseteq caught
    BY DEF runReturns, Main, signalling
  <2>3. UNCHANGED <<left, go, stopped, notify, busy, httpDone, interrupt, signals, late,
                    nilConn, nats>>
    BY DEF runReturns, servers, signalling
  <2> QED BY <2>1, <2>2, <2>3 DEF IndInv, TypeOK, nats
<1>2. StoppedInv'
  BY DEF IndInv, StoppedInv, Closing, NatsPhase, RmqPhase, GrpcPhase, TypeOK, Servers,
     runReturns, Main, servers, signalling
<1>3. HandlersInv'
  BY DEF IndInv, HandlersInv, Before, TypeOK, Servers, runReturns, Main, servers,
     signalling
<1>4. SignalsInv'
  BY DEF IndInv, SignalsInv, Before, Starting, Stopping, TypeOK, Servers, runReturns,
     Main, servers, signalling
<1>5. EndInv'
  BY DEF IndInv, EndInv, runReturns, Main, servers, signalling
<1>6. SignalsCaught'
  BY DEF IndInv, SignalsCaught, Before, Starting, SignalsInv, Stopping, TypeOK, Servers,
     runReturns, Main, servers, signalling
<1> QED BY <1>1, <1>2, <1>3, <1>4, <1>5, <1>6 DEF IndInv

\* The HTTP goroutine drains only after its context is cancelled.
LEMMA httpGoroutineKeeps ==
    ASSUME IndInv, httpGoroutine
    PROVE  IndInv'
<1>1. TypeOK'
  <2>1. /\ go' \in [Servers -> {"idle", "starting", "serving", "draining", "done"}]
        /\ notify' \in [Servers -> [err : BOOLEAN, closed : BOOLEAN]]
    BY EndsType, ZenonT(30) DEF IndInv, TypeOK, Servers, httpGoroutine, httpEnds
  <2>2. caught' \subseteq {"http", "main"} /\ httpDone' \in BOOLEAN /\ late' \in BOOLEAN
    BY Zenon DEF IndInv, TypeOK, httpGoroutine, httpEnds
  <2> QED BY <2>1, <2>2 DEF IndInv, TypeOK, nats, httpGoroutine
<1>2. StoppedInv'
  BY DEF IndInv, StoppedInv, Closing, NatsPhase, RmqPhase, GrpcPhase, TypeOK, Servers,
     httpGoroutine, httpEnds, Ends
<1>3. HandlersInv'
  BY DEF IndInv, HandlersInv, Before, TypeOK, Servers, httpGoroutine, httpEnds, Ends
<1>4. SignalsInv'
  BY DEF IndInv, SignalsInv, Before, Starting, Stopping, TypeOK, Servers, httpGoroutine,
     httpEnds, Ends
<1>5. EndInv' /\ SignalsCaught'
  BY DEF IndInv, EndInv, SignalsCaught, Before, Starting, SignalsInv, Stopping, TypeOK,
     Servers, httpGoroutine, httpEnds, Ends
<1> QED BY <1>1, <1>2, <1>3, <1>4, <1>5 DEF IndInv

\* A failing HTTP server gives its registration back with its error in notify.
LEMMA httpFailsKeeps ==
    ASSUME IndInv, httpFails
    PROVE  IndInv'
<1>1. TypeOK'
  BY DEF IndInv, TypeOK, nats, Before, Starting, Stopping, Servers, httpFails, httpEnds, Ends
<1>2. StoppedInv'
  BY DEF IndInv, StoppedInv, Closing, NatsPhase, RmqPhase, GrpcPhase, TypeOK, Servers,
     httpFails, httpEnds, Ends
<1>3. HandlersInv'
  BY Zenon DEF IndInv, HandlersInv, Before, TypeOK, Servers, httpFails, httpEnds, Ends
<1>4. SignalsInv'
  BY DEF IndInv, SignalsInv, Before, Starting, Stopping, TypeOK, Servers, httpFails,
     httpEnds, Ends
<1>5. EndInv' /\ SignalsCaught'
  BY DEF IndInv, EndInv, SignalsCaught, Before, Starting, SignalsInv, Stopping, TypeOK,
     Servers, httpFails, httpEnds, Ends
<1> QED BY <1>1, <1>2, <1>3, <1>4, <1>5 DEF IndInv

\* The gRPC goroutine.
LEMMA grpcGoroutineKeeps ==
    ASSUME IndInv, grpcGoroutine
    PROVE  IndInv'
<1>1. TypeOK'
  <2>1. /\ go' \in [Servers -> {"idle", "starting", "serving", "draining", "done"}]
        /\ notify' \in [Servers -> [err : BOOLEAN, closed : BOOLEAN]]
    BY EndsType, ZenonT(30) DEF IndInv, TypeOK, Servers, grpcGoroutine
  <2> QED BY <2>1 DEF IndInv, TypeOK, nats, grpcGoroutine, signalling
<1>2. StoppedInv'
  BY DEF IndInv, StoppedInv, Closing, NatsPhase, RmqPhase, GrpcPhase, TypeOK, Servers,
     grpcGoroutine, Ends, signalling
<1>3. HandlersInv'
  BY DEF IndInv, HandlersInv, Before, TypeOK, Servers, grpcGoroutine, Ends, signalling
<1>4. EndInv'
  BY DEF IndInv, EndInv, grpcGoroutine, signalling
<1>5. SignalsInv' /\ SignalsCaught'
  <2>1. go'["http"] = go["http"] /\ notify'["http"] = notify["http"]
    BY DEF IndInv, TypeOK, Servers, grpcGoroutine, Ends
  <2>2. UNCHANGED <<main, signalling, end>>
    BY Zenon DEF grpcGoroutine
  <2> QED BY <2>1, <2>2 DEF IndInv, SignalsInv, SignalsCaught, signalling
<1> QED BY <1>1, <1>2, <1>3, <1>4, <1>5 DEF IndInv

\* A failing gRPC server.
LEMMA grpcFailsKeeps ==
    ASSUME IndInv, grpcFails
    PROVE  IndInv'
<1>1. TypeOK'
  BY DEF IndInv, TypeOK, nats, Before, Starting, Stopping, Servers, grpcFails, Ends,
     signalling
<1>2. StoppedInv'
  BY DEF IndInv, StoppedInv, Closing, NatsPhase, RmqPhase, GrpcPhase, TypeOK, Servers,
     grpcFails, Ends, signalling
<1>3. HandlersInv'
  BY DEF IndInv, HandlersInv, Before, TypeOK, Servers, grpcFails, Ends, signalling
<1>4. EndInv'
  BY DEF IndInv, EndInv, grpcFails, signalling
<1>5. SignalsInv' /\ SignalsCaught'
  <2>1. go'["http"] = go["http"] /\ notify'["http"] = notify["http"]
    BY DEF IndInv, TypeOK, Servers, grpcFails, Ends
  <2>2. UNCHANGED <<main, signalling, end>>
    BY Zenon DEF grpcFails
  <2> QED BY <2>1, <2>2 DEF IndInv, SignalsInv, SignalsCaught, signalling
<1> QED BY <1>1, <1>2, <1>3, <1>4, <1>5 DEF IndInv

\* The NATS goroutine.
LEMMA natsGoroutineKeeps ==
    ASSUME IndInv, natsGoroutine
    PROVE  IndInv'
<1>1. TypeOK'
  <2>1. /\ go' \in [Servers -> {"idle", "starting", "serving", "draining", "done"}]
        /\ notify' \in [Servers -> [err : BOOLEAN, closed : BOOLEAN]]
    BY EndsType, ZenonT(30) DEF IndInv, TypeOK, Servers, natsGoroutine
  <2> QED BY <2>1 DEF IndInv, TypeOK, nats, natsGoroutine, signalling
<1>2. StoppedInv'
  BY DEF IndInv, StoppedInv, Closing, NatsPhase, RmqPhase, GrpcPhase, TypeOK, Servers,
     natsGoroutine, Ends, signalling
<1>3. HandlersInv'
  BY DEF IndInv, HandlersInv, Before, TypeOK, Servers, natsGoroutine, Ends, signalling
<1>4. EndInv'
  BY DEF IndInv, EndInv, natsGoroutine, signalling
<1>5. SignalsInv' /\ SignalsCaught'
  <2>1. go'["http"] = go["http"] /\ notify'["http"] = notify["http"]
    BY DEF IndInv, TypeOK, Servers, natsGoroutine, Ends
  <2>2. UNCHANGED <<main, signalling, end>>
    BY Zenon DEF natsGoroutine
  <2> QED BY <2>1, <2>2 DEF IndInv, SignalsInv, SignalsCaught, signalling
<1> QED BY <1>1, <1>2, <1>3, <1>4, <1>5 DEF IndInv

\* A NATS server that cannot subscribe.
LEMMA natsFailsKeeps ==
    ASSUME IndInv, natsFails
    PROVE  IndInv'
<1>1. TypeOK'
  BY DEF IndInv, TypeOK, nats, Before, Starting, Stopping, Servers, natsFails, Ends,
     signalling
<1>2. StoppedInv'
  BY DEF IndInv, StoppedInv, Closing, NatsPhase, RmqPhase, GrpcPhase, TypeOK, Servers,
     natsFails, Ends, signalling
<1>3. HandlersInv'
  BY DEF IndInv, HandlersInv, Before, TypeOK, Servers, natsFails, Ends, signalling
<1>4. EndInv'
  BY DEF IndInv, EndInv, natsFails, signalling
<1>5. SignalsInv' /\ SignalsCaught'
  <2>1. go'["http"] = go["http"] /\ notify'["http"] = notify["http"]
    BY DEF IndInv, TypeOK, Servers, natsFails, Ends
  <2>2. UNCHANGED <<main, signalling, end>>
    BY Zenon DEF natsFails
  <2> QED BY <2>1, <2>2 DEF IndInv, SignalsInv, SignalsCaught, signalling
<1> QED BY <1>1, <1>2, <1>3, <1>4, <1>5 DEF IndInv

\* The RabbitMQ goroutine stops between two deliveries.
LEMMA rmqGoroutineKeeps ==
    ASSUME IndInv, rmqGoroutine
    PROVE  IndInv'
<1>1. TypeOK'
  <2>1. /\ go' \in [Servers -> {"idle", "starting", "serving", "draining", "done"}]
        /\ notify' \in [Servers -> [err : BOOLEAN, closed : BOOLEAN]]
    BY EndsType, ZenonT(30) DEF IndInv, TypeOK, Servers, rmqGoroutine
  <2> QED BY <2>1 DEF IndInv, TypeOK, nats, rmqGoroutine, signalling
<1>2. StoppedInv'
  BY DEF IndInv, StoppedInv, Closing, NatsPhase, RmqPhase, GrpcPhase, TypeOK, Servers,
     rmqGoroutine, Ends, signalling
<1>3. HandlersInv'
  BY DEF IndInv, HandlersInv, Before, TypeOK, Servers, rmqGoroutine, Ends, signalling
<1>4. SignalsInv' /\ EndInv' /\ SignalsCaught'
  BY DEF IndInv, SignalsInv, Before, Starting, Stopping, TypeOK, Servers, EndInv,
     SignalsCaught, rmqGoroutine, Ends, signalling
<1> QED BY <1>1, <1>2, <1>3, <1>4 DEF IndInv

\* A RabbitMQ server gives up, which it cannot after its Shutdown has returned.
LEMMA rmqGivesUpKeeps ==
    ASSUME IndInv, rmqGivesUp
    PROVE  IndInv'
<1>1. TypeOK'
  BY DEF IndInv, TypeOK, nats, Before, Starting, Stopping, Servers, rmqGivesUp, Ends,
     signalling
<1>2. StoppedInv'
  BY DEF IndInv, StoppedInv, Closing, NatsPhase, RmqPhase, GrpcPhase, TypeOK, Servers,
     rmqGivesUp, Ends, signalling
<1>3. HandlersInv'
  BY DEF IndInv, HandlersInv, Before, TypeOK, Servers, rmqGivesUp, Ends, signalling
<1>4. EndInv'
  BY DEF IndInv, EndInv, rmqGivesUp, Ends, signalling
<1>5. SignalsInv' /\ SignalsCaught'
  BY DEF IndInv, SignalsInv, Before, Starting, Stopping, TypeOK, Servers, SignalsCaught,
     rmqGivesUp, Ends, signalling
<1> QED BY <1>1, <1>2, <1>3, <1>4, <1>5 DEF IndInv

\* A handler begins only on a server that serves.
LEMMA BeginKeeps ==
    ASSUME NEW s \in Servers, IndInv, Begin(s)
    PROVE  IndInv'
<1>1. TypeOK'
  <2>1. UNCHANGED <<main, left, pool, go, stopped, notify, late, nilConn, signalling, end>>
    BY Zenon DEF Begin
  <2>2. busy' \in [Servers -> {"none", "between", "query"}]
    BY Zenon DEF IndInv, TypeOK, Begin
  <2>3. callHandler \/ UNCHANGED nats
    BY Zenon DEF Begin
  <2>4. /\ natsCall' \in {natsCall, "taken"} /\ natsRan' \in {natsRan, "called"}
        /\ natsOld' \in BOOLEAN
    BY <2>3, Zenon DEF IndInv, TypeOK, callHandler, nats
  <2> QED BY <2>1, <2>2, <2>4 DEF IndInv, TypeOK, signalling
<1>2. StoppedInv'
  BY Zenon DEF IndInv, StoppedInv, Closing, NatsPhase, RmqPhase, GrpcPhase, TypeOK, Servers,
     Begin, Accepting, signalling
<1>3. HandlersInv'
  BY Zenon DEF IndInv, HandlersInv, Before, TypeOK, Servers, Begin, Accepting, signalling
<1>4. SignalsInv' /\ EndInv' /\ SignalsCaught'
  BY DEF IndInv, SignalsInv, Before, Starting, Stopping, TypeOK, Servers, EndInv,
     SignalsCaught, Begin, Accepting, signalling
<1> QED BY <1>1, <1>2, <1>3, <1>4 DEF IndInv

\* A query begins or ends.
LEMMA QueryKeeps ==
    ASSUME NEW s \in Servers, IndInv, Query(s)
    PROVE  IndInv'
<1>1. TypeOK'
  BY DEF IndInv, TypeOK, nats, Before, Starting, Stopping, Servers, Query, signalling
<1>2. StoppedInv'
  BY DEF IndInv, StoppedInv, Closing, NatsPhase, RmqPhase, GrpcPhase, TypeOK, Servers,
     Query, signalling
<1>3. HandlersInv'
  BY DEF IndInv, HandlersInv, Before, TypeOK, Servers, Query, signalling
<1>4. SignalsInv' /\ EndInv' /\ SignalsCaught'
  BY DEF IndInv, SignalsInv, Before, Starting, Stopping, TypeOK, Servers, EndInv,
     SignalsCaught, Query, signalling
<1> QED BY <1>1, <1>2, <1>3, <1>4 DEF IndInv

\* A handler ends.
LEMMA FinishKeeps ==
    ASSUME NEW s \in Servers, IndInv, Finish(s)
    PROVE  IndInv'
<1>1. TypeOK'
  <2>1. UNCHANGED <<main, left, pool, go, stopped, notify, late, nilConn, signalling, end>>
    BY Zenon DEF Finish
  <2>2. busy' \in [Servers -> {"none", "between", "query"}]
    BY Zenon DEF IndInv, TypeOK, Finish
  <2>3. handleMessage \/ UNCHANGED nats
    BY Zenon DEF Finish
  <2>4. /\ natsCall' \in {natsCall, "Success", "ErrInternalServer"}
        /\ natsRan' \in {natsRan, "ok", "failed"} /\ natsOld' = natsOld
    BY <2>3, Zenon DEF handleMessage, publish, Ran, nats
  <2> QED BY <2>1, <2>2, <2>4 DEF IndInv, TypeOK, signalling
<1>2. StoppedInv'
  BY DEF IndInv, StoppedInv, Closing, NatsPhase, RmqPhase, GrpcPhase, TypeOK, Servers,
     Finish, signalling
<1>3. HandlersInv'
  BY DEF IndInv, HandlersInv, Before, TypeOK, Servers, Finish, signalling
<1>4. SignalsInv' /\ EndInv' /\ SignalsCaught'
  BY DEF IndInv, SignalsInv, Before, Starting, Stopping, TypeOK, Servers, EndInv,
     SignalsCaught, Finish, signalling
<1> QED BY <1>1, <1>2, <1>3, <1>4 DEF IndInv

\* The NATS client, and a message no handler is called for, leave the process
\* alone.
LEMMA natsCallKeeps ==
    ASSUME IndInv, badHandler \/ remoteCall \/ remoteCallFails \/ remoteCallReturns
    PROVE  IndInv'
<1>1. UNCHANGED processVars
  BY Zenon DEF badHandler, remoteCall, remoteCallFails, remoteCallReturns
<1>2. /\ natsCall' \in Returned \union {"sent", "taken", "Success", "ErrBadHandler",
                                      "ErrInternalServer"}
      /\ natsRan' \in {"no", "called", "ok", "failed"} /\ natsOld' \in BOOLEAN
  BY Zenon DEF IndInv, TypeOK, Returned, badHandler, remoteCall, remoteCallFails,
     remoteCallReturns
<1>3. TypeOK'
  BY <1>1, <1>2 DEF IndInv, TypeOK, processVars, signalling
<1>4. StoppedInv' /\ HandlersInv' /\ SignalsInv' /\ EndInv' /\ SignalsCaught'
  BY <1>1 DEF IndInv, StoppedInv, HandlersInv, SignalsInv, EndInv, SignalsCaught,
     processVars, signalling
<1> QED BY <1>3, <1>4 DEF IndInv

\* A signal finds nobody registered only where SignalsCaught allows it.
LEMMA SignalKeeps ==
    ASSUME IndInv, Signal
    PROVE  IndInv'
<1>1. TypeOK'
  BY AttemptsAssumption, MaxSignalsAssumption DEF IndInv, TypeOK, nats, Before, Starting,
     Stopping, Servers, Signal, servers
<1>2. SignalsInv'
  BY DEF IndInv, SignalsInv, Before, Starting, Stopping, TypeOK, Servers, Signal,
     servers
<1>3. EndInv'
  BY DEF IndInv, EndInv, Signal, servers
<1>4. SignalsCaught'
  BY DEF IndInv, SignalsCaught, Before, Starting, SignalsInv, Stopping, TypeOK, Servers,
     Signal, servers
<1>5. StoppedInv' /\ HandlersInv'
  BY DEF IndInv, StoppedInv, Closing, NatsPhase, RmqPhase, GrpcPhase, TypeOK, Servers,
     HandlersInv, Before, Signal, servers
<1> QED BY <1>1, <1>2, <1>3, <1>4, <1>5 DEF IndInv
-----------------------------------------------------------------------------
\* The process starts in the invariant.
LEMMA InitInv == Init => IndInv
<1> SUFFICES ASSUME Init PROVE IndInv
  OBVIOUS
<1>1. TypeOK
  <2>1. notify \in [Servers -> [err : BOOLEAN, closed : BOOLEAN]]
    BY DEF Init, Empty
  <2>2. left \in 0..Attempts /\ left # 0 /\ signals \in 0..MaxSignals
    BY AttemptsAssumption, MaxSignalsAssumption DEF Init
  <2> QED BY <2>1, <2>2, Zenon DEF Init, TypeOK, Before, Returned
<1>2. StoppedInv /\ HandlersInv
  BY DEF Init, StoppedInv, HandlersInv, Closing, NatsPhase, RmqPhase, GrpcPhase, Servers
<1>3. SignalsInv /\ EndInv /\ SignalsCaught
  BY DEF Init, SignalsInv, EndInv, SignalsCaught, Before, Starting, Stopping, Servers
<1> QED BY <1>1, <1>2, <1>3 DEF IndInv

\* Every step of main.
LEMMA MainStepKeeps ==
    ASSUME IndInv, mainStep
    PROVE  IndInv'
  BY StartUpKeeps, initServersKeeps, startServersKeeps, waitForShutdownKeeps,
     waitForShutdownSignalKeeps, httpShutdownKeeps, grpcShutdownKeeps, rmqShutdownKeeps,
     natsShutdownKeeps, runReturnsKeeps, Zenon DEF mainStep

\* The invariant is inductive.
LEMMA NextInv == IndInv /\ [Next]_vars => IndInv'
<1> SUFFICES ASSUME IndInv, [Next]_vars PROVE IndInv'
  OBVIOUS
<1>1. CASE mainStep
  BY <1>1, MainStepKeeps
<1>2. CASE httpGoroutine \/ grpcGoroutine \/ natsGoroutine \/ rmqGoroutine
  BY <1>2, httpGoroutineKeeps, grpcGoroutineKeeps, natsGoroutineKeeps, rmqGoroutineKeeps
<1>3. CASE httpFails \/ grpcFails \/ natsFails \/ rmqGivesUp
  BY <1>3, httpFailsKeeps, grpcFailsKeeps, natsFailsKeeps, rmqGivesUpKeeps
<1>4. CASE \E s \in Servers : Begin(s) \/ Query(s) \/ Finish(s)
  BY <1>4, BeginKeeps, QueryKeeps, FinishKeeps
<1>5. CASE badHandler \/ remoteCall \/ remoteCallFails \/ remoteCallReturns \/ Signal
  BY <1>5, natsCallKeeps, SignalKeeps
<1>6. CASE UNCHANGED vars
  <2>1. TypeOK'
    BY <1>6 DEF IndInv, TypeOK, vars
  <2>2. StoppedInv' /\ HandlersInv'
    BY <1>6 DEF IndInv, StoppedInv, HandlersInv, vars
  <2>3. SignalsInv' /\ EndInv' /\ SignalsCaught'
    BY <1>6 DEF IndInv, SignalsInv, EndInv, SignalsCaught, vars
  <2> QED BY <2>1, <2>2, <2>3 DEF IndInv
<1> QED BY <1>1, <1>2, <1>3, <1>4, <1>5, <1>6, Zenon DEF Next

\* Every state of the process satisfies the invariant.
LEMMA Invariance == Spec => []IndInv
  BY InitInv, NextInv, PTL DEF Spec

(***************************************************************************)
(* Every variable of the process keeps its type, and a retry loop never    *)
(* goes on without attempts left (main, migrate.go, postgres.New).         *)
(***************************************************************************)
THEOREM TypeCorrect == Spec => []TypeOK
<1>1. IndInv => TypeOK
  BY DEF IndInv
<1> QED BY <1>1, Invariance, PTL

(***************************************************************************)
(* However signals, failures and handlers interleave with the sequential   *)
(* shutdown of the servers, run() closes the pool under no gRPC and no     *)
(* RabbitMQ handler, and under an HTTP handler only when the HTTP server   *)
(* ended without waiting for it.                                           *)
(***************************************************************************)
THEOREM Drained == Spec => []DrainedBeforeClose
<1>1. IndInv => DrainedBeforeClose
  BY DEF IndInv, StoppedInv, HandlersInv, EndInv, DrainedBeforeClose, Closing, NatsPhase,
     RmqPhase, GrpcPhase
<1> QED BY <1>1, Invariance, PTL

(***************************************************************************)
(* A signal is fatal only before the HTTP server registers, after run()    *)
(* has returned, or in the gap before waitForShutdown registers when the   *)
(* HTTP server has already ended.                                          *)
(***************************************************************************)
THEOREM Signals == Spec => []SignalsCaught
<1>1. IndInv => SignalsCaught
  BY DEF IndInv
<1> QED BY <1>1, Invariance, PTL

(***************************************************************************)
(* When main returns normally, every Shutdown of run() has been called,    *)
(* every server goroutine has ended and the pool is closed.                *)
(***************************************************************************)
THEOREM NothingLeft == Spec => []CleanExit
<1>1. IndInv => CleanExit
  BY DEF IndInv, StoppedInv, EndInv, CleanExit, Closing, NatsPhase, RmqPhase, GrpcPhase,
     Servers
<1> QED BY <1>1, Invariance, PTL
-----------------------------------------------------------------------------
\* Where the call is determines what its handler has done.  A message is taken
\* only when no older one waits, so while its handler runs it is its own.
NatsInv ==
    /\ natsCall = "sent" => natsRan = "no"
    /\ natsCall = "taken" => ~natsOld /\ (busy["nats"] # "none" => natsRan = "called")
    /\ natsCall \in {"Success", "nil"} => natsRan = "ok"
    /\ natsCall \in {"ErrInternalServer", "internal"} => natsRan = "failed"
    /\ natsCall \in {"ErrBadHandler", "bad"} => natsRan = "no"

\* Neither main nor a goroutine of a server touches a call or a handler.
LEMMA NatsKept ==
    ASSUME \/ mainStep \/ Signal
           \/ httpGoroutine \/ grpcGoroutine \/ natsGoroutine \/ rmqGoroutine
           \/ httpFails \/ grpcFails \/ natsFails \/ rmqGivesUp
    PROVE  UNCHANGED <<nats, busy>>
<1>1. ASSUME runMigrations \/ loadConfig \/ newTracing \/ newPostgres \/ initServers
      PROVE  UNCHANGED <<nats, busy>>
  BY <1>1, Zenon DEF runMigrations, loadConfig, newTracing, newPostgres, initServers, Step,
     Fatal, AttemptFails, servers
<1>2. ASSUME startServers \/ waitForShutdown \/ waitForShutdownSignal \/ runReturns
      PROVE  UNCHANGED <<nats, busy>>
  BY <1>2, Zenon DEF startServers, waitForShutdown, waitForShutdownSignal, runReturns, servers
<1>3. ASSUME httpShutdown \/ grpcShutdown \/ rmqShutdown \/ natsShutdown
      PROVE  UNCHANGED <<nats, busy>>
  BY <1>3, Zenon DEF httpShutdown, grpcShutdown, rmqShutdown, natsShutdown, Tell, Wait, servers
<1>4. mainStep => UNCHANGED <<nats, busy>>
  BY <1>1, <1>2, <1>3, Zenon DEF mainStep
<1>5. Signal => UNCHANGED <<nats, busy>>
  BY Zenon DEF Signal, servers
<1>6. httpGoroutine \/ grpcGoroutine \/ natsGoroutine \/ rmqGoroutine => UNCHANGED <<nats, busy>>
  BY Zenon DEF httpGoroutine, grpcGoroutine, natsGoroutine, rmqGoroutine
<1>7. httpFails \/ grpcFails \/ natsFails \/ rmqGivesUp => UNCHANGED <<nats, busy>>
  BY Zenon DEF httpFails, grpcFails, natsFails, rmqGivesUp
<1> QED BY <1>4, <1>5, <1>6, <1>7, Zenon

\* A handler begins with the oldest message, which is the caller's own or one
\* whose caller has gone.
LEMMA BeginNats ==
    ASSUME NatsInv, TypeOK, NEW s \in Servers, Begin(s)
    PROVE  NatsInv'
<1>1. busy \in [Servers -> {"none", "between", "query"}] /\ "nats" \in Servers
  BY DEF TypeOK, Servers
<1>2. CASE s = "nats"
  <2>1. callHandler
    BY <1>2 DEF Begin
  <2> QED BY <2>1 DEF callHandler, NatsInv
<1>3. CASE s # "nats"
  <2>1. UNCHANGED nats /\ busy'["nats"] = busy["nats"]
    BY <1>1, <1>3 DEF Begin
  <2> QED BY <2>1 DEF NatsInv, nats
<1> QED BY <1>2, <1>3

\* A handler that ends answers the call whose message it took, and no other.
LEMMA FinishNats ==
    ASSUME NatsInv, TypeOK, NEW s \in Servers, Finish(s)
    PROVE  NatsInv'
<1>1. busy \in [Servers -> {"none", "between", "query"}] /\ "nats" \in Servers
  BY DEF TypeOK, Servers
<1>2. CASE s = "nats"
  <2>1. handleMessage /\ busy["nats"] = "between" /\ busy'["nats"] = "none"
    BY <1>1, <1>2 DEF Finish
  <2> QED BY <2>1 DEF handleMessage, publish, Ran, NatsInv
<1>3. CASE s # "nats"
  <2>1. UNCHANGED nats /\ busy'["nats"] = busy["nats"]
    BY <1>1, <1>3 DEF Finish
  <2> QED BY <2>1 DEF NatsInv, nats
<1> QED BY <1>2, <1>3

\* Every step keeps it.
LEMMA NatsInvKept == TypeOK /\ NatsInv /\ [Next]_vars => NatsInv'
<1> SUFFICES ASSUME TypeOK, NatsInv, [Next]_vars PROVE NatsInv'
  OBVIOUS
<1>1. CASE UNCHANGED <<nats, busy>>
  BY <1>1 DEF NatsInv, nats
<1>2. CASE \E s \in Servers : Begin(s) \/ Query(s) \/ Finish(s)
  <2> PICK s \in Servers : Begin(s) \/ Query(s) \/ Finish(s)
    BY <1>2
  <2>1. CASE Query(s)
    <3>1. UNCHANGED nats
      BY <2>1, Zenon DEF Query
    <3>2. busy'["nats"] # "none" => busy["nats"] # "none"
      BY <2>1 DEF Query, TypeOK, Servers
    <3> QED BY <3>1, <3>2 DEF NatsInv, nats
  <2> QED BY <2>1, BeginNats, FinishNats
<1>3. CASE badHandler \/ remoteCall \/ remoteCallFails \/ remoteCallReturns
  <2>1. UNCHANGED busy
    BY <1>3, Zenon DEF badHandler, remoteCall, remoteCallFails, remoteCallReturns, processVars
  <2>2. CASE badHandler
    BY <2>1, <2>2 DEF badHandler, NatsInv
  <2>3. CASE remoteCall
    BY <2>1, <2>3 DEF remoteCall, NatsInv
  <2>4. CASE remoteCallFails
    BY <2>1, <2>4 DEF remoteCallFails, NatsInv
  <2>5. CASE remoteCallReturns
    BY <2>1, <2>5 DEF remoteCallReturns, NatsInv
  <2> QED BY <1>3, <2>2, <2>3, <2>4, <2>5
<1>4. CASE UNCHANGED vars
  BY <1>1, <1>4, Zenon DEF vars, nats
<1> QED BY <1>1, <1>2, <1>3, <1>4, NatsKept, Zenon DEF Next

(***************************************************************************)
(* What the NATS client's RemoteCall returns is the verdict on this very   *)
(* call, whatever abandoned calls and late handlers there are              *)
(* (client.remoteCall, server.handleMessage).                              *)
(***************************************************************************)
THEOREM Verdicts == Spec => []OwnVerdict
<1>1. Init => NatsInv
  BY DEF Init, NatsInv
<1>2. NatsInv => OwnVerdict
  BY DEF NatsInv, OwnVerdict
<1> QED BY <1>1, <1>2, NatsInvKept, TypeCorrect, PTL DEF Spec
=============================================================================
