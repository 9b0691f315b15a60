# Verification of go-scream-template

TLA+ specifications of the service in `src/`, checked with TLC on small instances,
with theorems proved by TLAPS for every value of the constants. The reference is
the code; each definition's source lines are listed in `PROJECT.json` under `map`,
what in this code is hard to test under `hazards`, and every part of the system,
modelled or not, under `components`.

## 1. Parts of the system

The service offers three domains (users, tasks, translations) over four transports
(REST, gRPC, RabbitMQ RPC, NATS RPC), on one PostgreSQL pool. The repository also
holds the scripts that take a change from its branch to master.

| Part | Hard behaviour | Correct when | Module |
|---|---|---|---|
| Task domain: create, get, update, transition, delete | read-modify-write without a transaction, lost answers, time taken before the read | rows change for their owner only, deleted tasks stay deleted, answers describe the row | `TaskService`, `TaskBoard` |
| Task list | COUNT and SELECT see different tables, equal times, lost connections | undisturbed pages add up and are complete | `TaskList` |
| Controllers and body limit | four copies of the checks and error tables | the same request and the same error mean the same everywhere | `Transports` |
| Users, tokens, translations | concurrent registration, expiry, statements whose commit is hidden | tokens only for the right password, answers can be relied on | `Accounts` |
| RabbitMQ connection | retries, half-finished attempts | no user meets a nil field | `RmqConnection` |
| RabbitMQ client | late, lost and foreign replies, reconnect, timeouts | own reply only, every call and Shutdown return | `RmqClient` |
| RabbitMQ server | reconnect with a delivery unacknowledged, shutdown under load | at most once, drained on shutdown, failure reaches app | `RmqServer` |
| Process: main, HTTP, gRPC and NATS servers, NATS client, pool | signals at any moment, first failure wins, sequential shutdown | servers stop before the pool closes, the process ends, a NATS call returns its own verdict | `AppLifecycle` |
| Branch, commit, review and merge scripts | failure between two commands, reruns, several clones | nothing pushed is lost, one commit per merge, every fix is reviewed | `ChangeFlow` |

## 2. Modules

### TaskService and TaskBoard

Every in-flight request is a slot in `Requests`; a database round trip is one step.
`Create`/`Store` are the two halves of Create, `Begin`/`Read`/`Write` those of
Update and Transition, `Get` and `Delete` are single statements. Every statement
may fail, and a failed INSERT, UPDATE or DELETE may still have taken effect.
`rows` is the table, `task[r]` the local variable of the use case, `resp` what the
last step returned. `issued` and `deleted` are history. A title stands for title
and description together. `Truncate` is what a TIMESTAMP column does to a Go time.
The clock never goes back, which the code assumes and the operating system mostly
provides; callers name only ids that were generated before. The deletion of a user,
which cascades, is not offered by the service.

`TaskBoard` is what the service promises; `TaskService!Board` maps a row to its
owner, title and status.

### TaskList

A client walks the pages of one list (`walk`) while `Write` changes the table. Each
page is two statements, `ListCount` and `ListPage`. The SELECT orders by created_at
only, so `Ordered` is the set of all orders that agree with it. A connection lost
while rows are read gives a shorter page without an error, because the code does
not ask `rows.Err`; `lost` remembers it and `touched` remembers writes.

### Transports and Accounts

`Transports` has no state. A handler is a record: whether it wants a user, which
defects of a request it rejects itself, its code of success, and the errors it
tells apart. The order of the early returns is `FirstReturn`. A request has at most
one defect. `bodyLimit` is a function of the declared length and of what the wire
and each decoding stage yield.

`Accounts` runs these handlers over the tables of users and history. A request is
in a slot from `Receive` to its answer, with a step for each statement or external
call: `Register`, `LoginRead` and `LoginIssue`, `GetUser`, `Translate` and
`StoreTranslation`, `GetHistory`. Task calls appear with the outcomes that
`TaskService` gives them. Statements fail, and an INSERT that reports failure may
have been committed. Tokens carry an expiry in whole seconds (`NumericDate`).
`last` is the last answer, with what the request found when it came.

### RmqConnection, RmqClient, RmqServer

`RmqConnection` holds the connection object and the worker's progress through
`AttemptConnect`: `Dial`, `OpenChannel`, `Consume` and their failures. The client
and the server conjoin its actions with their own state.

`RmqClient`: each element of `Calls` is one RemoteCall with its correlation id, and
its `pc` follows `remoteCall`. A send on the unbuffered `notify` is a joint step of
worker and receiver. `Receive` and `ServeCall` are separate, because a caller can
time out between `getCall` and `close(call.done)`. A panic ends the process.
Replies can be lost, late, or meant for another client; publishing to an exchange
that no server has declared makes the broker close the channel.

`RmqServer`: the worker's `serveCall` in three steps (look up, handle, publish and
acknowledge), the buffered `notify`, and the part of `app` that waits for it.

The broker, the other side's processes and the clock are external, and follow how
the code uses them.

### AppLifecycle

The process from `main` to its end. `main` is where the main goroutine is; `go`,
`stopped`, `notify` and `busy` describe each server, its goroutine, its channel and
one handler. A handler runs queries on the pool and is not assumed to end. `caught`
says who is registered for signals: the HTTP server has a registration of its own,
which it gives back when it ends. The RabbitMQ server is here as `RmqServer` shows
it to the application, with the panic of its Shutdown included. The NATS library
runs its handlers outside the server's errgroup.

A NATS client in another process calls this one again and again. `natsCall` is where
its RemoteCall is: sent, taken by a handler, answered with a status, or what it
returned. RequestMsg of the library may give up at any moment (its timeout, or a
lost message, reply or connection), also while the handler runs; the message it
leaves behind may still be waiting in the subscription (`natsOld`) and be handled
while the client makes its next call. A reply goes to the inbox of the call it
answers, so that of an abandoned call reaches nobody. `natsRan` is history: what
became of the message of the present call. A request that does not marshal fails at once
and is left out.

### ChangeFlow

Several people, each in a clone, work on one change. Histories are linear, so a
commit is the sequence of its ancestors and itself; `ref[u]` holds a clone's
branches and its remote-tracking branches. The actions are the steps of
`create-change-branch`, the commit scripts, the implementation and review loops,
and the merge: verify, squash, push with a lease, move to the base, fast-forward,
push, verify, delete. A turn of the review loop is `beginPass`, where the review
begins to read the tree, `reviewPass`, its verdict, and `fixFindings`. While a script
runs, the agent or the owner of the clone may commit behind its back at any place
(`commitMeanwhile`); the scripts compare HEAD only around the implementation and
around a fix. Any command may fail, a script may be interrupted (`Leave`)
and started again. `published` is all work that a push has put on the remote. Git
is external; its effects are taken from the commands the scripts give.

## 3. Runs

| Run | Shows | States |
|---|---|---|
| `task_service` | type correctness; deleted tasks stay deleted; answers are the stored row; times in order; changes serve the owner; only stale writes leave the status machine | 76,002 |
| `task_serial` | without overlap between read and write, the service implements `TaskBoard` | 28,804 |
| `task_machine` (violation) | with overlap, a done task returns to todo | |
| `task_list` | undisturbed pages add up to the total; with distinct times they show every task once, newest first | 619,110 |
| `rmq_client` | a call returns only its own reply; no double close with one server; nothing sent after Shutdown; a nil channel is met only between failed attempts | 1,436,603 |
| `rmq_client_live` | every RemoteCall returns; Shutdown returns unless reconnecting used up every attempt | 188,862 |
| `rmq_client_stuck` (violation) | Shutdown waits for ever after the worker gave up and no call took the error | |
| `rmq_server` | handlers run at most once; Shutdown drains and returns; replies never meet a nil channel; giving up ends in a shutdown | 81,948 |
| `rmq_server_nil` (violation) | Shutdown closes a nil connection (the client's does too) | |
| `accounts` | only holders of a live token are served; a stored account can log in; answers can be relied on; REST and gRPC codes agree; history is complete; the transports admit the same requests; the body limit is exact | 475,904 |
| `app_lifecycle` | the pool closes under no gRPC or RabbitMQ handler; where a signal can kill; a clean exit leaves nothing; the process ends unless a handler holds it up; a NATS call returns the verdict on that call | 542,846 |
| `change_flow` | nothing pushed is lost; one commit per merge; when the review loop reports no comments, its fixes were looked at and are on the remote | 2,188,810 |

The violations are the `findings` of `PROJECT.json`, each with the sentence or the
test it contradicts. `rmq_server_nil` rests on the AMQP library's Close
dereferencing its receiver; the library is not in the repository, and the quoted
tests replace `closeConnection`, so they do not exercise that call.

### What the passing properties leave open

These behaviours of the code are allowed by the properties as they are stated:

- Tasks with equal created_at can appear on two pages or on none, and a lost
  connection gives a short page without an error.
- A login during a database outage is answered as wrong credentials.
- NATS handlers are not waited for and may run while the pool closes; an HTTP
  handler may too, once the grace period is over.
- When the HTTP server has ended (its failure, or an earlier signal) before
  `waitForShutdown` registers, the next SIGTERM kills the process.
- A reconnect after the broker closed only the channel leaves the old connection's
  queue bound (`orphans`).
- A merge that is run again after master was pushed but before the branch was
  deleted adds an empty commit. `create-change-branch` fetches without `--prune` and
  does not pull master.
- Automated commits take in what someone edits while the agent runs.
  `scripts/README.md:121-122` says that the automated commit cannot absorb unrelated
  changes, and 188-190 the same of the review loop; with a tree that is checked only
  when the script starts, this holds of changes made before.
- The review loop reports no comments without reading HEAD again, so a commit made
  while its last pass runs was not looked at. `FixesReviewed` is about the loop's own
  fixes.
- A list read while others write can have a total that does not match its pages.

### Bounds

- `TaskService`: two requests, one task and two users give every interleaving of a
  read, a write and a third party's change, because a slot is reused. `MaxClock = 3`
  with `Precision = 2` has times that truncate to equal and to different values.
- `TaskList`: three tasks, limits 0 (replaced by 10), 1 and 2, offsets -1, 0 and 1
  and three times: pages of one and two, a last page that is short, equal times.
- RabbitMQ: `Attempts = 2` has a first and a last attempt; `MaxFailures` and
  `MaxLosses` allow giving up after a successful reconnect. Two calls and one
  foreign reply suffice to confuse replies. `Replicas` is one server: a fanout to
  more lets each answer, see the hazard at `client.go:273`.
- `Accounts`: two slots, two user ids and three forms that clash in the email or in
  the name. `Second = 2` and `Duration = 1` give tokens whose expiry is rounded down
  to now. `MaxTokens = 2`, `MaxRows = 1`. Bodies have up to two codings with sizes
  around `Limit = 1`; a body may declare more than the limit and break off.
- `AppLifecycle`: two attempts per retry loop and two signals, so that one can come
  after the HTTP server has ended on the other. One handler per server, and one
  abandoned NATS message waiting beside that of the present call.
- `ChangeFlow`: two people, two pieces of work, one fix per review loop and merges
  that begin with at most two commits on master: enough for a push to race a merge,
  for both people to merge, and for a merge to be run again after any step.

Symmetry is used where model values are interchangeable, and never with liveness.
Deadlock checking is off where the system may stop: a client, server or process
that was shut down, an accounts instance whose clock and tables are full, clones
whose work is done.

### Fairness

Goroutines that can run do run (weak fairness). A `select` chooses at random among
ready cases, so one that finds `stop` ready again and again takes it (strong
fairness of `WorkerStop`, and of `rmqGoroutine` in `AppLifecycle`). In `RmqServer`
handlers return, and so do the shutdowns that `app` calls before the RabbitMQ
server's. In `AppLifecycle` nothing is assumed of handlers: `StopsUnlessHeldUp` says
what follows when they do not end. The grace period of the HTTP server expires
(inside `httpGoroutine`). That a NATS call returns rests on the timeout that the
library is given; nothing is claimed about it. Nothing is assumed of the broker, of servers, of
signals or of callers starting new calls.

## 4. Proofs

TLAPS checks these for every value of the constants, from the named assumptions of
the modules (bounds are natural numbers, attempts and the precision positive, `None`
is none of the values it stands beside, a request body's wire is read without a
decoder, the table of tasks is finite). The proofs have one lemma or step per action, and under it one step per
conjunct that the action can disturb. Each inductive invariant was also checked
with TLC on the instance of the component's run. Every invariant and every action
property of the passing runs is stated by a theorem.

### The task domain

`TaskInvariant` defines the inductive invariant and shows that every action keeps it,
`TaskServiceProofs` draws the conclusions:

- `TypeCorrect`, `NoResurrection`, `ResponsesStored`, `StampsInOrder`: `Spec => []P`;
- `ChangesServeOwner`, `OnlyStaleWrites`: action properties.

None of these is inductive alone. The invariant adds:

- `IdsInv`: a stored or deleted id was issued; an id waiting in `Store` is held by
  one request only, has no row and was never deleted. Without it a pending `Store`
  could bring a deleted task back.
- `LoadedInv`: a loaded copy agrees with the row, if there still is one, on all the
  columns that Update does not write (id, owner, created_at). Without it an answer
  need not be the row, and the owner checked need not be the owner written.
- `StampsInv`: the table's times are already truncated, no creation lies in the
  future, and a request's `now` is not before the creation of the task it names,
  stored or still pending. This needs that truncation is monotone and idempotent,
  proved for every precision.

For the refinement `TaskServiceProofs` adds `FreshInv`, that with no overlap a loaded
copy is the row unless the row was deleted, so that `Write` is one `Edit` or `Move`
of the board; `SerialRefinement` is `SerialSpec => ImplementsBoard`.

### The task list

`TaskListProofs` proves `TypeCorrect`, `PagesAddUp` and `WalksAreComplete` for any
finite table and any limits and offsets. The invariant (`Progress`) says what a walk
that nobody disturbed has seen before its next page: as many tasks as lie between its
first offset and the next one and, if the times are distinct, exactly that slice of
the order. Each page is a SELECT of its own, so two facts are needed: adjacent slices
join (`PagesJoin`), and tasks with distinct times have one order (`OneOrder`, by the
least position at which two orders differ). With equal times only the count remains.

### The RabbitMQ client

`RmqClientProofs` proves, for any calls, servers, attempts, losses and foreign
replies, `TypeCorrect`, `CallsGetOwnReply`, `NilOnlyBetweenAttempts`,
`ShutdownSilences` and, when the exchange has one server, `OneServerClosesOnce`. With
two servers both may answer and the second close would panic, so that hypothesis is
needed; the others do without it. The invariant:

- `AnswerInv`: every reply in the queue, in `serveCall` or stored with a closed call
  is one that a server gave to the call with that correlation id. A reply that is
  late or meant for another client then reaches no call of this one.
- `OnceInv` (one server): the reply to a call is in one place only, still to be
  given, queued, in `serveCall` or taken, and nowhere before the request is sent.
  `NoDoubleClose` is the last step of that path.
- `ServingInv` ties the worker's place to the delivery it holds, so that `Receive` and
  `ServeCall`, which are two steps, concern the same reply.
- `ChannelInv` and `CloseInv`: where the worker is when the channel is nil, and that
  Shutdown closes the connection after the worker has gone, so that no channel comes
  up afterwards.

### The RabbitMQ server

`RmqServerProofs` proves `HandlersRunOnce`, `ShutdownDrains` and
`RepliesHaveChannel`. The invariant places every request: in the delivery channel
it is there once and has not run (`QueueInv`); in hand it is no longer in the
channel (`InHandInv`); once run it was sent, and it is settled or its reply is about
to be published (`RunsInv`). Then a lost channel, which leaves a prefix of the
deliveries, and a reconnect, which starts from an empty one, cannot bring a request
back. `ShutdownInv` and `ChannelInv` say that Shutdown is past `eg.Wait` only after
the worker, and that the worker leaves `AttemptConnect` without an error only with a
channel.

### The process

`AppLifecycleProofs` proves `TypeCorrect`, `Drained`, `Signals`, `NothingLeft` and
`Verdicts` for every number of attempts and signals. `StoppedInv` says what each Shutdown leaves
behind and that it stays so while the next ones run, with the panic that skips the
NATS server. `HandlersInv` ties handlers to goroutines, `SignalsInv` says who is
registered at each place of `main` and why the HTTP server has ended, and `EndInv`
orders the end of the pool and of the process. `NatsInv` ties the place of a NATS call
to what became of its message: a status in a reply was put there by the handler of
this very call, or by the lookup that found no handler. It needs that messages are
taken in order: once that of the present call is taken, no abandoned one waits, so
the handler at work is its own.

### Users, translations and the transports

`AccountsProofs` proves `TypeCorrect`, `RegisteredLogsIn`, `AnswersAreHonest`,
`OutcomesToldApart`, `HistoryIsComplete`, `BodyLimitIsExact`, `AdmitAlike` and
`TokenHoldersServed`, for any number of requests in progress, forms, tokens, rows and
bodies. Three parts:

- The handlers. Lemmas say what each transport's table has for each operation, which
  checks a handler makes, in which order, and what it answers to each error. `AdmitAlike`
  and `OutcomesToldApart` follow by comparing them, operation by operation;
  `AnswersAreHonest` also needs the invariant.
- The body limit. `BodyLimitIsExact` holds for any declared length and any
  number of content encodings: the
  first stage that stops the reading is a least element of a set of natural numbers,
  which exists by the well-foundedness of `<`; every stage before it is whole.
- The tables and the requests in progress. `TablesInv`: an email names one account,
  and every token is backed by the account whose email and password were presented
  for it. `CallInv`: at each place a request carries what the step that led there
  left, and what it found stored when it came is stored still. Between `LoginRead`
  and `LoginIssue` the account read is therefore the one stored, and a login that
  found a matching account cannot be refused as wrong by anything but an outage.
  `AnswerInv` says of the last answer that its code is the handler's for its error,
  and what the error says of the change.

### The change scripts

`ChangeFlowProofs` proves, for any number of people, pieces of work, fixes and
merges, `NothingLost`, `FixesAreReviewed` and `OneCommit`.
`MasterOnlyGrows` adds that no step rewrites master, which is git's refusal of a push
that is not a fast-forward: no script forces one to master. The invariant is over
histories in which each commit holds the work of those before it (`History`), and
says for each person:

- `ReviewInv`: outside a fix, everything the fixes committed is on the remote; it is
  in HEAD before a pass begins, whatever was committed meanwhile, and in the tree that
  the pass looks at from then on. The second part makes the third survive the next
  pass.
- `MergeInv`: what a clone takes for master is or was master; from the verification
  to the push the squash commit stands on what was master then and has the verified
  tree; when the branch is deleted, the commit is on master. This is why deleting the
  branch loses nothing although others may have merged or pushed in between.

The lemmas about `IsAncestor`, `Parent`, `Tree` and `Commit` are proved from the
definitions; that git's commands do what those operators say is taken from how the
scripts use them.

### Only model-checked

- Liveness, since TLAPS reasons neither about fairness nor about ENABLED:
  `EveryCallReturns`, `ShutdownReturnsUnlessGivenUp`, `ShutdownReturns`,
  `GivingUpEndsServer` and `StopsUnlessHeldUp`.
- That no done channel is closed twice is not claimed for several servers.

The library's induction theorems have operator parameters, which these provers cannot
instantiate; the argument from a least element, for the body limit and for the order
of tasks, stands in for induction where one predicate was enough. No module declares
a RECURSIVE operator.

## 5. Not modelled

- Configuration, logging, metrics and tracing decorators: pure I/O around calls that
  are passed through unchanged. The Swagger routes belong here.
- Generated code.
- The bodies of successful answers and the conversions between entity and transport
  types: the handlers are modelled by their early returns and codes.
- The mask on the pool size (`postgres.go`): one bit operation on a configured value
  beyond TLC's integers, on which no modelled behaviour depends.
- `rename-branch.sh` (one atomic leased push), the integration and coverage scripts
  and the progress display: they start other programs and parse or print text.
- How the agent's output is parsed in the review loop.
