------------------------------ MODULE Accounts ------------------------------
(***************************************************************************)
(* Registration, login, tokens and translation history, called at the same *)
(* time through the four transports of module Transports, over one         *)
(* database whose statements may fail.  The calls on tasks are here with   *)
(* the outcomes that module TaskService shows them to have.                *)
(*                                                                         *)
(* A request occupies a slot from its arrival to its answer.  Everything   *)
(* before the use case reads nothing that other requests write, so Receive *)
(* is one step; a use case takes one step per statement or external call.  *)
(***************************************************************************)
EXTENDS Transports

CONSTANTS Slots,                             \* requests in progress at once
          UserIds,
          Forms,                             \* what is typed into a registration
          Bodies,                            \* REST bodies, as the stages of bodyLimit
          Duration,                          \* lifetime of a token
          Second,                            \* clock units in a second
          MaxNow, MaxRows, MaxTokens         \* bounds of the model

ASSUME FormsAssumption == \A f \in Forms : DOMAIN f = {"username", "email", "password"}
ASSUME BodiesAssumption ==                   \* the wire is read without a decoder
    \A body \in Bodies : /\ body \in Seq([opens : BOOLEAN, fails : BOOLEAN, size : Nat])
                         /\ body # <<>> /\ body[1].opens
ASSUME ClockAssumption == Duration \in Nat /\ Second \in Nat \ {0}
ASSUME BoundsAssumption == MaxNow \in Nat /\ MaxRows \in Nat

VARIABLES
    users,      \* rows of table users
    tokens,     \* tokens signed so far; "by" records what the caller presented
    history,    \* rows of table history, in order of insertion
    slots,      \* the requests in progress
    now,        \* time.Now()
    last        \* what the latest step answered after a use case, if it did

vars == <<users, tokens, history, slots, now, last>>

Emails == {f.email : f \in Forms}
Passwords == {f.password : f \in Forms}

Idle == [pc |-> "idle"]
NoArg == "-"
NoAnswer == [op |-> "-"]

-----------------------------------------------------------------------------
(* Passwords and tokens. *)
GenerateFromPassword(password) == [bcrypt |-> password]
CompareHashAndPassword(hash, password) == hash.bcrypt = password

\* RegisteredClaims keeps whole seconds.
NumericDateUp(t) == ((t + Second - 1) \div Second) * Second
NumericDate(t) == (t \div Second) * Second
GenerateToken(user, email, password) ==
    [sub |-> user.id, exp |-> NumericDate(now + Duration),
     by |-> [email |-> email, password |-> password]]
ParseTokenNoExpiry(token) == IF token = Forged THEN NoUser ELSE token.sub
ParseToken(token) == IF token # Forged /\ now < token.exp THEN token.sub ELSE NoUser

(***************************************************************************)
(* The credentials of a request: none, a token, or a token after "Bearer ".*)
(* They are not looked at in a registration or a login.                    *)
(***************************************************************************)
Credentials(op) ==
    {[form |-> "none"]} \union
    (IF op \in {"register", "login"} THEN {}
     ELSE [form : {"bare", "bearer"}, token : tokens \union {Forged}])
TokenIn(cred, form) == IF cred.form = form THEN ParseToken(cred.token) ELSE NoUser
RestAuth(cred) == TokenIn(cred, "bearer")
AuthInterceptor(cred) == TokenIn(cred, "bare")
AmqpExtractUserID(cred) == TokenIn(cred, "bare")
NatsExtractUserID(cred) == TokenIn(cred, "bare")
UserOf(via, cred) ==
    CASE via = "rest" -> RestAuth(cred)
      [] via = "grpc" -> AuthInterceptor(cred)
      [] via = "amqp" -> AmqpExtractUserID(cred)
      [] via = "nats" -> NatsExtractUserID(cred)

-----------------------------------------------------------------------------
TaskOps == {"create", "list", "get", "update", "transition", "delete"}
Args(op) ==
    CASE op = "register" -> Forms
      [] op = "login"    -> [email : Emails, password : Passwords]
      [] OTHER           -> {NoArg}

Stored(op, user, arg) ==      \* what the tables hold when the request comes
    CASE op = "login"   -> {u.id : u \in {v \in users : /\ v.email = arg.email
                                                        /\ v.hash.bcrypt = arg.password}}
      [] op = "history" -> {i \in DOMAIN history : history[i] = user}
      [] OTHER          -> {}

\* A request that no early return stops goes on to its use case.  A refusal
\* changes nothing: it is a stuttering step.
Receive(s) ==
    /\ slots[s] = Idle
    /\ \E via \in Transport, op \in Ops \ TaskOps :
       \E user \in {UserOf(via, cred) : cred \in Credentials(op)}, arg \in Args(op) :
          /\ Reaches[via][op][user # NoUser]
          /\ slots' = [slots EXCEPT ![s] =
                          [pc |-> op, via |-> via, op |-> op, user |-> user,
                           arg |-> arg, before |-> Stored(op, user, arg)]]
    /\ last' = NoAnswer
    /\ UNCHANGED <<users, tokens, history, now>>

\* The use case returns err; the handler answers and the slot is free.
Reply(call, err, wrote, outage, seen) ==
    [via |-> call.via, op |-> call.op, user |-> call.user, err |-> err,
     code |-> Answer(call.via, call.op, err), wrote |-> wrote, outage |-> outage,
     before |-> call.before, seen |-> seen]
Finish(s, err, wrote, outage, seen) ==
    /\ last' = Reply(slots[s], err, wrote, outage, seen)
    /\ slots' = [slots EXCEPT ![s] = Idle]
Fails(s, wrote) == Finish(s, "internal", wrote, TRUE, {})
Goto(s, pc, arg) ==
    /\ slots' = [slots EXCEPT ![s].pc = pc, ![s].arg = arg]
    /\ last' = NoAnswer

-----------------------------------------------------------------------------
(* User. *)
Conflicts(user) == \E u \in users : u.username = user.username \/ u.email = user.email
\* The INSERT; an error may hide that it was committed.
StoreUserUpsert(s, user) ==
    LET kept == {u \in users : u.email # user.email /\ u.username # user.username}
    IN  /\ users' = kept \union {user}
        /\ Finish(s, "none", TRUE, FALSE, {})
StoreUser(s, user) ==
    \/ /\ Conflicts(user)
       /\ Finish(s, "exists", FALSE, FALSE, {})
       /\ UNCHANGED users
    \/ /\ ~Conflicts(user)
       /\ users' = users \union {user}
       /\ Finish(s, "none", TRUE, FALSE, {}) \/ Fails(s, TRUE)
    \/ Fails(s, FALSE) /\ UNCHANGED users
Register(s) ==
    /\ slots[s].pc = "register"
    /\ \/ \E id \in UserIds \ {u.id : u \in users} :
             StoreUser(s, [id |-> id, username |-> slots[s].arg.username,
                           email |-> slots[s].arg.email,
                           hash |-> GenerateFromPassword(slots[s].arg.password)])
       \/ Fails(s, FALSE) /\ UNCHANGED users      \* the password cannot be hashed
    /\ UNCHANGED <<tokens, history, now>>

getUser(column, value) == {u \in users : u[column] = value}
LoginRead(s) ==
    /\ slots[s].pc = "login"
    /\ \/ \E u \in getUser("email", slots[s].arg.email) :
             Goto(s, "compare", [user |-> u, email |-> slots[s].arg.email,
                                 password |-> slots[s].arg.password])
       \/ /\ getUser("email", slots[s].arg.email) = {}
          /\ Finish(s, "credentials", FALSE, FALSE, {})
       \/ Finish(s, "credentials", FALSE, TRUE, {})     \* the query fails
    /\ UNCHANGED <<users, tokens, history, now>>
LoginIssue(s) ==
    /\ slots[s].pc = "compare"
    /\ LET arg == slots[s].arg
       IN  IF CompareHashAndPassword(arg.user.hash, arg.password)
           THEN \/ /\ Cardinality(tokens) < MaxTokens
                   /\ tokens' = tokens \union
                                 {GenerateToken(arg.user, arg.email, arg.password)}
                   /\ Finish(s, "none", TRUE, FALSE, {})
                \/ Fails(s, FALSE) /\ UNCHANGED tokens      \* signing fails
           ELSE Finish(s, "credentials", FALSE, FALSE, {}) /\ UNCHANGED tokens
    /\ UNCHANGED <<users, history, now>>
GetUser(s) ==
    /\ slots[s].pc = "profile"
    /\ \/ /\ getUser("id", slots[s].user) # {}
          /\ Finish(s, "none", FALSE, FALSE, {})
       \/ /\ getUser("id", slots[s].user) = {}
          /\ Finish(s, "notfound", FALSE, FALSE, {})
       \/ Fails(s, FALSE)
    /\ UNCHANGED <<users, tokens, history, now>>

-----------------------------------------------------------------------------
(* Translation. *)
Translate(s) ==       \* the external service answers or fails
    /\ slots[s].pc = "translate"
    /\ \/ Goto(s, "store", NoArg)
       \/ Fails(s, FALSE)
    /\ UNCHANGED <<users, tokens, history, now>>
StoreTranslationLenient(s) ==
    /\ slots[s].pc = "store"
    /\ \/ /\ Len(history) < MaxRows
          /\ history' = Append(history, slots[s].user)
          /\ Finish(s, "none", TRUE, FALSE, {})
       \/ Finish(s, "none", FALSE, FALSE, {}) /\ UNCHANGED history
    /\ UNCHANGED <<users, tokens, now>>
StoreTranslation(s) ==
    /\ slots[s].pc = "store"
    /\ \/ /\ Len(history) < MaxRows
          /\ history' = Append(history, slots[s].user)
          /\ Finish(s, "none", TRUE, FALSE, {}) \/ Fails(s, TRUE)
       \/ Fails(s, FALSE) /\ UNCHANGED history
    /\ UNCHANGED <<users, tokens, now>>
\* A SELECT without ORDER BY; an error of the iteration is returned.
GetHistoryNoErr(s) ==
    /\ slots[s].pc = "history"
    /\ \E seen \in SUBSET {i \in DOMAIN history : history[i] = slots[s].user} :
          Finish(s, "none", FALSE, FALSE, seen)
    /\ UNCHANGED <<users, tokens, history, now>>
GetHistory(s) ==
    /\ slots[s].pc = "history"
    /\ \/ Finish(s, "none", FALSE, FALSE,
                 {i \in DOMAIN history : history[i] = slots[s].user})
       \/ Fails(s, FALSE)
    /\ UNCHANGED <<users, tokens, history, now>>

-----------------------------------------------------------------------------
(***************************************************************************)
(* The outcomes of the task use case: the error, and whether a row changed.*)
(* See module TaskService for where they come from.  Such a call neither   *)
(* reads nor writes what the other calls do, so it is served in one step   *)
(* between them.                                                           *)
(***************************************************************************)
Outcomes(errs, writes) ==
    {<<e, FALSE>> : e \in errs \union {"internal"}} \union
    (IF writes THEN {<<"none", TRUE>>, <<"internal", TRUE>>} ELSE {<<"none", FALSE>>})
TaskOutcomes ==
    [create     |-> Outcomes({}, TRUE),
     list       |-> Outcomes({}, FALSE),
     get        |-> Outcomes({"notfound", "forbidden"}, FALSE),
     update     |-> Outcomes({"notfound", "forbidden"}, TRUE),
     transition |-> Outcomes({"notfound", "forbidden", "invalid"}, TRUE),
     delete     |-> Outcomes({"notfound"}, TRUE)]
ServeTask ==
    /\ \A s \in Slots : slots[s] = Idle
    /\ \E via \in Transport, op \in TaskOps :
       \E user \in {UserOf(via, cred) : cred \in Credentials(op)}, o \in TaskOutcomes[op] :
          /\ Reaches[via][op][user # NoUser]
          /\ last' = Reply([via |-> via, op |-> op, user |-> user, before |-> {}],
                           o[1], o[2], o[1] = "internal", {})
    /\ UNCHANGED <<users, tokens, history, slots, now>>

Tick ==
    /\ now < MaxNow
    /\ now' = now + 1
    /\ last' = NoAnswer
    /\ UNCHANGED <<users, tokens, history, slots>>

\* The length of a body is unknown when it comes in chunks, or declared; one that
\* declares more than it sends breaks off.
Lengths(body) == {0, body[1].size} \union {l \in {Limit + 1} : body[1].fails}

\* A REST body meets bodyLimit, which looks at nothing but the request, so it
\* is enough to send bodies before anything has happened.
SendBody ==
    /\ users = {} /\ tokens = {} /\ now = 0 /\ \A s \in Slots : slots[s] = Idle
    /\ \E body \in Bodies : \E declared \in Lengths(body) :
          last' = [op |-> "body", declared |-> declared, body |-> body,
                   code |-> bodyLimit(declared, body)]
    /\ UNCHANGED <<users, tokens, history, slots, now>>

Init ==
    /\ users = {} /\ tokens = {} /\ history = <<>> /\ now = 0
    /\ slots = [s \in Slots |-> Idle]
    /\ last = NoAnswer

Next ==
    \/ \E s \in Slots : \/ Receive(s) \/ Register(s) \/ LoginRead(s) \/ LoginIssue(s)
                        \/ GetUser(s) \/ Translate(s) \/ StoreTranslation(s)
                        \/ GetHistory(s)
    \/ ServeTask
    \/ SendBody
    \/ Tick

Spec == Init /\ [][Next]_vars

-----------------------------------------------------------------------------
(* The tables, the slots and the last answer are well formed. *)
TypeOK ==
    /\ users \subseteq [id : UserIds, username : {f.username : f \in Forms},
                        email : Emails, hash : [bcrypt : Passwords]]
    /\ tokens \subseteq [sub : UserIds, exp : 0..(MaxNow + Duration),
                         by : [email : Emails, password : Passwords]]
    /\ Len(history) <= MaxRows /\ \A i \in DOMAIN history : history[i] \in UserIds
    /\ \A s \in Slots : slots[s] # Idle =>
          /\ slots[s].op \in DOMAIN Routes[slots[s].via]
          /\ slots[s].user \in UserIds \union {NoUser}
    /\ now \in 0..MaxNow
    /\ last.op \in Ops => last.err \in Errors /\ last.via \in Transport

HoldsToken(user) ==
    \E t \in tokens, u \in users : /\ t.sub = user /\ now < t.exp
                                   /\ u.id = user /\ u.email = t.by.email
                                   /\ CompareHashAndPassword(u.hash, t.by.password)
(***************************************************************************)
(* A use case is started for a user only when a token that has not expired *)
(* names that user, and the token was given to somebody who presented the  *)
(* email and the password that account was registered with (ParseToken,    *)
(* the middlewares, Login and Register together).                          *)
(***************************************************************************)
TokenHolderServed ==
    [][/\ \A s \in Slots :
             slots[s] = Idle /\ slots'[s] # Idle /\ slots'[s].op \notin {"register", "login"} =>
                 HoldsToken(slots'[s].user)
       /\ last'.op \in TaskOps => HoldsToken(last'.user)]_vars

(***************************************************************************)
(* Once an account is stored, whether or not Register could say so, a      *)
(* Login with its email and password is refused as wrong only because the  *)
(* query failed: no registration, before or during the Login and through   *)
(* any transport, takes the account away.                                  *)
(***************************************************************************)
RegisteredCanLogin ==
    last.op = "login" /\ last.err = "credentials" /\ ~last.outage => last.before = {}

Succeeded(answer) == answer.code = Routes[answer.via][answer.op].ok
(***************************************************************************)
(* A caller who is told of success can rely on the change, and one who is  *)
(* told of a specific refusal can rely on there being none; only the code  *)
(* for an internal error leaves the outcome open (the external translation *)
(* followed by a failing INSERT included).                                 *)
(***************************************************************************)
HonestAnswers ==
    last.op \in Ops =>
        /\ Succeeded(last) /\ last.op \notin {"profile", "list", "get", "history"} => last.wrote
        /\ ~Succeeded(last) /\ last.code # FailCode[last.via] => ~last.wrote

RestKind(code) ==
    CASE code \in {"200", "201", "204"} -> "none"
      [] code = "400" -> "invalid"    [] code = "401" -> "credentials"
      [] code = "403" -> "forbidden"  [] code = "404" -> "notfound"
      [] code = "409" -> "exists"     [] code = "500" -> "internal"
GrpcKind(code) ==
    CASE code = "OK" -> "none"
      [] code = "InvalidArgument" -> "invalid"
      [] code = "Unauthenticated" -> "credentials"
      [] code = "PermissionDenied" -> "forbidden"
      [] code = "NotFound" -> "notfound"
      [] code = "AlreadyExists" -> "exists"
      [] code = "Internal" -> "internal"
(***************************************************************************)
(* REST and gRPC answer the same outcome of a use case with codes of the   *)
(* same meaning: no handler lets an error that its use case can return     *)
(* fall through to the internal one.                                       *)
(***************************************************************************)
ErrorsToldApart ==
    last.op \in Ops =>
        /\ last.via = "rest" => RestKind(last.code) = last.err
        /\ last.via = "grpc" => GrpcKind(last.code) = last.err

(***************************************************************************)
(* A successful history holds every translation of the user that was       *)
(* stored before the request came, whatever is stored or fails while the   *)
(* rows are read (GetHistory consults rows.Err).                           *)
(***************************************************************************)
HistoryComplete ==
    last.op = "history" /\ Succeeded(last) => last.before \subseteq last.seen

Whole(stage) == stage.opens /\ ~stage.fails /\ stage.size <= Limit
(***************************************************************************)
(* A body reaches its handler exactly when what came over the wire and the *)
(* result of every decoding stage are complete and within the limit; 413   *)
(* is the answer exactly when too much was declared, whatever then comes,  *)
(* or the first stage that is not whole yields too much, even when it also *)
(* breaks off (bodyLimit, readBody and decodeBody).                        *)
(***************************************************************************)
BodyLimitExact ==
    last.op = "body" =>
        LET stages == last.body
            first  == Min({i \in DOMAIN stages : ~Whole(stages[i])})
        IN  /\ (last.code = Called) <=> (\A i \in DOMAIN stages : Whole(stages[i]))
            /\ last.code # Called =>
                  ((last.code = "413") <=> \/ last.declared > Limit
                                           \/ stages[first].opens /\ stages[first].size > Limit)

Presented(via, token) == [form |-> IF via = "rest" THEN "bearer" ELSE "bare", token |-> token]
(***************************************************************************)
(* At any moment REST, AMQP and NATS let the same requests through to the  *)
(* operations they share, for the same user, whatever the token and        *)
(* whichever field is invalid, and gRPC lets at least those through: the   *)
(* copies of the request types, of the routes, of the token check and of   *)
(* the order of the checks agree.  Left out are the id, which REST takes   *)
(* from the path, and what only REST can refuse: the size of a body, its   *)
(* coding and its syntax.  It is evaluated between requests.               *)
(***************************************************************************)
AdmittedAlike ==
    (\A s \in Slots : slots[s] = Idle) =>
        \A token \in tokens \union {Forged} :
            LET User(via) == UserOf(via, Presented(via, token))
                Through(via, op, bad) == Returns[via][op][User(via) # NoUser][bad] = Called
            IN  /\ \A via \in Transport : User(via) = User("rest")
                /\ \A op \in DOMAIN AmqpRoutes :
                   \A bad \in (FieldsOf[op] \ {"id"}) \union {"none"} :
                      /\ Through("amqp", op, bad) = Through("rest", op, bad)
                      /\ Through("nats", op, bad) = Through("rest", op, bad)
                      /\ Through("rest", op, bad) => Through("grpc", op, bad)
=============================================================================
