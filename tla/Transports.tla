----------------------------- MODULE Transports -----------------------------
(***************************************************************************)
(* The request handlers of the four transports, REST, gRPC, AMQP RPC and   *)
(* NATS RPC.  They keep no state.  A handler is what it does before and    *)
(* after the use case it calls: which early returns stand before the call, *)
(* and which code answers each outcome of it.                              *)
(*                                                                         *)
(* A request carries at most one defect: a field that breaks the rules of  *)
(* its request type, an unreadable "body", a body over the "size" limit,   *)
(* or a "coding" that does not decode.                                     *)
(***************************************************************************)
EXTENDS Naturals, Sequences, FiniteSetsExt, TLC

CONSTANTS NoUser,     \* no "userID" in the request's context
          Forged,     \* a token that this service has not signed
          Limit       \* _defaultBodyLimit, in the units the sizes are given in

ASSUME LimitAssumption == Limit \in Nat

Ops == {"register", "login", "profile", "create", "list", "get", "update",
        "transition", "delete", "history", "translate"}
Fields == {"id", "title", "description", "status", "username", "email",
           "password", "source", "destination", "original"}
Defects == Fields \union {"none", "body", "size", "coding"}
\* What a use case may return; "none" is success, the rest are the errors of
\* package entity, and "internal" every other error.
Errors == {"none", "notfound", "forbidden", "invalid", "exists",
           "credentials", "internal"}

(***************************************************************************)
(* auth: the handler returns early without a user.  rules: the defects it  *)
(* rejects itself.  ok: its code of success.  codes: the errors it tells   *)
(* apart.                                                                  *)
(***************************************************************************)
Handler(auth, rules, ok, codes) ==
    [auth |-> auth, rules |-> rules, ok |-> ok, codes |-> codes]

Called == "called"     \* no early return: the use case is called
\* The code of the first early return that applies, of checks in code order.
FirstReturn(checks) ==
    LET taken == {i \in DOMAIN checks : checks[i].refuse}
    IN  IF taken = {} THEN Called ELSE checks[Min(taken)].code
Check(refuse, code) == [refuse |-> refuse, code |-> code]

-----------------------------------------------------------------------------
(***************************************************************************)
(* The request types and the validator's tags, which the three validating  *)
(* transports repeat.  "body" stands for the decoding before validation.   *)
(***************************************************************************)
TaskText == {"body", "title", "description"}
RestTaskRules == [create |-> TaskText, update |-> TaskText,
                  transition |-> {"body", "status"}]
RestTranslateRules == {"body", "source", "destination", "original"}
RestUserRulesNoEmail == [register |-> {"body", "username", "password"},
                         login    |-> {"body", "email", "password"}]
RestUserRules == [register |-> {"body", "username", "email", "password"},
                  login    |-> {"body", "email", "password"}]

RpcTaskRules == [create |-> TaskText, get |-> {"body", "id"},
                 list |-> {"body", "status"}, update |-> TaskText \union {"id"},
                 transition |-> {"body", "id", "status"},
                 delete |-> {"body", "id"}]
AmqpTaskRules == RpcTaskRules
NatsTaskRules == RpcTaskRules
AmqpUserRules == [register |-> {"body", "username", "email", "password"},
                  login    |-> {"body", "email", "password"}]
NatsUserRules == [register |-> {"body", "username", "email", "password"},
                  login    |-> {"body", "email", "password"}]
AmqpTranslateRules == {"body", "source", "destination", "original"}
NatsTranslateRules == {"body", "source", "destination", "original"}

-----------------------------------------------------------------------------
(* REST. *)
RestOwned == [notfound |-> "404", forbidden |-> "403"]
RestTaskReads ==
    [create |-> Handler(TRUE, RestTaskRules.create, "201", <<>>),
     list   |-> Handler(TRUE, {"status"}, "200", <<>>),
     get    |-> Handler(TRUE, {}, "200", RestOwned)]
RestTaskChanges ==
    [update     |-> Handler(TRUE, RestTaskRules.update, "200", RestOwned),
     transition |-> Handler(TRUE, RestTaskRules.transition, "200",
                            [notfound |-> "404", forbidden |-> "403", invalid |-> "400"]),
     delete     |-> Handler(TRUE, {}, "204", [notfound |-> "404"])]
RestUsers ==
    [register |-> Handler(FALSE, RestUserRules.register, "201", [exists |-> "409"]),
     login    |-> Handler(FALSE, RestUserRules.login, "200", [credentials |-> "401"]),
     profile  |-> Handler(TRUE, {}, "200", [notfound |-> "404"])]
RestTranslations ==
    [history   |-> Handler(TRUE, {}, "200", <<>>),
     translate |-> Handler(TRUE, RestTranslateRules, "200", <<>>)]
\* The routes of the group with the Auth middleware; the others are public.
RestProtected == Ops \ {"register", "login"}

(***************************************************************************)
(* bodyLimit reads the whole body and undoes its content encodings before  *)
(* the route's middleware runs.  A stage is one read: of the wire, then of *)
(* each decoder.  opens: the decoder accepts the header.  size: the bytes  *)
(* it yields until its end or its error.                                   *)
(***************************************************************************)
readBody(stage) ==
    FirstReturn(<<Check(~stage.opens, "400"),
                  Check(stage.size > Limit, "413"),
                  Check(stage.fails, "400")>>)
bodyLimitWireOnly(declared, stages) ==
    FirstReturn(<<Check(declared > Limit, "413"),
                  Check(readBody(stages[1]) # Called, readBody(stages[1]))>>)
bodyLimit(declared, stages) ==
    FirstReturn(<<Check(declared > Limit, "413")>> \o
                [i \in DOMAIN stages |->
                    Check(readBody(stages[i]) # Called, readBody(stages[i]))])

-----------------------------------------------------------------------------
(* gRPC; the library decodes the request before the interceptor runs. *)
GrpcOwned == [notfound |-> "NotFound", forbidden |-> "PermissionDenied"]
GrpcTransition == [notfound |-> "NotFound", forbidden |-> "PermissionDenied",
                   invalid |-> "InvalidArgument"]
GrpcTasksNoForbidden ==
    [create     |-> Handler(TRUE, {}, "OK", <<>>),
     get        |-> Handler(TRUE, {}, "OK", GrpcOwned),
     list       |-> Handler(TRUE, {"status"}, "OK", <<>>),
     update     |-> Handler(TRUE, {}, "OK", [notfound |-> "NotFound"]),
     transition |-> Handler(TRUE, {}, "OK", GrpcTransition),
     delete     |-> Handler(TRUE, {}, "OK", [notfound |-> "NotFound"])]
GrpcTasks ==
    [create     |-> Handler(TRUE, {}, "OK", <<>>),
     get        |-> Handler(TRUE, {}, "OK", GrpcOwned),
     list       |-> Handler(TRUE, {"status"}, "OK", <<>>),
     update     |-> Handler(TRUE, {}, "OK", GrpcOwned),
     transition |-> Handler(TRUE, {}, "OK", GrpcTransition),
     delete     |-> Handler(TRUE, {}, "OK", [notfound |-> "NotFound"])]
GrpcUsers ==
    [register |-> Handler(FALSE, {}, "OK", [exists |-> "AlreadyExists"]),
     login    |-> Handler(FALSE, {}, "OK", [credentials |-> "Unauthenticated"]),
     profile  |-> Handler(TRUE, {}, "OK", [notfound |-> "NotFound"])]
GrpcTranslations == [op \in {"history", "translate"} |-> Handler(TRUE, {}, "OK", <<>>)]
skipAuthMethods == {"register", "login"}

-----------------------------------------------------------------------------
(* AMQP RPC and NATS RPC: every error of a handler reaches the caller as one. *)
RpcHandler(auth, rules) == Handler(auth, rules, "success", <<>>)
AmqpTaskReads == [op \in {"create", "get", "list"} |-> RpcHandler(TRUE, AmqpTaskRules[op])]
AmqpTaskChanges == [op \in {"update", "transition", "delete"} |->
                       RpcHandler(TRUE, AmqpTaskRules[op])]
AmqpUsers == [op \in {"register", "login"} |-> RpcHandler(FALSE, AmqpUserRules[op])]
AmqpTranslations == [history   |-> RpcHandler(TRUE, {}),
                     translate |-> RpcHandler(TRUE, AmqpTranslateRules)]
NatsTaskReads == [op \in {"create", "get", "list"} |-> RpcHandler(TRUE, NatsTaskRules[op])]
NatsTaskChanges == [op \in {"update", "transition", "delete"} |->
                       RpcHandler(TRUE, NatsTaskRules[op])]
NatsUsers == [op \in {"register", "login"} |-> RpcHandler(FALSE, NatsUserRules[op])]
NatsTranslations == [history   |-> RpcHandler(TRUE, {}),
                     translate |-> RpcHandler(TRUE, NatsTranslateRules)]

-----------------------------------------------------------------------------
(* The routers: which operation each transport offers. *)
Joined(f, g) ==
    [op \in DOMAIN f \union DOMAIN g |-> IF op \in DOMAIN f THEN f[op] ELSE g[op]]
RestRoutes == Joined(Joined(RestUsers, RestTranslations), Joined(RestTaskReads, RestTaskChanges))
GrpcRoutes == Joined(Joined(GrpcUsers, GrpcTranslations), GrpcTasks)
AmqpRoutes == Joined(Joined(AmqpUsers, AmqpTranslations), Joined(AmqpTaskReads, AmqpTaskChanges))
NatsRoutes == Joined(Joined(NatsUsers, NatsTranslations), Joined(NatsTaskReads, NatsTaskChanges))

-----------------------------------------------------------------------------
(***************************************************************************)
(* The early returns before a use case, in the order of the code; found    *)
(* says whether the credentials name a user.  On REST the middleware of    *)
(* the protected group comes before the check in the handler, on gRPC the  *)
(* interceptor does.                                                       *)
(***************************************************************************)
RestReturns(op, found, bad) ==
    LET userID == op \in RestProtected /\ found
    IN  FirstReturn(<<Check(bad = "size", "413"),
                      Check(bad = "coding", "400"),
                      Check(op \in RestProtected /\ ~found, "401"),
                      Check(RestRoutes[op].auth /\ ~userID, "401"),
                      Check(bad \in RestRoutes[op].rules, "400")>>)
GrpcReturns(op, found, bad) ==
    LET userID == op \notin skipAuthMethods /\ found
    IN  FirstReturn(<<Check(op \notin skipAuthMethods /\ ~found, "Unauthenticated"),
                      Check(GrpcRoutes[op].auth /\ ~userID, "Unauthenticated"),
                      Check(bad \in GrpcRoutes[op].rules, "InvalidArgument")>>)
RpcReturns(routes, op, found, bad) ==
    IF op \notin DOMAIN routes THEN "bad handler"
    ELSE FirstReturn(<<Check(bad = "body", "internal"),
                       Check(routes[op].auth /\ ~found, "internal"),
                       Check(bad \in routes[op].rules, "internal")>>)
AmqpReturns(op, found, bad) == RpcReturns(AmqpRoutes, op, found, bad)
NatsReturns(op, found, bad) == RpcReturns(NatsRoutes, op, found, bad)

Transport == {"rest", "grpc", "amqp", "nats"}
\* gRPC requests reach the code decoded; only REST bodies are limited and coded.
DefectsOf == [rest |-> Defects, grpc |-> Fields \union {"none"},
              amqp |-> Fields \union {"none", "body"},
              nats |-> Fields \union {"none", "body"}]
FieldsOf ==
    [register |-> {"username", "email", "password"}, login |-> {"email", "password"},
     profile |-> {}, create |-> {"title", "description"}, list |-> {"status"},
     get |-> {"id"}, update |-> {"id", "title", "description"},
     transition |-> {"id", "status"}, delete |-> {"id"}, history |-> {},
     translate |-> {"source", "destination", "original"}]
\* The code of the early return a request takes, and the requests that take none.
ReturnsOf(via, op, found, bad) ==
    CASE via = "rest" -> RestReturns(op, found, bad)
      [] via = "grpc" -> GrpcReturns(op, found, bad)
      [] via = "amqp" -> AmqpReturns(op, found, bad)
      [] via = "nats" -> NatsReturns(op, found, bad)
Returns == [via \in Transport |-> [op \in Ops |-> [found \in BOOLEAN |->
    [bad \in Defects |-> ReturnsOf(via, op, found, bad)]]]]
Reaches == [via \in Transport |-> [op \in Ops |-> [found \in BOOLEAN |->
    \E bad \in DefectsOf[via] \ (Fields \ FieldsOf[op]) :
        Returns[via][op][found][bad] = Called]]]

Routes == [rest |-> RestRoutes, grpc |-> GrpcRoutes, amqp |-> AmqpRoutes, nats |-> NatsRoutes]
FailCode == [rest |-> "500", grpc |-> "Internal", amqp |-> "internal", nats |-> "internal"]
\* The handler's answer to what its use case returned.
Answer(via, op, err) ==
    LET h == Routes[via][op]
    IN  IF err = "none" THEN h.ok
        ELSE IF err \in DOMAIN h.codes THEN h.codes[err]
        ELSE FailCode[via]
=============================================================================
