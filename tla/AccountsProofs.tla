--------------------------- MODULE AccountsProofs ----------------------------
(***************************************************************************)
(* The accounts and the request handlers, for any number of requests in    *)
(* progress, users, tokens and bodies: who is served, what an answer says, *)
(* and which bodies pass.                                                  *)
(***************************************************************************)
EXTENDS Accounts, WellFoundedInduction, TLAPS

-----------------------------------------------------------------------------
(* Early returns. *)

\* A set of naturals has a smallest element.
LEMMA MinOfNaturals ==
    ASSUME NEW T \in SUBSET Nat, T # {}
    PROVE  Min(T) \in T /\ \A y \in T : Min(T) <= y
<1> DEFINE R == OpToRel(<, Nat)
<1>1. IsWellFoundedOn(R, Nat)
  BY NatLessThanWellFounded, Zenon
<1>2. \A x, y \in Nat : <<x, y>> \in R <=> x < y
  BY DEF OpToRel
<1> HIDE DEF R
<1>3. PICK x \in T : \A y \in T : ~(<<y, x>> \in R)
  BY <1>1, WFMin, Zenon
<1>4. \A y \in T : ~(y < x)
  BY <1>2, <1>3, Zenon
<1>5. \A y \in T : x <= y
  BY <1>4
<1> QED BY <1>5, Zenon DEF Min

\* The use case is called when no early return applies.
LEMMA FirstReturnCalled ==
    ASSUME NEW checks, DOMAIN checks \subseteq Nat,
           \A i \in DOMAIN checks : checks[i].refuse => checks[i].code # Called
    PROVE  FirstReturn(checks) = Called <=> \A i \in DOMAIN checks : ~checks[i].refuse
<1> DEFINE taken == {i \in DOMAIN checks : checks[i].refuse}
<1>1. CASE taken = {}
  BY <1>1, Zenon DEF FirstReturn
<1>2. CASE taken # {}
  <2>1. Min(taken) \in taken
    BY <1>2, MinOfNaturals, Zenon
  <2> QED BY <1>2, <2>1, Zenon DEF FirstReturn
<1> QED BY <1>1, <1>2

\* Of several early returns that apply the first is taken.
LEMMA FirstReturnIs ==
    ASSUME NEW checks, DOMAIN checks \subseteq Nat, NEW k \in DOMAIN checks, checks[k].refuse,
           \A i \in DOMAIN checks : i < k => ~checks[i].refuse
    PROVE  FirstReturn(checks) = checks[k].code
<1> DEFINE taken == {i \in DOMAIN checks : checks[i].refuse}
<1>1. k \in taken /\ taken \subseteq Nat
  OBVIOUS
<1>2. \A i \in taken : i \in DOMAIN checks /\ checks[i].refuse
  OBVIOUS
<1>3. FirstReturn(checks) = IF taken = {} THEN Called ELSE checks[Min(taken)].code
  BY Zenon DEF FirstReturn
<1> HIDE DEF taken
<1>4. Min(taken) \in taken /\ Min(taken) <= k
  BY <1>1, MinOfNaturals, Zenon
<1>5. ~(Min(taken) < k)
  BY <1>2, <1>4, Zenon
<1>6. Min(taken) = k
  BY <1>1, <1>4, <1>5
<1> QED BY <1>1, <1>3, <1>6, Zenon

\* Three early returns.
LEMMA ThreeChecks ==
    ASSUME NEW a, NEW b, NEW c, a.code # Called, b.code # Called, c.code # Called
    PROVE  FirstReturn(<<a, b, c>>) = Called <=> ~a.refuse /\ ~b.refuse /\ ~c.refuse
<1> DEFINE checks == <<a, b, c>>
<1>1. DOMAIN checks = 1..3 /\ checks[1] = a /\ checks[2] = b /\ checks[3] = c
  OBVIOUS
<1> HIDE DEF checks
<1>2. \A i \in 1..3 : i = 1 \/ i = 2 \/ i = 3
  OBVIOUS
<1>3. /\ DOMAIN checks \subseteq Nat
      /\ 1 \in DOMAIN checks /\ 2 \in DOMAIN checks /\ 3 \in DOMAIN checks
  BY <1>1
<1>4. \A i \in DOMAIN checks : checks[i].code # Called
  BY <1>1, <1>2, Zenon
<1>5. FirstReturn(checks) = Called <=> \A i \in DOMAIN checks : ~checks[i].refuse
  BY <1>3, <1>4, FirstReturnCalled, Zenon
<1>6. FirstReturn(checks) = Called <=> ~a.refuse /\ ~b.refuse /\ ~c.refuse
  BY <1>1, <1>2, <1>3, <1>5, Zenon
<1> QED BY <1>6 DEF checks

\* Which of three early returns is taken.
LEMMA ThreeCodes ==
    ASSUME NEW a, NEW b, NEW c
    PROVE  /\ a.refuse => FirstReturn(<<a, b, c>>) = a.code
           /\ ~a.refuse /\ b.refuse => FirstReturn(<<a, b, c>>) = b.code
           /\ ~a.refuse /\ ~b.refuse /\ c.refuse => FirstReturn(<<a, b, c>>) = c.code
<1> DEFINE checks == <<a, b, c>>
<1>1. DOMAIN checks = 1..3 /\ checks[1] = a /\ checks[2] = b /\ checks[3] = c
  OBVIOUS
<1> HIDE DEF checks
<1>2. /\ \A i \in 1..3 : ~(i < 1)
      /\ \A i \in 1..3 : i < 2 => i = 1
      /\ \A i \in 1..3 : i < 3 => i = 1 \/ i = 2
  OBVIOUS
<1>3. /\ DOMAIN checks \subseteq Nat
      /\ 1 \in DOMAIN checks /\ 2 \in DOMAIN checks /\ 3 \in DOMAIN checks
  BY <1>1
<1>4. a.refuse => FirstReturn(checks) = a.code
  BY <1>1, <1>2, <1>3, FirstReturnIs, Zenon
<1>5. ~a.refuse /\ b.refuse => FirstReturn(checks) = b.code
  BY <1>1, <1>2, <1>3, FirstReturnIs, Zenon
<1>6. ~a.refuse /\ ~b.refuse /\ c.refuse => FirstReturn(checks) = c.code
  BY <1>1, <1>2, <1>3, FirstReturnIs, Zenon
<1> QED BY <1>4, <1>5, <1>6 DEF checks

\* Five early returns.
LEMMA FiveChecks ==
    ASSUME NEW a, NEW b, NEW c, NEW d, NEW e, a.code # Called, b.code # Called,
           c.code # Called, d.code # Called, e.code # Called
    PROVE  FirstReturn(<<a, b, c, d, e>>) = Called
             <=> ~a.refuse /\ ~b.refuse /\ ~c.refuse /\ ~d.refuse /\ ~e.refuse
<1> DEFINE checks == <<a, b, c, d, e>>
<1>1. /\ DOMAIN checks = 1..5 /\ checks[1] = a /\ checks[2] = b /\ checks[3] = c
      /\ checks[4] = d /\ checks[5] = e
  OBVIOUS
<1> HIDE DEF checks
<1>2. \A i \in 1..5 : i = 1 \/ i = 2 \/ i = 3 \/ i = 4 \/ i = 5
  OBVIOUS
<1>3. /\ DOMAIN checks \subseteq Nat /\ 1 \in DOMAIN checks /\ 2 \in DOMAIN checks
      /\ 3 \in DOMAIN checks /\ 4 \in DOMAIN checks /\ 5 \in DOMAIN checks
  BY <1>1
<1>4. \A i \in DOMAIN checks : checks[i].code # Called
  BY <1>1, <1>2, Zenon
<1>5. FirstReturn(checks) = Called <=> \A i \in DOMAIN checks : ~checks[i].refuse
  BY <1>3, <1>4, FirstReturnCalled, Zenon
<1>6. FirstReturn(checks) = Called
        <=> ~a.refuse /\ ~b.refuse /\ ~c.refuse /\ ~d.refuse /\ ~e.refuse
  BY <1>1, <1>2, <1>3, <1>5, Zenon
<1> QED BY <1>6 DEF checks

\* A check, field by field.
LEMMA CheckFields == \A r, k : Check(r, k).refuse = r /\ Check(r, k).code = k
BY DEF Check

\* Which requests the REST handlers let through.
LEMMA RestAdmits ==
    ASSUME NEW op, NEW found, NEW bad
    PROVE  RestReturns(op, found, bad) = Called <=>
             /\ bad # "size" /\ bad # "coding"
             /\ op \in RestProtected => found
             /\ RestRoutes[op].auth => op \in RestProtected /\ found
             /\ bad \notin RestRoutes[op].rules
<1>1. "413" # Called /\ "400" # Called /\ "401" # Called
  BY DEF Called
<1> DEFINE a == Check(bad = "size", "413")
           b == Check(bad = "coding", "400")
           c == Check(op \in RestProtected /\ ~found, "401")
           d == Check(RestRoutes[op].auth /\ ~(op \in RestProtected /\ found), "401")
           e == Check(bad \in RestRoutes[op].rules, "400")
<1>2. RestReturns(op, found, bad) = FirstReturn(<<a, b, c, d, e>>)
  BY Zenon DEF RestReturns
<1>3. a.code = "413" /\ b.code = "400" /\ c.code = "401" /\ d.code = "401" /\ e.code = "400"
  BY DEF Check
<1>4. /\ a.refuse = (bad = "size") /\ b.refuse = (bad = "coding")
      /\ c.refuse = (op \in RestProtected /\ ~found)
  BY CheckFields, Zenon
<1>5. /\ d.refuse = (RestRoutes[op].auth /\ ~(op \in RestProtected /\ found))
      /\ e.refuse = (bad \in RestRoutes[op].rules)
  BY CheckFields, Zenon
<1> HIDE DEF a, b, c, d, e
<1>6. FirstReturn(<<a, b, c, d, e>>) = Called
        <=> ~a.refuse /\ ~b.refuse /\ ~c.refuse /\ ~d.refuse /\ ~e.refuse
  BY <1>1, <1>3, FiveChecks, Zenon
<1> QED BY <1>2, <1>4, <1>5, <1>6, Zenon

\* Which requests the gRPC handlers let through.
LEMMA GrpcAdmits ==
    ASSUME NEW op, NEW found, NEW bad
    PROVE  GrpcReturns(op, found, bad) = Called <=>
             /\ op \notin skipAuthMethods => found
             /\ GrpcRoutes[op].auth => op \notin skipAuthMethods /\ found
             /\ bad \notin GrpcRoutes[op].rules
<1>1. "Unauthenticated" # Called /\ "InvalidArgument" # Called
  BY DEF Called
<1> DEFINE a == Check(op \notin skipAuthMethods /\ ~found, "Unauthenticated")
           b == Check(GrpcRoutes[op].auth /\ ~(op \notin skipAuthMethods /\ found),
                      "Unauthenticated")
           c == Check(bad \in GrpcRoutes[op].rules, "InvalidArgument")
<1>2. GrpcReturns(op, found, bad) = FirstReturn(<<a, b, c>>)
  BY Zenon DEF GrpcReturns
<1>3. /\ a.code = "Unauthenticated" /\ b.code = "Unauthenticated" /\ c.code = "InvalidArgument"
      /\ a.refuse = (op \notin skipAuthMethods /\ ~found)
      /\ b.refuse = (GrpcRoutes[op].auth /\ ~(op \notin skipAuthMethods /\ found))
      /\ c.refuse = (bad \in GrpcRoutes[op].rules)
  BY CheckFields, Zenon
<1> HIDE DEF a, b, c
<1>4. FirstReturn(<<a, b, c>>) = Called <=> ~a.refuse /\ ~b.refuse /\ ~c.refuse
  BY <1>1, <1>3, ThreeChecks, Zenon
<1> QED BY <1>1, <1>2, <1>3, <1>4, Zenon

\* Which requests the handlers of the message transports let through.
LEMMA RpcAdmits ==
    ASSUME NEW routes, NEW op, NEW found, NEW bad
    PROVE  RpcReturns(routes, op, found, bad) = Called <=>
             /\ op \in DOMAIN routes /\ bad # "body"
             /\ routes[op].auth => found
             /\ bad \notin routes[op].rules
<1>1. "internal" # Called /\ "bad handler" # Called
  BY DEF Called
<1> DEFINE a == Check(bad = "body", "internal")
           b == Check(routes[op].auth /\ ~found, "internal")
           c == Check(bad \in routes[op].rules, "internal")
<1>2. RpcReturns(routes, op, found, bad) =
        IF op \notin DOMAIN routes THEN "bad handler" ELSE FirstReturn(<<a, b, c>>)
  BY Zenon DEF RpcReturns
<1>3. /\ a.code = "internal" /\ b.code = "internal" /\ c.code = "internal"
      /\ a.refuse = (bad = "body") /\ b.refuse = (routes[op].auth /\ ~found)
      /\ c.refuse = (bad \in routes[op].rules)
  BY CheckFields, Zenon
<1> HIDE DEF a, b, c
<1>4. FirstReturn(<<a, b, c>>) = Called <=> ~a.refuse /\ ~b.refuse /\ ~c.refuse
  BY <1>1, <1>3, ThreeChecks, Zenon
<1> QED BY <1>1, <1>2, <1>3, <1>4, Zenon

-----------------------------------------------------------------------------
(* The tables of handlers. *)

\* A handler, field by field.
LEMMA HandlerFields ==
    \A auth, rules, ok, codes :
        /\ Handler(auth, rules, ok, codes).auth = auth
        /\ Handler(auth, rules, ok, codes).rules = rules
        /\ Handler(auth, rules, ok, codes).ok = ok
        /\ Handler(auth, rules, ok, codes).codes = codes
BY DEF Handler

\* The REST routes.
LEMMA RestTable ==
    /\ DOMAIN RestRoutes = Ops
    /\ RestRoutes["register"] = Handler(FALSE, RestUserRules.register, "201", [exists |-> "409"])
    /\ RestRoutes["login"] = Handler(FALSE, RestUserRules.login, "200", [credentials |-> "401"])
    /\ RestRoutes["profile"] = Handler(TRUE, {}, "200", [notfound |-> "404"])
    /\ RestRoutes["history"] = Handler(TRUE, {}, "200", <<>>)
    /\ RestRoutes["translate"] = Handler(TRUE, RestTranslateRules, "200", <<>>)
    /\ RestRoutes["create"] = Handler(TRUE, RestTaskRules.create, "201", <<>>)
    /\ RestRoutes["list"] = Handler(TRUE, {"status"}, "200", <<>>)
    /\ RestRoutes["get"] = Handler(TRUE, {}, "200", RestOwned)
    /\ RestRoutes["update"] = Handler(TRUE, RestTaskRules.update, "200", RestOwned)
    /\ RestRoutes["transition"] = Handler(TRUE, RestTaskRules.transition, "200",
                           [notfound |-> "404", forbidden |-> "403", invalid |-> "400"])
    /\ RestRoutes["delete"] = Handler(TRUE, {}, "204", [notfound |-> "404"])
<1>1. /\ DOMAIN RestUsers = {"register", "login", "profile"}
      /\ DOMAIN RestTranslations = {"history", "translate"}
      /\ DOMAIN RestTaskReads = {"create", "list", "get"}
      /\ DOMAIN RestTaskChanges = {"update", "transition", "delete"}
  BY DEF RestUsers, RestTranslations, RestTaskReads, RestTaskChanges
<1>2. /\ RestRoutes["register"] = RestUsers["register"] /\ RestRoutes["login"] = RestUsers["login"]
      /\ RestRoutes["profile"] = RestUsers["profile"]
  BY <1>1 DEF RestRoutes, Joined
<1>3. /\ RestRoutes["history"] = RestTranslations["history"]
      /\ RestRoutes["translate"] = RestTranslations["translate"]
  BY <1>1 DEF RestRoutes, Joined
<1>4. /\ RestRoutes["create"] = RestTaskReads["create"]
      /\ RestRoutes["list"] = RestTaskReads["list"] /\ RestRoutes["get"] = RestTaskReads["get"]
  BY <1>1 DEF RestRoutes, Joined
<1>5. /\ RestRoutes["update"] = RestTaskChanges["update"]
      /\ RestRoutes["transition"] = RestTaskChanges["transition"]
      /\ RestRoutes["delete"] = RestTaskChanges["delete"]
  BY <1>1 DEF RestRoutes, Joined
<1>6. DOMAIN RestRoutes = Ops
  BY <1>1 DEF Ops, RestRoutes, Joined
<1> QED BY <1>2, <1>3, <1>4, <1>5, <1>6, Zenon
           DEF RestUsers, RestTranslations, RestTaskReads, RestTaskChanges

\* The gRPC routes.
LEMMA GrpcTable ==
    /\ DOMAIN GrpcRoutes = Ops
    /\ GrpcRoutes["register"] = Handler(FALSE, {}, "OK", [exists |-> "AlreadyExists"])
    /\ GrpcRoutes["login"] = Handler(FALSE, {}, "OK", [credentials |-> "Unauthenticated"])
    /\ GrpcRoutes["profile"] = Handler(TRUE, {}, "OK", [notfound |-> "NotFound"])
    /\ GrpcRoutes["history"] = Handler(TRUE, {}, "OK", <<>>)
    /\ GrpcRoutes["translate"] = Handler(TRUE, {}, "OK", <<>>)
    /\ GrpcRoutes["create"] = Handler(TRUE, {}, "OK", <<>>)
    /\ GrpcRoutes["list"] = Handler(TRUE, {"status"}, "OK", <<>>)
    /\ GrpcRoutes["get"] = Handler(TRUE, {}, "OK", GrpcOwned)
    /\ GrpcRoutes["update"] = Handler(TRUE, {}, "OK", GrpcOwned)
    /\ GrpcRoutes["transition"] = Handler(TRUE, {}, "OK", GrpcTransition)
    /\ GrpcRoutes["delete"] = Handler(TRUE, {}, "OK", [notfound |-> "NotFound"])
<1>1. /\ DOMAIN GrpcUsers = {"register", "login", "profile"}
      /\ DOMAIN GrpcTranslations = {"history", "translate"}
      /\ DOMAIN GrpcTasks = {"create", "get", "list", "update", "transition", "delete"}
  BY DEF GrpcUsers, GrpcTranslations, GrpcTasks
<1>2. /\ GrpcRoutes["register"] = GrpcUsers["register"] /\ GrpcRoutes["login"] = GrpcUsers["login"]
      /\ GrpcRoutes["profile"] = GrpcUsers["profile"]
  BY <1>1 DEF GrpcRoutes, Joined
<1>3. /\ GrpcRoutes["history"] = GrpcTranslations["history"]
      /\ GrpcRoutes["translate"] = GrpcTranslations["translate"]
  BY <1>1 DEF GrpcRoutes, Joined
<1>4. /\ GrpcRoutes["create"] = GrpcTasks["create"]
      /\ GrpcRoutes["list"] = GrpcTasks["list"] /\ GrpcRoutes["get"] = GrpcTasks["get"]
  BY <1>1 DEF GrpcRoutes, Joined
<1>5. /\ GrpcRoutes["update"] = GrpcTasks["update"]
      /\ GrpcRoutes["transition"] = GrpcTasks["transition"]
      /\ GrpcRoutes["delete"] = GrpcTasks["delete"]
  BY <1>1 DEF GrpcRoutes, Joined
<1>6. DOMAIN GrpcRoutes = Ops
  BY <1>1 DEF Ops, GrpcRoutes, Joined
<1> QED BY <1>2, <1>3, <1>4, <1>5, <1>6, Zenon
           DEF GrpcUsers, GrpcTranslations, GrpcTasks

\* The AMQP routes.
LEMMA AmqpTable ==
    /\ DOMAIN AmqpRoutes = Ops \ {"profile"}
    /\ AmqpRoutes["register"] = RpcHandler(FALSE, AmqpUserRules["register"])
    /\ AmqpRoutes["login"] = RpcHandler(FALSE, AmqpUserRules["login"])
    /\ AmqpRoutes["history"] = RpcHandler(TRUE, {})
    /\ AmqpRoutes["translate"] = RpcHandler(TRUE, AmqpTranslateRules)
    /\ \A op \in TaskOps : AmqpRoutes[op] = RpcHandler(TRUE, AmqpTaskRules[op])
<1>1. /\ DOMAIN AmqpUsers = {"register", "login"}
      /\ DOMAIN AmqpTranslations = {"history", "translate"}
      /\ DOMAIN AmqpTaskReads = {"create", "get", "list"}
      /\ DOMAIN AmqpTaskChanges = {"update", "transition", "delete"}
  BY DEF AmqpUsers, AmqpTranslations, AmqpTaskReads, AmqpTaskChanges
<1>2. AmqpRoutes["register"] = AmqpUsers["register"] /\ AmqpRoutes["login"] = AmqpUsers["login"]
  BY <1>1 DEF AmqpRoutes, Joined
<1>3. /\ AmqpRoutes["history"] = AmqpTranslations["history"]
      /\ AmqpRoutes["translate"] = AmqpTranslations["translate"]
  BY <1>1 DEF AmqpRoutes, Joined
<1>4. \A op \in {"create", "get", "list"} : AmqpRoutes[op] = AmqpTaskReads[op]
  BY <1>1 DEF AmqpRoutes, Joined
<1>5. \A op \in {"update", "transition", "delete"} : AmqpRoutes[op] = AmqpTaskChanges[op]
  BY <1>1 DEF AmqpRoutes, Joined
<1>6. DOMAIN AmqpRoutes = Ops \ {"profile"}
  BY <1>1 DEF Ops, AmqpRoutes, Joined
<1>7. \A op \in TaskOps : AmqpRoutes[op] = RpcHandler(TRUE, AmqpTaskRules[op])
  BY <1>4, <1>5, Zenon DEF TaskOps, AmqpTaskReads, AmqpTaskChanges
<1> QED BY <1>2, <1>3, <1>6, <1>7, Zenon DEF AmqpUsers, AmqpTranslations

\* The NATS routes.
LEMMA NatsTable ==
    /\ DOMAIN NatsRoutes = Ops \ {"profile"}
    /\ NatsRoutes["register"] = RpcHandler(FALSE, NatsUserRules["register"])
    /\ NatsRoutes["login"] = RpcHandler(FALSE, NatsUserRules["login"])
    /\ NatsRoutes["history"] = RpcHandler(TRUE, {})
    /\ NatsRoutes["translate"] = RpcHandler(TRUE, NatsTranslateRules)
    /\ \A op \in TaskOps : NatsRoutes[op] = RpcHandler(TRUE, NatsTaskRules[op])
<1>1. /\ DOMAIN NatsUsers = {"register", "login"}
      /\ DOMAIN NatsTranslations = {"history", "translate"}
      /\ DOMAIN NatsTaskReads = {"create", "get", "list"}
      /\ DOMAIN NatsTaskChanges = {"update", "transition", "delete"}
  BY DEF NatsUsers, NatsTranslations, NatsTaskReads, NatsTaskChanges
<1>2. NatsRoutes["register"] = NatsUsers["register"] /\ NatsRoutes["login"] = NatsUsers["login"]
  BY <1>1 DEF NatsRoutes, Joined
<1>3. /\ NatsRoutes["history"] = NatsTranslations["history"]
      /\ NatsRoutes["translate"] = NatsTranslations["translate"]
  BY <1>1 DEF NatsRoutes, Joined
<1>4. \A op \in {"create", "get", "list"} : NatsRoutes[op] = NatsTaskReads[op]
  BY <1>1 DEF NatsRoutes, Joined
<1>5. \A op \in {"update", "transition", "delete"} : NatsRoutes[op] = NatsTaskChanges[op]
  BY <1>1 DEF NatsRoutes, Joined
<1>6. DOMAIN NatsRoutes = Ops \ {"profile"}
  BY <1>1 DEF Ops, NatsRoutes, Joined
<1>7. \A op \in TaskOps : NatsRoutes[op] = RpcHandler(TRUE, NatsTaskRules[op])
  BY <1>4, <1>5, Zenon DEF TaskOps, NatsTaskReads, NatsTaskChanges
<1> QED BY <1>2, <1>3, <1>6, <1>7, Zenon DEF NatsUsers, NatsTranslations

\* A handler of a message transport, field by field.
LEMMA RpcFields ==
    \A auth, rules : /\ RpcHandler(auth, rules).auth = auth
                     /\ RpcHandler(auth, rules).rules = rules
                     /\ RpcHandler(auth, rules).ok = "success"
                     /\ RpcHandler(auth, rules).codes = <<>>
BY DEF RpcHandler, Handler

\* The early returns of a transport.
LEMMA ReturnsAt ==
    ASSUME NEW via \in Transport, NEW op \in Ops, NEW found \in BOOLEAN, NEW bad \in Defects
    PROVE  /\ via = "rest" => Returns[via][op][found][bad] = RestReturns(op, found, bad)
           /\ via = "grpc" => Returns[via][op][found][bad] = GrpcReturns(op, found, bad)
           /\ via = "amqp" => Returns[via][op][found][bad] = RpcReturns(AmqpRoutes, op, found, bad)
           /\ via = "nats" => Returns[via][op][found][bad] = RpcReturns(NatsRoutes, op, found, bad)
<1>1. Returns[via][op][found][bad] = ReturnsOf(via, op, found, bad)
  BY Zenon DEF Returns
<1>2. /\ via = "rest" => ReturnsOf(via, op, found, bad) = RestReturns(op, found, bad)
      /\ via = "grpc" => ReturnsOf(via, op, found, bad) = GrpcReturns(op, found, bad)
      /\ via = "amqp" => ReturnsOf(via, op, found, bad) = AmqpReturns(op, found, bad)
      /\ via = "nats" => ReturnsOf(via, op, found, bad) = NatsReturns(op, found, bad)
  BY DEF ReturnsOf
<1> QED BY <1>1, <1>2, Zenon DEF AmqpReturns, NatsReturns

\* The defects a transport can meet.
LEMMA DefectsKnown == \A via \in Transport : DefectsOf[via] \subseteq Defects
<1>1. /\ DefectsOf["rest"] = Defects /\ DefectsOf["grpc"] = Fields \union {"none"}
      /\ DefectsOf["amqp"] = Fields \union {"none", "body"}
      /\ DefectsOf["nats"] = Fields \union {"none", "body"}
  BY DEF DefectsOf
<1>2. /\ Fields \union {"none"} \subseteq Defects
      /\ Fields \union {"none", "body"} \subseteq Defects
  BY Zenon DEF Defects
<1> QED BY <1>1, <1>2 DEF Transport

\* Without a user only registration and login are let through, and only what
\* a transport offers is.
LEMMA ReachesRoutes ==
    ASSUME NEW via \in Transport, NEW op \in Ops, NEW found \in BOOLEAN,
           Reaches[via][op][found]
    PROVE  /\ op \notin {"register", "login"} => found
           /\ op \in DOMAIN Routes[via]
<1>1. PICK bad \in Defects : Returns[via][op][found][bad] = Called
  <2>1. \E bad \in DefectsOf[via] \ (Fields \ FieldsOf[op]) :
           Returns[via][op][found][bad] = Called
    BY Zenon DEF Reaches
  <2> QED BY <2>1, DefectsKnown, Zenon
<1>2. CASE via = "rest"
  <2>1. RestReturns(op, found, bad) = Called
    BY <1>1, <1>2, ReturnsAt, Zenon
  <2>2. op \in RestProtected => found
    BY <2>1, RestAdmits, Zenon
  <2> QED BY <1>2, <2>2, RestTable, Zenon DEF RestProtected, Routes
<1>3. CASE via = "grpc"
  <2>1. GrpcReturns(op, found, bad) = Called
    BY <1>1, <1>3, ReturnsAt, Zenon
  <2>2. op \notin skipAuthMethods => found
    BY <2>1, GrpcAdmits, Zenon
  <2> QED BY <1>3, <2>2, GrpcTable, Zenon DEF skipAuthMethods, Routes
<1>4. ASSUME NEW routes, RpcReturns(routes, op, found, bad) = Called
      PROVE  op \in DOMAIN routes /\ (routes[op].auth => found)
  BY <1>4, RpcAdmits, Zenon
<1>5. CASE via = "amqp"
  <2>1. op \in DOMAIN AmqpRoutes /\ (AmqpRoutes[op].auth => found)
    BY <1>1, <1>4, <1>5, ReturnsAt, Zenon
  <2>2. op \notin {"register", "login"} => AmqpRoutes[op].auth
    <3>1. op \notin {"register", "login"} => op \in TaskOps \/ op = "history" \/ op = "translate"
      BY <2>1, AmqpTable, Zenon DEF Ops, TaskOps
    <3>2. \A rules : RpcHandler(TRUE, rules).auth
      BY RpcFields, Zenon
    <3> QED BY <3>1, <3>2, AmqpTable, Zenon
  <2> QED BY <1>5, <2>1, <2>2, Zenon DEF Routes
<1>6. CASE via = "nats"
  <2>1. op \in DOMAIN NatsRoutes /\ (NatsRoutes[op].auth => found)
    BY <1>1, <1>4, <1>6, ReturnsAt, Zenon
  <2>2. op \notin {"register", "login"} => NatsRoutes[op].auth
    <3>1. op \notin {"register", "login"} => op \in TaskOps \/ op = "history" \/ op = "translate"
      BY <2>1, NatsTable, Zenon DEF Ops, TaskOps
    <3>2. \A rules : RpcHandler(TRUE, rules).auth
      BY RpcFields, Zenon
    <3> QED BY <3>1, <3>2, NatsTable, Zenon
  <2> QED BY <1>6, <2>1, <2>2, Zenon DEF Routes
<1> QED BY <1>2, <1>3, <1>5, <1>6, Zenon DEF Transport

\* The rules of the request types, which each transport states for itself,
\* agree on every operation that the transports share.
LEMMA RulesAlike ==
    ASSUME NEW op \in Ops \ {"profile"}, NEW bad \in (FieldsOf[op] \ {"id"}) \union {"none"}
    PROVE  /\ bad \in Fields \union {"none"}
           /\ bad \in AmqpRoutes[op].rules <=> bad \in RestRoutes[op].rules
           /\ bad \in NatsRoutes[op].rules <=> bad \in RestRoutes[op].rules
           /\ bad \in GrpcRoutes[op].rules => bad \in RestRoutes[op].rules
<1> DEFINE Alike ==
      /\ bad \in Fields \union {"none"}
      /\ bad \in AmqpRoutes[op].rules <=> bad \in RestRoutes[op].rules
      /\ bad \in NatsRoutes[op].rules <=> bad \in RestRoutes[op].rules
      /\ bad \in GrpcRoutes[op].rules => bad \in RestRoutes[op].rules
<1>1. ASSUME op = "register" PROVE Alike
  <2>1. RestRoutes[op].rules = {"body", "username", "email", "password"}
    BY <1>1, RestTable DEF Handler, RestUserRules
  <2>2. GrpcRoutes[op].rules = {}
    BY <1>1, GrpcTable DEF Handler
  <2>3. AmqpRoutes[op].rules = {"body", "username", "email", "password"}
    BY <1>1, AmqpTable DEF Handler, RpcHandler, AmqpUserRules
  <2>4. NatsRoutes[op].rules = {"body", "username", "email", "password"}
    BY <1>1, NatsTable DEF Handler, RpcHandler, NatsUserRules
  <2>5. bad \in ({"username", "email", "password"} \ {"id"}) \union {"none"}
    BY <1>1 DEF FieldsOf
  <2> QED BY <2>1, <2>2, <2>3, <2>4, <2>5 DEF Fields
<1>2. ASSUME op = "login" PROVE Alike
  <2>1. RestRoutes[op].rules = {"body", "email", "password"}
    BY <1>2, RestTable DEF Handler, RestUserRules
  <2>2. GrpcRoutes[op].rules = {}
    BY <1>2, GrpcTable DEF Handler
  <2>3. AmqpRoutes[op].rules = {"body", "email", "password"}
    BY <1>2, AmqpTable DEF Handler, RpcHandler, AmqpUserRules
  <2>4. NatsRoutes[op].rules = {"body", "email", "password"}
    BY <1>2, NatsTable DEF Handler, RpcHandler, NatsUserRules
  <2>5. bad \in ({"email", "password"} \ {"id"}) \union {"none"}
    BY <1>2 DEF FieldsOf
  <2> QED BY <2>1, <2>2, <2>3, <2>4, <2>5 DEF Fields
<1>3. ASSUME op = "create" PROVE Alike
  <2>1. RestRoutes[op].rules = {"body", "title", "description"}
    BY <1>3, RestTable DEF Handler, RestTaskRules, TaskText
  <2>2. GrpcRoutes[op].rules = {}
    BY <1>3, GrpcTable DEF Handler
  <2>3. AmqpRoutes[op].rules = {"body", "title", "description"}
    BY <1>3, AmqpTable DEF Handler, RpcHandler, TaskOps, AmqpTaskRules, RpcTaskRules, TaskText
  <2>4. NatsRoutes[op].rules = {"body", "title", "description"}
    BY <1>3, NatsTable DEF Handler, RpcHandler, TaskOps, NatsTaskRules, RpcTaskRules, TaskText
  <2>5. bad \in ({"title", "description"} \ {"id"}) \union {"none"}
    BY <1>3 DEF FieldsOf
  <2> QED BY <2>1, <2>2, <2>3, <2>4, <2>5 DEF Fields
<1>4. ASSUME op = "list" PROVE Alike
  <2>1. RestRoutes[op].rules = {"status"}
    BY <1>4, RestTable DEF Handler
  <2>2. GrpcRoutes[op].rules = {"status"}
    BY <1>4, GrpcTable DEF Handler
  <2>3. AmqpRoutes[op].rules = {"body", "status"}
    BY <1>4, AmqpTable DEF Handler, RpcHandler, TaskOps, AmqpTaskRules, RpcTaskRules, TaskText
  <2>4. NatsRoutes[op].rules = {"body", "status"}
    BY <1>4, NatsTable DEF Handler, RpcHandler, TaskOps, NatsTaskRules, RpcTaskRules, TaskText
  <2>5. bad \in ({"status"} \ {"id"}) \union {"none"}
    BY <1>4 DEF FieldsOf
  <2> QED BY <2>1, <2>2, <2>3, <2>4, <2>5 DEF Fields
<1>5. ASSUME op = "get" PROVE Alike
  <2>1. RestRoutes[op].rules = {}
    BY <1>5, RestTable DEF Handler
  <2>2. GrpcRoutes[op].rules = {}
    BY <1>5, GrpcTable DEF Handler
  <2>3. AmqpRoutes[op].rules = {"body", "id"}
    BY <1>5, AmqpTable DEF Handler, RpcHandler, TaskOps, AmqpTaskRules, RpcTaskRules, TaskText
  <2>4. NatsRoutes[op].rules = {"body", "id"}
    BY <1>5, NatsTable DEF Handler, RpcHandler, TaskOps, NatsTaskRules, RpcTaskRules, TaskText
  <2>5. bad \in ({"id"} \ {"id"}) \union {"none"}
    BY <1>5 DEF FieldsOf
  <2> QED BY <2>1, <2>2, <2>3, <2>4, <2>5 DEF Fields
<1>6. ASSUME op = "update" PROVE Alike
  <2>1. RestRoutes[op].rules = {"body", "title", "description"}
    BY <1>6, RestTable DEF Handler, RestTaskRules, TaskText
  <2>2. GrpcRoutes[op].rules = {}
    BY <1>6, GrpcTable DEF Handler
  <2>3. AmqpRoutes[op].rules = {"body", "title", "description", "id"}
    BY <1>6, AmqpTable DEF Handler, RpcHandler, TaskOps, AmqpTaskRules, RpcTaskRules, TaskText
  <2>4. NatsRoutes[op].rules = {"body", "title", "description", "id"}
    BY <1>6, NatsTable DEF Handler, RpcHandler, TaskOps, NatsTaskRules, RpcTaskRules, TaskText
  <2>5. bad \in ({"id", "title", "description"} \ {"id"}) \union {"none"}
    BY <1>6 DEF FieldsOf
  <2> QED BY <2>1, <2>2, <2>3, <2>4, <2>5 DEF Fields
<1>7. ASSUME op = "transition" PROVE Alike
  <2>1. RestRoutes[op].rules = {"body", "status"}
    BY <1>7, RestTable DEF Handler, RestTaskRules
  <2>2. GrpcRoutes[op].rules = {}
    BY <1>7, GrpcTable DEF Handler
  <2>3. AmqpRoutes[op].rules = {"body", "id", "status"}
    BY <1>7, AmqpTable DEF Handler, RpcHandler, TaskOps, AmqpTaskRules, RpcTaskRules, TaskText
  <2>4. NatsRoutes[op].rules = {"body", "id", "status"}
    BY <1>7, NatsTable DEF Handler, RpcHandler, TaskOps, NatsTaskRules, RpcTaskRules, TaskText
  <2>5. bad \in ({"id", "status"} \ {"id"}) \union {"none"}
    BY <1>7 DEF FieldsOf
  <2> QED BY <2>1, <2>2, <2>3, <2>4, <2>5 DEF Fields
<1>8. ASSUME op = "delete" PROVE Alike
  <2>1. RestRoutes[op].rules = {}
    BY <1>8, RestTable DEF Handler
  <2>2. GrpcRoutes[op].rules = {}
    BY <1>8, GrpcTable DEF Handler
  <2>3. AmqpRoutes[op].rules = {"body", "id"}
    BY <1>8, AmqpTable DEF Handler, RpcHandler, TaskOps, AmqpTaskRules, RpcTaskRules, TaskText
  <2>4. NatsRoutes[op].rules = {"body", "id"}
    BY <1>8, NatsTable DEF Handler, RpcHandler, TaskOps, NatsTaskRules, RpcTaskRules, TaskText
  <2>5. bad \in ({"id"} \ {"id"}) \union {"none"}
    BY <1>8 DEF FieldsOf
  <2> QED BY <2>1, <2>2, <2>3, <2>4, <2>5 DEF Fields
<1>9. ASSUME op = "history" PROVE Alike
  <2>1. RestRoutes[op].rules = {}
    BY <1>9, RestTable DEF Handler
  <2>2. GrpcRoutes[op].rules = {}
    BY <1>9, GrpcTable DEF Handler
  <2>3. AmqpRoutes[op].rules = {}
    BY <1>9, AmqpTable DEF Handler, RpcHandler
  <2>4. NatsRoutes[op].rules = {}
    BY <1>9, NatsTable DEF Handler, RpcHandler
  <2>5. bad \in ({} \ {"id"}) \union {"none"}
    BY <1>9 DEF FieldsOf
  <2> QED BY <2>1, <2>2, <2>3, <2>4, <2>5 DEF Fields
<1>10. ASSUME op = "translate" PROVE Alike
  <2>1. RestRoutes[op].rules = {"body", "source", "destination", "original"}
    BY <1>10, RestTable DEF Handler, RestTranslateRules
  <2>2. GrpcRoutes[op].rules = {}
    BY <1>10, GrpcTable DEF Handler
  <2>3. AmqpRoutes[op].rules = {"body", "source", "destination", "original"}
    BY <1>10, AmqpTable DEF Handler, RpcHandler, AmqpTranslateRules
  <2>4. NatsRoutes[op].rules = {"body", "source", "destination", "original"}
    BY <1>10, NatsTable DEF Handler, RpcHandler, NatsTranslateRules
  <2>5. bad \in ({"source", "destination", "original"} \ {"id"}) \union {"none"}
    BY <1>10 DEF FieldsOf
  <2> QED BY <2>1, <2>2, <2>3, <2>4, <2>5 DEF Fields
<1> HIDE DEF Alike
<1>11. Alike
  BY <1>1, <1>2, <1>3, <1>4, <1>5, <1>6, <1>7, <1>8, <1>9, <1>10,
     Zenon DEF Ops
<1> QED BY <1>11 DEF Alike

\* Every transport asks for a user in the same operations.
LEMMA AuthAlike ==
    ASSUME NEW op \in Ops \ {"profile"}
    PROVE  /\ RestRoutes[op].auth <=> op \notin {"register", "login"}
           /\ GrpcRoutes[op].auth <=> op \notin {"register", "login"}
           /\ AmqpRoutes[op].auth <=> op \notin {"register", "login"}
           /\ NatsRoutes[op].auth <=> op \notin {"register", "login"}
<1>1. \A rules : RpcHandler(TRUE, rules).auth /\ ~RpcHandler(FALSE, rules).auth
  BY DEF Handler, RpcHandler
<1>2. ASSUME op = "register" \/ op = "login"
      PROVE  /\ ~RestRoutes[op].auth /\ ~GrpcRoutes[op].auth
             /\ ~AmqpRoutes[op].auth /\ ~NatsRoutes[op].auth
  <2>1. ~RestRoutes[op].auth
    BY <1>2, RestTable DEF Handler
  <2>2. ~GrpcRoutes[op].auth
    BY <1>2, GrpcTable DEF Handler
  <2>3. ~AmqpRoutes[op].auth
    BY <1>1, <1>2, AmqpTable, Zenon
  <2>4. ~NatsRoutes[op].auth
    BY <1>1, <1>2, NatsTable, Zenon
  <2> QED BY <2>1, <2>2, <2>3, <2>4
<1>3. ASSUME op # "register", op # "login"
      PROVE  /\ RestRoutes[op].auth /\ GrpcRoutes[op].auth
             /\ AmqpRoutes[op].auth /\ NatsRoutes[op].auth
  <2>1. op \in TaskOps \/ op = "history" \/ op = "translate"
    BY <1>3, Zenon DEF Ops, TaskOps
  <2>2. op \in TaskOps => \/ op = "create" \/ op = "list" \/ op = "get"
                          \/ op = "update" \/ op = "transition" \/ op = "delete"
    BY DEF TaskOps
  <2>3. RestRoutes[op].auth
    BY <2>1, <2>2, RestTable DEF Handler
  <2>4. GrpcRoutes[op].auth
    BY <2>1, <2>2, GrpcTable DEF Handler
  <2>5. AmqpRoutes[op].auth
    BY <1>1, <2>1, AmqpTable, Zenon
  <2>6. NatsRoutes[op].auth
    BY <1>1, <2>1, NatsTable, Zenon
  <2> QED BY <2>3, <2>4, <2>5, <2>6
<1> QED BY <1>2, <1>3, Zenon

-----------------------------------------------------------------------------
(* Answers. *)

\* The errors the use case of an operation can return.
ErrorsOf(op) ==
    {"none", "internal"} \union
    (IF op = "register" THEN {"exists"}
     ELSE IF op = "login" THEN {"credentials"}
     ELSE IF op \in {"profile", "delete"} THEN {"notfound"}
     ELSE IF op \in {"get", "update"} THEN {"notfound", "forbidden"}
     ELSE IF op = "transition" THEN {"notfound", "forbidden", "invalid"}
     ELSE {})

\* A handler tells its codes of success and of an internal error from the rest.
TellsApart(h, fail) ==
    /\ h.ok # fail /\ "internal" \notin DOMAIN h.codes
    /\ \A err \in DOMAIN h.codes : h.codes[err] # h.ok

\* REST answers by the kind of the outcome.
LEMMA RestAnswers ==
    ASSUME NEW op \in Ops
    PROVE  /\ TellsApart(RestRoutes[op], "500") /\ RestRoutes[op].ok \in {"200", "201", "204"}
           /\ \A err \in ErrorsOf(op) \ {"none", "internal"} :
                 err \in DOMAIN RestRoutes[op].codes /\ RestKind(RestRoutes[op].codes[err]) = err
<1> DEFINE h == RestRoutes[op]
           Told == \A err \in ErrorsOf(op) \ {"none", "internal"} :
                     err \in DOMAIN h.codes /\ RestKind(h.codes[err]) = err
<1>1. ASSUME op = "register" PROVE TellsApart(h, "500") /\ h.ok \in {"200", "201", "204"} /\ Told
  <2>1. h.ok = "201" /\ DOMAIN h.codes = {"exists"}
        /\ h.codes["exists"] = "409"
    BY <1>1, RestTable DEF Handler
  <2> HIDE DEF h
  <2>2. TellsApart(h, "500") /\ h.ok \in {"200", "201", "204"}
    BY <2>1 DEF TellsApart
  <2>3. Told
    BY <1>1, <2>1 DEF ErrorsOf, RestKind
  <2> QED BY <2>2, <2>3
<1>2. ASSUME op = "login" PROVE TellsApart(h, "500") /\ h.ok \in {"200", "201", "204"} /\ Told
  <2>1. h.ok = "200" /\ DOMAIN h.codes = {"credentials"}
        /\ h.codes["credentials"] = "401"
    BY <1>2, RestTable DEF Handler
  <2> HIDE DEF h
  <2>2. TellsApart(h, "500") /\ h.ok \in {"200", "201", "204"}
    BY <2>1 DEF TellsApart
  <2>3. Told
    BY <1>2, <2>1 DEF ErrorsOf, RestKind
  <2> QED BY <2>2, <2>3
<1>3. ASSUME op = "profile" PROVE TellsApart(h, "500") /\ h.ok \in {"200", "201", "204"} /\ Told
  <2>1. h.ok = "200" /\ DOMAIN h.codes = {"notfound"}
        /\ h.codes["notfound"] = "404"
    BY <1>3, RestTable DEF Handler
  <2> HIDE DEF h
  <2>2. TellsApart(h, "500") /\ h.ok \in {"200", "201", "204"}
    BY <2>1 DEF TellsApart
  <2>3. Told
    BY <1>3, <2>1 DEF ErrorsOf, RestKind
  <2> QED BY <2>2, <2>3
<1>4. ASSUME op \in {"history", "translate", "create", "list"}
      PROVE  TellsApart(h, "500") /\ h.ok \in {"200", "201", "204"} /\ Told
  <2>1. h.ok \in {"200", "201"} /\ DOMAIN h.codes = {}
    BY <1>4, RestTable DEF Handler
  <2> HIDE DEF h
  <2>2. TellsApart(h, "500") /\ h.ok \in {"200", "201", "204"}
    BY <2>1 DEF TellsApart
  <2>3. Told
    BY <1>4, <2>1 DEF ErrorsOf, RestKind
  <2> QED BY <2>2, <2>3
<1>5. ASSUME op \in {"get", "update"}
      PROVE  TellsApart(h, "500") /\ h.ok \in {"200", "201", "204"} /\ Told
  <2>1. h.ok = "200" /\ DOMAIN h.codes = {"notfound", "forbidden"}
        /\ h.codes["notfound"] = "404" /\ h.codes["forbidden"] = "403"
    BY <1>5, RestTable DEF Handler, RestOwned
  <2> HIDE DEF h
  <2>2. TellsApart(h, "500") /\ h.ok \in {"200", "201", "204"}
    BY <2>1 DEF TellsApart
  <2>3. Told
    BY <1>5, <2>1 DEF ErrorsOf, RestKind
  <2> QED BY <2>2, <2>3
<1>6. ASSUME op = "transition" PROVE TellsApart(h, "500") /\ h.ok \in {"200", "201", "204"} /\ Told
  <2>1. h.ok = "200" /\ DOMAIN h.codes = {"notfound", "forbidden", "invalid"}
        /\ h.codes["notfound"] = "404" /\ h.codes["forbidden"] = "403" /\ h.codes["invalid"] = "400"
    BY <1>6, RestTable DEF Handler
  <2> HIDE DEF h
  <2>2. TellsApart(h, "500") /\ h.ok \in {"200", "201", "204"}
    BY <2>1 DEF TellsApart
  <2>3. Told
    BY <1>6, <2>1 DEF ErrorsOf, RestKind
  <2> QED BY <2>2, <2>3
<1>7. ASSUME op = "delete" PROVE TellsApart(h, "500") /\ h.ok \in {"200", "201", "204"} /\ Told
  <2>1. h.ok = "204" /\ DOMAIN h.codes = {"notfound"}
        /\ h.codes["notfound"] = "404"
    BY <1>7, RestTable DEF Handler
  <2> HIDE DEF h
  <2>2. TellsApart(h, "500") /\ h.ok \in {"200", "201", "204"}
    BY <2>1 DEF TellsApart
  <2>3. Told
    BY <1>7, <2>1 DEF ErrorsOf, RestKind
  <2> QED BY <2>2, <2>3
<1> HIDE DEF Told
<1>8. TellsApart(h, "500") /\ h.ok \in {"200", "201", "204"} /\ Told
  BY <1>1, <1>2, <1>3, <1>4, <1>5, <1>6, <1>7, Zenon DEF Ops
<1> QED BY <1>8 DEF Told

\* gRPC answers by the kind of the outcome.
LEMMA GrpcAnswers ==
    ASSUME NEW op \in Ops
    PROVE  /\ TellsApart(GrpcRoutes[op], "Internal") /\ GrpcRoutes[op].ok = "OK"
           /\ \A err \in ErrorsOf(op) \ {"none", "internal"} :
                 err \in DOMAIN GrpcRoutes[op].codes /\ GrpcKind(GrpcRoutes[op].codes[err]) = err
<1> DEFINE h == GrpcRoutes[op]
           Told == \A err \in ErrorsOf(op) \ {"none", "internal"} :
                     err \in DOMAIN h.codes /\ GrpcKind(h.codes[err]) = err
<1>1. ASSUME op = "register" PROVE TellsApart(h, "Internal") /\ h.ok = "OK" /\ Told
  <2>1. h.ok = "OK" /\ DOMAIN h.codes = {"exists"}
        /\ h.codes["exists"] = "AlreadyExists"
    BY <1>1, GrpcTable DEF Handler
  <2> HIDE DEF h
  <2>2. TellsApart(h, "Internal") /\ h.ok = "OK"
    BY <2>1 DEF TellsApart
  <2>3. Told
    BY <1>1, <2>1 DEF ErrorsOf, GrpcKind
  <2> QED BY <2>2, <2>3
<1>2. ASSUME op = "login" PROVE TellsApart(h, "Internal") /\ h.ok = "OK" /\ Told
  <2>1. h.ok = "OK" /\ DOMAIN h.codes = {"credentials"}
        /\ h.codes["credentials"] = "Unauthenticated"
    BY <1>2, GrpcTable DEF Handler
  <2> HIDE DEF h
  <2>2. TellsApart(h, "Internal") /\ h.ok = "OK"
    BY <2>1 DEF TellsApart
  <2>3. Told
    BY <1>2, <2>1 DEF ErrorsOf, GrpcKind
  <2> QED BY <2>2, <2>3
<1>3. ASSUME op = "profile" PROVE TellsApart(h, "Internal") /\ h.ok = "OK" /\ Told
  <2>1. h.ok = "OK" /\ DOMAIN h.codes = {"notfound"}
        /\ h.codes["notfound"] = "NotFound"
    BY <1>3, GrpcTable DEF Handler
  <2> HIDE DEF h
  <2>2. TellsApart(h, "Internal") /\ h.ok = "OK"
    BY <2>1 DEF TellsApart
  <2>3. Told
    BY <1>3, <2>1 DEF ErrorsOf, GrpcKind
  <2> QED BY <2>2, <2>3
<1>4. ASSUME op \in {"history", "translate", "create", "list"}
      PROVE  TellsApart(h, "Internal") /\ h.ok = "OK" /\ Told
  <2>1. h.ok = "OK" /\ DOMAIN h.codes = {}
    BY <1>4, GrpcTable DEF Handler
  <2> HIDE DEF h
  <2>2. TellsApart(h, "Internal") /\ h.ok = "OK"
    BY <2>1 DEF TellsApart
  <2>3. Told
    BY <1>4, <2>1 DEF ErrorsOf, GrpcKind
  <2> QED BY <2>2, <2>3
<1>5. ASSUME op \in {"get", "update"}
      PROVE  TellsApart(h, "Internal") /\ h.ok = "OK" /\ Told
  <2>1. h.ok = "OK" /\ DOMAIN h.codes = {"notfound", "forbidden"}
        /\ h.codes["notfound"] = "NotFound" /\ h.codes["forbidden"] = "PermissionDenied"
    BY <1>5, GrpcTable DEF Handler, GrpcOwned
  <2> HIDE DEF h
  <2>2. TellsApart(h, "Internal") /\ h.ok = "OK"
    BY <2>1 DEF TellsApart
  <2>3. Told
    BY <1>5, <2>1 DEF ErrorsOf, GrpcKind
  <2> QED BY <2>2, <2>3
<1>6. ASSUME op = "transition" PROVE TellsApart(h, "Internal") /\ h.ok = "OK" /\ Told
  <2>1. h.ok = "OK" /\ DOMAIN h.codes = {"notfound", "forbidden", "invalid"}
        /\ h.codes["notfound"] = "NotFound" /\ h.codes["forbidden"] = "PermissionDenied"
        /\ h.codes["invalid"] = "InvalidArgument"
    BY <1>6, GrpcTable DEF Handler, GrpcTransition
  <2> HIDE DEF h
  <2>2. TellsApart(h, "Internal") /\ h.ok = "OK"
    BY <2>1 DEF TellsApart
  <2>3. Told
    BY <1>6, <2>1 DEF ErrorsOf, GrpcKind
  <2> QED BY <2>2, <2>3
<1>7. ASSUME op = "delete" PROVE TellsApart(h, "Internal") /\ h.ok = "OK" /\ Told
  <2>1. h.ok = "OK" /\ DOMAIN h.codes = {"notfound"}
        /\ h.codes["notfound"] = "NotFound"
    BY <1>7, GrpcTable DEF Handler
  <2> HIDE DEF h
  <2>2. TellsApart(h, "Internal") /\ h.ok = "OK"
    BY <2>1 DEF TellsApart
  <2>3. Told
    BY <1>7, <2>1 DEF ErrorsOf, GrpcKind
  <2> QED BY <2>2, <2>3
<1> HIDE DEF Told
<1>8. TellsApart(h, "Internal") /\ h.ok = "OK" /\ Told
  BY <1>1, <1>2, <1>3, <1>4, <1>5, <1>6, <1>7, Zenon DEF Ops
<1> QED BY <1>8 DEF Told

\* The message transports tell only success and failure.
LEMMA RpcAnswers == \A auth, rules : TellsApart(RpcHandler(auth, rules), "internal")
BY DEF RpcHandler, Handler, TellsApart

\* AMQP tells only success and failure.
LEMMA AmqpAnswers ==
    ASSUME NEW op \in DOMAIN AmqpRoutes
    PROVE  TellsApart(AmqpRoutes[op], "internal")
<1>1. \/ op \in TaskOps
      \/ op = "register" \/ op = "login" \/ op = "history" \/ op = "translate"
  BY AmqpTable, Zenon DEF Ops, TaskOps
<1>2. \E auth, rules : AmqpRoutes[op] = RpcHandler(auth, rules)
  BY <1>1, AmqpTable, Zenon
<1> QED BY <1>2, RpcAnswers, Zenon

\* NATS tells only success and failure.
LEMMA NatsAnswers ==
    ASSUME NEW op \in DOMAIN NatsRoutes
    PROVE  TellsApart(NatsRoutes[op], "internal")
<1>1. \/ op \in TaskOps
      \/ op = "register" \/ op = "login" \/ op = "history" \/ op = "translate"
  BY NatsTable, Zenon DEF Ops, TaskOps
<1>2. \E auth, rules : NatsRoutes[op] = RpcHandler(auth, rules)
  BY <1>1, NatsTable, Zenon
<1> QED BY <1>2, RpcAnswers, Zenon

\* The answer to an outcome: the code of success says that there was no error,
\* an internal error has the code of its own, and on REST and gRPC every error
\* of the use case is told by its kind.
LEMMA AnswersTell ==
    ASSUME NEW via \in Transport, NEW op \in Ops, op \in DOMAIN Routes[via],
           NEW err \in ErrorsOf(op)
    PROVE  /\ Answer(via, op, err) = Routes[via][op].ok <=> err = "none"
           /\ err = "internal" => Answer(via, op, err) = FailCode[via]
           /\ via = "rest" => RestKind(Answer(via, op, err)) = err
           /\ via = "grpc" => GrpcKind(Answer(via, op, err)) = err
<1> DEFINE h == Routes[via][op]
<1>1. /\ Routes["rest"] = RestRoutes /\ Routes["grpc"] = GrpcRoutes
      /\ Routes["amqp"] = AmqpRoutes /\ Routes["nats"] = NatsRoutes
      /\ FailCode["rest"] = "500" /\ FailCode["grpc"] = "Internal"
      /\ FailCode["amqp"] = "internal" /\ FailCode["nats"] = "internal"
  BY DEF Routes, FailCode
<1>2. TellsApart(h, FailCode[via])
  BY <1>1, RestAnswers, GrpcAnswers, AmqpAnswers, NatsAnswers, Zenon DEF Transport
<1>3. Answer(via, op, err) = IF err = "none" THEN h.ok
                             ELSE IF err \in DOMAIN h.codes THEN h.codes[err]
                             ELSE FailCode[via]
  BY Zenon DEF Answer
<1>4. /\ Answer(via, op, err) = h.ok <=> err = "none"
      /\ err = "internal" => Answer(via, op, err) = FailCode[via]
  <2> HIDE DEF h
  <2> QED BY <1>2, <1>3 DEF TellsApart
<1>5. ASSUME via = "rest" PROVE RestKind(Answer(via, op, err)) = err
  <2>1. h = RestRoutes[op] /\ FailCode[via] = "500"
    BY <1>1, <1>5, Zenon
  <2> HIDE DEF h
  <2>2. /\ h.ok \in {"200", "201", "204"}
        /\ err \notin {"none", "internal"} => /\ err \in DOMAIN h.codes
                                            /\ RestKind(h.codes[err]) = err
    BY <2>1, RestAnswers, Zenon
  <2>3. RestKind("500") = "internal" /\ \A ok \in {"200", "201", "204"} : RestKind(ok) = "none"
    BY DEF RestKind
  <2>4. CASE err = "none"
    BY <1>3, <2>2, <2>3, <2>4, Zenon
  <2>5. CASE err = "internal"
    BY <1>4, <2>1, <2>3, <2>5, Zenon
  <2>6. CASE err \notin {"none", "internal"}
    BY <1>3, <2>2, <2>6, Zenon
  <2> QED BY <2>4, <2>5, <2>6, Zenon
<1>6. ASSUME via = "grpc" PROVE GrpcKind(Answer(via, op, err)) = err
  <2>1. h = GrpcRoutes[op] /\ FailCode[via] = "Internal"
    BY <1>1, <1>6, Zenon
  <2> HIDE DEF h
  <2>2. /\ h.ok = "OK"
        /\ err \notin {"none", "internal"} => /\ err \in DOMAIN h.codes
                                            /\ GrpcKind(h.codes[err]) = err
    BY <2>1, GrpcAnswers, Zenon
  <2>3. GrpcKind("Internal") = "internal" /\ GrpcKind("OK") = "none"
    BY DEF GrpcKind
  <2>4. CASE err = "none"
    BY <1>3, <2>2, <2>3, <2>4, Zenon
  <2>5. CASE err = "internal"
    BY <1>4, <2>1, <2>3, <2>5, Zenon
  <2>6. CASE err \notin {"none", "internal"}
    BY <1>3, <2>2, <2>6, Zenon
  <2> QED BY <2>4, <2>5, <2>6, Zenon
<1> QED BY <1>4, <1>5, <1>6

-----------------------------------------------------------------------------
(* The inductive invariant. *)

UserRow == [id : UserIds, username : {f.username : f \in Forms},
            email : Emails, hash : [bcrypt : Passwords]]
Token == [sub : UserIds, exp : 0..(MaxNow + Duration),
          by : [email : Emails, password : Passwords]]

\* The row a token was issued for.
IssuedFor(t, u) == u.id = t.sub /\ u.email = t.by.email /\ u.hash.bcrypt = t.by.password

\* An email names one account, and a token the account of the email and the
\* password that were presented for it.
TablesInv ==
    /\ users \subseteq UserRow
    /\ \A u, v \in users : u.email = v.email => u = v
    /\ tokens \subseteq Token
    /\ \A t \in tokens : \E u \in users : IssuedFor(t, u)
    /\ history \in Seq(UserIds) /\ Len(history) <= MaxRows
    /\ now \in 0..MaxNow

\* The accounts that match a login, and the translations of a user.
Matching(us, arg) == {u.id : u \in {v \in us : v.email = arg.email /\ v.hash.bcrypt = arg.password}}
RowsOf(hs, user) == {i \in DOMAIN hs : hs[i] = user}

\* A request in its use case, over tables us and hs.  What was stored when it
\* came is stored still, and a login that compares passwords has read the row
\* of its email.
Place(c, us, hs) ==
    \/ c.pc = "register" /\ c.op = "register" /\ c.arg \in Forms
    \/ /\ c.pc = "login" /\ c.op = "login" /\ c.arg \in [email : Emails, password : Passwords]
       /\ c.before \subseteq Matching(us, c.arg)
    \/ /\ c.pc = "compare" /\ c.op = "login" /\ c.arg.password \in Passwords
       /\ c.arg.user \in us /\ c.arg.user.email = c.arg.email
       /\ c.before \subseteq Matching(us, c.arg)
    \/ c.pc = "profile" /\ c.op = "profile"
    \/ c.pc \in {"translate", "store"} /\ c.op = "translate"
    \/ c.pc = "history" /\ c.op = "history" /\ c.before \subseteq RowsOf(hs, c.user)
Call(pc, c, arg) == [pc |-> pc, via |-> c.via, op |-> c.op, user |-> c.user, arg |-> arg,
                     before |-> c.before]
IsCall(c) == c = Call(c.pc, c, c.arg)
CallInv(c, us, hs) ==
    /\ IsCall(c)
    /\ c.via \in Transport /\ c.op \in Ops /\ c.op \in DOMAIN Routes[c.via]
    /\ c.user \in UserIds \union {NoUser}
    /\ c.op \notin {"register", "login"} => c.user \in UserIds
    /\ Place(c, us, hs)
SlotsInv ==
    /\ slots = [s \in Slots |-> slots[s]]
    /\ \A s \in Slots : slots[s] = Idle \/ CallInv(slots[s], users, history)

\* What an answer after a use case says of it.
ReadOps == {"profile", "list", "get", "history"}
AnswerInv(a) ==
    a.op \in Ops =>
        /\ a.via \in Transport /\ a.op \in DOMAIN Routes[a.via] /\ a.err \in ErrorsOf(a.op)
        /\ a.code = Answer(a.via, a.op, a.err)
        /\ a.err = "none" /\ a.op \notin ReadOps => a.wrote
        /\ a.err \notin {"none", "internal"} => ~a.wrote
        /\ a.op = "login" /\ a.err = "credentials" /\ ~a.outage => a.before = {}
        /\ a.op = "history" /\ a.err = "none" => a.before \subseteq a.seen

IndInv == TablesInv /\ SlotsInv /\ AnswerInv(last) /\ BodyLimitExact

-----------------------------------------------------------------------------
(* How the requests in progress and the answers change. *)

\* Rows are only added.
Extended(hs, more) == DOMAIN hs \subseteq DOMAIN more /\ \A i \in DOMAIN hs : more[i] = hs[i]

\* A request in progress is where it was when rows are added.
LEMMA CallKept ==
    ASSUME NEW c, NEW us, NEW hs, NEW us2, NEW hs2,
           us \subseteq us2, Extended(hs, hs2), CallInv(c, us, hs)
    PROVE  CallInv(c, us2, hs2)
<1>1. Matching(us, c.arg) \subseteq Matching(us2, c.arg)
  BY Zenon DEF Matching
<1>2. RowsOf(hs, c.user) \subseteq RowsOf(hs2, c.user)
  BY Zenon DEF RowsOf, Extended
<1>3. Place(c, us, hs)
  BY Zenon DEF CallInv
<1>4. Place(c, us2, hs2)
  BY <1>1, <1>2, <1>3, Zenon DEF Place
<1> QED BY <1>4, Zenon DEF CallInv

\* One slot changes while rows are only added.
LEMMA SlotChanged ==
    ASSUME SlotsInv, NEW s \in Slots, NEW c, slots' = [slots EXCEPT ![s] = c],
           users \subseteq users', Extended(history, history'),
           c = Idle \/ CallInv(c, users', history')
    PROVE  SlotsInv'
<1>1. slots' = [t \in Slots |-> slots'[t]]
  BY DEF SlotsInv
<1>2. ASSUME NEW t \in Slots PROVE slots'[t] = Idle \/ CallInv(slots'[t], users', history')
  <2>1. CASE t = s
    <3>1. slots'[t] = c
      BY <2>1 DEF SlotsInv
    <3> QED BY <3>1, Zenon
  <2>2. CASE t # s
    <3>1. slots'[t] = slots[t]
      BY <2>2 DEF SlotsInv
    <3>2. slots[t] = Idle \/ CallInv(slots[t], users, history)
      BY Zenon DEF SlotsInv
    <3> QED BY <3>1, <3>2, CallKept, Zenon
  <2> QED BY <2>1, <2>2
<1> QED BY <1>1, <1>2, Zenon DEF SlotsInv

\* The slots stay as they are while rows are only added.
LEMMA SlotsKept ==
    ASSUME SlotsInv, slots' = slots, users \subseteq users', Extended(history, history')
    PROVE  SlotsInv'
<1>1. \A s \in Slots : slots'[s] = Idle \/ CallInv(slots'[s], users', history')
  BY CallKept, Zenon DEF SlotsInv
<1> QED BY <1>1, Zenon DEF SlotsInv

\* A reply, field by field.
LEMMA ReplyFields ==
    ASSUME NEW c, NEW err, NEW wrote, NEW outage, NEW seen, NEW a,
           a = Reply(c, err, wrote, outage, seen)
    PROVE  /\ a.via = c.via /\ a.op = c.op /\ a.user = c.user /\ a.err = err
           /\ a.code = Answer(c.via, c.op, err) /\ a.wrote = wrote /\ a.outage = outage
           /\ a.before = c.before /\ a.seen = seen
BY DEF Reply

\* What a use case must have done for the answer to be in order.
InOrder(c, err, wrote, outage, seen) ==
    /\ err \in ErrorsOf(c.op)
    /\ err = "none" /\ c.op \notin ReadOps => wrote
    /\ err \notin {"none", "internal"} => ~wrote
    /\ c.op = "login" /\ err = "credentials" /\ ~outage => c.before = {}
    /\ c.op = "history" /\ err = "none" => c.before \subseteq seen

\* The reply after a use case.
LEMMA ReplyInv ==
    ASSUME NEW c, NEW err, NEW wrote, NEW outage, NEW seen, c.via \in Transport, c.op \in Ops,
           c.op \in DOMAIN Routes[c.via], InOrder(c, err, wrote, outage, seen),
           last' = Reply(c, err, wrote, outage, seen)
    PROVE  AnswerInv(last') /\ BodyLimitExact'
<1>1. /\ last'.via = c.via /\ last'.op = c.op /\ last'.user = c.user /\ last'.err = err
      /\ last'.code = Answer(c.via, c.op, err) /\ last'.wrote = wrote /\ last'.outage = outage
      /\ last'.before = c.before /\ last'.seen = seen
  BY ReplyFields
<1>2. AnswerInv(last')
  BY <1>1, Zenon DEF AnswerInv, InOrder
<1>3. "body" \notin Ops
  BY DEF Ops
<1> QED BY <1>1, <1>2, <1>3, Zenon DEF BodyLimitExact

\* A step without an answer.
LEMMA NoAnswerInv ==
    ASSUME last' = NoAnswer
    PROVE  AnswerInv(last') /\ BodyLimitExact'
<1>1. NoAnswer.op \notin Ops /\ NoAnswer.op # "body"
  BY DEF Ops, NoAnswer
<1> QED BY <1>1, Zenon DEF AnswerInv, BodyLimitExact

\* A request in progress, and where it can be.
LEMMA InProgress ==
    ASSUME SlotsInv, NEW s \in Slots, slots[s].pc # "idle"
    PROVE  /\ slots[s] # Idle /\ CallInv(slots[s], users, history)
           /\ Place(slots[s], users, history)
<1>1. Idle.pc = "idle"
  BY DEF Idle
<1> QED BY <1>1, Zenon DEF SlotsInv, CallInv

\* A use case ends.
LEMMA FinishInv ==
    ASSUME IndInv, NEW s \in Slots, slots[s].pc # "idle",
           NEW err, NEW wrote, NEW outage, NEW seen,
           Finish(s, err, wrote, outage, seen), InOrder(slots[s], err, wrote, outage, seen),
           users \subseteq users', Extended(history, history'), TablesInv'
    PROVE  IndInv'
<1>1. CallInv(slots[s], users, history)
  BY InProgress, Zenon DEF IndInv
<1>2. SlotsInv'
  BY SlotChanged, Zenon DEF IndInv, Finish
<1>3. /\ slots[s].via \in Transport
      /\ slots[s].op \in Ops /\ slots[s].op \in DOMAIN Routes[slots[s].via]
  BY <1>1, Zenon DEF CallInv
<1>4. AnswerInv(last') /\ BodyLimitExact'
  BY <1>3, ReplyInv, Zenon DEF Finish
<1> QED BY <1>2, <1>4, Zenon DEF IndInv

\* The changes that give a request a new place and argument.
LEMMA CallMoved ==
    ASSUME NEW pc, NEW arg, NEW c, IsCall(c)
    PROVE  [[c EXCEPT !.pc = pc] EXCEPT !.arg = arg] = Call(pc, c, arg)
<1>1. [c EXCEPT !.pc = pc] = Call(pc, c, c.arg)
  BY DEF Call, IsCall
<1>2. \A d, a : [Call(pc, d, a) EXCEPT !.arg = arg] = Call(pc, d, arg)
  BY DEF Call
<1> QED BY <1>1, <1>2, Zenon

\* A use case goes on.
LEMMA GotoInv ==
    ASSUME IndInv, NEW s \in Slots, slots[s].pc # "idle", NEW pc, NEW arg, Goto(s, pc, arg),
           UNCHANGED <<users, tokens, history, now>>,
           Place(Call(pc, slots[s], arg), users, history)
    PROVE  IndInv'
<1> DEFINE c == Call(pc, slots[s], arg)
<1>1. CallInv(slots[s], users, history)
  BY InProgress, Zenon DEF IndInv
<1>2. IsCall(slots[s])
  BY <1>1, Zenon DEF CallInv
<1>3. /\ [[slots[s] EXCEPT !.pc = pc] EXCEPT !.arg = arg] = c
      /\ c.pc = pc /\ c.arg = arg /\ c.via = slots[s].via /\ c.op = slots[s].op
      /\ c.user = slots[s].user /\ c.before = slots[s].before
  <2>1. [[slots[s] EXCEPT !.pc = pc] EXCEPT !.arg = arg] = c
    BY <1>2, CallMoved, Zenon
  <2>2. /\ c.pc = pc /\ c.arg = arg /\ c.via = slots[s].via /\ c.op = slots[s].op
        /\ c.user = slots[s].user /\ c.before = slots[s].before
    BY DEF Call
  <2> QED BY <2>1, <2>2, Zenon
<1>4. IsCall(c)
  BY <1>3 DEF Call, IsCall
<1> HIDE DEF c
<1>5. CallInv(c, users, history)
  <2>1. Place(c, users, history)
    BY DEF c
  <2> QED BY <1>1, <1>3, <1>4, <2>1, Zenon DEF CallInv
<1>6. slots' = [slots EXCEPT ![s] = c]
  <2>1. slots = [t \in Slots |-> slots[t]]
    BY Zenon DEF IndInv, SlotsInv
  <2>2. slots' = [slots EXCEPT ![s] = [[slots[s] EXCEPT !.pc = pc] EXCEPT !.arg = arg]]
    BY <2>1, Zenon DEF Goto
  <2> QED BY <1>3, <2>2, Zenon
<1>7. users' = users /\ tokens' = tokens /\ history' = history /\ now' = now
  OBVIOUS
<1>8. Extended(history, history')
  BY <1>7, Zenon DEF Extended
<1>9. SlotsInv'
  BY <1>5, <1>6, <1>7, <1>8, SlotChanged, Zenon DEF IndInv
<1>10. TablesInv'
  BY <1>7, Zenon DEF IndInv, TablesInv
<1>11. AnswerInv(last') /\ BodyLimitExact'
  BY NoAnswerInv, Zenon DEF Goto
<1> QED BY <1>9, <1>10, <1>11, Zenon DEF IndInv

-----------------------------------------------------------------------------
(* Every step keeps the invariant. *)

\* Nothing is written.
LEMMA TablesKept ==
    ASSUME IndInv, UNCHANGED <<users, tokens, history, now>>
    PROVE  TablesInv' /\ users \subseteq users' /\ Extended(history, history')
<1>1. users' = users /\ tokens' = tokens /\ history' = history /\ now' = now
  OBVIOUS
<1> QED BY <1>1, Zenon DEF IndInv, TablesInv, Extended

\* An internal error may be answered at any time.
LEMMA FailsInv ==
    ASSUME IndInv, NEW s \in Slots, slots[s].pc # "idle", NEW wrote, Fails(s, wrote),
           users \subseteq users', Extended(history, history'), TablesInv'
    PROVE  IndInv'
<1>1. InOrder(slots[s], "internal", wrote, TRUE, {})
  BY DEF InOrder, ErrorsOf
<1> QED BY <1>1, FinishInv, Zenon DEF Fails

\* A request arrives with the token of an account (ParseToken).
LEMMA UserKnown ==
    ASSUME TablesInv, NEW via \in Transport, NEW op, NEW cred \in Credentials(op),
           UserOf(via, cred) # NoUser
    PROVE  UserOf(via, cred) \in UserIds /\ HoldsToken(UserOf(via, cred))
<1> DEFINE user == UserOf(via, cred)
<1>1. PICK form \in {"bare", "bearer"} : user = TokenIn(cred, form)
  BY DEF UserOf, Transport, RestAuth, AuthInterceptor, AmqpExtractUserID, NatsExtractUserID
<1>2. cred.form = form /\ user = ParseToken(cred.token)
  BY <1>1, Zenon DEF TokenIn
<1>3. cred.token \in tokens \union {Forged}
  BY <1>2 DEF Credentials
<1>4. cred.token # Forged /\ now < cred.token.exp /\ user = cred.token.sub
  BY <1>2, Zenon DEF ParseToken
<1>5. cred.token \in tokens
  BY <1>3, <1>4, Zenon
<1>6. PICK u \in users : IssuedFor(cred.token, u)
  BY <1>5, Zenon DEF TablesInv
<1>7. user \in UserIds
  <2>1. cred.token \in Token
    BY <1>5, Zenon DEF TablesInv
  <2> QED BY <1>4, <2>1 DEF Token
<1>8. HoldsToken(user)
  BY <1>4, <1>5, <1>6, Zenon DEF HoldsToken, IssuedFor, CompareHashAndPassword
<1> QED BY <1>7, <1>8

\* A request arrives.
LEMMA ReceiveInv ==
    ASSUME IndInv, NEW s \in Slots, Receive(s)
    PROVE  IndInv'
<1>1. PICK via \in Transport, op \in Ops \ TaskOps :
        \E user \in {UserOf(via, cred) : cred \in Credentials(op)}, arg \in Args(op) :
          /\ Reaches[via][op][user # NoUser]
          /\ slots' = [slots EXCEPT ![s] =
                          [pc |-> op, via |-> via, op |-> op, user |-> user,
                           arg |-> arg, before |-> Stored(op, user, arg)]]
  BY Zenon DEF Receive
<1>2. PICK cred \in Credentials(op), arg \in Args(op) :
          /\ Reaches[via][op][UserOf(via, cred) # NoUser]
          /\ slots' = [slots EXCEPT ![s] =
                          [pc |-> op, via |-> via, op |-> op, user |-> UserOf(via, cred),
                           arg |-> arg, before |-> Stored(op, UserOf(via, cred), arg)]]
  BY <1>1, Zenon
<1> DEFINE user == UserOf(via, cred)
           c == [pc |-> op, via |-> via, op |-> op, user |-> user,
                 arg |-> arg, before |-> Stored(op, user, arg)]
<1>3. op \notin {"register", "login"} => user # NoUser
  BY <1>2, ReachesRoutes, Zenon
<1>4. op \in DOMAIN Routes[via]
  BY <1>2, ReachesRoutes, Zenon
<1>5. user \in UserIds \union {NoUser} /\ (op \notin {"register", "login"} => user \in UserIds)
  BY <1>3, UserKnown, Zenon DEF IndInv
<1> HIDE DEF user
<1>6. /\ c.pc = op /\ c.via = via /\ c.op = op /\ c.user = user /\ c.arg = arg
      /\ c.before = Stored(op, user, arg) /\ IsCall(c)
  BY DEF Call, IsCall
<1>7. slots' = [slots EXCEPT ![s] = c]
  BY <1>2, Zenon DEF user
<1> HIDE DEF c
<1>8. Place(c, users, history)
  <2>1. \/ op = "register" \/ op = "login" \/ op = "profile" \/ op = "history"
        \/ op = "translate"
    BY Zenon DEF Ops, TaskOps
  <2>2. CASE op = "register"
    <3>1. arg \in Forms
      BY <2>2 DEF Args
    <3> QED BY <1>6, <2>2, <3>1, Zenon DEF Place
  <2>3. CASE op = "login"
    <3>1. arg \in [email : Emails, password : Passwords]
      BY <2>3 DEF Args
    <3>2. Stored(op, user, arg) = Matching(users, arg)
      BY <2>3 DEF Stored, Matching
    <3> QED BY <1>6, <2>3, <3>1, <3>2, Zenon DEF Place
  <2>4. CASE op = "profile"
    BY <1>6, <2>4, Zenon DEF Place
  <2>5. CASE op = "history"
    <3>1. Stored(op, user, arg) = RowsOf(history, user)
      BY <2>5 DEF Stored, RowsOf
    <3> QED BY <1>6, <2>5, <3>1, Zenon DEF Place
  <2>6. CASE op = "translate"
    BY <1>6, <2>6, Zenon DEF Place
  <2> QED BY <2>1, <2>2, <2>3, <2>4, <2>5, <2>6, Zenon
<1>9. CallInv(c, users, history)
  BY <1>4, <1>5, <1>6, <1>8, Zenon DEF CallInv
<1>10. UNCHANGED <<users, tokens, history, now>> /\ last' = NoAnswer
  BY Zenon DEF Receive
<1>11. TablesInv' /\ users \subseteq users' /\ Extended(history, history')
  BY <1>10, TablesKept, Zenon
<1>12. users' = users /\ history' = history
  BY <1>10
<1>13. SlotsInv'
  BY <1>7, <1>9, <1>11, <1>12, SlotChanged, Zenon DEF IndInv
<1> QED BY <1>10, <1>11, <1>13, NoAnswerInv, Zenon DEF IndInv

\* A registration ends: an account with a new email and username is stored, or
\* nothing is (Register).
LEMMA RegisterInv ==
    ASSUME IndInv, NEW s \in Slots, Register(s)
    PROVE  IndInv'
<1> DEFINE row(id) == [id |-> id, username |-> slots[s].arg.username,
                       email |-> slots[s].arg.email,
                       hash |-> GenerateFromPassword(slots[s].arg.password)]
<1>1. slots[s].pc = "register" /\ slots[s].pc # "idle"
  BY DEF Register
<1>2. slots[s].op = "register" /\ slots[s].arg \in Forms
  <2>1. Place(slots[s], users, history)
    BY <1>1, InProgress, Zenon DEF IndInv
  <2> QED BY <1>1, <2>1 DEF Place
<1>3. tokens' = tokens /\ history' = history /\ now' = now
  BY Zenon DEF Register
<1>4. Extended(history, history')
  BY <1>3, Zenon DEF Extended
<1>5. ASSUME users' = users PROVE TablesInv' /\ users \subseteq users'
  BY <1>3, <1>5, Zenon DEF IndInv, TablesInv
<1>6. CASE Fails(s, FALSE) /\ users' = users
  BY <1>1, <1>4, <1>5, <1>6, FailsInv, Zenon
<1>7. ASSUME NEW id \in UserIds, Conflicts(row(id)), Finish(s, "exists", FALSE, FALSE, {}),
             users' = users
      PROVE  IndInv'
  <2>1. InOrder(slots[s], "exists", FALSE, FALSE, {})
    BY <1>2 DEF InOrder, ErrorsOf
  <2> QED BY <1>1, <1>4, <1>5, <1>7, <2>1, FinishInv, Zenon
<1>8. ASSUME NEW id \in UserIds, ~Conflicts(row(id)), users' = users \union {row(id)},
             Finish(s, "none", TRUE, FALSE, {}) \/ Fails(s, TRUE)
      PROVE  IndInv'
  <2> DEFINE user == row(id)
  <2>1. user \in UserRow
    BY <1>2 DEF UserRow, Emails, Passwords, GenerateFromPassword
  <2>2. \A u \in users : u.email # user.email
    BY <1>8, Zenon DEF Conflicts
  <2> HIDE DEF user
  <2>3. users' = users \union {user}
    BY <1>8 DEF user
  <2>4. users' \subseteq UserRow /\ \A u, v \in users' : u.email = v.email => u = v
    BY <2>1, <2>2, <2>3, Zenon DEF IndInv, TablesInv
  <2>5. \A t \in tokens : \E u \in users' : IssuedFor(t, u)
    BY <2>3, Zenon DEF IndInv, TablesInv
  <2>6. TablesInv' /\ users \subseteq users'
    BY <1>3, <2>3, <2>4, <2>5, Zenon DEF IndInv, TablesInv
  <2>7. InOrder(slots[s], "none", TRUE, FALSE, {})
    BY <1>2 DEF InOrder, ErrorsOf
  <2>8. CASE Finish(s, "none", TRUE, FALSE, {})
    BY <1>1, <1>4, <2>6, <2>7, <2>8, FinishInv, Zenon
  <2>9. CASE Fails(s, TRUE)
    BY <1>1, <1>4, <2>6, <2>9, FailsInv, Zenon
  <2> QED BY <1>8, <2>8, <2>9, Zenon
<1> QED BY <1>6, <1>7, <1>8, Zenon DEF Register, StoreUser

\* A login has read its row, or has found none (Login).
LEMMA LoginReadInv ==
    ASSUME IndInv, NEW s \in Slots, LoginRead(s)
    PROVE  IndInv'
<1> DEFINE arg == slots[s].arg
<1>1. slots[s].pc = "login" /\ slots[s].pc # "idle"
  BY Zenon DEF LoginRead
<1>2. /\ slots[s].op = "login" /\ arg \in [email : Emails, password : Passwords]
      /\ slots[s].before \subseteq Matching(users, arg)
  <2>1. Place(slots[s], users, history)
    BY <1>1, InProgress, Zenon DEF IndInv
  <2> QED BY <1>1, <2>1 DEF Place
<1>3. UNCHANGED <<users, tokens, history, now>>
  BY Zenon DEF LoginRead
<1>4. TablesInv' /\ users \subseteq users' /\ Extended(history, history')
  BY <1>3, TablesKept, Zenon
<1>5. ASSUME NEW u \in getUser("email", arg.email),
             Goto(s, "compare", [user |-> u, email |-> arg.email, password |-> arg.password])
      PROVE  IndInv'
  <2> DEFINE new == [user |-> u, email |-> arg.email, password |-> arg.password]
             c == Call("compare", slots[s], new)
  <2>1. u \in users /\ u.email = arg.email
    BY DEF getUser
  <2>2. new.user = u /\ new.email = arg.email /\ new.password = arg.password
    OBVIOUS
  <2>3. arg.password \in Passwords
    BY <1>2
  <2>4. Goto(s, "compare", new)
    BY <1>5
  <2> HIDE DEF arg, new
  <2>5. c.pc = "compare" /\ c.op = "login" /\ c.arg = new /\ c.before = slots[s].before
    BY <1>2 DEF Call
  <2>6. Matching(users, arg) = Matching(users, new)
    BY <2>2 DEF Matching
  <2> HIDE DEF c
  <2>7. Place(c, users, history)
    BY <1>2, <2>1, <2>2, <2>3, <2>5, <2>6, Zenon DEF Place
  <2> QED BY <1>1, <1>3, <2>4, <2>7, GotoInv, Zenon DEF c
<1>6. ASSUME getUser("email", arg.email) = {}, Finish(s, "credentials", FALSE, FALSE, {})
      PROVE  IndInv'
  <2>1. \A u \in users : u.email # arg.email
    BY <1>6 DEF getUser
  <2>2. slots[s].before = {}
    BY <1>2, <2>1 DEF Matching
  <2>3. InOrder(slots[s], "credentials", FALSE, FALSE, {})
    BY <1>2, <2>2 DEF InOrder, ErrorsOf
  <2> QED BY <1>1, <1>4, <1>6, <2>3, FinishInv, Zenon
<1>7. ASSUME Finish(s, "credentials", FALSE, TRUE, {}) PROVE IndInv'
  <2>1. InOrder(slots[s], "credentials", FALSE, TRUE, {})
    BY <1>2 DEF InOrder, ErrorsOf
  <2> QED BY <1>1, <1>4, <1>7, <2>1, FinishInv, Zenon
<1> QED BY <1>5, <1>6, <1>7, Zenon DEF LoginRead

\* Whole seconds are never later.
LEMMA NumericDateEarlier == \A t \in Nat : NumericDate(t) \in 0..t
<1>1. ASSUME NEW t \in Nat, NEW k \in Nat \ {0} PROVE (t \div k) * k \in 0..t
  <2>1. t \div k \in Nat /\ t % k \in Nat /\ t = k * (t \div k) + (t % k)
    OBVIOUS
  <2>2. k * (t \div k) = (t \div k) * k /\ (t \div k) * k \in Nat
    BY <2>1
  <2> QED BY <2>1, <2>2
<1> QED BY <1>1, ClockAssumption DEF NumericDate

\* A login ends with a token for the account it names, or is refused.
LEMMA LoginIssueInv ==
    ASSUME IndInv, NEW s \in Slots, LoginIssue(s)
    PROVE  IndInv'
<1> DEFINE arg == slots[s].arg
           token == GenerateToken(arg.user, arg.email, arg.password)
<1>1. slots[s].pc = "compare" /\ slots[s].pc # "idle"
  BY DEF LoginIssue
<1>2. /\ slots[s].op = "login" /\ arg.password \in Passwords
      /\ arg.user \in users /\ arg.user.email = arg.email
      /\ slots[s].before \subseteq Matching(users, arg)
  <2>1. Place(slots[s], users, history)
    BY <1>1, InProgress, Zenon DEF IndInv
  <2> QED BY <1>1, <2>1 DEF Place
<1>3. users' = users /\ history' = history /\ now' = now
  BY Zenon DEF LoginIssue
<1>4. users \subseteq users' /\ Extended(history, history')
  BY <1>3, Zenon DEF Extended
<1>5. ASSUME tokens' = tokens PROVE TablesInv'
  BY <1>3, <1>5, Zenon DEF IndInv, TablesInv
<1>6. CASE Fails(s, FALSE) /\ tokens' = tokens
  BY <1>1, <1>4, <1>5, <1>6, FailsInv, Zenon
<1>7. ASSUME CompareHashAndPassword(arg.user.hash, arg.password),
             tokens' = tokens \union {token}, Finish(s, "none", TRUE, FALSE, {})
      PROVE  IndInv'
  <2>1. arg.user \in UserRow
    BY <1>2, Zenon DEF IndInv, TablesInv
  <2>2. arg.user.id \in UserIds /\ arg.email \in Emails
    BY <1>2, <2>1 DEF UserRow
  <2>3. NumericDate(now + Duration) \in 0..(MaxNow + Duration)
    <3>1. now \in 0..MaxNow
      BY Zenon DEF IndInv, TablesInv
    <3>2. now + Duration \in Nat /\ now + Duration <= MaxNow + Duration
      BY <3>1, ClockAssumption, BoundsAssumption
    <3>3. NumericDate(now + Duration) \in 0..(now + Duration)
      BY <3>2, NumericDateEarlier
    <3> QED BY <3>2, <3>3, ClockAssumption, BoundsAssumption
  <2>4. /\ token \in Token /\ token.sub = arg.user.id
        /\ token.by.email = arg.email /\ token.by.password = arg.password
    BY <1>2, <2>2, <2>3, Zenon DEF Token, GenerateToken
  <2> HIDE DEF token
  <2>5. IssuedFor(token, arg.user)
    BY <1>2, <1>7, <2>4, Zenon DEF IssuedFor, CompareHashAndPassword
  <2>6. tokens' \subseteq Token
    BY <1>7, <2>4, Zenon DEF IndInv, TablesInv
  <2>7. \A t \in tokens' : \E u \in users : IssuedFor(t, u)
    BY <1>2, <1>7, <2>5, Zenon DEF IndInv, TablesInv
  <2>8. TablesInv'
    BY <1>3, <2>6, <2>7, Zenon DEF IndInv, TablesInv
  <2>9. InOrder(slots[s], "none", TRUE, FALSE, {})
    BY <1>2 DEF InOrder, ErrorsOf
  <2> QED BY <1>1, <1>4, <1>7, <2>8, <2>9, FinishInv, Zenon
<1>8. ASSUME ~CompareHashAndPassword(arg.user.hash, arg.password),
             Finish(s, "credentials", FALSE, FALSE, {}), tokens' = tokens
      PROVE  IndInv'
  <2>1. \A v \in users : v.email = arg.email => v = arg.user
    BY <1>2, Zenon DEF IndInv, TablesInv
  <2>2. Matching(users, arg) = {}
    BY <1>8, <2>1, Zenon DEF Matching, CompareHashAndPassword
  <2>3. slots[s].before = {}
    BY <1>2, <2>2
  <2>4. InOrder(slots[s], "credentials", FALSE, FALSE, {})
    BY <1>2, <2>3 DEF InOrder, ErrorsOf
  <2> QED BY <1>1, <1>4, <1>5, <1>8, <2>4, FinishInv, Zenon
<1> QED BY <1>6, <1>7, <1>8, Zenon DEF LoginIssue

\* A profile is read (GetUser).
LEMMA GetUserInv ==
    ASSUME IndInv, NEW s \in Slots, GetUser(s)
    PROVE  IndInv'
<1>1. slots[s].pc = "profile" /\ slots[s].pc # "idle"
  BY DEF GetUser
<1>2. slots[s].op = "profile"
  <2>1. Place(slots[s], users, history)
    BY <1>1, InProgress, Zenon DEF IndInv
  <2> QED BY <1>1, <2>1 DEF Place
<1>3. UNCHANGED <<users, tokens, history, now>>
  BY Zenon DEF GetUser
<1>4. TablesInv' /\ users \subseteq users' /\ Extended(history, history')
  BY <1>3, TablesKept, Zenon
<1>5. \A err \in {"none", "notfound"} : InOrder(slots[s], err, FALSE, FALSE, {})
  BY <1>2 DEF InOrder, ErrorsOf, ReadOps
<1>6. ASSUME NEW err \in {"none", "notfound"}, Finish(s, err, FALSE, FALSE, {}) PROVE IndInv'
  BY <1>1, <1>4, <1>5, <1>6, FinishInv, Zenon
<1>7. CASE Fails(s, FALSE)
  BY <1>1, <1>4, <1>7, FailsInv, Zenon
<1> QED BY <1>6, <1>7, Zenon DEF GetUser

\* The translation service answers or fails (Translate).
LEMMA TranslateInv ==
    ASSUME IndInv, NEW s \in Slots, Translate(s)
    PROVE  IndInv'
<1>1. slots[s].pc = "translate" /\ slots[s].pc # "idle"
  BY DEF Translate
<1>2. slots[s].op = "translate"
  <2>1. Place(slots[s], users, history)
    BY <1>1, InProgress, Zenon DEF IndInv
  <2> QED BY <1>1, <2>1 DEF Place
<1>3. UNCHANGED <<users, tokens, history, now>>
  BY Zenon DEF Translate
<1>4. TablesInv' /\ users \subseteq users' /\ Extended(history, history')
  BY <1>3, TablesKept, Zenon
<1>5. CASE Goto(s, "store", NoArg)
  <2> DEFINE c == Call("store", slots[s], NoArg)
  <2>1. c.pc = "store" /\ c.op = "translate"
    BY <1>2 DEF Call
  <2> HIDE DEF c
  <2>2. Place(c, users, history)
    BY <2>1, Zenon DEF Place
  <2> QED BY <1>1, <1>3, <1>5, <2>2, GotoInv, Zenon DEF c
<1>6. CASE Fails(s, FALSE)
  BY <1>1, <1>4, <1>6, FailsInv, Zenon
<1> QED BY <1>5, <1>6, Zenon DEF Translate

\* A translation is stored, or the INSERT fails (Translate, Store).
LEMMA StoreTranslationInv ==
    ASSUME IndInv, NEW s \in Slots, StoreTranslation(s)
    PROVE  IndInv'
<1>1. slots[s].pc = "store" /\ slots[s].pc # "idle"
  BY DEF StoreTranslation
<1>2. slots[s].op = "translate"
  <2>1. Place(slots[s], users, history)
    BY <1>1, InProgress, Zenon DEF IndInv
  <2> QED BY <1>1, <2>1 DEF Place
<1>3. slots[s].user \in UserIds
  <2>1. slots[s].op \notin {"register", "login"}
    BY <1>2
  <2> QED BY <1>1, <2>1, InProgress, Zenon DEF IndInv, CallInv
<1>4. users' = users /\ tokens' = tokens /\ now' = now
  BY Zenon DEF StoreTranslation
<1>5. CASE Fails(s, FALSE) /\ history' = history
  <2>1. TablesInv' /\ users \subseteq users' /\ Extended(history, history')
    BY <1>4, <1>5, TablesKept
  <2> QED BY <1>1, <1>5, <2>1, FailsInv, Zenon
<1>6. ASSUME Len(history) < MaxRows, history' = Append(history, slots[s].user),
             Finish(s, "none", TRUE, FALSE, {}) \/ Fails(s, TRUE)
      PROVE  IndInv'
  <2>1. history \in Seq(UserIds)
    BY Zenon DEF IndInv, TablesInv
  <2>2. ASSUME NEW hs \in Seq(UserIds), NEW u \in UserIds
        PROVE  /\ Append(hs, u) \in Seq(UserIds) /\ Len(Append(hs, u)) = Len(hs) + 1
               /\ Extended(hs, Append(hs, u)) /\ Len(hs) \in Nat
    BY DEF Extended
  <2>3. /\ history' \in Seq(UserIds) /\ Len(history') = Len(history) + 1
        /\ Extended(history, history') /\ Len(history) \in Nat
    BY <1>3, <1>6, <2>1, <2>2, Zenon
  <2>4. Len(history') <= MaxRows
    BY <1>6, <2>3, BoundsAssumption
  <2>5. TablesInv' /\ users \subseteq users'
    BY <1>4, <2>3, <2>4, Zenon DEF IndInv, TablesInv
  <2>6. InOrder(slots[s], "none", TRUE, FALSE, {})
    BY <1>2 DEF InOrder, ErrorsOf
  <2>7. CASE Finish(s, "none", TRUE, FALSE, {})
    BY <1>1, <2>3, <2>5, <2>6, <2>7, FinishInv, Zenon
  <2>8. CASE Fails(s, TRUE)
    BY <1>1, <2>3, <2>5, <2>8, FailsInv, Zenon
  <2> QED BY <1>6, <2>7, <2>8, Zenon
<1> QED BY <1>5, <1>6, Zenon DEF StoreTranslation

\* The translations of the user are read (GetHistory).
LEMMA GetHistoryInv ==
    ASSUME IndInv, NEW s \in Slots, GetHistory(s)
    PROVE  IndInv'
<1> DEFINE seen == RowsOf(history, slots[s].user)
<1>1. slots[s].pc = "history" /\ slots[s].pc # "idle"
  BY DEF GetHistory
<1>2. slots[s].op = "history" /\ slots[s].before \subseteq seen
  <2>1. Place(slots[s], users, history)
    BY <1>1, InProgress, Zenon DEF IndInv
  <2> QED BY <1>1, <2>1 DEF Place
<1>3. UNCHANGED <<users, tokens, history, now>>
  BY Zenon DEF GetHistory
<1>4. TablesInv' /\ users \subseteq users' /\ Extended(history, history')
  BY <1>3, TablesKept, Zenon
<1>5. CASE Finish(s, "none", FALSE, FALSE, seen)
  <2>1. InOrder(slots[s], "none", FALSE, FALSE, seen)
    BY <1>2 DEF InOrder, ErrorsOf, ReadOps
  <2> QED BY <1>1, <1>4, <1>5, <2>1, FinishInv, Zenon
<1>6. CASE Fails(s, FALSE)
  BY <1>1, <1>4, <1>6, FailsInv, Zenon
<1> QED BY <1>5, <1>6, Zenon DEF GetHistory, RowsOf

\* Time passes.
LEMMA TickInv ==
    ASSUME IndInv, Tick
    PROVE  IndInv'
<1>1. users' = users /\ tokens' = tokens /\ history' = history /\ slots' = slots
      /\ last' = NoAnswer
  BY Zenon DEF Tick
<1>2. now \in 0..MaxNow
  BY Zenon DEF IndInv, TablesInv
<1>3. now' \in 0..MaxNow
  BY <1>2, BoundsAssumption DEF Tick
<1>4. TablesInv' /\ users \subseteq users' /\ Extended(history, history')
  BY <1>1, <1>3, Zenon DEF IndInv, TablesInv, Extended
<1>5. SlotsInv'
  BY <1>1, <1>4, SlotsKept, Zenon DEF IndInv
<1> QED BY <1>1, <1>4, <1>5, NoAnswerInv, Zenon DEF IndInv

\* The outcomes of a task use case that may return errs.
LEMMA OutcomesAre ==
    ASSUME NEW errs, "none" \notin errs, NEW writes \in BOOLEAN, NEW o \in Outcomes(errs, writes)
    PROVE  /\ o[1] \in errs \union {"none", "internal"}
           /\ o[1] = "none" /\ writes => o[2]
           /\ o[1] \notin {"none", "internal"} => ~o[2]
<1>1. \/ \E e \in errs \union {"internal"} : o = <<e, FALSE>>
      \/ writes /\ (o = <<"none", TRUE>> \/ o = <<"internal", TRUE>>)
      \/ ~writes /\ o = <<"none", FALSE>>
  BY Zenon DEF Outcomes
<1>2. CASE \E e \in errs \union {"internal"} : o = <<e, FALSE>>
  <2>1. PICK e \in errs \union {"internal"} : o = <<e, FALSE>>
    BY <1>2
  <2>2. o[1] = e /\ ~o[2]
    BY <2>1
  <2> QED BY <2>1, <2>2
<1>3. CASE writes /\ o = <<"none", TRUE>>
  BY <1>3
<1>4. CASE writes /\ o = <<"internal", TRUE>>
  BY <1>4
<1>5. CASE ~writes /\ o = <<"none", FALSE>>
  BY <1>5
<1> QED BY <1>1, <1>2, <1>3, <1>4, <1>5, Zenon

\* What a task use case returns is in order for each operation.
LEMMA TaskOutcomesInOrder ==
    ASSUME NEW op \in TaskOps, NEW o \in TaskOutcomes[op]
    PROVE  /\ o[1] \in ErrorsOf(op)
           /\ o[1] = "none" /\ op \notin ReadOps => o[2]
           /\ o[1] \notin {"none", "internal"} => ~o[2]
<1>1. CASE op = "create"
  <2>1. TaskOutcomes[op] = Outcomes({}, TRUE)
    BY <1>1 DEF TaskOutcomes
  <2>2. "none" \notin {} /\ {} \union {"none", "internal"} \subseteq ErrorsOf(op)
    BY <1>1 DEF ErrorsOf
  <2> QED BY <2>1, <2>2, OutcomesAre, Zenon
<1>2. CASE op = "list"
  <2>1. TaskOutcomes[op] = Outcomes({}, FALSE) /\ op \in ReadOps
    BY <1>2 DEF TaskOutcomes, ReadOps
  <2>2. "none" \notin {} /\ {} \union {"none", "internal"} \subseteq ErrorsOf(op)
    BY <1>2 DEF ErrorsOf
  <2> QED BY <2>1, <2>2, OutcomesAre, Zenon
<1>3. CASE op = "get"
  <2> DEFINE errs == {"notfound", "forbidden"}
  <2>1. TaskOutcomes[op] = Outcomes(errs, FALSE) /\ op \in ReadOps
    BY <1>3 DEF TaskOutcomes, ReadOps
  <2>2. "none" \notin errs /\ errs \union {"none", "internal"} \subseteq ErrorsOf(op)
    BY <1>3 DEF ErrorsOf
  <2> HIDE DEF errs
  <2> QED BY <2>1, <2>2, OutcomesAre, Zenon
<1>4. CASE op = "update"
  <2> DEFINE errs == {"notfound", "forbidden"}
  <2>1. TaskOutcomes[op] = Outcomes(errs, TRUE)
    BY <1>4 DEF TaskOutcomes
  <2>2. "none" \notin errs /\ errs \union {"none", "internal"} \subseteq ErrorsOf(op)
    BY <1>4 DEF ErrorsOf
  <2> HIDE DEF errs
  <2> QED BY <2>1, <2>2, OutcomesAre, Zenon
<1>5. CASE op = "transition"
  <2> DEFINE errs == {"notfound", "forbidden", "invalid"}
  <2>1. TaskOutcomes[op] = Outcomes(errs, TRUE)
    BY <1>5 DEF TaskOutcomes
  <2>2. "none" \notin errs /\ errs \union {"none", "internal"} \subseteq ErrorsOf(op)
    BY <1>5 DEF ErrorsOf
  <2> HIDE DEF errs
  <2> QED BY <2>1, <2>2, OutcomesAre, Zenon
<1>6. CASE op = "delete"
  <2> DEFINE errs == {"notfound"}
  <2>1. TaskOutcomes[op] = Outcomes(errs, TRUE)
    BY <1>6 DEF TaskOutcomes
  <2>2. "none" \notin errs /\ errs \union {"none", "internal"} \subseteq ErrorsOf(op)
    BY <1>6 DEF ErrorsOf
  <2> HIDE DEF errs
  <2> QED BY <2>1, <2>2, OutcomesAre, Zenon
<1> QED BY <1>1, <1>2, <1>3, <1>4, <1>5, <1>6, Zenon DEF TaskOps

\* A task operation is served.
LEMMA ServeTaskInv ==
    ASSUME IndInv, ServeTask
    PROVE  IndInv'
<1>1. PICK via \in Transport, op \in TaskOps :
        \E user \in {UserOf(via, cred) : cred \in Credentials(op)}, o \in TaskOutcomes[op] :
          /\ Reaches[via][op][user # NoUser]
          /\ last' = Reply([via |-> via, op |-> op, user |-> user, before |-> {}],
                           o[1], o[2], o[1] = "internal", {})
  BY Zenon DEF ServeTask
<1>2. PICK user \in {UserOf(via, cred) : cred \in Credentials(op)}, o \in TaskOutcomes[op] :
          /\ Reaches[via][op][user # NoUser]
          /\ last' = Reply([via |-> via, op |-> op, user |-> user, before |-> {}],
                           o[1], o[2], o[1] = "internal", {})
  BY <1>1, Zenon
<1> DEFINE c == [via |-> via, op |-> op, user |-> user, before |-> {}]
<1>3. op \in Ops /\ op # "login" /\ op # "history"
  BY Zenon DEF Ops, TaskOps
<1>4. op \in DOMAIN Routes[via]
  BY <1>2, <1>3, ReachesRoutes, Zenon
<1>5. c.via = via /\ c.op = op /\ c.before = {}
  OBVIOUS
<1>6. last' = Reply(c, o[1], o[2], o[1] = "internal", {})
  BY <1>2
<1> HIDE DEF c
<1>7. InOrder(c, o[1], o[2], o[1] = "internal", {})
  BY <1>3, <1>5, TaskOutcomesInOrder, Zenon DEF InOrder
<1>8. AnswerInv(last') /\ BodyLimitExact'
  BY <1>3, <1>4, <1>5, <1>6, <1>7, ReplyInv, Zenon
<1>9. UNCHANGED <<users, tokens, history, now>> /\ slots' = slots
  BY Zenon DEF ServeTask
<1>10. TablesInv' /\ users \subseteq users' /\ Extended(history, history')
  BY <1>9, TablesKept, Zenon
<1>11. SlotsInv'
  BY <1>9, <1>10, SlotsKept, Zenon DEF IndInv
<1> QED BY <1>8, <1>10, <1>11, Zenon DEF IndInv

\* One read passes exactly when it is whole, and is too large exactly when its
\* decoder opens and yields more than the limit (readBody).
LEMMA ReadBodyIs ==
    ASSUME NEW stage
    PROVE  /\ readBody(stage) = Called <=> stage.opens /\ ~stage.fails /\ ~(stage.size > Limit)
           /\ readBody(stage) = "413" <=> stage.opens /\ stage.size > Limit
<1> DEFINE a == Check(~stage.opens, "400")
           b == Check(stage.size > Limit, "413")
           c == Check(stage.fails, "400")
<1>1. readBody(stage) = FirstReturn(<<a, b, c>>)
  BY Zenon DEF readBody
<1>2. /\ a.code = "400" /\ b.code = "413" /\ c.code = "400"
      /\ a.refuse = ~stage.opens /\ b.refuse = (stage.size > Limit) /\ c.refuse = stage.fails
  BY CheckFields, Zenon
<1>3. "400" # Called /\ "413" # Called /\ "400" # "413"
  BY DEF Called
<1> HIDE DEF a, b, c
<1>4. readBody(stage) = Called <=> ~a.refuse /\ ~b.refuse /\ ~c.refuse
  BY <1>1, <1>2, <1>3, ThreeChecks, Zenon
<1>5. /\ a.refuse => readBody(stage) = a.code
      /\ ~a.refuse /\ b.refuse => readBody(stage) = b.code
      /\ ~a.refuse /\ ~b.refuse /\ c.refuse => readBody(stage) = c.code
  BY <1>1, ThreeCodes, Zenon
<1> QED BY <1>2, <1>3, <1>4, <1>5, Zenon

\* A body passes exactly when every stage of it is whole; otherwise its declared
\* length or the first stage that is not decides the answer (bodyLimit).
LEMMA BodyLimitIs ==
    ASSUME NEW body \in Bodies, NEW declared \in Lengths(body), NEW first,
           first = Min({i \in DOMAIN body : ~Whole(body[i])})
    PROVE  /\ bodyLimit(declared, body) = Called <=> \A i \in DOMAIN body : Whole(body[i])
           /\ bodyLimit(declared, body) # Called =>
                 (bodyLimit(declared, body) = "413" <=>
                    \/ declared > Limit
                    \/ body[first].opens /\ body[first].size > Limit)
<1> DEFINE read == [i \in DOMAIN body |-> Check(readBody(body[i]) # Called, readBody(body[i]))]
           checks == <<Check(declared > Limit, "413")>> \o read
           T == {i \in DOMAIN body : ~Whole(body[i])}
           n == Len(body)
<1>1. /\ body \in Seq([opens : BOOLEAN, fails : BOOLEAN, size : Nat])
      /\ body # <<>> /\ body[1].opens
  BY BodiesAssumption, Zenon
<1>2. /\ n \in Nat \ {0} /\ DOMAIN body = 1..n
      /\ \A i \in 1..n : body[i] \in [opens : BOOLEAN, fails : BOOLEAN, size : Nat]
  <2>1. ASSUME NEW S, NEW q \in Seq(S), q # <<>>
        PROVE  /\ Len(q) \in Nat \ {0} /\ DOMAIN q = 1..Len(q)
               /\ \A i \in 1..Len(q) : q[i] \in S
    BY <2>1
  <2> QED BY <1>1, <2>1, Zenon
<1>3. /\ DOMAIN checks = 1..(n + 1) /\ checks[1] = Check(declared > Limit, "413")
      /\ \A i \in 1..n : checks[i + 1] = Check(readBody(body[i]) # Called, readBody(body[i]))
  <2>1. read \in Seq({read[i] : i \in DOMAIN read}) /\ Len(read) = n /\ DOMAIN read = 1..n
    BY <1>2
  <2>2. \A i \in 1..n : read[i] = Check(readBody(body[i]) # Called, readBody(body[i]))
    BY <1>2
  <2> HIDE DEF read
  <2>3. \A x : /\ DOMAIN (<<x>> \o read) = 1..(n + 1) /\ (<<x>> \o read)[1] = x
               /\ \A i \in 1..n : (<<x>> \o read)[i + 1] = read[i]
    BY <2>1, <1>2
  <2> QED BY <2>2, <2>3, Zenon
<1>4. bodyLimit(declared, body) = FirstReturn(checks)
  BY Zenon DEF bodyLimit
<1> HIDE DEF n, checks, read
<1>5. \A i \in 1..n : /\ readBody(body[i]) = Called <=> Whole(body[i])
                      /\ readBody(body[i]) = "413" <=> body[i].opens /\ body[i].size > Limit
  <2>1. ASSUME NEW i \in 1..n PROVE ~(body[i].size > Limit) <=> body[i].size <= Limit
    BY <1>2, LimitAssumption
  <2> QED BY <2>1, ReadBodyIs, Zenon DEF Whole
<1>6. /\ checks[1].refuse = (declared > Limit) /\ checks[1].code = "413"
      /\ \A i \in 1..n : /\ checks[i + 1].refuse = (readBody(body[i]) # Called)
                          /\ checks[i + 1].code = readBody(body[i])
  <2>1. checks[1].refuse = (declared > Limit) /\ checks[1].code = "413"
    <3> DEFINE c == Check(declared > Limit, "413")
    <3>1. c.refuse = (declared > Limit) /\ c.code = "413"
      BY CheckFields, Zenon
    <3> HIDE DEF c
    <3>2. checks[1] = c
      BY <1>3 DEF c
    <3> QED BY <3>1, <3>2, Zenon
  <2>2. ASSUME NEW i \in 1..n
        PROVE  /\ checks[i + 1].refuse = (readBody(body[i]) # Called)
               /\ checks[i + 1].code = readBody(body[i])
    <3> DEFINE c == Check(readBody(body[i]) # Called, readBody(body[i]))
    <3>1. c.refuse = (readBody(body[i]) # Called) /\ c.code = readBody(body[i])
      BY CheckFields, Zenon
    <3>2. checks[i + 1] = c
      BY <1>3, Zenon
    <3> HIDE DEF c
    <3> QED BY <3>1, <3>2, Zenon
  <2> QED BY <2>1, <2>2, Zenon
<1>7. /\ DOMAIN checks \subseteq Nat /\ 1 \in DOMAIN checks /\ 1 \in 1..n
      /\ \A i \in 1..n : i + 1 \in DOMAIN checks
      /\ \A k \in DOMAIN checks : k = 1 \/ (k - 1 \in 1..n /\ k = (k - 1) + 1)
  BY <1>2, <1>3
<1>8. declared > Limit => ~Whole(body[1])
  <2>1. declared = 0 \/ declared = body[1].size \/ body[1].fails
    BY Zenon DEF Lengths
  <2>2. body[1].size \in Nat /\ ~(0 > Limit)
    BY <1>2, <1>7, LimitAssumption
  <2> QED BY <2>1, <2>2, LimitAssumption DEF Whole
<1>9. CASE T = {}
  <2>1. \A i \in 1..n : Whole(body[i])
    BY <1>2, <1>9, Zenon
  <2>2. \A k \in DOMAIN checks : ~checks[k].refuse
    BY <1>5, <1>6, <1>7, <1>8, <2>1, Zenon
  <2>3. FirstReturn(checks) = Called
    BY <1>7, <2>2, FirstReturnCalled, Zenon
  <2> QED BY <1>2, <1>4, <2>1, <2>3, Zenon
<1>10. CASE T # {}
  <2>1. first \in T /\ (\A i \in T : first <= i) /\ T \subseteq Nat
    <3>1. T \subseteq Nat
      BY <1>2
    <3> QED BY <1>10, <3>1, MinOfNaturals, Zenon
  <2>2. first \in 1..n /\ ~Whole(body[first])
    BY <1>2, <2>1, Zenon
  <2>3. \A i \in 1..n : ~Whole(body[i]) => i \in T
    BY <1>2, Zenon
  <2> HIDE DEF T
  <2>4. \A i \in 1..n : i < first => Whole(body[i])
    BY <2>1, <2>2, <2>3
  <2>5. CASE declared > Limit
    <3>2. \A i \in DOMAIN checks : ~(i < 1)
      BY <1>3, <1>2
    <3>3. FirstReturn(checks) = "413"
      BY <1>6, <1>7, <2>5, <3>2, FirstReturnIs, Zenon
    <3>4. "413" # Called
      BY DEF Called
    <3> QED BY <1>2, <1>4, <2>2, <2>5, <3>3, <3>4, Zenon
  <2>6. CASE ~(declared > Limit)
    <3>1. \A k \in DOMAIN checks : k < first + 1 => ~checks[k].refuse
      <4>1. \A k \in DOMAIN checks : k < first + 1 => k = 1 \/ k - 1 < first
        BY <1>2, <1>3, <2>2
      <4> QED BY <1>5, <1>6, <1>7, <2>4, <2>6, <4>1, Zenon
    <3>2. checks[first + 1].refuse /\ checks[first + 1].code = readBody(body[first])
      BY <1>5, <1>6, <2>2, Zenon
    <3>3. FirstReturn(checks) = readBody(body[first])
      BY <1>7, <2>2, <3>1, <3>2, FirstReturnIs, Zenon
    <3> QED BY <1>2, <1>4, <1>5, <2>2, <2>6, <3>3, Zenon
  <2> QED BY <2>5, <2>6
<1> QED BY <1>9, <1>10

\* A body is sent.
LEMMA SendBodyInv ==
    ASSUME IndInv, SendBody
    PROVE  IndInv'
<1>1. PICK body \in Bodies : \E declared \in Lengths(body) :
         last' = [op |-> "body", declared |-> declared, body |-> body,
                  code |-> bodyLimit(declared, body)]
  BY Zenon DEF SendBody
<1>2. PICK declared \in Lengths(body) :
         last' = [op |-> "body", declared |-> declared, body |-> body,
                  code |-> bodyLimit(declared, body)]
  BY <1>1, Zenon
<1>3. /\ last'.op = "body" /\ last'.declared = declared /\ last'.body = body
      /\ last'.code = bodyLimit(declared, body)
  BY <1>2
<1>4. AnswerInv(last')
  BY <1>3 DEF AnswerInv, Ops
<1>5. BodyLimitExact'
  <2> DEFINE code == bodyLimit(declared, body)
             first == Min({i \in DOMAIN body : ~Whole(body[i])})
  <2>1. /\ code = Called <=> \A i \in DOMAIN body : Whole(body[i])
        /\ code # Called => (code = "413" <=> \/ declared > Limit
                                              \/ body[first].opens /\ body[first].size > Limit)
    BY BodyLimitIs, Zenon
  <2> HIDE DEF code
  <2>2. last'.body = body /\ last'.code = code /\ last'.declared = declared
    BY <1>3, Zenon DEF code
  <2> QED BY <2>1, <2>2, Zenon DEF BodyLimitExact
<1>6. UNCHANGED <<users, tokens, history, now>> /\ slots' = slots
  BY Zenon DEF SendBody
<1>7. TablesInv' /\ users \subseteq users' /\ Extended(history, history')
  BY <1>6, TablesKept, Zenon
<1>8. SlotsInv'
  BY <1>6, <1>7, SlotsKept, Zenon DEF IndInv
<1> QED BY <1>4, <1>5, <1>7, <1>8, Zenon DEF IndInv

-----------------------------------------------------------------------------
(* The theorems. *)

\* Nothing has happened yet.
LEMMA InitInv == Init => IndInv
<1> SUFFICES ASSUME Init PROVE IndInv
  OBVIOUS
<1>1. TablesInv
  BY BoundsAssumption DEF Init, TablesInv
<1>2. SlotsInv
  BY Zenon DEF Init, SlotsInv
<1>3. NoAnswer.op \notin Ops /\ NoAnswer.op # "body"
  BY DEF Ops, NoAnswer
<1> QED BY <1>1, <1>2, <1>3, Zenon DEF Init, IndInv, AnswerInv, BodyLimitExact

\* Every step keeps the invariant.
LEMMA NextInv == IndInv /\ [Next]_vars => IndInv'
<1> SUFFICES ASSUME IndInv, [Next]_vars PROVE IndInv'
  OBVIOUS
<1>1. ASSUME NEW s \in Slots,
             \/ Receive(s) \/ Register(s) \/ LoginRead(s) \/ LoginIssue(s)
             \/ GetUser(s) \/ Translate(s) \/ StoreTranslation(s) \/ GetHistory(s)
      PROVE  IndInv'
  BY <1>1, ReceiveInv, RegisterInv, LoginReadInv, LoginIssueInv, GetUserInv, TranslateInv,
     StoreTranslationInv, GetHistoryInv, Zenon
<1>2. ASSUME ServeTask \/ SendBody \/ Tick PROVE IndInv'
  BY <1>2, ServeTaskInv, SendBodyInv, TickInv, Zenon
<1>3. CASE UNCHANGED vars
  <2>1. /\ users' = users /\ tokens' = tokens /\ history' = history /\ slots' = slots
        /\ now' = now /\ last' = last
    BY <1>3 DEF vars
  <2> QED BY <2>1, Zenon DEF IndInv, TablesInv, SlotsInv, BodyLimitExact
<1> QED BY <1>1, <1>2, <1>3, Zenon DEF Next

(***************************************************************************)
(* Whatever the numbers of requests, users and bodies: an email names one  *)
(* account, a token is backed by the account whose email and password were *)
(* presented for it, what a request found stored when it came is stored    *)
(* until it is answered, and the last answer says what was done.           *)
(***************************************************************************)
THEOREM Invariance == Spec => []IndInv
<1> QED BY InitInv, NextInv, PTL DEF Spec

\* The tables, the slots and the last answer are well formed.
THEOREM TypeCorrect == Spec => []TypeOK
<1>1. IndInv => TypeOK
  <2> SUFFICES ASSUME IndInv PROVE TypeOK
    OBVIOUS
  <2>1. \A s \in Slots : slots[s] # Idle =>
           slots[s].op \in DOMAIN Routes[slots[s].via] /\ slots[s].user \in UserIds \union {NoUser}
    BY Zenon DEF IndInv, SlotsInv, CallInv
  <2>2. \A op : ErrorsOf(op) \subseteq Errors
    BY DEF ErrorsOf, Errors
  <2>3. last.op \in Ops => last.err \in Errors /\ last.via \in Transport
    BY <2>2, Zenon DEF IndInv, AnswerInv
  <2>4. history \in Seq(UserIds)
    BY Zenon DEF IndInv, TablesInv
  <2>5. \A i \in DOMAIN history : history[i] \in UserIds
    BY <2>4
  <2> QED BY <2>1, <2>3, <2>5, Zenon DEF IndInv, TablesInv, TypeOK, UserRow, Token
<1> QED BY <1>1, Invariance, PTL

\* What the code of the last answer tells of the outcome.
LEMMA LastTells ==
    ASSUME IndInv, last.op \in Ops
    PROVE  /\ Succeeded(last) <=> last.err = "none"
           /\ last.err = "internal" => last.code = FailCode[last.via]
           /\ last.via = "rest" => RestKind(last.code) = last.err
           /\ last.via = "grpc" => GrpcKind(last.code) = last.err
<1> DEFINE code == Answer(last.via, last.op, last.err)
<1>1. /\ last.via \in Transport /\ last.op \in DOMAIN Routes[last.via]
      /\ last.err \in ErrorsOf(last.op) /\ last.code = code
  BY Zenon DEF IndInv, AnswerInv
<1>2. /\ code = Routes[last.via][last.op].ok <=> last.err = "none"
      /\ last.err = "internal" => code = FailCode[last.via]
      /\ last.via = "rest" => RestKind(code) = last.err
      /\ last.via = "grpc" => GrpcKind(code) = last.err
  BY <1>1, AnswersTell
<1> HIDE DEF code
<1> QED BY <1>1, <1>2, Zenon DEF Succeeded

(***************************************************************************)
(* A login with the email and the password of an account that was stored   *)
(* when it came is refused as wrong only because the query failed (Login,  *)
(* Register).                                                              *)
(***************************************************************************)
THEOREM RegisteredLogsIn == Spec => []RegisteredCanLogin
<1>1. IndInv => RegisteredCanLogin
  <2>1. "login" \in Ops
    BY DEF Ops
  <2> QED BY <2>1, Zenon DEF IndInv, AnswerInv, RegisteredCanLogin
<1> QED BY <1>1, Invariance, PTL

(***************************************************************************)
(* The code of success is answered only after the change, and the code of  *)
(* a specific refusal only without one, on every transport.                *)
(***************************************************************************)
THEOREM AnswersAreHonest == Spec => []HonestAnswers
<1>1. IndInv => HonestAnswers
  <2> SUFFICES ASSUME IndInv, last.op \in Ops
               PROVE  /\ Succeeded(last) /\ last.op \notin ReadOps => last.wrote
                      /\ ~Succeeded(last) /\ last.code # FailCode[last.via] => ~last.wrote
    BY Zenon DEF HonestAnswers, ReadOps
  <2>1. /\ last.err = "none" /\ last.op \notin ReadOps => last.wrote
        /\ last.err \notin {"none", "internal"} => ~last.wrote
    BY Zenon DEF IndInv, AnswerInv
  <2> QED BY <2>1, LastTells, Zenon
<1> QED BY <1>1, Invariance, PTL

\* REST and gRPC answer every outcome of a use case by its kind.
THEOREM OutcomesToldApart == Spec => []ErrorsToldApart
<1>1. IndInv => ErrorsToldApart
  <2> SUFFICES ASSUME IndInv, last.op \in Ops
               PROVE  /\ last.via = "rest" => RestKind(last.code) = last.err
                      /\ last.via = "grpc" => GrpcKind(last.code) = last.err
    BY Zenon DEF ErrorsToldApart
  <2> QED BY LastTells, Zenon
<1> QED BY <1>1, Invariance, PTL

(***************************************************************************)
(* A successful history holds every translation of the user that was       *)
(* stored when the request came (GetHistory).                              *)
(***************************************************************************)
THEOREM HistoryIsComplete == Spec => []HistoryComplete
<1>1. IndInv => HistoryComplete
  <2> SUFFICES ASSUME IndInv, last.op = "history", Succeeded(last)
               PROVE  last.before \subseteq last.seen
    BY Zenon DEF HistoryComplete
  <2>1. last.op \in Ops
    BY DEF Ops
  <2>2. last.err = "none"
    BY <2>1, LastTells, Zenon
  <2> QED BY <2>1, <2>2, Zenon DEF IndInv, AnswerInv
<1> QED BY <1>1, Invariance, PTL

(***************************************************************************)
(* A body passes bodyLimit exactly when the wire and every decoding stage  *)
(* are whole, for bodies with any number of content encodings, and 413     *)
(* tells exactly that the declared length or the first stage that is not   *)
(* whole is too large.                                                     *)
(***************************************************************************)
THEOREM BodyLimitIsExact == Spec => []BodyLimitExact
<1>1. IndInv => BodyLimitExact
  BY Zenon DEF IndInv
<1> QED BY <1>1, Invariance, PTL

\* The transports that share an operation let the same requests through.
LEMMA ThroughAlike ==
    ASSUME NEW op \in DOMAIN AmqpRoutes, NEW bad \in (FieldsOf[op] \ {"id"}) \union {"none"},
           NEW found \in BOOLEAN
    PROVE  /\ Returns["amqp"][op][found][bad] = Called <=> Returns["rest"][op][found][bad] = Called
           /\ Returns["nats"][op][found][bad] = Called <=> Returns["rest"][op][found][bad] = Called
           /\ Returns["rest"][op][found][bad] = Called => Returns["grpc"][op][found][bad] = Called
<1>1. op \in Ops \ {"profile"} /\ op \in Ops /\ op \in DOMAIN NatsRoutes
  BY AmqpTable, NatsTable, Zenon
<1>2. /\ bad \in Fields \union {"none"}
      /\ bad \in AmqpRoutes[op].rules <=> bad \in RestRoutes[op].rules
      /\ bad \in NatsRoutes[op].rules <=> bad \in RestRoutes[op].rules
      /\ bad \in GrpcRoutes[op].rules => bad \in RestRoutes[op].rules
  BY <1>1, RulesAlike, Zenon
<1>3. bad # "size" /\ bad # "coding" /\ bad # "body"
  BY <1>2 DEF Fields
<1>4. /\ RestRoutes[op].auth <=> op \notin {"register", "login"}
      /\ GrpcRoutes[op].auth <=> op \notin {"register", "login"}
      /\ AmqpRoutes[op].auth <=> op \notin {"register", "login"}
      /\ NatsRoutes[op].auth <=> op \notin {"register", "login"}
  BY <1>1, AuthAlike, Zenon
<1>5. op \in RestProtected <=> op \notin {"register", "login"}
  BY <1>1, Zenon DEF RestProtected
<1>6. /\ Returns["rest"][op][found][bad] = RestReturns(op, found, bad)
      /\ Returns["grpc"][op][found][bad] = GrpcReturns(op, found, bad)
      /\ Returns["amqp"][op][found][bad] = RpcReturns(AmqpRoutes, op, found, bad)
      /\ Returns["nats"][op][found][bad] = RpcReturns(NatsRoutes, op, found, bad)
  <2>1. bad \in Defects
    BY <1>2, Zenon DEF Defects
  <2>2. op \in Ops
    BY <1>1
  <2>3. "rest" \in Transport /\ "grpc" \in Transport /\ "amqp" \in Transport /\ "nats" \in Transport
    BY DEF Transport
  <2> QED BY <2>1, <2>2, <2>3, ReturnsAt
<1>7. Returns["rest"][op][found][bad] = Called <=>
        (op \notin {"register", "login"} => found) /\ bad \notin RestRoutes[op].rules
  <2>1. RestReturns(op, found, bad) = Called <=>
             /\ bad # "size" /\ bad # "coding"
             /\ op \in RestProtected => found
             /\ RestRoutes[op].auth => op \in RestProtected /\ found
             /\ bad \notin RestRoutes[op].rules
    BY RestAdmits
  <2> QED BY <1>3, <1>4, <1>5, <1>6, <2>1, Zenon
<1>8. Returns["grpc"][op][found][bad] = Called <=>
        (op \notin {"register", "login"} => found) /\ bad \notin GrpcRoutes[op].rules
  <2>1. GrpcReturns(op, found, bad) = Called <=>
             /\ op \notin skipAuthMethods => found
             /\ GrpcRoutes[op].auth => op \notin skipAuthMethods /\ found
             /\ bad \notin GrpcRoutes[op].rules
    BY GrpcAdmits
  <2> QED BY <1>4, <1>6, <2>1, Zenon DEF skipAuthMethods
<1>9. Returns["amqp"][op][found][bad] = Called <=>
        (op \notin {"register", "login"} => found) /\ bad \notin AmqpRoutes[op].rules
  <2>1. RpcReturns(AmqpRoutes, op, found, bad) = Called <=>
             /\ op \in DOMAIN AmqpRoutes /\ bad # "body"
             /\ AmqpRoutes[op].auth => found
             /\ bad \notin AmqpRoutes[op].rules
    BY RpcAdmits
  <2> QED BY <1>3, <1>4, <1>6, <2>1, Zenon
<1>10. Returns["nats"][op][found][bad] = Called <=>
        (op \notin {"register", "login"} => found) /\ bad \notin NatsRoutes[op].rules
  <2>1. RpcReturns(NatsRoutes, op, found, bad) = Called <=>
             /\ op \in DOMAIN NatsRoutes /\ bad # "body"
             /\ NatsRoutes[op].auth => found
             /\ bad \notin NatsRoutes[op].rules
    BY RpcAdmits
  <2> QED BY <1>1, <1>3, <1>4, <1>6, <2>1, Zenon
<1> QED BY <1>2, <1>7, <1>8, <1>9, <1>10, Zenon

\* A token names the same user on every transport.
LEMMA UserAlike ==
    ASSUME NEW via \in Transport, NEW token
    PROVE  UserOf(via, Presented(via, token)) = ParseToken(token)
<1> DEFINE c == Presented(via, token)
<1>1. c.token = token /\ c.form = (IF via = "rest" THEN "bearer" ELSE "bare")
  BY DEF Presented
<1> HIDE DEF c
<1>2. UserOf(via, c) = TokenIn(c, IF via = "rest" THEN "bearer" ELSE "bare")
  BY DEF UserOf, RestAuth, AuthInterceptor, AmqpExtractUserID, NatsExtractUserID, Transport
<1>3. UserOf(via, c) = ParseToken(token)
  BY <1>1, <1>2, Zenon DEF TokenIn
<1> QED BY <1>3 DEF c

(***************************************************************************)
(* REST, AMQP and NATS let the same requests through to the operations     *)
(* they share, for the same user, and gRPC at least those.                 *)
(***************************************************************************)
THEOREM AdmitAlike == Spec => []AdmittedAlike
<1>1. AdmittedAlike
  <2> DEFINE User(via, token) == UserOf(via, Presented(via, token))
             Through(via, token, op, bad) ==
                Returns[via][op][User(via, token) # NoUser][bad] = Called
  <2>1. \A token : \A via \in Transport : User(via, token) = User("rest", token)
    <3>1. "rest" \in Transport
      BY DEF Transport
    <3> QED BY <3>1, UserAlike, Zenon
  <2>2. ASSUME NEW token, NEW op \in DOMAIN AmqpRoutes,
               NEW bad \in (FieldsOf[op] \ {"id"}) \union {"none"}
        PROVE  /\ Through("amqp", token, op, bad) = Through("rest", token, op, bad)
               /\ Through("nats", token, op, bad) = Through("rest", token, op, bad)
               /\ Through("rest", token, op, bad) => Through("grpc", token, op, bad)
    <3> DEFINE found == User("rest", token) # NoUser
    <3>1. /\ User("amqp", token) = User("rest", token) /\ User("nats", token) = User("rest", token)
          /\ User("grpc", token) = User("rest", token)
      BY <2>1, Zenon DEF Transport
    <3>2. found \in BOOLEAN
      OBVIOUS
    <3>3. /\ Through("amqp", token, op, bad) <=> Through("rest", token, op, bad)
          /\ Through("nats", token, op, bad) <=> Through("rest", token, op, bad)
          /\ Through("rest", token, op, bad) => Through("grpc", token, op, bad)
      BY <3>1, <3>2, ThroughAlike, Zenon
    <3> QED BY <3>3, Zenon
  <2> QED BY <2>1, <2>2, Zenon DEF AdmittedAlike
<1> QED BY <1>1, PTL

\* What a step of a use case does to the slots and to the last answer.
LEMMA UseCaseStep ==
    ASSUME NEW s \in Slots,
           \/ Register(s) \/ LoginRead(s) \/ LoginIssue(s) \/ GetUser(s)
           \/ Translate(s) \/ StoreTranslation(s) \/ GetHistory(s)
    PROVE  /\ slots[s].pc # "idle"
           /\ \/ \E err, wrote, outage, seen : Finish(s, err, wrote, outage, seen)
              \/ \E pc, arg : Goto(s, pc, arg)
<1> DEFINE Moves == \/ \E err, wrote, outage, seen : Finish(s, err, wrote, outage, seen)
                    \/ \E pc, arg : Goto(s, pc, arg)
<1>1. \A wrote : Fails(s, wrote) => Moves
  BY Zenon DEF Fails
<1>2. ASSUME Register(s) PROVE Moves
  BY <1>1, <1>2, Zenon DEF Register, StoreUser
<1>3. ASSUME LoginRead(s) PROVE Moves
  BY <1>3, Zenon DEF LoginRead
<1>4. ASSUME LoginIssue(s) PROVE Moves
  BY <1>1, <1>4, Zenon DEF LoginIssue
<1>5. ASSUME GetUser(s) \/ Translate(s) \/ StoreTranslation(s) \/ GetHistory(s) PROVE Moves
  BY <1>1, <1>5, Zenon DEF GetUser, Translate, StoreTranslation, GetHistory
<1>6. slots[s].pc # "idle"
  BY Zenon DEF Register, LoginRead, LoginIssue, GetUser, Translate, StoreTranslation, GetHistory
<1> QED BY <1>2, <1>3, <1>4, <1>5, <1>6, Zenon

\* Who is served from this state to the next.
Served ==
    /\ \A s \in Slots :
          slots[s] = Idle /\ slots'[s] # Idle /\ slots'[s].op \notin {"register", "login"} =>
              HoldsToken(slots'[s].user)
    /\ last'.op \in TaskOps => HoldsToken(last'.user)

\* A step of a use case starts none.
LEMMA UseCaseServes ==
    ASSUME IndInv, NEW s \in Slots,
           \/ Register(s) \/ LoginRead(s) \/ LoginIssue(s) \/ GetUser(s)
           \/ Translate(s) \/ StoreTranslation(s) \/ GetHistory(s)
    PROVE  Served
<1>1. slots = [t \in Slots |-> slots[t]]
  BY Zenon DEF IndInv, SlotsInv
<1>2. /\ slots[s].pc # "idle"
      /\ \/ \E err, wrote, outage, seen : Finish(s, err, wrote, outage, seen)
         \/ \E pc, arg : Goto(s, pc, arg)
  BY UseCaseStep, Zenon
<1>3. slots[s] # Idle /\ Place(slots[s], users, history)
  BY <1>2, InProgress, Zenon DEF IndInv
<1>4. slots[s].op \notin TaskOps
  BY <1>3, Zenon DEF Place, TaskOps
<1>5. ASSUME NEW err, NEW wrote, NEW outage, NEW seen, Finish(s, err, wrote, outage, seen)
      PROVE  (\A t \in Slots : t # s => slots'[t] = slots[t]) /\ last'.op \notin TaskOps
  <2>1. \A t \in Slots : t # s => slots'[t] = slots[t]
    BY <1>1, <1>5, Zenon DEF Finish
  <2>2. last' = Reply(slots[s], err, wrote, outage, seen)
    BY <1>5, Zenon DEF Finish
  <2>3. last'.op = slots[s].op
    BY <2>2 DEF Reply
  <2> QED BY <1>4, <2>1, <2>3, Zenon
<1>6. ASSUME NEW pc, NEW arg, Goto(s, pc, arg)
      PROVE  (\A t \in Slots : t # s => slots'[t] = slots[t]) /\ last'.op \notin TaskOps
  <2>1. \A t \in Slots : t # s => slots'[t] = slots[t]
    BY <1>1, <1>6, Zenon DEF Goto
  <2>2. last'.op \notin TaskOps
    BY <1>6 DEF Goto, NoAnswer, TaskOps
  <2> QED BY <2>1, <2>2, Zenon
<1> QED BY <1>2, <1>3, <1>5, <1>6, Zenon DEF Served

\* A use case is started for the holder of a token.
LEMMA ReceiveServes ==
    ASSUME IndInv, NEW s \in Slots, Receive(s)
    PROVE  Served
<1>1. PICK via \in Transport, op \in Ops \ TaskOps :
        \E user \in {UserOf(via, cred) : cred \in Credentials(op)}, arg \in Args(op) :
          /\ Reaches[via][op][user # NoUser]
          /\ slots' = [slots EXCEPT ![s] =
                          [pc |-> op, via |-> via, op |-> op, user |-> user,
                           arg |-> arg, before |-> Stored(op, user, arg)]]
  BY Zenon DEF Receive
<1>2. PICK cred \in Credentials(op), arg \in Args(op) :
          /\ Reaches[via][op][UserOf(via, cred) # NoUser]
          /\ slots' = [slots EXCEPT ![s] =
                          [pc |-> op, via |-> via, op |-> op, user |-> UserOf(via, cred),
                           arg |-> arg, before |-> Stored(op, UserOf(via, cred), arg)]]
  BY <1>1, Zenon
<1> DEFINE user == UserOf(via, cred)
           c == [pc |-> op, via |-> via, op |-> op, user |-> user,
                 arg |-> arg, before |-> Stored(op, user, arg)]
<1>3. op \notin {"register", "login"} => HoldsToken(user)
  <2>1. op \notin {"register", "login"} => user # NoUser
    BY <1>2, ReachesRoutes, Zenon
  <2> QED BY <2>1, UserKnown, Zenon DEF IndInv
<1> HIDE DEF user
<1>4. c.op = op /\ c.user = user
  OBVIOUS
<1>5. slots' = [slots EXCEPT ![s] = c]
  BY <1>2, Zenon DEF user
<1> HIDE DEF c
<1>6. slots = [t \in Slots |-> slots[t]]
  BY Zenon DEF IndInv, SlotsInv
<1>7. slots'[s] = c /\ \A t \in Slots : t # s => slots'[t] = slots[t]
  BY <1>5, <1>6, Zenon
<1>8. last'.op \notin TaskOps
  BY Zenon DEF Receive, NoAnswer, TaskOps
<1> QED BY <1>3, <1>4, <1>7, <1>8, Zenon DEF Served

\* A task operation is served for the holder of a token.
LEMMA ServeTaskServes ==
    ASSUME IndInv, ServeTask
    PROVE  Served
<1>1. PICK via \in Transport, op \in TaskOps :
        \E user \in {UserOf(via, cred) : cred \in Credentials(op)}, o \in TaskOutcomes[op] :
          /\ Reaches[via][op][user # NoUser]
          /\ last' = Reply([via |-> via, op |-> op, user |-> user, before |-> {}],
                           o[1], o[2], o[1] = "internal", {})
  BY Zenon DEF ServeTask
<1>2. PICK cred \in Credentials(op), o \in TaskOutcomes[op] :
          /\ Reaches[via][op][UserOf(via, cred) # NoUser]
          /\ last' = Reply([via |-> via, op |-> op, user |-> UserOf(via, cred), before |-> {}],
                           o[1], o[2], o[1] = "internal", {})
  BY <1>1, Zenon
<1> DEFINE user == UserOf(via, cred)
<1>3. op \in Ops /\ op \notin {"register", "login"}
  BY DEF Ops, TaskOps
<1>4. HoldsToken(user)
  <2>1. user # NoUser
    BY <1>2, <1>3, ReachesRoutes, Zenon
  <2> QED BY <2>1, UserKnown, Zenon DEF IndInv
<1>5. last'.user = user
  BY <1>2, Zenon DEF Reply
<1>6. slots' = slots
  BY Zenon DEF ServeTask
<1> QED BY <1>4, <1>5, <1>6, Zenon DEF Served

(***************************************************************************)
(* Nobody is served without an unexpired token that was given to somebody  *)
(* who presented the email and the password of that account (ParseToken,   *)
(* the middlewares, Login and Register together).                          *)
(***************************************************************************)
THEOREM TokenHoldersServed == Spec => TokenHolderServed
<1>1. ASSUME IndInv, [Next]_vars PROVE [Served]_vars
  <2>1. ASSUME NEW s \in Slots,
               \/ Receive(s) \/ Register(s) \/ LoginRead(s) \/ LoginIssue(s)
               \/ GetUser(s) \/ Translate(s) \/ StoreTranslation(s) \/ GetHistory(s)
        PROVE  Served
    BY <1>1, <2>1, ReceiveServes, UseCaseServes, Zenon
  <2>2. ASSUME ServeTask PROVE Served
    BY <1>1, <2>2, ServeTaskServes, Zenon
  <2>3. ASSUME SendBody \/ Tick PROVE Served
    <3>1. slots' = slots
      BY <2>3, Zenon DEF SendBody, Tick
    <3>2. last'.op \in {"body", "-"}
      <4>1. ASSUME SendBody PROVE last'.op = "body"
        <5>1. PICK body, declared :
                 last' = [op |-> "body", declared |-> declared, body |-> body,
                          code |-> bodyLimit(declared, body)]
          BY <4>1, Zenon DEF SendBody
        <5> QED BY <5>1
      <4>2. ASSUME Tick PROVE last'.op = "-"
        <5>1. last' = NoAnswer
          BY <4>2, Zenon DEF Tick
        <5> QED BY <5>1 DEF NoAnswer
      <4> QED BY <2>3, <4>1, <4>2, Zenon
    <3>3. last'.op \notin TaskOps
      BY <3>2 DEF TaskOps
    <3> QED BY <3>1, <3>3, Zenon DEF Served
  <2> QED BY <1>1, <2>1, <2>2, <2>3, Zenon DEF Next
<1>2. IndInv /\ [Next]_vars => [Served]_vars
  BY <1>1
<1> QED BY <1>2, Invariance, PTL DEF Spec, TokenHolderServed, Served
=============================================================================
