--------------------------- MODULE DeployPlanProofs ---------------------------
(***************************************************************************)
(* Proofs about DeployPlan for any servers, requests, answers of the       *)
(* models, provider orders and numbers of inventories.                     *)
(***************************************************************************)
EXTENDS DeployPlan, FiniteSetTheorems, TLAPS

(* Where a snapshot comes from.                                            *)
IsSnapshot(snap) ==
    \/ snap = NoSnapshot
    \/ \E s \in Servers : \/ snap = Unreachable(s)
                          \/ \E lost : snap = Collected(s, lost)

SnapInv == IsSnapshot(snapshot) /\ IsSnapshot(plannedFrom) /\ IsSnapshot(validatedOn)

(* The chain has gone through a prefix of the order.                       *)
Passed(p) == p \in tried \/ ~Enabled(p)

ChainInv ==
    /\ queue \in Seq(Providers)
    /\ pc \in {"idle", "asking"} => analyses = <<>>
    /\ analyses = <<>> \/ \E a \in Providers \cup {"none"} : analyses = <<a>>
    /\ pc = "asking" =>
         \E n \in 0..Len(config.order) :
            /\ queue = SubSeq(config.order, n + 1, Len(config.order))
            /\ \A i \in 1..n : Passed(config.order[i])

(* A plan that is not blocked has passed the schema and the policy, for    *)
(* the manager and the proxy of the snapshot it was made from.             *)
Approvable(p, snap) ==
    /\ p.manager = snap.manager /\ p.proxy = snap.proxy
    /\ p.rollback = "compose_snapshot"
    /\ SchemaErrors(p) = {} /\ Policy(p) = {}

PlanInv ==
    /\ plan.actions \in {<<>>, ComposeActions}
    /\ pc \notin {"idle", "asking", "answered"} /\ plan.risk # "blocked"
         => Approvable(plan, plannedFrom)

(* What the validator found.                                               *)
VerdictInv ==
    /\ pc \in {"running", "refused", "done"}
         => failed = Failures(plan, request, validatedOn)
    /\ pc \in {"running", "done"} => plan.risk # "blocked" /\ failed = {}

(* The executor stands before an action it has not checked.                *)
RunInv ==
    /\ run \in [step : Nat, error : {"none", "parameter", "server"}]
    /\ pc \notin {"running", "done"} => run = [step |-> 0, error |-> "none"]
    /\ \A i \in 1..run.step : ~Refused(plan.actions[i], request)
    /\ run.error = "parameter" =>
         /\ run.step < Len(plan.actions)
         /\ Refused(plan.actions[run.step + 1], request)

IInv == TypeOK /\ SnapInv /\ ChainInv /\ PlanInv /\ VerdictInv /\ RunInv
-----------------------------------------------------------------------------
(* The detectors *)

LEMMA KindNames == Kinds = {"traefik", "kamal_proxy", "nginx", "caddy"}
BY DEF Kinds, Proxies

LEMMA KindsFinite == IsFiniteSet(Kinds)
<1>1. Kinds = ((({} \cup {"traefik"}) \cup {"kamal_proxy"}) \cup {"nginx"}) \cup {"caddy"}
  BY KindNames
<1>2. IsFiniteSet({"traefik"})
  BY FS_Singleton
<1>3. IsFiniteSet({"traefik"} \cup {"kamal_proxy"})
  BY <1>2, FS_AddElement
<1>4. IsFiniteSet(({"traefik"} \cup {"kamal_proxy"}) \cup {"nginx"})
  BY <1>3, FS_AddElement
<1>5. IsFiniteSet((({"traefik"} \cup {"kamal_proxy"}) \cup {"nginx"}) \cup {"caddy"})
  BY <1>4, FS_AddElement
<1>6. Kinds = (({"traefik"} \cup {"kamal_proxy"}) \cup {"nginx"}) \cup {"caddy"}
  BY KindNames
<1> QED BY <1>5, <1>6

(* The proxy of a snapshot: the only kind found, or the only kind that     *)
(* publishes the public ports; with none found there is none, with several *)
(* the ownership is mixed.                                                 *)
LEMMA ProxyFound ==
  ASSUME NEW s, NEW lost
  PROVE  LET found == Found(s, lost)
             d == ReverseProxy(s, lost)
         IN  \/ /\ d.proxy \in found /\ d.manager = ManagerOf[d.proxy]
                /\ found = {d.proxy} \/ d.proxy \in Edges(s, lost)
             \/ d.proxy = "unknown" /\ d.manager = "mixed"
             \/ /\ d.proxy = "none" /\ found = {}
                /\ d.manager \in {"plain_docker", "none"}
<1> DEFINE found == Found(s, lost)
           edges == Edges(s, lost) \cap found
           one   == IF Cardinality(found) = 1 THEN found
                    ELSE IF Cardinality(edges) = 1 THEN edges ELSE {}
           k     == CHOOSE x \in one : TRUE
<1>1. ReverseProxy(s, lost) =
        IF one # {}
        THEN [manager |-> ManagerOf[k], proxy |-> k]
        ELSE IF found # {} THEN [manager |-> "mixed", proxy |-> "unknown"]
        ELSE IF Containers(s, lost)
        THEN [manager |-> "plain_docker", proxy |-> "none"]
        ELSE [manager |-> "none", proxy |-> "none"]
  BY DEF ReverseProxy
<1>2. CASE one # {}
  <2>1. k \in one
    BY <1>2
  <2>2. found \subseteq Kinds
    BY DEF Found, AsProcess
  <2>3. k \in found
    BY <2>1
  <2>4. found = {k} \/ k \in Edges(s, lost)
    <3>1. CASE Cardinality(found) = 1
      <4>1. IsFiniteSet(found)
        BY <2>2, KindsFinite, FS_Subset
      <4>2. \E x : found = {x}
        BY <3>1, <4>1, FS_Singleton
      <4> QED BY <2>3, <4>2
    <3>2. CASE Cardinality(found) # 1
      BY <2>1, <3>2
    <3> QED BY <3>1, <3>2
  <2>5. ReverseProxy(s, lost) = [manager |-> ManagerOf[k], proxy |-> k]
    BY <1>1, <1>2
  <2> HIDE DEF k, one
  <2> QED BY <2>3, <2>4, <2>5
<1>3. CASE one = {}
  <2> HIDE DEF one
  <2> QED BY <1>1, <1>3
<1> QED BY <1>2, <1>3

LEMMA ProxyFields ==
  ASSUME NEW s, NEW lost
  PROVE  \E m, x : ReverseProxy(s, lost) = [manager |-> m, proxy |-> x]
BY DEF ReverseProxy

LEMMA CollectedFields ==
  ASSUME NEW s, NEW lost
  PROVE  LET snap == Collected(s, lost)
             d == Refine(ReverseProxy(s, lost), s, lost)
         IN  /\ snap.manager = d.manager /\ snap.proxy = d.proxy
             /\ snap.routed = (s.routed /\ Seen(lost))
             /\ snap.busy = Listening(s, lost)
             /\ snap.docker \in {"v1", "v2"} /\ (snap.docker = "v2" => s.compose)
             /\ snap.complete = (lost = NoLoss) /\ snap.of = {s} /\ snap.sure
<1> DEFINE d == Refine(ReverseProxy(s, lost), s, lost)
<1> SUFFICES ASSUME NEW dd, dd = d
             PROVE  LET snap == Collected(s, lost)
                    IN  /\ snap.manager = dd.manager /\ snap.proxy = dd.proxy
                        /\ snap.routed = (s.routed /\ Seen(lost))
                        /\ snap.busy = Listening(s, lost)
                        /\ snap.docker \in {"v1", "v2"}
                        /\ snap.docker = "v2" => s.compose
                        /\ snap.complete = (lost = NoLoss)
                        /\ snap.of = {s} /\ snap.sure
  OBVIOUS
<1>1. Collected(s, lost) =
        [ok |-> TRUE, manager |-> dd.manager, proxy |-> dd.proxy, sure |-> TRUE,
         busy |-> Listening(s, lost), routed |-> s.routed /\ Seen(lost),
         docker |-> IF s.compose /\ "compose_version" \notin lost.commands
                    THEN "v2" ELSE "v1", complete |-> lost = NoLoss, of |-> {s}]
  BY DEF Collected
<1> QED BY <1>1

(* What a snapshot says of proxy and manager.                              *)
LEMMA SnapshotPair ==
  ASSUME NEW snap, IsSnapshot(snap)
  PROVE  \/ snap.proxy = "unknown" /\ snap.manager \in {"unknown", "mixed"}
         \/ snap.proxy = "none" /\ snap.manager \in {"plain_docker", "none"}
         \/ snap.proxy = "traefik" /\ snap.manager \in {"traefik", "kamal_v1"}
         \/ snap.proxy = "kamal_proxy" /\ snap.manager = "kamal_v2"
         \/ snap.proxy \in {"nginx", "caddy"} /\ snap.manager = snap.proxy
<1>1. CASE snap = NoSnapshot \/ \E s \in Servers : snap = Unreachable(s)
  BY <1>1 DEF NoSnapshot, Unreachable
<1>2. CASE \E s \in Servers : \E lost : snap = Collected(s, lost)
  <2>0. PICK s \in Servers : \E lost : snap = Collected(s, lost)
    BY <1>2
  <2>1. PICK lost : snap = Collected(s, lost)
    BY <2>0
  <2> DEFINE base == ReverseProxy(s, lost)
             d == Refine(base, s, lost)
  <2>2. snap.manager = d.manager /\ snap.proxy = d.proxy
    BY <2>1, CollectedFields
  <2>3. /\ d.proxy = base.proxy
        /\ d.manager = base.manager \/ (base.proxy = "traefik" /\ d.manager = "kamal_v1")
    BY ProxyFields DEF Refine
  <2>4. \/ base.proxy \in Kinds /\ base.manager = ManagerOf[base.proxy]
        \/ base.proxy = "unknown" /\ base.manager = "mixed"
        \/ base.proxy = "none" /\ base.manager \in {"plain_docker", "none"}
    <3>1. Found(s, lost) \subseteq Kinds
      BY DEF Found, AsProcess
    <3> QED BY <3>1, ProxyFound
  <2> HIDE DEF base, d
  <2> QED BY <2>2, <2>3, <2>4, KindNames DEF ManagerOf
<1> QED BY <1>1, <1>2 DEF IsSnapshot
-----------------------------------------------------------------------------
(* The planner and the executor's checks *)

LEMMA OrderType ==
  ASSUME NEW c \in Config
  PROVE  c.order \in Seq(Providers) /\ Len(c.order) \in Nat
<1>1. PICK n \in 0..Cardinality(Providers) : c.order \in [1..n -> Providers]
  BY DEF Config, Orders
<1> QED BY <1>1

(* What the planner stores is within the schema; what it does not block    *)
(* has passed the policy.                                                  *)
LEMMA FinishedPlan ==
  ASSUME NEW d, NEW a, NEW snap, NEW req, IsSnapshot(snap)
  PROVE  LET p == Finished(BuildPlan(d, a, snap, req))
         IN  /\ p.strategy \in Strategies /\ p.risk \in Risks
             /\ p.manager \in Managers /\ p.proxy \in Proxies
             /\ p.actions \in {<<>>, ComposeActions}
             /\ p.risk # "blocked" => Approvable(p, snap)
<1> DEFINE b == BuildPlan(d, a, snap, req)
           q == IF SchemaErrors(b) = {} THEN b
                ELSE [BlockedPlan EXCEPT !.questions = {"schema"}]
<1>1. /\ b.manager = snap.manager /\ b.proxy = snap.proxy
      /\ b.rollback = "compose_snapshot" /\ b.actions \in {<<>>, ComposeActions}
  BY DEF BuildPlan, DeploymentActions
<1>2. snap.manager \in Managers /\ snap.proxy \in Proxies
  BY SnapshotPair DEF Managers, Proxies
<1>3. SchemaErrors(b) = {} => b.strategy \in Strategies /\ b.risk \in Risks
  BY DEF SchemaErrors
<1>4. \E st, ri, qu, ma, pr, ac, ro :
        b = [strategy |-> st, risk |-> ri, questions |-> qu, manager |-> ma,
             proxy |-> pr, actions |-> ac, rollback |-> ro]
  BY DEF BuildPlan
<1>5. /\ q.strategy \in Strategies /\ q.risk \in Risks
      /\ q.manager \in Managers /\ q.proxy \in Proxies
      /\ q.actions \in {<<>>, ComposeActions}
      /\ q = b \/ q.risk = "blocked"
  <2>1. CASE SchemaErrors(b) = {}
    <3> HIDE DEF b
    <3> QED BY <1>1, <1>2, <1>3, <2>1
  <2>2. CASE SchemaErrors(b) # {}
    <3> HIDE DEF b
    <3>1. q = [BlockedPlan EXCEPT !.questions = {"schema"}]
      BY <2>2
    <3>2. /\ q.strategy = "manual_required" /\ q.risk = "blocked"
          /\ q.manager = "unknown" /\ q.proxy = "unknown" /\ q.actions = <<>>
      BY <3>1 DEF BlockedPlan, NoPlan
    <3> QED BY <3>2 DEF Strategies, Risks, Managers, Proxies
  <2> QED BY <2>1, <2>2
<1>6. PICK st, ri, qu, ma, pr, ac, ro :
        q = [strategy |-> st, risk |-> ri, questions |-> qu, manager |-> ma,
             proxy |-> pr, actions |-> ac, rollback |-> ro]
  <2> HIDE DEF b
  <2>1. CASE SchemaErrors(b) = {}
    BY <1>4, <2>1
  <2>2. CASE SchemaErrors(b) # {}
    BY <2>2 DEF BlockedPlan, NoPlan
  <2> QED BY <2>1, <2>2
<1>7. Finished(b) =
        IF Policy(q) = {} THEN q
        ELSE [q EXCEPT !.risk = "blocked", !.strategy = "manual_required",
                       !.questions = @ \cup {"policy"}]
  BY DEF Finished
<1> HIDE DEF b, q
<1>8. CASE Policy(q) = {}
  <2>1. q.risk # "blocked" => SchemaErrors(q) = {}
    BY <1>5 DEF SchemaErrors
  <2> QED BY <1>1, <1>5, <1>7, <1>8, <2>1 DEF Approvable, b
<1>9. CASE Policy(q) # {}
  <2>1. /\ Finished(b).strategy = "manual_required" /\ Finished(b).risk = "blocked"
        /\ Finished(b).manager = q.manager /\ Finished(b).proxy = q.proxy
        /\ Finished(b).actions = q.actions
    BY <1>6, <1>7, <1>9
  <2> QED BY <1>5, <2>1 DEF Strategies, Risks, b
<1> QED BY <1>8, <1>9

(* Nothing that is refused before the containers go up is let through, and *)
(* nothing is refused after.                                               *)
LEMMA UpIsFourth ==
  /\ Len(ComposeActions) = 5 /\ ComposeActions[1] = "CREATE_DIRECTORY"
  /\ ComposeActions[2] = "UPLOAD_FILE" /\ ComposeActions[3] = "DOCKER_COMPOSE_CONFIG"
  /\ ComposeActions[4] = "DOCKER_COMPOSE_UP" /\ ComposeActions[5] = "DOCKER_COMPOSE_PS"
BY DEF ComposeActions

LEMMA RefusedBeforeUp ==
  ASSUME NEW req, NEW n \in Nat, n < Len(ComposeActions),
         \A i \in 1..n : ~Refused(ComposeActions[i], req),
         Refused(ComposeActions[n + 1], req)
  PROVE  \A i \in 1..n : ComposeActions[i] # "DOCKER_COMPOSE_UP"
<1>1. n \in 0..4
  BY UpIsFourth
<1>2. CASE n \in 0..3
  BY <1>2, UpIsFourth
<1>3. CASE n = 4
  <2>1. ~Refused("DOCKER_COMPOSE_UP", req) /\ Refused("DOCKER_COMPOSE_PS", req)
    BY <1>3, UpIsFourth
  <2> QED BY <2>1 DEF Refused
<1> QED BY <1>1, <1>2, <1>3
-----------------------------------------------------------------------------
(* The invariant, one conjunct at a time *)

LEMMA SnapStep == TypeOK /\ SnapInv /\ [Next]_vars => SnapInv'
<1> SUFFICES ASSUME TypeOK, SnapInv, [Next]_vars PROVE SnapInv'
  OBVIOUS
<1>1. CASE Inventory
  <2>1. IsSnapshot(snapshot')
    <3>1. CASE snapshot' = Unreachable(server)
      BY <3>1 DEF IsSnapshot, TypeOK
    <3>2. CASE \E lost \in Losses(server) : snapshot' = Collected(server, lost)
      BY <3>2 DEF IsSnapshot, TypeOK
    <3> QED BY <1>1, <3>1, <3>2 DEF Inventory
  <2> QED BY <1>1, <2>1 DEF Inventory, SnapInv, planVars, checkVars
<1>2. CASE ~Inventory
  <2>1. /\ snapshot' = snapshot /\ plannedFrom' \in {plannedFrom, snapshot}
        /\ validatedOn' \in {validatedOn, snapshot}
    BY <1>2 DEF Next, Program, vars, ServerMoves, Ask, ProviderAnswers, ProviderFails,
       ChainExhausted, Plan, Validate, Step, RunEnds, planVars, checkVars
  <2> QED BY <2>1 DEF SnapInv
<1> QED BY <1>1, <1>2

(* Every provider of the order is passed in its turn.                      *)
LEMMA ChainStep == TypeOK /\ ChainInv /\ [Next]_vars => ChainInv'
<1> SUFFICES ASSUME TypeOK, ChainInv, [Next]_vars PROVE ChainInv'
  OBVIOUS
<1> DEFINE order == config.order
           Rest(n) == SubSeq(order, n + 1, Len(order))
<1>0. order \in Seq(Providers) /\ Len(order) \in Nat
  BY OrderType, DeployPlanAssumption DEF TypeOK
<1>1. CASE Ask
  <2>1. /\ UNCHANGED <<config, tried, analyses>> /\ pc = "idle"
        /\ \/ pc' = "answered" /\ queue' = <<>>
           \/ pc' = "asking" /\ queue' = order
    BY <1>1 DEF Ask
  <2>2. order = Rest(0)
    BY <1>0
  <2>3. queue' \in Seq(Providers)
    <3>1. <<>> \in Seq(Providers)
      OBVIOUS
    <3> QED BY <1>0, <2>1, <3>1
  <2>4. pc' = "asking" =>
          \E n \in 0..Len(order) :
             queue' = Rest(n) /\ \A i \in 1..n : Passed(order[i])'
    BY <1>0, <2>1, <2>2
  <2> QED BY <2>1, <2>3, <2>4 DEF ChainInv
<1>2. CASE ProviderAnswers
  <2>1. /\ Head(queue) \in Providers /\ analyses = <<>>
        /\ analyses' = Append(analyses, Head(queue))
        /\ queue' = <<>> /\ pc' = "answered"
    BY <1>2 DEF ProviderAnswers, ChainInv
  <2>2. analyses' = <<Head(queue)>>
    BY <2>1
  <2> QED BY <2>1, <2>2 DEF ChainInv
<1>3. CASE ProviderFails
  <2>1. /\ queue # <<>> /\ queue' = Tail(queue)
        /\ tried' = IF Enabled(Head(queue)) THEN tried \cup {Head(queue)} ELSE tried
        /\ UNCHANGED <<config, gordon, pc, analyses>> /\ pc = "asking"
        /\ analyses = <<>>
    BY <1>3 DEF ProviderFails, ChainInv
  <2>2. PICK n \in 0..Len(order) :
          /\ queue = Rest(n)
          /\ \A i \in 1..n : Passed(order[i])
    BY <2>1 DEF ChainInv
  <2>3. n + 1 \in 1..Len(order) /\ Head(queue) = order[n + 1] /\ Tail(queue) = Rest(n + 1)
    BY <1>0, <2>1, <2>2
  <2>4. \A q : Enabled(q)' = Enabled(q)
    BY <2>1 DEF Enabled
  <2>5. ASSUME NEW i \in 1..(n + 1) PROVE Passed(order[i])'
    <3>1. CASE i \in 1..n
      BY <2>1, <2>2, <2>4, <3>1 DEF Passed
    <3>2. CASE i = n + 1
      BY <2>1, <2>3, <2>4, <3>2 DEF Passed
    <3> QED BY <3>1, <3>2
  <2>6. queue' \in Seq(Providers)
    BY <1>3, <2>1 DEF ChainInv
  <2> HIDE DEF Passed
  <2>7. \E m \in 0..Len(order) :
          queue' = Rest(m) /\ \A i \in 1..m : Passed(order[i])'
    <3>1. n + 1 \in 0..Len(order) /\ queue' = Rest(n + 1)
      BY <1>0, <2>1, <2>3
    <3> HIDE DEF Rest
    <3> QED BY <2>5, <3>1
  <2> QED BY <2>1, <2>6, <2>7 DEF ChainInv
<1>4. CASE ChainExhausted
  <2>1. /\ pc' = "answered" /\ analyses = <<>> /\ queue' = queue
        /\ analyses' = Append(analyses, "none")
    BY <1>4 DEF ChainExhausted, ChainInv
  <2>2. analyses' = <<"none">>
    BY <2>1
  <2> QED BY <2>1, <2>2 DEF ChainInv
<1>5. CASE ~Ask /\ ~ProviderAnswers /\ ~ProviderFails /\ ~ChainExhausted
  <2>1. /\ UNCHANGED <<chainVars, gordon>>
        /\ pc' \in {"idle", "asking"} => pc' = pc
    BY <1>5 DEF Next, Program, vars, ServerMoves, Inventory, Plan, Validate, Step,
       RunEnds
  <2>2. \A q : Passed(q)' = Passed(q)
    BY <2>1 DEF Passed, Enabled, chainVars
  <2> QED BY <2>1, <2>2 DEF ChainInv, chainVars
<1> QED BY <1>1, <1>2, <1>3, <1>4, <1>5

LEMMA PlanStep == TypeOK /\ SnapInv /\ PlanInv /\ [Next]_vars => PlanInv'
<1> SUFFICES ASSUME TypeOK, SnapInv, PlanInv, [Next]_vars PROVE PlanInv'
  OBVIOUS
<1>1. CASE Plan
  <2>1. PICK d : plan' = Finished(BuildPlan(d, answer, plannedFrom, request))
    BY <1>1 DEF Plan
  <2>2. plannedFrom' = plannedFrom
    BY <1>1 DEF Plan
  <2> QED BY <2>1, <2>2, FinishedPlan DEF PlanInv, SnapInv
<1>2. CASE ~Plan
  <2>1. /\ plan' = plan
        /\ \/ plannedFrom' = plannedFrom
           \/ pc' \in {"asking", "answered"}
        /\ pc' \notin {"idle", "asking", "answered"}
             => pc \notin {"idle", "asking", "answered"}
    BY <1>2 DEF Next, Program, vars, ServerMoves, Inventory, Ask, ProviderAnswers,
       ProviderFails, ChainExhausted, Validate, Step, RunEnds, planVars
  <2> QED BY <2>1 DEF PlanInv
<1> QED BY <1>1, <1>2

LEMMA VerdictStep == TypeOK /\ VerdictInv /\ [Next]_vars => VerdictInv'
<1> SUFFICES ASSUME TypeOK, VerdictInv, [Next]_vars PROVE VerdictInv'
  OBVIOUS
<1>1. CASE Validate
  BY <1>1 DEF Validate, VerdictInv, planVars
<1>2. CASE ~Validate
  <2>1. \/ /\ pc' \in {"running", "refused", "done"} => pc \in {"running", "refused", "done"}
           /\ pc' \in {"running", "done"} => pc \in {"running", "done"}
           /\ UNCHANGED <<plan, request, failed, validatedOn>>
        \/ pc' \in {"asking", "answered", "planned"}
    BY <1>2 DEF Next, Program, vars, ServerMoves, Inventory, Ask, ProviderAnswers,
       ProviderFails, ChainExhausted, Plan, Step, RunEnds, planVars, checkVars
  <2> QED BY <2>1 DEF VerdictInv
<1> QED BY <1>1, <1>2

LEMMA RunStep == TypeOK /\ RunInv /\ [Next]_vars => RunInv'
<1> SUFFICES ASSUME TypeOK, RunInv, [Next]_vars PROVE RunInv'
  OBVIOUS
<1>1. CASE Step
  <2> DEFINE action == plan.actions[run.step + 1]
  <2>1. /\ pc = "running" /\ run.step < Len(plan.actions) /\ UNCHANGED <<plan, request>>
        /\ run.step \in Nat
        /\ \A i \in 1..run.step : ~Refused(plan.actions[i], request)
    BY <1>1 DEF Step, planVars, RunInv
  <2>2. CASE Refused(action, request) /\ run' = [run EXCEPT !.error = "parameter"]
               /\ pc' = "done"
    BY <2>1, <2>2 DEF RunInv
  <2>3. CASE ~Refused(action, request) /\ run' = [run EXCEPT !.step = @ + 1]
               /\ UNCHANGED pc
    <3>1. run'.step = run.step + 1 /\ run'.error = run.error
      BY <2>3 DEF RunInv
    <3>2. \A i \in 1..run'.step : ~Refused(plan.actions[i], request)
      BY <2>1, <2>3, <3>1
    <3>3. run' \in [step : Nat, error : {"none", "parameter", "server"}]
      BY <2>1, <2>3 DEF RunInv
    <3>4. run.error # "parameter"
      BY <2>1, <2>3 DEF RunInv
    <3> QED BY <2>1, <2>3, <3>1, <3>2, <3>3, <3>4 DEF RunInv
  <2>4. CASE ~Refused(action, request) /\ run' = [run EXCEPT !.error = "server"]
               /\ pc' = "done"
    BY <2>1, <2>4 DEF RunInv
  <2> QED BY <1>1, <2>2, <2>3, <2>4 DEF Step
<1>2. CASE ~Step
  <2>1. /\ UNCHANGED run
        /\ pc' \in {"running", "done"} \/ pc \in {"running", "done"} => UNCHANGED plan
        /\ pc \in {"running", "done"} => pc' \in {"running", "done"}
        /\ UNCHANGED request
    BY <1>2 DEF Next, Program, vars, ServerMoves, Inventory, Ask, ProviderAnswers,
       ProviderFails, ChainExhausted, Plan, Validate, RunEnds, planVars, checkVars
  <2>2. CASE pc \in {"running", "done"}
    BY <2>1, <2>2 DEF RunInv
  <2>3. CASE pc \notin {"running", "done"}
    BY <2>1, <2>3 DEF RunInv
  <2> QED BY <2>2, <2>3
<1> QED BY <1>1, <1>2
LEMMA TypeStep ==
  TypeOK /\ SnapInv /\ ChainInv /\ PlanInv /\ RunInv /\ [Next]_vars => TypeOK'
<1> SUFFICES ASSUME TypeOK, SnapInv, ChainInv, PlanInv, RunInv, [Next]_vars
             PROVE  TypeOK'
  OBVIOUS
<1>1. /\ server' \in Servers /\ request' \in Requests /\ config' \in Configs
      /\ gordon' \in {"unknown", "yes", "no"}
      /\ pc' \in {"idle", "asking", "answered", "planned", "running", "refused", "done"}
      /\ moves' \in 0..MaxMoves /\ inventories' \in 0..MaxInventories
  BY DeployPlanAssumption DEF TypeOK, Next, Program, vars, ServerMoves, Inventory, Ask,
     Probed, ProviderAnswers, ProviderFails, ChainExhausted, Plan, Validate, Step,
     RunEnds, chainVars
<1>2. {queue'[i] : i \in DOMAIN queue'} \cup tried' \subseteq Providers
  <2>1. ChainInv'
    BY ChainStep
  <2>2. ASSUME NEW q \in Seq(Providers), NEW i \in DOMAIN q PROVE q[i] \in Providers
    OBVIOUS
  <2>3. tried' \subseteq Providers
    <3>1. CASE ProviderFails
      <4>1. Head(queue) \in Providers
        BY <3>1 DEF ProviderFails, ChainInv
      <4> QED BY <3>1, <4>1 DEF ProviderFails, TypeOK
    <3>2. CASE ~ProviderFails
      BY <3>2 DEF TypeOK, Next, Program, vars, ServerMoves, Inventory, Ask,
         ProviderAnswers, ChainExhausted, Plan, Validate, Step, RunEnds, chainVars
    <3> QED BY <3>1, <3>2
  <2> QED BY <2>1, <2>2, <2>3 DEF ChainInv
<1>3. answer'.by \in Providers \cup {"none"} /\ answer'.ok \in BOOLEAN
  <2>1. CASE ProviderAnswers
    <3>1. Head(queue) \in Providers
      BY <2>1 DEF ProviderAnswers, ChainInv
    <3> QED BY <2>1, <3>1 DEF ProviderAnswers
  <2>2. CASE ~ProviderAnswers
    BY <2>2 DEF TypeOK, Next, Program, vars, ServerMoves, Inventory, Ask,
       ProviderFails, ChainExhausted, Plan, Validate, Step, RunEnds, chainVars
  <2> QED BY <2>1, <2>2
<1>4. Len(analyses') <= 1
  <2>1. analyses' = <<>> \/ \E a : analyses' = <<a>>
    BY ChainStep DEF ChainInv
  <2>2. Len(<<>>) = 0 /\ \A a : Len(<<a>>) = 1
    OBVIOUS
  <2>3. CASE analyses' = <<>>
    BY <2>2, <2>3
  <2>4. CASE \E a : analyses' = <<a>>
    BY <2>2, <2>4
  <2> QED BY <2>1, <2>3, <2>4
<1>5. \A snap \in {snapshot', plannedFrom', validatedOn'} :
         snap.manager \in Managers /\ snap.proxy \in Proxies
  BY SnapStep, SnapshotPair DEF SnapInv, Managers, Proxies
<1>6. /\ plan'.strategy \in Strategies \cup {"none"} /\ plan'.risk \in Risks \cup {"none"}
      /\ plan'.manager \in Managers /\ plan'.proxy \in Proxies
  <2>1. CASE Plan
    <3>1. PICK d : plan' = Finished(BuildPlan(d, answer, plannedFrom, request))
      BY <2>1 DEF Plan
    <3> QED BY <3>1, FinishedPlan DEF SnapInv
  <2>2. CASE ~Plan
    BY <2>2 DEF TypeOK, Next, Program, vars, ServerMoves, Inventory, Ask,
       ProviderAnswers, ProviderFails, ChainExhausted, Validate, Step, RunEnds, planVars
  <2> QED BY <2>1, <2>2
<1>7. run'.step \in 0..Len(plan'.actions) /\ run'.error \in {"none", "parameter", "server"}
  <2>1. Len(plan.actions) \in Nat /\ Len(plan'.actions) \in Nat
    BY PlanStep, UpIsFourth DEF PlanInv
  <2>2. run'.error \in {"none", "parameter", "server"} /\ run'.step \in Nat
    BY RunStep DEF RunInv
  <2>3. CASE Plan
    <3>1. run' = [step |-> 0, error |-> "none"]
      BY <2>3 DEF Plan, checkVars, RunInv
    <3> QED BY <2>1, <2>2, <3>1
  <2>4. CASE ~Plan
    <3>1. /\ plan' = plan
          /\ \/ run'.step = run.step
             \/ run'.step = run.step + 1 /\ run.step < Len(plan.actions)
      <4>1. CASE Step
        BY <4>1 DEF Step, RunInv, planVars
      <4>2. CASE ~Step
        <5>1. plan' = plan /\ run' = run
          BY <2>4, <4>2 DEF Next, Program, vars, ServerMoves, Inventory, Ask,
             ProviderAnswers, ProviderFails, ChainExhausted, Validate, RunEnds,
             planVars, checkVars
        <5> QED BY <5>1
      <4> QED BY <4>1, <4>2
    <3> QED BY <2>1, <2>2, <3>1 DEF TypeOK
  <2> QED BY <2>2, <2>3, <2>4
<1> QED BY <1>1, <1>2, <1>3, <1>4, <1>5, <1>6, <1>7 DEF TypeOK

LEMMA InitIInv == Init => IInv
<1> SUFFICES ASSUME Init PROVE IInv
  OBVIOUS
<1>1. SnapInv
  BY DEF Init, SnapInv, IsSnapshot
<1>2. ChainInv /\ VerdictInv
  BY DEF Init, ChainInv, VerdictInv
<1>3. PlanInv
  BY DEF Init, PlanInv, NoPlan
<1>4. RunInv
  BY DEF Init, RunInv
<1>5. TypeOK
  BY DeployPlanAssumption DEF Init, TypeOK, NoAnswer, NoSnapshot, NoPlan, Managers,
     Proxies, Strategies, Risks
<1> QED BY <1>1, <1>2, <1>3, <1>4, <1>5 DEF IInv

LEMMA Inductive == Spec => []IInv
<1>1. IInv /\ [Next]_vars => IInv'
  BY TypeStep, SnapStep, ChainStep, PlanStep, VerdictStep, RunStep DEF IInv
<1> QED BY <1>1, InitIInv, PTL DEF Spec

(* Once the chain has ended, everything before its answer was passed.      *)
FallInv ==
    analyses # <<>> =>
        \A i \in DOMAIN config.order :
            Passed(config.order[i]) \/ \E j \in 1..i : config.order[j] = analyses[1]

LEMMA FallStep == IInv /\ FallInv /\ [Next]_vars => FallInv'
<1> SUFFICES ASSUME IInv, FallInv, [Next]_vars, analyses' # <<>>,
                    NEW i \in DOMAIN config.order'
             PROVE  \/ Passed(config.order[i])'
                    \/ \E j \in 1..i : config.order[j]' = analyses[1]'
  <2> HIDE DEF Passed
  <2> QED BY DEF FallInv
<1> DEFINE order == config.order
           Rest(n) == SubSeq(order, n + 1, Len(order))
<1>0. order \in Seq(Providers) /\ Len(order) \in Nat
  BY OrderType, DeployPlanAssumption DEF IInv, TypeOK
<1>1. CASE ProviderAnswers \/ ChainExhausted
  <2>1. /\ pc = "asking" /\ analyses = <<>> /\ UNCHANGED <<config, tried, gordon>>
        /\ \/ queue # <<>> /\ analyses' = Append(analyses, Head(queue))
           \/ queue = <<>>
    BY <1>1 DEF ProviderAnswers, ChainExhausted, IInv, ChainInv
  <2>2. PICK n \in 0..Len(order) :
          queue = Rest(n) /\ \A k \in 1..n : Passed(order[k])
    BY <2>1 DEF IInv, ChainInv
  <2>3. i \in 1..Len(order) /\ Passed(order[i])' = Passed(order[i])
    BY <1>0, <2>1 DEF Passed, Enabled
  <2>4. CASE i <= n
    BY <2>1, <2>2, <2>3, <2>4
  <2>5. CASE i > n
    <3>1. n + 1 \in 1..i /\ n + 1 <= Len(order)
      BY <1>0, <2>3, <2>5
    <3>2. queue # <<>> /\ Head(queue) = order[n + 1]
      <4>1. Len(queue) = Len(order) - n /\ queue[1] = order[n + 1]
        BY <1>0, <2>2, <3>1
      <4>2. queue \in Seq(Providers)
        BY DEF IInv, ChainInv
      <4> QED BY <1>0, <3>1, <4>1, <4>2
    <3>3. analyses' = <<order[n + 1]>>
      BY <2>1, <3>2
    <3> QED BY <2>1, <3>1, <3>3 DEF order
  <2> QED BY <2>3, <2>4, <2>5
<1>2. CASE ~ProviderAnswers /\ ~ChainExhausted
  <2>1. /\ analyses' = analyses /\ ~Ask /\ ~ProviderFails
    BY <1>2 DEF IInv, ChainInv, Next, Program, vars, ServerMoves, Inventory, Ask,
       ProviderFails, Plan, Validate, Step, RunEnds, chainVars
  <2>2. UNCHANGED <<config, tried, gordon>>
    BY <1>2, <2>1 DEF Next, Program, vars, ServerMoves, Inventory, Plan, Validate,
       Step, RunEnds, chainVars
  <2> QED BY <2>1, <2>2 DEF FallInv, Passed, Enabled
<1> QED BY <1>1, <1>2

-----------------------------------------------------------------------------
(* The theorems *)

(* Every variable stays within its type, for any servers and answers: the  *)
(* planner emits known strategies, risks and actions only (planner.py).    *)
THEOREM TypeCorrect == Spec => []TypeOK
<1>1. IInv => TypeOK  BY DEF IInv
<1> QED BY <1>1, Inductive, PTL

(* A parameter the executor refuses stops a run before the containers were *)
(* started, whatever the request (execute_plan of executor.py).            *)
THEOREM StopsBeforeUp == Spec => []ParameterStopsBeforeUp
<1>1. IInv => ParameterStopsBeforeUp
  <2> SUFFICES ASSUME IInv, run.error = "parameter"
               PROVE  \A i \in 1..run.step : plan.actions[i] # "DOCKER_COMPOSE_UP"
    BY DEF ParameterStopsBeforeUp
  <2>1. /\ run.step \in Nat /\ run.step < Len(plan.actions)
        /\ plan.actions \in {<<>>, ComposeActions}
        /\ \A i \in 1..run.step : ~Refused(plan.actions[i], request)
        /\ Refused(plan.actions[run.step + 1], request)
    BY DEF IInv, RunInv, PlanInv
  <2>2. plan.actions = ComposeActions
    BY <2>1
  <2> QED BY <2>1, <2>2, RefusedBeforeUp
<1> QED BY <1>1, Inductive, PTL

(* Whatever inventory the validator uses and whatever was lost from it or  *)
(* from the one of the planner, a plan that is not blocked fails for what  *)
(* the planner does not look at only (validator.py, check_policy).         *)
THEOREM DraftPasses == Spec => []DraftPassesValidator
<1>1. IInv => DraftPassesValidator
  <2> SUFFICES ASSUME IInv, pc \in {"running", "refused"}, plan.risk # "blocked"
               PROVE  failed \subseteq {"proxy_ports", "compose_v2", "domain"}
    BY DEF DraftPassesValidator
  <2>1. Approvable(plan, plannedFrom) /\ failed = Failures(plan, request, validatedOn)
    BY DEF IInv, PlanInv, VerdictInv
  <2>2. /\ SchemaErrors(plan) = {} /\ Policy(plan) = {} /\ RollbackFailures(plan) = {}
        /\ plan.manager = plannedFrom.manager /\ plan.proxy = plannedFrom.proxy
    BY <2>1 DEF Approvable, RollbackFailures
  <2>3. RoutingFailures(plan, validatedOn) \subseteq {"proxy_ports"}
    <3>1. \/ plan.proxy = "unknown" /\ plan.manager \in {"unknown", "mixed"}
          \/ plan.proxy = "none" /\ plan.manager \in {"plain_docker", "none"}
          \/ plan.proxy = "traefik" /\ plan.manager \in {"traefik", "kamal_v1"}
          \/ plan.proxy = "kamal_proxy" /\ plan.manager = "kamal_v2"
          \/ plan.proxy \in {"nginx", "caddy"} /\ plan.manager = plan.proxy
      BY <2>2, SnapshotPair DEF IInv, SnapInv
    <3>2. plan.manager \in {"unknown", "mixed"} => plan.strategy \in Manual
      BY <2>2 DEF Policy
    <3>3. plan.proxy = "kamal_proxy" => plan.strategy # "reuse_existing_traefik"
      BY <2>2 DEF Policy
    <3> QED BY <3>1, <3>2, <3>3 DEF RoutingFailures
  <2> QED BY <2>1, <2>2, <2>3 DEF Failures, DomainFailures, ComposeFailures
<1> QED BY <1>1, Inductive, PTL

(* With the same complete inventory on both sides, a plan that runs fits   *)
(* the server it was collected from (collect_inventory, the detectors and  *)
(* the routing checks of validator.py).                                    *)
THEOREM AcceptedFits == Spec => []AcceptedFitsServer
<1>1. IInv => AcceptedFitsServer
  <2> SUFFICES ASSUME IInv, pc = "running", plannedFrom.complete, validatedOn.complete,
                      plannedFrom.of = validatedOn.of, NEW s \in validatedOn.of
               PROVE  Fits(s)
    BY DEF AcceptedFitsServer
  <2> DEFINE snap == Collected(s, NoLoss)
             found == Found(s, NoLoss)
             public == {k \in Kinds : s.seat[k] \in {"edge", "host"}}
  <2>1. ASSUME NEW x, IsSnapshot(x), x.complete, s \in x.of
        PROVE  x = snap /\ s \in Servers
    <3>1. ~NoSnapshot.complete /\ \A t : ~Unreachable(t).complete
      BY DEF Unreachable, NoSnapshot
    <3>2. PICK t \in Servers : \E lost : x = Collected(t, lost)
      BY <2>1, <3>1 DEF IsSnapshot
    <3>3. PICK lost : x = Collected(t, lost)
      BY <3>2
    <3>4. lost = NoLoss /\ x.of = {t}
      BY <2>1, <3>3, CollectedFields
    <3> QED BY <2>1, <3>3, <3>4
  <2>2. plannedFrom = snap /\ validatedOn = snap /\ s \in Servers
    BY <2>1 DEF IInv, SnapInv
  <2>3. /\ Approvable(plan, snap) /\ Failures(plan, request, snap) = {}
    BY <2>2 DEF IInv, PlanInv, VerdictInv
  <2>4. /\ plan.proxy = snap.proxy /\ plan.manager = snap.manager /\ Policy(plan) = {}
        /\ RoutingFailures(plan, snap) = {} /\ DomainFailures(request, snap) = {}
        /\ ComposeFailures(plan, snap) = {}
    BY <2>3 DEF Approvable, Failures
  <2>5. public \subseteq found
    <3>1. s.seat["kamal_proxy"] # "host"
      BY <2>2, DeployPlanAssumption
    <3> QED BY <3>1 DEF Found, AsProcess, Seen, NoLoss
  <2>6. \/ /\ plan.proxy \in found
           /\ found = {plan.proxy} \/ s.seat[plan.proxy] = "edge"
        \/ plan.proxy = "unknown" /\ plan.manager = "mixed"
        \/ plan.proxy = "none" /\ found = {}
    <3> DEFINE base == ReverseProxy(s, NoLoss)
    <3>1. /\ snap.proxy = base.proxy
          /\ base.proxy # "traefik" => snap.manager = base.manager
      <4> HIDE DEF base
      <4>1. /\ snap.proxy = Refine(base, s, NoLoss).proxy
            /\ snap.manager = Refine(base, s, NoLoss).manager
        BY CollectedFields DEF base
      <4>2. \E m, x : base = [manager |-> m, proxy |-> x]
        BY ProxyFields DEF base
      <4> QED BY <4>1, <4>2 DEF Refine
    <3>2. \/ /\ base.proxy \in found
             /\ found = {base.proxy} \/ base.proxy \in Edges(s, NoLoss)
          \/ base.proxy = "unknown" /\ base.manager = "mixed"
          \/ base.proxy = "none" /\ found = {}
      BY ProxyFound
    <3> HIDE DEF base, found
    <3> QED BY <2>4, <3>1, <3>2 DEF Edges
  <2>7. plan.strategy = "docker_compose_with_host_port" => public = {}
    <3> SUFFICES ASSUME plan.strategy = "docker_compose_with_host_port"
                 PROVE  public = {}
      OBVIOUS
    <3>1. plan.proxy \notin Kinds /\ plan.manager # "mixed"
      BY <2>4 DEF RoutingFailures, Manual
    <3>2. found \subseteq Kinds
      BY DEF Found, AsProcess
    <3> QED BY <2>5, <2>6, <3>1, <3>2
  <2>8. plan.strategy = "reuse_existing_traefik"
          => public = {} \/ s.seat.traefik \in {"edge", "host"}
    <3> SUFFICES ASSUME plan.strategy = "reuse_existing_traefik"
                 PROVE  public = {} \/ s.seat.traefik \in {"edge", "host"}
      OBVIOUS
    <3>1. plan.proxy \notin {"nginx", "caddy", "kamal_proxy"} /\ plan.manager # "mixed"
      BY <2>4 DEF Policy, Manual
    <3>2. found \subseteq Kinds
      BY DEF Found, AsProcess
    <3>3. found = {} \/ found = {"traefik"} \/ s.seat["traefik"] = "edge"
      BY <2>6, <3>1, <3>2, KindNames
    <3> QED BY <2>5, <3>3
  <2>9. request.domain = "lower" => ~s.routed
    BY <2>4, CollectedFields DEF DomainFailures, Seen, NoLoss
  <2>10. plan.actions # <<>> => s.compose
    <3>1. plan.actions # <<>> => snap.docker # "v1"
      BY <2>4 DEF ComposeFailures
    <3>2. snap.docker \in {"v1", "v2"} /\ (snap.docker = "v2" => s.compose)
      BY CollectedFields
    <3> QED BY <3>1, <3>2
  <2> QED BY <2>7, <2>8, <2>9, <2>10 DEF Fits
<1> QED BY <1>1, Inductive, PTL

(* The answer is of the first provider of the order that gave one, for any *)
(* order and any enabled providers (run_analysis).                         *)
THEOREM FirstInOrder == Spec => []FallbackInOrder
<1>1. FallInv => FallbackInOrder
  BY DEF FallInv, FallbackInOrder, Passed, Enabled
<1>2. Init => FallInv
  BY DEF Init, FallInv
<1>3. IInv /\ FallInv /\ [Next]_vars => FallInv'
  BY FallStep
<1> QED BY <1>1, <1>2, <1>3, Inductive, PTL DEF Spec
=============================================================================
