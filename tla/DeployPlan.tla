------------------------------ MODULE DeployPlan ------------------------------
(***************************************************************************)
(* From a server to a deployment plan and back: the inventory              *)
(* (docker_deployment_ai/inventory.py and the detectors), the chain of AI  *)
(* providers (docker_ai_provider.py and its clients), the planner with its *)
(* schema and policy (planner.py, plan_schema.py, policy.py), the          *)
(* validator (validator.py) and the parameter checks the executor makes    *)
(* when it reaches an action (executor.py, param_validators.py).           *)
(*                                                                         *)
(* One target and one plan request.  What the modules decide is a chain of *)
(* pure functions; what goes on between them is not: commands of the       *)
(* inventory fail in any number, the server moves between two inventories, *)
(* providers come, go and answer rubbish.  Texts are classes: a compose    *)
(* file name is one of the kinds the two file name rules tell apart.       *)
(***************************************************************************)
EXTENDS Naturals, Sequences, FiniteSets

CONSTANTS
    Servers,      \* states the server may be in
    Requests,     \* plan requests that may be made
    Answers,      \* what a model may say once its text is parsed
    Configs,      \* settings: provider order, enabled providers, Gordon required
    MaxInventories, MaxMoves    \* bounds for TLC

Managers   == {"none", "plain_docker", "traefik", "kamal_v1", "kamal_v2",
               "nginx", "caddy", "mixed", "unknown"}
Proxies    == {"none", "traefik", "kamal_proxy", "nginx", "caddy", "unknown"}
Kinds      == Proxies \ {"none", "unknown"}
Strategies == {"docker_compose_private", "docker_compose_with_host_port",
               "reuse_existing_traefik", "kamal_v1_compatible",
               "kamal_v2_compatible", "behind_existing_nginx",
               "behind_existing_caddy", "no_public_exposure",
               "manual_required", "abort"}
Manual     == {"manual_required", "abort"}
Risks      == {"low", "medium", "high", "blocked"}
Providers  == {"gordon", "docker_agent", "model_runner", "litellm"}

(* PreferredStrategy: five of its names are not names of a strategy.       *)
Preferences == {"auto_detect", "docker_compose_private",
                "docker_compose_with_host_port", "existing_traefik", "kamal_v1",
                "kamal_v2", "existing_nginx", "existing_caddy",
                "no_public_exposure"}

(* Where a proxy sits: not there, in a container that publishes neither 80 *)
(* nor 443 (an application that embeds it, or a stopped one), in one that  *)
(* publishes them, or as a service of the host.                            *)
Seats == {"absent", "inner", "edge", "host"}

(* other: something outside Kinds listens on 80 or 443; apps: other        *)
(* containers run; kamal: names that look like Kamal v1; routed: a router  *)
(* rule for the wanted domain exists; compose: Compose v2 is installed.    *)
Server == [seat : [Kinds -> Seats], other : BOOLEAN, apps : BOOLEAN,
           kamal : SUBSET {"containers", "network"}, routed : BOOLEAN,
           compose : BOOLEAN]

(* Remote commands whose failure leaves an empty string, each on its own:  *)
(* a daemon that is down takes docker ps and networks along, a connection  *)
(* that drops everything after it.                                         *)
Commands == {"docker_ps", "ss", "networks", "compose_version"}

(* Lost too: the docker inspect of a container, one call for each, and the *)
(* sight of a process, which systemctl or ps aux would give.               *)
NoLoss == [commands |-> {}, inspects |-> {}, services |-> {}]

(* name: the class of repo_context["compose_file"]: one both rules accept, *)
(* one that starts with an underscore, one with two dots in a row, one     *)
(* with characters neither accepts.                                        *)
Request == [prefers : Preferences, path : {"none", "relative", "absolute"},
            content : {"none", "fits", "oversize"},
            name : {"plain", "underscore", "dots", "unsafe"},
            domain : {"none", "lower", "mixed"}]

(* other: a text outside the enumeration of the schema.                    *)
Answer == [strategy : Strategies \cup {"other"}, risk : Risks \cup {"other"},
           asks : BOOLEAN]

Orders == UNION {[1..n -> Providers] : n \in 0..Cardinality(Providers)}
Config == [order : Orders, enabled : SUBSET Providers, required : BOOLEAN]

(* kamal-proxy always runs in a container.                                 *)
ASSUME DeployPlanAssumption ==
    /\ Servers \subseteq {s \in Server : s.seat["kamal_proxy"] # "host"}
    /\ Requests \subseteq Request
    /\ Answers \subseteq Answer
    /\ Configs \subseteq Config
    /\ {MaxInventories, MaxMoves} \subseteq Nat

VARIABLES
    server,      \* the machine (external)
    snapshot,    \* latest inventory row
    gordon,      \* the cached probe of `docker ai`
    config,      \* settings of the process
    pc,          \* where the request is
    request,     \* the plan request
    queue,       \* providers still to try
    tried,       \* history: providers that were tried and failed
    answer,      \* ai_result
    analyses,    \* docker_ai_analyses rows: the provider of each
    plan,        \* deployment_plans row
    plannedFrom, \* history: the snapshot the plan was made from
    failed,      \* blocking checks of the latest validation
    validatedOn, \* history: the snapshot it used
    run,         \* [step, error] of the executor
    moves, inventories      \* counters of the bounded actions

chainVars == <<config, queue, tried, answer, analyses>>
planVars  == <<plan, plannedFrom>>
checkVars == <<failed, validatedOn, run>>
vars == <<server, snapshot, gordon, pc, request, chainVars, planVars, checkVars,
          moves, inventories>>

NoAnswer   == [by |-> "none", ok |-> FALSE, strategy |-> "none", risk |-> "none",
               asks |-> FALSE]
NoSnapshot == [ok |-> FALSE, manager |-> "unknown", proxy |-> "unknown",
               sure |-> FALSE, busy |-> FALSE, routed |-> FALSE,
               docker |-> "unprobed", complete |-> FALSE, of |-> {}]
NoPlan     == [strategy |-> "none", risk |-> "none", questions |-> {},
               manager |-> "unknown", proxy |-> "unknown", actions |-> <<>>,
               rollback |-> "none"]

-----------------------------------------------------------------------------
(* Inventory and detection *)

(* docker ps gives names, images and labels of all containers or, when it  *)
(* fails, an empty text that parses as no container at all.                *)
Seen(lost) == "docker_ps" \notin lost.commands

(* Published ports come from the docker inspect of the container.          *)
Inspected(k, lost) == Seen(lost) /\ k \notin lost.inspects

(* systemctl tells the services of the host, ps aux the processes of the   *)
(* host, those of its containers among them.  Nobody looks for kamal-proxy. *)
AsProcess(s, lost) ==
    {k \in Kinds \ {"kamal_proxy"} : s.seat[k] # "absent" /\ k \notin lost.services}

(* ss, or netstat when it says nothing.                                    *)
Listening(s, lost) ==
    /\ "ss" \notin lost.commands
    /\ s.other \/ \E k \in Kinds : s.seat[k] \in {"edge", "host"}

(* Mutant: an application container that embeds a proxy counts as one that *)
(* publishes the public ports.                                             *)
EdgesAnyContainer(s, lost) ==
    {k \in Kinds : s.seat[k] \in {"inner", "edge"} /\ Seen(lost)}

Edges(s, lost) == {k \in Kinds : s.seat[k] = "edge" /\ Inspected(k, lost)}

Found(s, lost) ==
    AsProcess(s, lost) \cup
        {k \in Kinds : s.seat[k] \in {"inner", "edge"} /\ Seen(lost)}

Containers(s, lost) ==
    /\ Seen(lost)
    /\ \/ s.apps \/ "containers" \in s.kamal
       \/ \E k \in Kinds : s.seat[k] \in {"inner", "edge"}

ManagerOf == [kamal_proxy |-> "kamal_v2", traefik |-> "traefik",
              nginx |-> "nginx", caddy |-> "caddy"]

(* One kind found, or one that publishes the public ports among several,   *)
(* is the proxy; otherwise several are "mixed".                            *)
ReverseProxy(s, lost) ==
    LET found == Found(s, lost)
        edges == Edges(s, lost) \cap found
        one   == IF Cardinality(found) = 1 THEN found
                 ELSE IF Cardinality(edges) = 1 THEN edges ELSE {}
    IN  IF one # {}
        THEN LET k == CHOOSE k \in one : TRUE
             IN [manager |-> ManagerOf[k], proxy |-> k]
        ELSE IF found # {} THEN [manager |-> "mixed", proxy |-> "unknown"]
        ELSE IF Containers(s, lost)
        THEN [manager |-> "plain_docker", proxy |-> "none"]
        ELSE [manager |-> "none", proxy |-> "none"]

(* Kamal v1 is Traefik with two of its three signals.  The third, and the  *)
(* one for Kamal v2, look for a block in the text of deploy.yml, but what  *)
(* the inventory passes is the word "found" or "not_found".                *)
Refine(base, s, lost) ==
    LET signals == {x \in s.kamal : IF x = "containers" THEN Seen(lost)
                                    ELSE "networks" \notin lost.commands}
    IN  IF base.proxy = "traefik" /\ Cardinality(signals) >= 2
        THEN [base EXCEPT !.manager = "kamal_v1"] ELSE base

Collected(s, lost) ==
    LET d == Refine(ReverseProxy(s, lost), s, lost)
    IN  [ok |-> TRUE, manager |-> d.manager, proxy |-> d.proxy, sure |-> TRUE,
         busy |-> Listening(s, lost), routed |-> s.routed /\ Seen(lost),
         docker |-> IF s.compose /\ "compose_version" \notin lost.commands
                    THEN "v2" ELSE "v1", complete |-> lost = NoLoss, of |-> {s}]

(* A host that cannot be reached gives an error row: nothing known, nothing *)
(* collected, confidence 0.                                                *)
Unreachable(s) == [NoSnapshot EXCEPT !.of = {s}]

-----------------------------------------------------------------------------
(* Provider chain *)

(* A text without usable JSON, normalised: the defaults of the parser.     *)
Garbled == [strategy |-> "manual_required", risk |-> "high", asks |-> FALSE]

(* Gordon and the model runner pass the defaults on without an error,      *)
(* LiteLLM reports the parse error.                                        *)
GordonReplies  == Answers \cup {Garbled}
RunnerReplies  == Answers \cup {Garbled}
LitellmReplies == Answers

(* The agent client wants db among its arguments and run_analysis does not *)
(* pass it, so the call raises before its answer could be used.            *)
AgentReplies   == {}

Replies(p) == CASE p = "gordon"       -> GordonReplies
                [] p = "docker_agent" -> AgentReplies
                [] p = "model_runner" -> RunnerReplies
                [] p = "litellm"      -> LitellmReplies

Enabled(p) == IF p = "gordon" THEN gordon = "yes" ELSE p \in config.enabled

-----------------------------------------------------------------------------
(* Planner *)

RiskRank(r) == CASE r = "low" -> 0 [] r = "high" -> 2 [] r = "blocked" -> 3
                 [] OTHER -> 1

(* Python's max with a key: the first of two equals.                       *)
Worse(r, q) == IF RiskRank(q) > RiskRank(r) THEN q ELSE r

(* _strategy_from_detection: strategy, risk and blocking questions.        *)
Detected(snap, prefers) ==
    LET out(s, r, q) == [strategy |-> s, risk |-> r, questions |-> q]
    IN  CASE ~snap.sure -> out("manual_required", "blocked", {"confidence"})
          [] snap.sure /\ prefers # "auto_detect" -> out(prefers, "medium", {})
          [] OTHER ->
             CASE snap.manager \in {"mixed", "unknown"} ->
                      out("manual_required", "blocked", {"ambiguous"})
               [] snap.manager = "kamal_v2" -> out("kamal_v2_compatible", "medium", {})
               [] snap.manager = "kamal_v1" -> out("kamal_v1_compatible", "medium", {})
               [] snap.manager = "traefik"  -> out("reuse_existing_traefik", "low", {})
               [] snap.manager = "nginx"    -> out("behind_existing_nginx", "low", {})
               [] snap.manager = "caddy"    -> out("behind_existing_caddy", "low", {})
               [] OTHER -> out("docker_compose_private", "medium", {"exposure"})

(* create_deployment_plan, first half: the answer overrides the strategy   *)
(* in auto_detect, and only raises the risk, to "high" at most, otherwise. *)
WithAnswer(d, a, prefers) ==
    IF ~a.ok THEN d
    ELSE IF prefers = "auto_detect"
    THEN [d EXCEPT !.strategy = a.strategy, !.risk = Worse(d.risk, a.risk)]
    ELSE [d EXCEPT !.risk =
              Worse(d.risk, IF a.risk = "blocked" THEN "high" ELSE a.risk)]

ComposeStrategies == {"docker_compose_with_host_port", "docker_compose_private"}

ComposeActions == <<"CREATE_DIRECTORY", "UPLOAD_FILE", "DOCKER_COMPOSE_CONFIG",
                    "DOCKER_COMPOSE_UP", "DOCKER_COMPOSE_PS">>

(* Mutant: the file goes up after the containers.                          *)
ActionsUploadLast(d, req) ==
    IF d.risk = "blocked" \/ req.path = "none" \/ req.content = "none"
       \/ d.strategy \notin ComposeStrategies
    THEN <<>>
    ELSE <<"CREATE_DIRECTORY", "DOCKER_COMPOSE_UP", "UPLOAD_FILE">>

DeploymentActions(d, req) ==
    IF d.risk = "blocked" \/ req.path = "none" \/ req.content = "none"
       \/ d.strategy \notin ComposeStrategies
    THEN <<>> ELSE ComposeActions

ActionQuestions(d, req) ==
    IF /\ d.risk # "blocked" /\ req.path # "none" /\ req.content = "none"
       /\ d.strategy \in ComposeStrategies
    THEN {"compose_content"} ELSE {}

BuildPlan(d, a, snap, req) ==
    [strategy |-> d.strategy,
     risk |-> Worse(d.risk, IF a.ok THEN a.risk ELSE "medium"),
     questions |-> d.questions \cup ActionQuestions(d, req)
                   \cup (IF a.asks THEN {"ai"} ELSE {}),
     manager |-> snap.manager, proxy |-> snap.proxy,
     actions |-> DeploymentActions(d, req), rollback |-> "compose_snapshot"]

(* Mutant: the schema has no enumeration for the strategy.                 *)
SchemaErrorsRisk(p) == {e \in {"risk"} : p.risk \notin Risks}

(* validate_plan of plan_schema.py: the two enumerations a plan can miss.  *)
SchemaErrors(p) ==
    {e \in {"strategy", "risk"} : \/ e = "strategy" /\ p.strategy \notin Strategies
                                  \/ e = "risk" /\ p.risk \notin Risks}

BlockedPlan == [NoPlan EXCEPT !.strategy = "manual_required", !.risk = "blocked"]

(* check_policy: the names of the rules a plan violates.                   *)
Policy(p) ==
    (IF p.manager = "unknown" /\ p.strategy \notin Manual
     THEN {"unknown_ownership"} ELSE {}) \cup
    (IF /\ p.proxy \in {"nginx", "caddy", "kamal_proxy"}
        /\ p.strategy = "reuse_existing_traefik"
     THEN {"second_proxy"} ELSE {}) \cup
    (IF p.proxy = "kamal_proxy" /\ p.strategy \in
            {"reuse_existing_traefik", "docker_compose_with_host_port"}
     THEN {"traefik_over_kamal"} ELSE {}) \cup
    (IF p.manager = "kamal_v2" /\ p.strategy = "docker_compose_with_host_port"
     THEN {"host_port_over_kamal"} ELSE {}) \cup
    (IF p.manager = "mixed" /\ p.strategy \notin Manual THEN {"mixed"} ELSE {}) \cup
    (IF p.questions # {} THEN {"questions"} ELSE {}) \cup
    (IF p.strategy = "abort" THEN {"abort"} ELSE {})

(* Mutant: the policy is not consulted.                                    *)
FinishedNoPolicy(p) ==
    IF SchemaErrors(p) = {} THEN p
    ELSE [BlockedPlan EXCEPT !.questions = {"schema"}]

(* create_deployment_plan, second half: schema, then policy.               *)
Finished(p) ==
    LET q == IF SchemaErrors(p) = {} THEN p
             ELSE [BlockedPlan EXCEPT !.questions = {"schema"}]
    IN  IF Policy(q) = {} THEN q
        ELSE [q EXCEPT !.risk = "blocked", !.strategy = "manual_required",
                       !.questions = @ \cup {"policy"}]

-----------------------------------------------------------------------------
(* Validator *)

RoutingFailures(p, snap) ==
    (IF p.proxy \in Kinds /\ p.strategy = "docker_compose_with_host_port"
     THEN {"proxy_ports"} ELSE {}) \cup
    (IF /\ p.proxy = "kamal_proxy" \/ p.manager = "kamal_v2"
        /\ p.strategy = "reuse_existing_traefik"
     THEN {"traefik_over_kamal"} ELSE {}) \cup
    (IF p.manager = "mixed" /\ p.strategy \notin Manual
     THEN {"mixed"} ELSE {}) \cup
    (IF p.proxy = "unknown" /\ snap.busy /\ p.strategy \notin Manual
     THEN {"unknown_owner"} ELSE {})

(* The wanted domain is compared as given with rules in lower case.        *)
DomainFailures(req, snap) ==
    IF req.domain = "lower" /\ snap.routed THEN {"domain"} ELSE {}

ComposeFailures(p, snap) ==
    IF p.actions # <<>> /\ snap.docker = "v1" THEN {"compose_v2"} ELSE {}

RollbackFailures(p) == IF p.rollback = "none" THEN {"rollback"} ELSE {}

(* validate_deployment_plan: the blocking checks that fail.  The domain is *)
(* part of the plan (routing_plan.domain).                                 *)
Failures(p, req, snap) ==
    SchemaErrors(p) \cup RoutingFailures(p, snap) \cup DomainFailures(req, snap)
    \cup ComposeFailures(p, snap) \cup RollbackFailures(p) \cup Policy(p)

-----------------------------------------------------------------------------
(* Parameter checks of the executor *)

(* A name the planner finds unsafe was replaced by docker-compose.yml; one *)
(* with a leading underscore or two dots was kept.                         *)
FileNameRefused(req) == req.name \in {"underscore", "dots"}
PathRefused(req)     == req.path = "relative"
UploadRefused(req)   == PathRefused(req) \/ req.name = "dots"
                        \/ req.content = "oversize"

Refused(action, req) ==
    CASE action = "CREATE_DIRECTORY" -> PathRefused(req)
      [] action = "UPLOAD_FILE"      -> UploadRefused(req)
      [] OTHER -> FileNameRefused(req) \/ PathRefused(req)

-----------------------------------------------------------------------------
(* Behaviour *)

Init ==
    /\ server \in Servers
    /\ snapshot = NoSnapshot
    /\ gordon = "unknown"
    /\ config \in Configs
    /\ pc = "idle" /\ request \in Requests
    /\ queue = <<>> /\ tried = {} /\ answer = NoAnswer /\ analyses = <<>>
    /\ plan = NoPlan /\ plannedFrom = NoSnapshot
    /\ failed = {} /\ validatedOn = NoSnapshot
    /\ run = [step |-> 0, error |-> "none"]
    /\ moves = 0 /\ inventories = 0

(* The server changes.                                                     *)
ServerMoves ==
    /\ moves < MaxMoves
    /\ moves' = moves + 1
    /\ server' \in Servers \ {server}
    /\ UNCHANGED <<snapshot, gordon, pc, request, chainVars, planVars, checkVars,
                   inventories>>

(* What can be lost of a server: only what is there can be missed.         *)
Losses(s) ==
    [commands : SUBSET Commands,
     inspects : SUBSET {k \in Kinds : s.seat[k] = "edge"},
     services : SUBSET AsProcess(s, NoLoss)]

(* collect_inventory: after one probe every command may fail on its own.   *)
Inventory ==
    /\ inventories < MaxInventories /\ pc \in {"idle", "planned"}
    /\ inventories' = inventories + 1
    /\ \/ \E lost \in Losses(server) : snapshot' = Collected(server, lost)
       \/ snapshot' = Unreachable(server)
    /\ UNCHANGED <<server, gordon, pc, request, chainVars, planVars, checkVars,
                   moves>>

(* is_available of GordonClient: probed once in the life of the process; a *)
(* probe that times out counts as "not available".                         *)
Probed == IF gordon = "unknown" THEN {"yes", "no"} ELSE {gordon}

Listed == {config.order[i] : i \in DOMAIN config.order}

(* create_plan reads the latest inventory; run_analysis probes Gordon and  *)
(* raises when it is required and missing.                                 *)
Ask ==
    /\ pc = "idle" /\ inventories > 0
    /\ plannedFrom' = snapshot
    /\ gordon' \in Probed
    /\ IF config.required /\ (gordon' = "no" \/ "gordon" \notin Listed)
       THEN pc' = "answered" /\ queue' = <<>>
       ELSE pc' = "asking" /\ queue' = config.order
    /\ UNCHANGED <<server, snapshot, request, config, tried, answer, analyses,
                   plan, checkVars, moves, inventories>>

(* The provider at the head of the chain answers: its result is kept, one  *)
(* analysis row is written and the chain ends.                             *)
ProviderAnswers ==
    /\ pc = "asking" /\ queue # <<>>
    /\ LET p == Head(queue) IN
        /\ Enabled(p)
        /\ \E r \in Replies(p) :
            answer' = [by |-> p, ok |-> TRUE, strategy |-> r.strategy,
                       risk |-> r.risk, asks |-> r.asks]
        /\ analyses' = Append(analyses, p)
    /\ pc' = "answered" /\ queue' = <<>>
    /\ UNCHANGED <<server, snapshot, gordon, request, config, tried, planVars,
                   checkVars, moves, inventories>>

(* Mutant: an error of a provider ends the chain.                          *)
ProviderErrorEnds ==
    /\ pc = "asking" /\ queue # <<>>
    /\ tried' = IF Enabled(Head(queue)) THEN tried \cup {Head(queue)} ELSE tried
    /\ queue' = IF Enabled(Head(queue)) THEN <<>> ELSE Tail(queue)
    /\ UNCHANGED <<server, snapshot, gordon, pc, request, config, answer,
                   analyses, planVars, checkVars, moves, inventories>>

(* It is disabled, or raises, times out or reports an error: the next one. *)
ProviderFails ==
    /\ pc = "asking" /\ queue # <<>>
    /\ tried' = IF Enabled(Head(queue)) THEN tried \cup {Head(queue)} ELSE tried
    /\ queue' = Tail(queue)
    /\ UNCHANGED <<server, snapshot, gordon, pc, request, config, answer,
                   analyses, planVars, checkVars, moves, inventories>>

(* All providers failed: a failure row, and the planner goes on without.   *)
ChainExhausted ==
    /\ pc = "asking" /\ queue = <<>>
    /\ pc' = "answered"
    /\ analyses' = Append(analyses, "none")
    /\ UNCHANGED <<server, snapshot, gordon, request, config, queue, tried,
                   answer, planVars, checkVars, moves, inventories>>

(* The rest of create_deployment_plan, with no await before its INSERT.    *)
Plan ==
    /\ pc = "answered"
    /\ LET d == WithAnswer(Detected(plannedFrom, request.prefers), answer,
                           request.prefers)
       IN  plan' = Finished(BuildPlan(d, answer, plannedFrom, request))
    /\ pc' = "planned"
    /\ UNCHANGED <<server, snapshot, gordon, request, chainVars, plannedFrom,
                   checkVars, moves, inventories>>

(* validate_plan of the service: against the latest inventory.             *)
Validate ==
    /\ pc = "planned"
    /\ failed' = Failures(plan, request, snapshot)
    /\ validatedOn' = snapshot
    /\ pc' = IF plan.risk # "blocked" /\ failed' = {} THEN "running" ELSE "refused"
    /\ UNCHANGED <<server, snapshot, gordon, request, chainVars, planVars, run,
                   moves, inventories>>

(* execute_plan, approval given: one action, after its parameter check.    *)
Step ==
    /\ pc = "running" /\ run.step < Len(plan.actions)
    /\ LET action == plan.actions[run.step + 1] IN
        \/ /\ Refused(action, request)
           /\ run' = [run EXCEPT !.error = "parameter"]
           /\ pc' = "done"
        \/ /\ ~Refused(action, request)
           /\ run' = [run EXCEPT !.step = @ + 1]
           /\ UNCHANGED pc
        \/ /\ ~Refused(action, request)
           /\ run' = [run EXCEPT !.error = "server"]
           /\ pc' = "done"
    /\ UNCHANGED <<server, snapshot, gordon, request, chainVars, planVars, failed,
                   validatedOn, moves, inventories>>

RunEnds ==
    /\ pc = "running" /\ run.step = Len(plan.actions)
    /\ pc' = "done"
    /\ UNCHANGED <<server, snapshot, gordon, request, chainVars, planVars,
                   checkVars, moves, inventories>>

Program == \/ Ask \/ ProviderAnswers \/ ProviderFails \/ ChainExhausted
           \/ Plan \/ Validate \/ Step \/ RunEnds

Next == ServerMoves \/ Inventory \/ Program

Spec == Init /\ [][Next]_vars

-----------------------------------------------------------------------------
(* Properties *)

(* Every variable keeps its type: plans, verdicts and runs of the service. *)
TypeOK ==
    /\ server \in Servers /\ request \in Requests /\ config \in Configs
    /\ gordon \in {"unknown", "yes", "no"}
    /\ pc \in {"idle", "asking", "answered", "planned", "running", "refused", "done"}
    /\ {queue[i] : i \in DOMAIN queue} \cup tried \subseteq Providers
    /\ answer.by \in Providers \cup {"none"} /\ answer.ok \in BOOLEAN
    /\ Len(analyses) <= 1
    /\ \A snap \in {snapshot, plannedFrom, validatedOn} :
           snap.manager \in Managers /\ snap.proxy \in Proxies
    /\ plan.strategy \in Strategies \cup {"none"}
    /\ plan.risk \in Risks \cup {"none"}
    /\ plan.manager \in Managers /\ plan.proxy \in Proxies
    /\ run.step \in 0..Len(plan.actions)
    /\ run.error \in {"none", "parameter", "server"}
    /\ moves \in 0..MaxMoves /\ inventories \in 0..MaxInventories

(* The parameter checks run when an action is reached, after earlier       *)
(* actions changed the server; none of them can first fail once the        *)
(* containers were started.                                                *)
ParameterStopsBeforeUp ==
    run.error = "parameter" =>
        \A i \in 1..run.step : plan.actions[i] # "DOCKER_COMPOSE_UP"

(* Planner and validator apply rules of their own, to inventories that may  *)
(* lie any time apart, with anything lost from either.  A draft that is not *)
(* blocked can only fail validation for what the planner does not look at: *)
(* a host port beside the proxy of the plan, a domain the latest inventory *)
(* shows as routed, a Compose v2 it does not show.                         *)
DraftPassesValidator ==
    pc \in {"running", "refused"} /\ plan.risk # "blocked"
    => failed \subseteq {"proxy_ports", "compose_v2", "domain"}

(* What the accepted plan may do to a server that still is what a complete *)
(* inventory saw: no host port beside a proxy on the public ports, no reuse *)
(* of a Traefik when only another proxy has those ports, no domain that is *)
(* routed already (a mixed-case one is not recognised).                    *)
Fits(s) ==
    LET public == {k \in Kinds : s.seat[k] \in {"edge", "host"}}
    IN  /\ plan.strategy = "docker_compose_with_host_port" => public = {}
        /\ plan.strategy = "reuse_existing_traefik" =>
               public = {} \/ s.seat.traefik \in {"edge", "host"}
        /\ request.domain = "lower" => ~s.routed
        /\ plan.actions # <<>> => s.compose

AcceptedFitsServer ==
    /\ pc = "running"
    /\ plannedFrom.complete /\ validatedOn.complete
    /\ plannedFrom.of = validatedOn.of
    => \A s \in validatedOn.of : Fits(s)

(* The answer is of the first provider of the configured order that gave   *)
(* one: everything before it is switched off or was tried and failed, and  *)
(* a failure row means that this holds of the whole order.                 *)
FallbackInOrder ==
    \A i \in DOMAIN config.order :
        /\ analyses # <<>>
        /\ config.order[i] # "gordon" \/ gordon = "yes"
        /\ config.order[i] \in config.enabled \cup {"gordon"}
        /\ config.order[i] \notin tried
        => \E j \in 1..i : config.order[j] = analyses[1]
=============================================================================
