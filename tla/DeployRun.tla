------------------------------ MODULE DeployRun ------------------------------
(***************************************************************************)
(* Approval-gated execution of deployment plans                            *)
(* (orchestrator/docker_deployment_ai/orchestrator.py, executor.py,        *)
(* healthcheck.py and the execute route of api/routes.py).                 *)
(*                                                                         *)
(* Every HTTP request runs on its own SQLite connection and yields to the  *)
(* event loop at each await, so a request is a process whose steps are the *)
(* statements between two awaits that touch the shared tables.  One        *)
(* execute request creates at most one run; the run carries the request's  *)
(* name.  SSH calls are synchronous (subprocess.run) and thus atomic.      *)
(***************************************************************************)
EXTENDS Naturals, Sequences, FiniteSets

CONSTANTS
    Targets,         \* deployment targets (servers)
    Plans,           \* deployment_plans rows that may be created
    Requests,        \* execute requests; also the ids of the runs they create
    Contents,        \* values of plan_json (two contents have different hashes)
    Snapshots,       \* inventory snapshots
    ActionTypes,     \* action types a plan may name
    Forbidden,       \* types the executor rejects before any side effect
    NotImplemented,  \* types in both _NOT_IMPLEMENTED lists
    Local,           \* types that succeed without an SSH call
    PlanTarget,      \* the target a plan is made for
    Actions,         \* the deployment_actions of a content
    BlockedRisk,     \* the contents whose risk_level is "blocked"
    Checks,          \* verdict of the validator's other checks on a content
    NoSnapshot, NoPlan, NoContent,
    MaxValidations, MaxApprovals, MaxEdits, MaxCrashes   \* bounds for TLC

Statuses == {"passed", "warning", "blocked"}

ASSUME DeployRunAssumption ==
    /\ PlanTarget \in [Plans -> Targets]
    /\ Actions \in [Contents -> Seq(ActionTypes)]
    /\ {Forbidden, NotImplemented, Local} \subseteq SUBSET ActionTypes
    /\ BlockedRisk \subseteq Contents
    /\ Checks \in [Contents -> [Snapshots \cup {NoSnapshot} -> Statuses]]
    /\ NoPlan \notin Plans /\ NoContent \notin Contents
    /\ {MaxValidations, MaxApprovals, MaxEdits, MaxCrashes} \subseteq Nat

VARIABLES
    inventory,    \* latest snapshot row of each target
    plans,        \* deployment_plans: [content, risk, status] or absent
    validations,  \* deployment_plan_validations of a plan, oldest first
    approvals,    \* deployment_approvals of a plan: approved contents
    validating,   \* validate requests between their reads and their insert
    approving,    \* approve requests between their read and their insert
    pc,           \* where an execute request, then its background task, is
    reqPlan, reqContent,  \* what the request read (plan id, plan dict)
    status, health, currentStep,   \* the deploy_runs row of the request
    rollback,     \* does the run have a deployment_rollbacks row
    steps,        \* deployment_run_steps of the run, by step_index
    outcome,      \* result of the step just executed, not yet saved
    effects,      \* history: <<run, step>> executed on each target, in order
    seen,         \* history: runs of the target existing at the guard's SELECT
    edits, crashes        \* counters of the bounded environment actions

tableVars == <<inventory, plans, validations, approvals>>
opVars    == <<validating, approving>>
runVars   == <<status, health, currentStep, rollback, steps>>
reqVars   == <<reqPlan, reqContent, seen>>
vars == <<tableVars, opVars, pc, reqVars, runVars, outcome, effects,
          edits, crashes>>

(* Mutant: the guard forgets runs whose row is not yet "running".          *)
ActiveStartedOnly == {"starting", "running", "deploying"}

(* Mutant: the guard forgets a run once it is executing steps.             *)
ActiveQueuedOnly == {"pending", "starting"}

Active   == {"pending", "starting", "running", "deploying"}
Terminal == {"completed", "failed"}
RunStatuses == {"none", "pending", "running", "completed", "failed"}
Healths  == {"unknown", "starting", "healthy", "degraded", "unhealthy"}
Gating   == {"gate_validation", "gate_approval", "gate_busy", "insert"}
Running  == {"prepared", "start", "step", "ssh", "save", "fail", "health"}
PCs      == Gating \cup Running \cup {"idle", "rejected", "refused", "done", "dead"}

Absent == [content |-> NoContent, risk |-> FALSE, status |-> "absent"]
PlanRows == [content : Contents, risk : BOOLEAN,
             status : {"draft", "blocked", "approved"}]
ValidationRows == [content : Contents, status : Statuses]

TypeOK ==
    /\ inventory \in [Targets -> Snapshots \cup {NoSnapshot}]
    /\ plans \in [Plans -> PlanRows \cup {Absent}]
    /\ validations \in [Plans -> Seq(ValidationRows)]
    /\ approvals \in [Plans -> Seq(Contents)]
    /\ validating \subseteq Plans \X ValidationRows
    /\ approving \subseteq Plans \X Contents
    /\ pc \in [Requests -> PCs]
    /\ reqPlan \in [Requests -> Plans \cup {NoPlan}]
    /\ reqContent \in [Requests -> Contents \cup {NoContent}]
    /\ status \in [Requests -> RunStatuses]
    /\ health \in [Requests -> Healths]
    /\ currentStep \in [Requests -> Nat]
    /\ rollback \in [Requests -> BOOLEAN]
    /\ steps \in [Requests -> Seq({"ok", "failed"})]
    /\ outcome \in [Requests -> {"none", "ok", "failed"}]
    /\ effects \in [Targets -> Seq(Requests \X Nat)]
    /\ seen \in [Requests -> SUBSET Requests]
    /\ edits \in Nat /\ crashes \in Nat

Init ==
    /\ inventory = [t \in Targets |-> NoSnapshot]
    /\ plans = [p \in Plans |-> Absent]
    /\ validations = [p \in Plans |-> <<>>]
    /\ approvals = [p \in Plans |-> <<>>]
    /\ validating = {} /\ approving = {}
    /\ pc = [r \in Requests |-> "idle"]
    /\ reqPlan = [r \in Requests |-> NoPlan]
    /\ reqContent = [r \in Requests |-> NoContent]
    /\ status = [r \in Requests |-> "none"]
    /\ health = [r \in Requests |-> "unknown"]
    /\ currentStep = [r \in Requests |-> 0]
    /\ rollback = [r \in Requests |-> FALSE]
    /\ steps = [r \in Requests |-> <<>>]
    /\ outcome = [r \in Requests |-> "none"]
    /\ effects = [t \in Targets |-> <<>>]
    /\ seen = [r \in Requests |-> {}]
    /\ edits = 0 /\ crashes = 0

-----------------------------------------------------------------------------
(* Helpers *)

ActionSet(c) == {Actions[c][i] : i \in 1..Len(Actions[c])}

(* Mutant: only the validator's forbidden list is consulted.               *)
VerdictForbiddenOnly(c, s) ==
    IF ActionSet(c) \cap Forbidden # {} THEN "blocked" ELSE Checks[c][s]

(* The status validate_deployment_plan computes: a forbidden or unknown    *)
(* action type and an unimplemented one are blocking checks; the remaining *)
(* checks, which read the snapshot, are the constant Checks.               *)
Verdict(c, s) ==
    IF ActionSet(c) \cap (Forbidden \cup NotImplemented) # {}
    THEN "blocked" ELSE Checks[c][s]

Latest(seq) == seq[Len(seq)]

TargetOf(r) == PlanTarget[reqPlan[r]]

(* The runs with a deploy_runs row on target t. *)
RunsOn(t) == {r \in Requests : status[r] # "none" /\ TargetOf(r) = t}

(* Mutant: the validated content is not compared with the plan's.          *)
ValidationAllowsAnyContent(p, c) ==
    /\ validations[p] # <<>>
    /\ Latest(validations[p]).status \in {"passed", "warning"}

(* _check_validation_allows_execution: the newest validation row decides.  *)
ValidationAllows(p, c) ==
    /\ validations[p] # <<>>
    /\ Latest(validations[p]).status \in {"passed", "warning"}
    /\ Latest(validations[p]).content = c

(* _check_approved_hash: the newest approval must be of this content.      *)
ApprovalMatches(p, c) ==
    approvals[p] # <<>> /\ Latest(approvals[p]) = c

-----------------------------------------------------------------------------
(* Inventory, planning, validation and approval requests *)

(* Bound: no inventory is taken that no plan or validation will read.      *)
Awaited(t) ==
    \E p \in Plans : /\ PlanTarget[p] = t
                     /\ plans[p] # Absent =>
                          Len(validations[p]) + Cardinality(validating)
                            < MaxValidations

(* collect_inventory inserts a snapshot row, an error snapshot included.   *)
RunInventory(t, s) ==
    /\ Awaited(t)
    /\ inventory' = [inventory EXCEPT ![t] = s]
    /\ UNCHANGED <<plans, validations, approvals, opVars, pc, reqVars,
                   runVars, outcome, effects, edits, crashes>>

(* create_plan: refuses a target without inventory; the row's status and   *)
(* risk_level columns are computed from the content once.                  *)
CreatePlan(p, c) ==
    /\ plans[p] = Absent
    /\ inventory[PlanTarget[p]] # NoSnapshot
    /\ plans' = [plans EXCEPT ![p] =
                   [content |-> c, risk |-> c \in BlockedRisk,
                    status |-> IF c \in BlockedRisk THEN "blocked" ELSE "draft"]]
    /\ UNCHANGED <<inventory, validations, approvals, opVars, pc, reqVars,
                   runVars, outcome, effects, edits, crashes>>

(* plan_json is written once by this code; plan_hash.py guards against it  *)
(* changing later, which only something outside the service can do.        *)
EditPlan(p, c) ==
    /\ edits < MaxEdits
    /\ plans[p] # Absent /\ c # plans[p].content
    /\ plans' = [plans EXCEPT ![p].content = c]
    /\ edits' = edits + 1
    /\ UNCHANGED <<inventory, validations, approvals, opVars, pc, reqVars,
                   runVars, outcome, effects, crashes>>

(* validate_plan up to its insert: reads the plan and the newest snapshot  *)
(* and computes the verdict.                                               *)
ValidateRead(p) ==
    /\ plans[p] # Absent
    /\ Len(validations[p]) + Cardinality(validating) < MaxValidations
    /\ LET c == plans[p].content
       IN  validating' = validating \cup
             {<<p, [content |-> c, status |-> Verdict(c, inventory[PlanTarget[p]])]>>}
    /\ UNCHANGED <<tableVars, approving, pc, reqVars, runVars, outcome,
                   effects, edits, crashes>>

ValidateInsert(v) ==
    /\ v \in validating
    /\ validations' = [validations EXCEPT ![v[1]] = Append(@, v[2])]
    /\ validating' = validating \ {v}
    /\ UNCHANGED <<inventory, plans, approvals, approving, pc, reqVars,
                   runVars, outcome, effects, edits, crashes>>

(* approve_plan up to its insert: refuses on the row's risk_level column   *)
(* and hashes the content it read.                                         *)
ApproveRead(p) ==
    /\ plans[p] # Absent /\ ~plans[p].risk
    /\ Len(approvals[p]) + Cardinality(approving) < MaxApprovals
    /\ approving' = approving \cup {<<p, plans[p].content>>}
    /\ UNCHANGED <<tableVars, validating, pc, reqVars, runVars, outcome,
                   effects, edits, crashes>>

(* The approval row and the plan's status are committed together.          *)
ApproveInsert(a) ==
    /\ a \in approving
    /\ approvals' = [approvals EXCEPT ![a[1]] = Append(@, a[2])]
    /\ plans' = [plans EXCEPT ![a[1]].status = "approved"]
    /\ approving' = approving \ {a}
    /\ UNCHANGED <<inventory, validations, validating, pc, reqVars, runVars,
                   outcome, effects, edits, crashes>>

-----------------------------------------------------------------------------
(* prepare_run: the synchronous half of an execute request *)

(* get_plan and get_target: the request keeps the plan dict it read.       *)
Execute(r, p) ==
    /\ pc[r] = "idle"
    /\ plans[p] # Absent
    /\ reqPlan' = [reqPlan EXCEPT ![r] = p]
    /\ reqContent' = [reqContent EXCEPT ![r] = plans[p].content]
    /\ pc' = [pc EXCEPT ![r] = "gate_validation"]
    /\ UNCHANGED <<tableVars, opVars, seen, runVars, outcome, effects, edits,
                   crashes>>

GateValidation(r) ==
    /\ pc[r] = "gate_validation"
    /\ pc' = [pc EXCEPT ![r] = IF ValidationAllows(reqPlan[r], reqContent[r])
                               THEN "gate_approval" ELSE "rejected"]
    /\ UNCHANGED <<tableVars, opVars, reqVars, runVars, outcome, effects,
                   edits, crashes>>

(* The risk gate follows the approval gate with no await between them.     *)
GateApproval(r) ==
    /\ pc[r] = "gate_approval"
    /\ pc' = [pc EXCEPT ![r] =
                IF /\ ApprovalMatches(reqPlan[r], reqContent[r])
                   /\ reqContent[r] \notin BlockedRisk
                THEN "gate_busy" ELSE "rejected"]
    /\ UNCHANGED <<tableVars, opVars, reqVars, runVars, outcome, effects,
                   edits, crashes>>

(* The single-flight SELECT.                                               *)
GateBusy(r) ==
    /\ pc[r] = "gate_busy"
    /\ seen' = [seen EXCEPT ![r] = RunsOn(TargetOf(r))]
    /\ pc' = [pc EXCEPT ![r] =
                IF \E o \in RunsOn(TargetOf(r)) : status[o] \in Active
                THEN "rejected" ELSE "insert"]
    /\ UNCHANGED <<tableVars, opVars, reqPlan, reqContent, runVars, outcome,
                   effects, edits, crashes>>

InsertRun(r) ==
    /\ pc[r] = "insert"
    /\ status' = [status EXCEPT ![r] = "pending"]
    /\ pc' = [pc EXCEPT ![r] = "prepared"]
    /\ UNCHANGED <<tableVars, opVars, reqVars, health, currentStep, rollback,
                   steps, outcome, effects, edits, crashes>>

-----------------------------------------------------------------------------
(* execute_prepared_run: the background task *)

(* Best effort: an exception is logged and no row is written.              *)
CaptureRollback(r) ==
    /\ pc[r] = "prepared"
    /\ \E b \in BOOLEAN : rollback' = [rollback EXCEPT ![r] = b]
    /\ pc' = [pc EXCEPT ![r] = "start"]
    /\ UNCHANGED <<tableVars, opVars, reqVars, status, health, currentStep,
                   steps, outcome, effects, edits, crashes>>

(* executor.execute_plan refuses without touching the run row when its own *)
(* approval, risk or action-type check fails; else the run is "running".   *)
StartRun(r) ==
    /\ pc[r] = "start"
    /\ LET ok == /\ approvals[reqPlan[r]] # <<>>
                 /\ reqContent[r] \notin BlockedRisk
                 /\ ActionSet(reqContent[r]) \cap Forbidden = {}
       IN  /\ pc' = [pc EXCEPT ![r] = IF ok THEN "step" ELSE "refused"]
           /\ status' = [status EXCEPT ![r] = IF ok THEN "running" ELSE @]
    /\ UNCHANGED <<tableVars, opVars, reqVars, health, currentStep, rollback,
                   steps, outcome, effects, edits, crashes>>

MoreSteps(r) == Len(steps[r]) < Len(Actions[reqContent[r]])
NextAction(r) == Actions[reqContent[r]][Len(steps[r]) + 1]

BeginStep(r) ==
    /\ pc[r] = "step" /\ MoreSteps(r)
    /\ currentStep' = [currentStep EXCEPT ![r] = Len(steps[r])]
    /\ status' = [status EXCEPT ![r] = "running"]
    /\ pc' = [pc EXCEPT ![r] = "ssh"]
    /\ UNCHANGED <<tableVars, opVars, reqVars, health, rollback, steps,
                   outcome, effects, edits, crashes>>

(* _execute_action: an unimplemented action, or parameters the validators  *)
(* reject, fail before any SSH call; a local action makes none; any other  *)
(* reaches the target, where it may fail.                                  *)
RunStep(r) ==
    /\ pc[r] = "ssh"
    /\ \/ /\ NextAction(r) \notin NotImplemented \cup Local
          /\ effects' = [effects EXCEPT ![TargetOf(r)] =
                            Append(@, <<r, Len(steps[r]) + 1>>)]
          /\ \E o \in {"ok", "failed"} : outcome' = [outcome EXCEPT ![r] = o]
       \/ /\ NextAction(r) \in Local
          /\ outcome' = [outcome EXCEPT ![r] = "ok"]
          /\ UNCHANGED effects
       \/ /\ outcome' = [outcome EXCEPT ![r] = "failed"]
          /\ UNCHANGED effects
    /\ pc' = [pc EXCEPT ![r] = "save"]
    /\ UNCHANGED <<tableVars, opVars, reqVars, runVars, edits, crashes>>

(* Mutant: the result of the step is logged but not looked at.             *)
SaveStepIgnoringFailure(r) ==
    /\ pc[r] = "save"
    /\ steps' = [steps EXCEPT ![r] = Append(@, outcome[r])]
    /\ outcome' = [outcome EXCEPT ![r] = "none"]
    /\ pc' = [pc EXCEPT ![r] = "step"]
    /\ UNCHANGED <<tableVars, opVars, reqVars, status, health, currentStep,
                   rollback, effects, edits, crashes>>

SaveStep(r) ==
    /\ pc[r] = "save"
    /\ steps' = [steps EXCEPT ![r] = Append(@, outcome[r])]
    /\ outcome' = [outcome EXCEPT ![r] = "none"]
    /\ pc' = [pc EXCEPT ![r] = IF outcome[r] = "failed" THEN "fail" ELSE "step"]
    /\ UNCHANGED <<tableVars, opVars, reqVars, status, health, currentStep,
                   rollback, effects, edits, crashes>>

(* Mutant: a status outside the documented ones.                           *)
FailRunAborted(r) ==
    /\ pc[r] = "fail"
    /\ status' = [status EXCEPT ![r] = "aborted"]
    /\ pc' = [pc EXCEPT ![r] = "done"]
    /\ UNCHANGED <<tableVars, opVars, reqVars, health, currentStep, rollback,
                   steps, outcome, effects, edits, crashes>>

(* Mutant: the task returns on a failure without updating the run row.     *)
FailRunSilent(r) ==
    /\ pc[r] = "fail"
    /\ pc' = [pc EXCEPT ![r] = "done"]
    /\ UNCHANGED <<tableVars, opVars, reqVars, runVars, outcome, effects,
                   edits, crashes>>

FailRun(r) ==
    /\ pc[r] = "fail"
    /\ status' = [status EXCEPT ![r] = "failed"]
    /\ pc' = [pc EXCEPT ![r] = "done"]
    /\ UNCHANGED <<tableVars, opVars, reqVars, health, currentStep, rollback,
                   steps, outcome, effects, edits, crashes>>

CompleteRun(r) ==
    /\ pc[r] = "step" /\ ~MoreSteps(r)
    /\ status' = [status EXCEPT ![r] = "completed"]
    /\ health' = [health EXCEPT ![r] = "starting"]
    /\ pc' = [pc EXCEPT ![r] = "health"]
    /\ UNCHANGED <<tableVars, opVars, reqVars, currentStep, rollback, steps,
                   outcome, effects, edits, crashes>>

(* Mutant: an unhealthy deployment turns its run into a failed one.        *)
HealthcheckFailsRun(r) ==
    /\ pc[r] = "health"
    /\ \E h \in Healths \ {"starting"} :
         /\ health' = [health EXCEPT ![r] = h]
         /\ status' = [status EXCEPT ![r] = IF h = "unhealthy" THEN "failed" ELSE @]
    /\ pc' = [pc EXCEPT ![r] = "done"]
    /\ UNCHANGED <<tableVars, opVars, reqVars, currentStep, rollback, steps,
                   outcome, effects, edits, crashes>>

(* run_healthcheck stores its verdict; when it raises, the run keeps       *)
(* health "starting".                                                      *)
Healthcheck(r) ==
    /\ pc[r] = "health"
    /\ \/ \E h \in Healths \ {"starting"} : health' = [health EXCEPT ![r] = h]
       \/ UNCHANGED health
    /\ pc' = [pc EXCEPT ![r] = "done"]
    /\ UNCHANGED <<tableVars, opVars, reqVars, status, currentStep, rollback,
                   steps, outcome, effects, edits, crashes>>

-----------------------------------------------------------------------------
(* The service restarts: every request and background task in flight is    *)
(* lost, the tables stay, and nothing at startup looks at deploy_runs.     *)
Crash ==
    /\ crashes < MaxCrashes
    /\ crashes' = crashes + 1
    /\ pc' = [r \in Requests |->
                IF pc[r] \in Gating \cup Running THEN "dead" ELSE pc[r]]
    /\ validating' = {} /\ approving' = {}
    /\ UNCHANGED <<tableVars, reqVars, runVars, outcome, effects, edits>>

Executor(r) ==
    \/ CaptureRollback(r) \/ StartRun(r) \/ BeginStep(r) \/ RunStep(r)
    \/ SaveStep(r) \/ FailRun(r) \/ CompleteRun(r) \/ Healthcheck(r)

Prepare(r) ==
    \/ \E p \in Plans : Execute(r, p)
    \/ GateValidation(r) \/ GateApproval(r) \/ GateBusy(r) \/ InsertRun(r)

Next ==
    \/ \E t \in Targets, s \in Snapshots : RunInventory(t, s)
    \/ \E p \in Plans, c \in Contents : CreatePlan(p, c) \/ EditPlan(p, c)
    \/ \E p \in Plans : ValidateRead(p) \/ ApproveRead(p)
    \/ \E v \in validating : ValidateInsert(v)
    \/ \E a \in approving : ApproveInsert(a)
    \/ \E r \in Requests : Prepare(r) \/ Executor(r)
    \/ Crash

Spec == Init /\ [][Next]_vars

(* asyncio runs every ready task, and each SSH call has a timeout: a       *)
(* background task keeps moving as long as the process lives.              *)
FairSpec == Spec /\ \A r \in Requests : WF_vars(Executor(r))

-----------------------------------------------------------------------------
(* Properties *)

(* A deploy_runs row exists only for a content that was validated without  *)
(* blocking errors and approved by a human, whatever edits, validations    *)
(* and approvals ran between the request's reads.                          *)
ExecutedContentAuthorised ==
    \A r \in Requests : status[r] # "none" =>
        /\ reqContent[r] \notin BlockedRisk
        /\ \E i \in 1..Len(validations[reqPlan[r]]) :
             /\ validations[reqPlan[r]][i].content = reqContent[r]
             /\ validations[reqPlan[r]][i].status # "blocked"
        /\ \E i \in 1..Len(approvals[reqPlan[r]]) :
             approvals[reqPlan[r]][i] = reqContent[r]

(* The single-flight guard is right about everything committed before it   *)
(* read: each run it saw on the target is over, and stays over.            *)
GuardHonest ==
    \A r \in Requests : pc[r] \in {"insert"} \cup Running \/ status[r] # "none" =>
        \A o \in seen[r] : status[o] \in Terminal

(* The consequence on the server: the steps of two runs interleave on one  *)
(* target only if neither run was visible to the other's guard.            *)
InterleavingOnlyFromRace ==
    \A t \in Targets : \A i, j, k \in 1..Len(effects[t]) :
        LET a == effects[t][i][1]
            b == effects[t][j][1]
        IN  (i < j /\ j < k /\ a = effects[t][k][1] /\ a # b)
              => b \notin seen[a] /\ a \notin seen[b]

(* The executor's own refusals never fire after the gates passed, and no   *)
(* run reaches an unimplemented action: the validator's and the executor's *)
(* action lists agree (a refused run would stay "pending" and block the    *)
(* target for good).                                                       *)
PreparedRunIsExecutable ==
    \A r \in Requests :
        /\ pc[r] # "refused"
        /\ pc[r] = "ssh" => NextAction(r) \notin Forbidden \cup NotImplemented

(* The step log tells the truth about the server: a completed run has one  *)
(* ok row per action, a failed one stops at its failure, every ok row of a *)
(* remote action happened on the target, in order and once, and at most    *)
(* the step in flight has happened without a row, even after a restart.    *)
StepLogFaithful ==
    \A r \in Requests :
        /\ \A i \in 1..Len(steps[r]) - 1 : steps[r][i] = "ok"
        /\ status[r] = "completed" =>
             /\ Len(steps[r]) = Len(Actions[reqContent[r]])
             /\ \A i \in 1..Len(steps[r]) : steps[r][i] = "ok"
        /\ status[r] = "failed" =>
             steps[r] # <<>> /\ Latest(steps[r]) = "failed"
        /\ status[r] # "none" =>
             LET log == effects[TargetOf(r)]
                 mine == {i \in 1..Len(log) : log[i][1] = r}
             IN  /\ \A i \in mine : log[i][2] <= Len(steps[r]) + 1
                 /\ \A i, j \in mine : i < j => log[i][2] < log[j][2]
                 /\ \A k \in 1..Len(steps[r]) :
                      steps[r][k] = "ok" /\ Actions[reqContent[r]][k] \notin Local
                        => \E i \in mine : log[i][2] = k

(* What a client reads of a run, and what its server sees of it, is what   *)
(* DeployPromise says, whatever races, edits, failures and restarts do:    *)
(* steps in order and once, no success over a failed step, and a final     *)
(* report that is never rewritten.                                         *)
Touched(r) ==
    IF status[r] = "none" THEN {}
    ELSE LET log == effects[TargetOf(r)]
         IN  {<<i, log[i][2]>> : i \in {j \in 1..Len(log) : log[j][1] = r}}

Promise == INSTANCE DeployPromise WITH
    Runs <- Requests,
    Steps <- [c \in Contents |-> Len(Actions[c])],
    state <- status,
    content <- [r \in Requests |->
                  IF status[r] = "none" THEN NoContent ELSE reqContent[r]],
    log <- steps,
    touched <- [r \in Requests |-> Touched(r)]

PromiseKept == Promise!Spec

(* Every run that is created reaches a final status, unless the process is *)
(* restarted.                                                              *)
RunFinishes ==
    <>[](crashes = 0 =>
           \A r \in Requests : status[r] \in Terminal \cup {"none"})

(* test_target_matrix.py:184: "No two active deployment runs may mutate    *)
(* the same target concurrently."                                          *)
SingleFlight ==
    \A r, o \in Requests :
        r # o /\ pc[r] \in {"ssh", "save"} /\ pc[o] \in {"ssh", "save"}
          => TargetOf(r) # TargetOf(o)
=============================================================================
