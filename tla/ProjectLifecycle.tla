-------------------------- MODULE ProjectLifecycle --------------------------
(***************************************************************************)
(* One project from planning to its issue set: the start, approve-plan,    *)
(* stop, edit-plan and delete requests (orchestrator/api/routes.py) and    *)
(* the tracked jobs they launch or cancel (orchestrator/orchestrator.py:   *)
(* run_tracked, analyze_and_plan, apply_plan).                             *)
(*                                                                         *)
(* Requests and jobs are asyncio coroutines: what lies between two awaits  *)
(* is atomic, so an action is at most one write to the database, to GitHub *)
(* or to the task registry.  A database or GitHub call in flight when its  *)
(* job is cancelled either took place or not: it is the call just before,  *)
(* or just after and so never, the cancel.                                 *)
(***************************************************************************)
EXTENDS Naturals, Sequences, FiniteSets

CONSTANTS
    Jobs,        \* asyncio tasks; each is launched at most once
    Approvers,   \* approve-plan requests
    Stoppers,    \* stop requests
    Deleters,    \* delete requests
    Plans,       \* plans the architect may answer with
    Keys,        \* (epic, story, title) keys of tasks
    Tasks,       \* the tasks of a plan, in order
    Edits,       \* the plans a user's edit of the plan text may describe
    NoJob, NoPlan,
    MaxCrashes   \* bound for TLC

ASSUME ProjectLifecycleAssumption ==
    /\ Tasks \in [Plans -> Seq(Keys)]
    /\ Edits \subseteq Plans
    /\ NoJob \notin Jobs /\ NoPlan \notin Plans
    /\ MaxCrashes \in Nat

VARIABLES
    stage, status,   \* projects.project_stage, projects.status
    planApproved,    \* projects.plan_approved
    issuePlan,       \* projects.issue_plan_json
    planMd,          \* projects.plan_md, by the plan its text describes
    rows,            \* number of github_issues rows of each task
    github,          \* number of issues of each task in the repository
    registry,        \* _running_tasks[project_id]
    kind, pc,        \* of each job: "plan" or "apply", and where it is
    jobPlan, todo,   \* the plan an apply job read; its tasks still to come
    seen,            \* _seen_keys
    attempt,         \* which of the three create_issue calls comes next
    handled,         \* created + skipped
    approving,       \* approve requests: the stage they read, their answer
    stopping, deleting,   \* how far stop and delete requests are
    decided,         \* history: issuePlan when the job was launched
    quiet,           \* history: nothing was launched since the last cancel
    crashes          \* counter of the bounded restarts

projectVars == <<stage, status, planApproved, issuePlan, planMd>>
issueVars   == <<rows, github>>
localVars   == <<jobPlan, todo, seen, attempt, handled>>
jobVars     == <<registry, kind, pc, localVars>>
requestVars == <<approving, stopping, deleting>>
vars == <<projectVars, issueVars, jobVars, requestVars, decided, quiet,
          crashes>>

Stages   == {"intake", "awaiting_plan_approval", "building", "error"}
Statuses == {"pending", "planning", "building", "paused", "error", "deleted"}

(* A job that can still write; one whose coroutine only has to unwind.     *)
Working   == {"new", "planning", "approval", "read", "begin", "snapshot",
              "loop", "create", "record", "report", "failing"}
Unwinding == {"exit", "unstarted"}

TypeOK ==
    /\ stage \in Stages /\ status \in Statuses
    /\ planApproved \in BOOLEAN
    /\ issuePlan \in Plans \cup {NoPlan}
    /\ planMd \in Plans \cup {NoPlan}
    /\ rows \in [Keys -> Nat] /\ github \in [Keys -> Nat]
    /\ registry \in Jobs \cup {NoJob}
    /\ kind \in [Jobs -> {"plan", "apply"}]
    /\ pc \in [Jobs -> Working \cup Unwinding \cup {"absent", "done"}]
    /\ jobPlan \in [Jobs -> Plans \cup {NoPlan}]
    /\ todo \in [Jobs -> Seq(Keys)]
    /\ seen \in [Jobs -> SUBSET Keys]
    /\ attempt \in [Jobs -> 1..3]
    /\ handled \in [Jobs -> Nat]
    /\ approving \in [Approvers -> Stages \cup
                        {"idle", "resuming", "already_running", "already_applied"}]
    /\ stopping \in [Stoppers -> {"idle", "cancelled", "answered"}]
    /\ deleting \in [Deleters -> {"idle", "staged", "answered"}]
    /\ decided \in [Jobs -> Plans \cup {NoPlan}]
    /\ quiet \in BOOLEAN /\ crashes \in Nat

Init ==
    /\ stage = "intake" /\ status = "pending" /\ planApproved = FALSE
    /\ issuePlan = NoPlan /\ planMd = NoPlan
    /\ rows = [k \in Keys |-> 0] /\ github = [k \in Keys |-> 0]
    /\ registry = NoJob
    /\ kind = [j \in Jobs |-> "plan"]
    /\ pc = [j \in Jobs |-> "absent"]
    /\ jobPlan = [j \in Jobs |-> NoPlan]
    /\ todo = [j \in Jobs |-> <<>>]
    /\ seen = [j \in Jobs |-> {}]
    /\ attempt = [j \in Jobs |-> 1]
    /\ handled = [j \in Jobs |-> 0]
    /\ approving = [a \in Approvers |-> "idle"]
    /\ stopping = [s \in Stoppers |-> "idle"]
    /\ deleting = [d \in Deleters |-> "idle"]
    /\ decided = [j \in Jobs |-> NoPlan]
    /\ quiet = TRUE /\ crashes = 0

-----------------------------------------------------------------------------
(* The task registry *)

IsRunning == registry # NoJob /\ pc[registry] # "done"

(* task.cancel(): a coroutine that never ran is dropped, wrapper and all.  *)
Cancelled(j) ==
    [pc EXCEPT ![j] = IF @ = "new" THEN "unstarted"
                      ELSE IF @ \in Working THEN "exit" ELSE @]

AfterCancel == IF IsRunning THEN Cancelled(registry) ELSE pc

(* Mutant: a job still running is left to itself.                          *)
RunTrackedBeside(j, k) ==
    /\ pc[j] = "absent"
    /\ registry' = j
    /\ kind' = [kind EXCEPT ![j] = k]
    /\ pc' = [pc EXCEPT ![j] = "new"]
    /\ decided' = [decided EXCEPT ![j] = issuePlan]
    /\ quiet' = FALSE

RunTracked(j, k) ==
    /\ pc[j] = "absent"
    /\ registry' = j
    /\ kind' = [kind EXCEPT ![j] = k]
    /\ pc' = [AfterCancel EXCEPT ![j] = "new"]
    /\ decided' = [decided EXCEPT ![j] = issuePlan]
    /\ quiet' = FALSE

(* The locals of a coroutine end with it.                                  *)
ForgetLocals(J) ==
    /\ jobPlan' = [j \in Jobs |-> IF j \in J THEN NoPlan ELSE jobPlan[j]]
    /\ todo' = [j \in Jobs |-> IF j \in J THEN <<>> ELSE todo[j]]
    /\ seen' = [j \in Jobs |-> IF j \in J THEN {} ELSE seen[j]]
    /\ attempt' = [j \in Jobs |-> IF j \in J THEN 1 ELSE attempt[j]]
    /\ handled' = [j \in Jobs |-> IF j \in J THEN 0 ELSE handled[j]]

(* Mutant: the finished job empties the registry slot whoever holds it.    *)
ExitPopsAnyJob(j) ==
    /\ pc[j] \in Unwinding
    /\ pc' = [pc EXCEPT ![j] = "done"]
    /\ registry' = IF pc[j] = "exit" THEN NoJob ELSE registry
    /\ ForgetLocals({j})
    /\ UNCHANGED <<projectVars, issueVars, kind, requestVars, decided,
                   quiet, crashes>>

(* The wrapper's finally clause, which a coroutine cancelled before its    *)
(* first step never reaches.                                               *)
Exit(j) ==
    /\ pc[j] \in Unwinding
    /\ pc' = [pc EXCEPT ![j] = "done"]
    /\ registry' = IF pc[j] = "exit" /\ registry = j THEN NoJob ELSE registry
    /\ ForgetLocals({j})
    /\ UNCHANGED <<projectVars, issueVars, kind, requestVars, decided,
                   quiet, crashes>>

-----------------------------------------------------------------------------
(* Requests *)

Start(j) ==
    /\ RunTracked(j, "plan")
    /\ UNCHANGED <<projectVars, issueVars, localVars, requestVars, crashes>>

ApproveRead(a) ==
    /\ approving[a] = "idle"
    /\ approving' = [approving EXCEPT ![a] = stage]
    /\ UNCHANGED <<projectVars, issueVars, jobVars, stopping, deleting,
                   decided, quiet, crashes>>

(* The request decides on the stage it read, with no await in between.     *)
ApproveRefuse(a) ==
    /\ approving[a] \in Stages
    /\ (IsRunning \/ approving[a] \notin {"awaiting_plan_approval", "error"})
    /\ approving' = [approving EXCEPT ![a] =
                       IF IsRunning THEN "already_running"
                       ELSE "already_applied"]
    /\ UNCHANGED <<projectVars, issueVars, jobVars, stopping, deleting,
                   decided, quiet, crashes>>

ApproveAccept(a, j) ==
    /\ approving[a] \in {"awaiting_plan_approval", "error"}
    /\ ~IsRunning
    /\ approving' = [approving EXCEPT ![a] = "resuming"]
    /\ RunTracked(j, "apply")
    /\ UNCHANGED <<projectVars, issueVars, localVars, stopping, deleting,
                   crashes>>

StopCancel(s) ==
    /\ stopping[s] = "idle"
    /\ stopping' = [stopping EXCEPT ![s] = "cancelled"]
    /\ pc' = AfterCancel
    /\ quiet' = TRUE
    /\ UNCHANGED <<projectVars, issueVars, registry, kind, localVars,
                   approving, deleting, decided, crashes>>

StopWrite(s) ==
    /\ stopping[s] = "cancelled"
    /\ stopping' = [stopping EXCEPT ![s] = "answered"]
    /\ status' = "paused"
    /\ UNCHANGED <<stage, planApproved, issuePlan, planMd, issueVars, jobVars,
                   approving, deleting, decided, quiet, crashes>>

DeleteStage(d) ==
    /\ deleting[d] = "idle"
    /\ deleting' = [deleting EXCEPT ![d] = "staged"]
    /\ stage' = "error"
    /\ UNCHANGED <<status, planApproved, issuePlan, planMd, issueVars,
                   jobVars, approving, stopping, decided, quiet, crashes>>

DeleteStatus(d) ==
    /\ deleting[d] = "staged"
    /\ deleting' = [deleting EXCEPT ![d] = "answered"]
    /\ status' = "deleted"
    /\ UNCHANGED <<stage, planApproved, issuePlan, planMd, issueVars,
                   jobVars, approving, stopping, decided, quiet, crashes>>

(* PUT /plan writes the text and nothing else.                             *)
EditPlan(p) ==
    /\ planMd # p
    /\ planMd' = p
    /\ UNCHANGED <<stage, status, planApproved, issuePlan, issueVars,
                   jobVars, requestVars, decided, quiet, crashes>>

-----------------------------------------------------------------------------
(* Jobs *)

Goto(j, from, to) == pc[j] = from /\ pc' = [pc EXCEPT ![j] = to]

(* What a job's step leaves alone, besides the variables it names itself.  *)
JobFrame == UNCHANGED <<registry, kind, requestVars, decided, quiet, crashes>>

Begin(j) ==
    /\ Goto(j, "new", IF kind[j] = "plan" THEN "planning" ELSE "approval")
    /\ JobFrame
    /\ UNCHANGED <<projectVars, issueVars, localVars>>

(* The end of analyze_and_plan; a plan that could not be parsed is saved   *)
(* as {}, which is a plan without tasks here.                              *)
SavePlan(j, p) ==
    /\ Goto(j, "planning", "exit")
    /\ issuePlan' = p /\ planMd' = p
    /\ stage' = "awaiting_plan_approval" /\ status' = "planning"
    /\ JobFrame
    /\ UNCHANGED <<planApproved, issueVars, localVars>>

(* The early returns of analyze_and_plan: no database, no schema.          *)
AbortPlanning(j) ==
    /\ Goto(j, "planning", "exit")
    /\ JobFrame
    /\ UNCHANGED <<projectVars, issueVars, localVars>>

(* record_approval stands before the try: its failure ends the job with    *)
(* nothing written.                                                        *)
RecordApproval(j) ==
    /\ \/ /\ Goto(j, "approval", "read")
          /\ planApproved' = TRUE
       \/ /\ Goto(j, "approval", "exit")
          /\ UNCHANGED planApproved
    /\ JobFrame
    /\ UNCHANGED <<stage, status, issuePlan, planMd, issueVars, localVars>>

ReadPlan(j) ==
    /\ Goto(j, "read", "begin")
    /\ jobPlan' = [jobPlan EXCEPT ![j] = issuePlan]
    /\ JobFrame
    /\ UNCHANGED <<projectVars, issueVars, todo, seen, attempt, handled>>

HasTasks(p) == p # NoPlan /\ Tasks[p] # <<>>

BeginBuilding(j) ==
    /\ HasTasks(jobPlan[j])
    /\ Goto(j, "begin", "snapshot")
    /\ stage' = "building" /\ status' = "building"
    /\ JobFrame
    /\ UNCHANGED <<planApproved, issuePlan, planMd, issueVars, localVars>>

(* Mutant: a re-run does not look for the issues that exist.               *)
SnapshotNothing(j) ==
    /\ Goto(j, "snapshot", "loop")
    /\ seen' = [seen EXCEPT ![j] = {}]
    /\ todo' = [todo EXCEPT ![j] = Tasks[jobPlan[j]]]
    /\ JobFrame
    /\ UNCHANGED <<projectVars, issueVars, jobPlan, attempt, handled>>

SnapshotIssues(j) ==
    /\ Goto(j, "snapshot", "loop")
    /\ seen' = [seen EXCEPT ![j] = {k \in Keys : rows[k] > 0}]
    /\ todo' = [todo EXCEPT ![j] = Tasks[jobPlan[j]]]
    /\ JobFrame
    /\ UNCHANGED <<projectVars, issueVars, jobPlan, attempt, handled>>

SkipTask(j) ==
    /\ pc[j] = "loop" /\ todo[j] # <<>> /\ Head(todo[j]) \in seen[j]
    /\ todo' = [todo EXCEPT ![j] = Tail(@)]
    /\ handled' = [handled EXCEPT ![j] = @ + 1]
    /\ JobFrame
    /\ UNCHANGED <<projectVars, issueVars, pc, jobPlan, seen, attempt>>

TakeTask(j) ==
    /\ todo[j] # <<>> /\ Head(todo[j]) \notin seen[j]
    /\ Goto(j, "loop", "create")
    /\ attempt' = [attempt EXCEPT ![j] = 1]
    /\ JobFrame
    /\ UNCHANGED <<projectVars, issueVars, jobPlan, todo, seen, handled>>

IssueExists(k) == github' = [github EXCEPT ![k] = @ + 1]

CreateIssue(j) ==
    /\ Goto(j, "create", "record")
    /\ IssueExists(Head(todo[j]))
    /\ JobFrame
    /\ UNCHANGED <<projectVars, rows, localVars>>

(* Mutant: the bare create is tried for ever.                              *)
CreateIssueFailsForever(j) ==
    /\ pc[j] = "create"
    /\ attempt' = [attempt EXCEPT ![j] = IF @ < 3 THEN @ + 1 ELSE 1]
    /\ JobFrame
    /\ UNCHANGED <<projectVars, issueVars, pc, jobPlan, todo, seen, handled>>

(* The call raises, whether GitHub created the issue (its answer was lost  *)
(* or late) or not: next with fewer fields, then on to the next task.      *)
CreateIssueFails(j) ==
    /\ pc[j] = "create"
    /\ (IssueExists(Head(todo[j])) \/ UNCHANGED github)
    /\ IF attempt[j] < 3
       THEN /\ attempt' = [attempt EXCEPT ![j] = @ + 1]
            /\ UNCHANGED <<pc, todo>>
       ELSE /\ pc' = [pc EXCEPT ![j] = "loop"]
            /\ todo' = [todo EXCEPT ![j] = Tail(@)]
            /\ UNCHANGED attempt
    /\ JobFrame
    /\ UNCHANGED <<projectVars, rows, jobPlan, seen, handled>>

(* Mutant: the task is counted and marked before the row is inserted.      *)
RecordIssueCountsFirst(j) ==
    /\ Goto(j, "record", "loop")
    /\ LET k == Head(todo[j]) IN
         /\ seen' = [seen EXCEPT ![j] = @ \cup {k}]
         /\ handled' = [handled EXCEPT ![j] = @ + 1]
         /\ (rows' = [rows EXCEPT ![k] = @ + 1] \/ UNCHANGED rows)
    /\ todo' = [todo EXCEPT ![j] = Tail(@)]
    /\ JobFrame
    /\ UNCHANGED <<projectVars, github, jobPlan, attempt>>

(* The row of the issue; a failed INSERT is logged and the task passed by  *)
(* (reading an inserted row back is taken not to fail on its own).         *)
RecordIssue(j) ==
    /\ Goto(j, "record", "loop")
    /\ \/ LET k == Head(todo[j]) IN
            /\ rows' = [rows EXCEPT ![k] = @ + 1]
            /\ seen' = [seen EXCEPT ![j] = @ \cup {k}]
            /\ handled' = [handled EXCEPT ![j] = @ + 1]
       \/ UNCHANGED <<rows, seen, handled>>
    /\ todo' = [todo EXCEPT ![j] = Tail(@)]
    /\ JobFrame
    /\ UNCHANGED <<projectVars, github, jobPlan, attempt>>

(* The closing log line reports SUCCESS iff AllHandled.                    *)
Report(j) ==
    /\ todo[j] = <<>>
    /\ Goto(j, "loop", "report")
    /\ JobFrame
    /\ UNCHANGED <<projectVars, issueVars, localVars>>

AllHandled(j) == handled[j] = Len(Tasks[jobPlan[j]])

Finish(j) ==
    /\ Goto(j, "report", "exit")
    /\ JobFrame
    /\ UNCHANGED <<projectVars, issueVars, localVars>>

(* An exception outside the per-task try: no plan to apply, GitHub or the  *)
(* database failing.                                                       *)
JobError(j) ==
    /\ pc[j] \in {"planning", "read", "begin", "snapshot", "loop", "report"}
    /\ pc' = [pc EXCEPT ![j] = "failing"]
    /\ JobFrame
    /\ UNCHANGED <<projectVars, issueVars, localVars>>

(* Mutant: the failure is written under a name no reader knows.            *)
WriteErrorAsFailed(j) ==
    /\ Goto(j, "failing", "exit")
    /\ stage' = "failed" /\ status' = "error"
    /\ JobFrame
    /\ UNCHANGED <<planApproved, issuePlan, planMd, issueVars, localVars>>

WriteError(j) ==
    /\ Goto(j, "failing", "exit")
    /\ stage' = "error" /\ status' = "error"
    /\ JobFrame
    /\ UNCHANGED <<planApproved, issuePlan, planMd, issueVars, localVars>>

-----------------------------------------------------------------------------
(* A restart loses the registry, every coroutine and every request; init_db *)
(* leaves projects as they are, and the users ask again.                    *)
Crash ==
    /\ crashes < MaxCrashes
    /\ crashes' = crashes + 1
    /\ registry' = NoJob
    /\ pc' = [j \in Jobs |-> IF pc[j] = "absent" THEN "absent" ELSE "done"]
    /\ ForgetLocals(Jobs)
    /\ approving' = [a \in Approvers |->
                       IF approving[a] \in Stages THEN "idle" ELSE approving[a]]
    /\ stopping' = [s \in Stoppers |->
                      IF stopping[s] = "cancelled" THEN "idle" ELSE stopping[s]]
    /\ deleting' = [d \in Deleters |->
                      IF deleting[d] = "staged" THEN "idle" ELSE deleting[d]]
    /\ quiet' = TRUE
    /\ UNCHANGED <<projectVars, issueVars, kind, decided>>

JobStep(j) ==
    \/ Begin(j) \/ (\E p \in Plans : SavePlan(j, p)) \/ AbortPlanning(j)
    \/ RecordApproval(j) \/ ReadPlan(j) \/ BeginBuilding(j)
    \/ SnapshotIssues(j) \/ SkipTask(j) \/ TakeTask(j)
    \/ CreateIssue(j) \/ CreateIssueFails(j) \/ RecordIssue(j)
    \/ Report(j) \/ Finish(j) \/ JobError(j) \/ WriteError(j) \/ Exit(j)

Request ==
    \/ \E j \in Jobs : Start(j)
    \/ \E a \in Approvers :
         ApproveRead(a) \/ ApproveRefuse(a) \/ \E j \in Jobs : ApproveAccept(a, j)
    \/ \E s \in Stoppers : StopCancel(s) \/ StopWrite(s)
    \/ \E d \in Deleters : DeleteStage(d) \/ DeleteStatus(d)
    \/ \E p \in Edits : EditPlan(p)

Next == Request \/ (\E j \in Jobs : JobStep(j)) \/ Crash

Spec == Init /\ [][Next]_vars

(* The event loop runs every coroutine that is ready, and the awaits of a  *)
(* job end: the HTTP clients have timeouts.                                *)
FairSpec == Spec /\ \A j \in Jobs : WF_vars(JobStep(j))

-----------------------------------------------------------------------------
(* Properties *)

(* A project runs at most one job: whatever order start, approve and stop  *)
(* requests come in, two coroutines are never both able to write           *)
(* (run_tracked cancels the job it replaces).                              *)
OneJob == \A i, j \in Jobs : pc[i] \in Working /\ pc[j] \in Working => i = j

(* A stop request stops whatever runs: between its cancel and the next     *)
(* launch no job is able to write, so "paused" is what the project is and  *)
(* no issue appears (the registry still names the job when it must).       *)
StopStops == quiet => \A j \in Jobs : pc[j] \notin Working

(* However often a plan is approved, stopped, failed and approved again,   *)
(* a task has at most one row (the _seen_keys snapshot of apply_plan).     *)
RowPerTask == \A k \in Keys : rows[k] <= 1

(* The closing line of apply_plan reports SUCCESS only if every task of    *)
(* the plan has its row, those skipped and those created together.         *)
ReportTruthful ==
    \A j \in Jobs : pc[j] = "report" /\ AllHandled(j) =>
        \A i \in 1..Len(Tasks[jobPlan[j]]) : rows[Tasks[jobPlan[j]][i]] > 0

(* An apply job works on the plan that was stored when its approval was    *)
(* accepted: a planning job cannot slip another one under it before the    *)
(* apply job reads it.                                                     *)
ApprovedPlanHeld ==
    \A j \in Jobs : jobPlan[j] # NoPlan => jobPlan[j] = decided[j]

(* Every job that is launched comes to its end.                            *)
JobsFinish == \A j \in Jobs : pc[j] # "absent" ~> pc[j] = "done"
=============================================================================
