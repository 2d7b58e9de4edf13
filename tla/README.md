# Automatron: a TLA+ development of the orchestrator

Automatron is a FastAPI service (`src/orchestrator/orchestrator`) with a Next.js
front end. It plans a software project with an LLM, turns the plan into GitHub
issues, lets a builder agent implement them as pull requests, reviews those, and
deploys the result to servers over SSH behind a validation and an approval. All
state is in one SQLite file; everything concurrent runs on one asyncio event
loop. This directory holds the specifications of its concurrent core, the TLC
instances that check them and the TLAPS proofs about them.

Contents: [inventory](#inventory), [plan](#plan), [modules](#modules),
[runs](#runs-and-bounds), [fairness](#fairness), [proofs](#proofs),
[disagreements](#disagreements), [what is left out](#what-is-not-modelled).

## Inventory

Paths are relative to `src/orchestrator/orchestrator/`.

| component | state it keeps | operations | what is hard |
|---|---|---|---|
| **Project lifecycle**: `api/routes.py`, `orchestrator.py`, `models/project.py` | `projects` row (stage, status, plan text, issue plan, approval), `_running_tasks` (one asyncio task per project) | start, approve-plan, resume, stop, edit plan, delete; the planning and the building job they launch | requests decide on a row read before an await; a job is cancelled while a call is in flight; a replaced job unwinds after its successor started |
| **Issue board**: `orchestrator.py`, `api/webhook_github.py`, `build_check.py` | `github_issues`, `webhook_deliveries`, `projects.preview_url` | create an issue, implement, review, sync, webhook, merge build check, start-up sweep | six kinds of background task without lock or handle write the same rows; GitHub moves by itself, redelivers and loses requests |
| **Deployment runs**: `docker_deployment_ai/orchestrator.py`, `executor.py`, `healthcheck.py`, `rollback.py` | the `deployment_*` and `deploy_runs` tables, the server | inventory, plan, validate, approve, execute, step, healthcheck | gates read rows another request replaces; a step is done before its row; a restart forgets the executor |
| **Deployment planning**: `planner.py`, `policy.py`, `plan_schema.py`, `validator.py`, `param_validators.py` | the `deployment_plans` and validation rows | choose a strategy and its actions; classify risk; accept or block | planner, validator and executor each have rules of their own, and the server moves between them |
| **Docker AI provider** and clients: `docker_ai_provider.py`, `docker_agent_client.py`, `gordon_*`, `model_runner_client.py`, `mcp_*` | cached probe of `docker ai` | ask for a plan, fall back | timeouts, half an answer |
| **Inventory and detectors**: `inventory.py`, `*_detector.py`, `*_scanner.py`, `docker_remote.py` | one snapshot row per collection | run commands on the server, parse | each command may fail and leave an empty text |
| **Builder agent**: `builder/agent_sdk.py` | one clone per project on disk | clone, branch, tool loop, commit, push | the clone keeps what earlier runs left in it, and two builders share it |
| **Project builds and previews**: `build_check.py`, `preview.py` | containers, ports, two more clones, `preview_url` | build, serve, stop | two of them at once on one name or port; the old one is gone before the new one is built |
| **Feedback and audit**: `orchestrator.py` | chat messages, created issues | conversation, duplicate detection, issue creation | two messages at once see the same issues |
| **Database provisioning**: `db_provision/*` | a database, a login role and a PostgREST container per project, shared roles, credentials in the project row | introspect, provision, gate, migrate, verify, push, tear down | a rerun after half of it; a deletion beside it |
| **CI/CD specialist**: `cicd_specialist/*` | generated workflow, approval | generate, validate, approve, commit | approval of one text, commit of another |
| **GitHub Actions, GitHub client, repository manager** | none | HTTP and git calls | pagination, retries |
| **Activity log and socket events**: `models/project.py`, `api/websocket.py` | `activity_log` rows, rooms | append, emit, replay | an event emitted before the client joined |
| **Users and access**: `auth.py`, `models/user.py` | users, shares | log in, share, check | ownership back-filled at start |
| **LLM provider and catalog**: `llm/*` | cached catalog | route a call, refresh | stale or empty cache |
| **Web front end**: `src/web-ui/src` | Zustand store | merge fetched state and events | a late answer overwrites a newer event |

How they interact: a route launches a *tracked* task (`run_tracked`: planning,
building) or an untracked `BackgroundTasks` function (builder, review, sync,
deployment executor). Tasks talk to each other only through SQLite rows, each
statement on a connection of its own, and through GitHub; the webhook turns
GitHub's events back into row updates and further tasks. The front end follows
socket events and fetched rows. What makes a component correct:

* lifecycle: one job per project, stop means stopped, the approved plan is the
  one built, each task becomes one row, a reported success is one;
* issue board: a review on record is of the diff it is filed under, a row that
  offers a pull request has one, a delivery is worked on once, a sync repairs
  what races left, failures give an issue back;
* deployment: only validated and approved content runs, the step log tells the
  truth about the server, the single-flight guard does not let a visible run be
  overtaken, every run ends;
* planning of deployments: what the planner emits the validator and the executor
  understand, and what is accepted fits the server that was seen;
* clones, previews and provisioning: what is pushed, served or written down is
  what the caller asked for, though others use the same directory, port or
  database and earlier runs left their work half done.

## Plan

Done, the most important behaviour first:

1. `DeployRun`, `DeployRunProofs`: the deployment service.
2. `ProjectLifecycle`, `ProjectLifecycleProofs`: the jobs of a project.
3. `IssueBoard`, `IssueBoardProofs`: the issue board.
4. `DeployPlan`, `DeployPlanProofs`: from a server to a plan, its verdict and
   its parameter checks.
5. `DeployPromise`: the abstract deployment, which `DeployRun` refines;
   `DeployPromiseProofs` proves the refinement, `StepLogFaithful` and
   `InterleavingOnlyFromRace`.
6. `Workspaces`, `WorkspacesProofs`: the shared clone of the builders and the
   local previews.
7. `Provision`, `ProvisionProofs`: the database a project is planned against.

Left:

8. Composition: `Workspaces` as the `working` step of `IssueBoard`, `Provision`
   as the planning step of `ProjectLifecycle`.
9. `Feedback` (duplicate detection between two messages) and the front-end
    store, which are programs of their own beside this core.

Every module follows one form: parameters as CONSTANTS under a named
assumption, one action per statement between two awaits, invariants as
conjunctions of named parts, no RECURSIVE operator, mutants of the definitions
next to them, proofs in a module of their own. An `MC` module gives the
constants of its module their small values.

## Modules

The granularity is the same everywhere. On one event loop only an `await`
yields, so an action is what a coroutine does between two awaits that touch
shared state (a table, GitHub, the server, the task registry); awaits that touch
nothing shared are dropped. A local variable read before an await and used after
it is a variable of the model.

### DeployRun

One process per execute request, which is also the run it may create.

| model | code |
|---|---|
| `inventory`, `plans`, `validations`, `approvals` | the tables of `schema.py`; a plan's JSON is a content, equal exactly when its hash is |
| `Execute`, `GateValidation`, `GateApproval`, `GateBusy`, `InsertRun` | `prepare_run`, cut at its awaits |
| `ValidateRead`/`ValidateInsert`, `ApproveRead`/`ApproveInsert` | `validate_plan`, `approve_plan`, cut between read and insert |
| `CaptureRollback`, `StartRun`, `BeginStep`, `RunStep`, `SaveStep`, `FailRun`, `CompleteRun`, `Healthcheck` | `execute_prepared_run` and `execute_plan` |
| `EditPlan` (external) | a change of `plan_json` from outside, which `plan_hash.py` is there to detect |
| `Crash` | a restart: tables stay, coroutines go, nothing at start-up looks at `deploy_runs` |
| `effects`, `seen` | history: what happened on the server; what the guard's SELECT returned |

### DeployPromise

What a client may rely on, without gates, tasks, tables or restarts: a run is
queued with a content, started, touches its server step by step, reports each
step, and ends completed or failed. `DeployRun` implements it
(`Promise == INSTANCE DeployPromise WITH ...`) through this mapping: `state` is
the row's status, `log` its step rows, `content` the content the request read
(none before there is a row), and `touched` the run's own marks in the server's
log with their places (`Touched`), so that other runs on the target, which may
interleave, do not show. Validation, approval, the rollback snapshot and the
healthcheck are stutters; a restart is one too, since a run it leaves behind
simply makes no further step.

### DeployPlan

One target and one request, from the inventory to the parameter checks of the
executor. Most of the code behind it is pure; what is not are the commands of an
inventory, the server (`ServerMoves`, external), and the providers
(`ProviderAnswers`, `ProviderFails`, `ChainExhausted`).

Each command of an inventory may fail and leave an empty text, independently of
the others, so `Inventory` loses any of what `Losses` of the server names: any
set of the four commands whose answer concerns all of it (`docker ps`, `ss`, the
networks, `compose version`), any set of the `docker inspect` calls, one for each
container, and the sight of any set of processes. A Docker daemon that is down
is the loss of what docker answers, a dropped connection the loss of all that
came after it. `snapshot.complete` records that nothing was lost.

| model | code |
|---|---|
| `Server`, `Losses`, `Inventory` and the operators before them | `inventory.py` and the detectors: what they conclude about manager, proxy and confidence from the outputs that are left |
| `Ask`, `ProviderAnswers`, `ProviderFails`, `ChainExhausted` | `docker_ai_provider.py` and its clients: the configured order, what is enabled, the cached probe of `docker ai`, which answer parses |
| `Plan` | `planner.py`, `plan_schema.py`, `policy.py`: strategy, risk, questions, actions, rewriting by policy |
| `Validate` | `validator.py`: each check by name, over the plan and the latest snapshot |
| `Step`, `RunEnds` | `executor.py`, `param_validators.py`: parameters are checked when the action is reached |

Texts are classes: a compose file name is one the two filename rules accept, one
that starts with an underscore, one with two dots, one neither accepts; a domain
is absent, lower case or mixed case; contents fit or are oversize. A server is
the seat of each proxy kind and five facts, which is all the checks tell apart.

### ProjectLifecycle

One project; a job is an asyncio task. `registry` is `_running_tasks[project]`;
`RunTracked` is `run_tracked` (it cancels the job it replaces and takes the
slot); a cancelled job gets `CancelledError` at its next await and unwinds in
`Exit`, whose `finally` clears the slot only if it is still its own. The
planning job is one write at the end; the building job loops over the tasks of
the plan it read, and `CreateIssue`/`CreateIssueFails` are the up to three calls
with fewer fields each. A failed GitHub call either did or did not create the
issue. `StopCancel`/`StopWrite` and `DeleteStage`/`DeleteStatus` are the two
halves of those routes.

### IssueBoard

All rows of table `github_issues` of one project, as the sequence of rows of
each issue number: the table has no unique index, so there can be two.
`SetStatus`, `SetPR` and `SetBuild` are the UPDATE statements, which hit every
row of a number; `First` is what a single-row read returns and `Last` what
survives in a dict by number. Processes: builders
(`implement_issue_with_builder`), reviewers (`review_pr`), syncs
(`sync_issues`), creators (`create_issue_from_prompt` and every other creator of
an issue), checkers (`run_build_check`), hooks (`github_webhook`). GitHub is
external: people, Copilot and the builder move the issue and its pull request,
and openings, closings and merges become deliveries, delivered any number of
times in any order. `HookApply` may pass the row over: the lookup of the issue
behind a pull request can fail (`webhook_github.py:80-93`). `HookRespond` queues what the handler gave to
`BackgroundTasks`; the tasks of one response run one after another
(`CheckerState.after`), so a sync that raises takes the build check along.
`Crash` kills every task, runs the start-up sweep, which resets any set of the
rows "implementing" (those whose stamp is NULL or 30 minutes old), and drops any
set of delivery records, since those older than a day go.

A pull request is named by the issue it was opened for, and `Strays` are pull
requests opened for no issue at all. The sync does not look a pull request up by
that name: `find_pr_for_issue` (`github/issues.py:301-337`) takes any pull
request the timeline cross-references, passes over a timeline or a pull request
that is not answered with 200, and then scans the bodies of open and closed
pull requests for `#N` as a substring. So `SyncProbe` finds a pull request of *any* issue or stray, or none
at all though there is one, without an error, or it raises; what came back empty
is remembered in `missed`. The field `pr` of a row is therefore a pull request
that may be another issue's, and the properties are stated of the pull request
the row names.

### Workspaces

The working copies on the orchestrator's disk, and GitHub's branches. A commit
is named by the run that made it, so a branch is a set of runs.

| model | code |
|---|---|
| `clone`: head, local branches, remote-tracking refs, by run the edits, new files and index, and the lock files a build modified or made (`artifacts`) | `workspace/<project>/repo-agent-sdk`, one per project and never cleaned |
| `BuilderStart` ... `Push` | `builder/agent_sdk.py`, one action per git command or turn of the tool loop; a command may fail or be killed at its timeout before or after it took effect |
| `EarlierClone` | the clone as finished runs leave it: on the branch of the latest one, with any artifacts, which are never staged and which nobody resets at the end |
| `Checkout`, `CheckoutMain` | `git checkout`, which git may refuse over changed or new files in the way (`InTheWay`), whoever left them, and whose result the code ignores |
| `RanBuild` | `run_build`, the tool that leaves artifacts |
| `Lease`, `NoLease` | `--force-with-lease` against the tracking ref, and the plain push of a branch that is new |
| `PreviewStart`, `Sync`, `Prepare`, `BuildAndRun`, `Poll`, `SavePreview` | `preview.py` and its callers; it awaits nothing but the activity log, hence larger steps |
| `PersonPushes`, `Crash` | a person's push; a restart, which leaves directories and containers |

`met` records which runs shared a directory. Nothing in the code keeps them
apart, so the properties say what holds of a run that was alone, and what a
shared directory can still not do.

### Provision

The schema gate of planning (`analyze_and_plan`) and what it does for a project
without a database. An action is at most one call to Postgres, Docker, GitHub or
the project row, and a run may be stopped, or the process restarted, between any
two, the call in flight having taken place or not.

| model | code |
|---|---|
| `ReadProject`, `Introspect`, `Decide` | reading the credentials and the schema; a provisioned database that shows no tables is provisioned again (`ResumeIfOurs`) |
| `CheckRole`, `CreateRole`, `EnsureDatabase`, `EnsureAuthenticator`, `Grant`, `StartPostgrest`, `SaveCredentials` | `db_provision/`, in its order |
| `Scaffold`, `Gate`, `Architect` | the package of the repository, the refusal to plan blind, the model's answer |
| `Migrate`, `Regrant`, `Notify`, `PushMigration`, `Verify`, `PushTypes`, `StorePlan` | the first migration, PostgREST's reload, the verification by at most six readings, what is committed |
| `Reload` | PostgREST refreshes its schema cache in its own time, or never (external) |
| `BeginDelete` ... `MarkDeleted`, `TeardownFails` | the teardown in `api/routes.py` |

A generated password is named by the run that generated it, so a container whose
password is no longer the role's can be seen. Two histories name what may cause
a later failure: `misread`, the runs whose first reading of the schema failed,
and `migrated`, the runs whose migration was committed.

## Runs and bounds

| run | configuration | what it shows |
|---|---|---|
| `deploy_run` | `DeployRun.cfg` | two execute requests race two validations, an approval, an edit and a restart: no unauthorised content runs, no run is refused after its row, the guard is honest, interleaving needs a race, the log matches the server, `DeployPromise` is kept, and without a restart each run ends |
| `deploy_run_single_flight` | `DeployRunSingleFlight.cfg` | violated: two runs on one target at once |
| `deploy_plan` | `DeployPlan.cfg` | a server that changes once, two inventories that lose any set of commands each, every answer and failure of the providers: a draft can fail validation only for what the planner does not look at, accepted plans fit the server both inventories saw completely, parameters stop a run before containers start, the fallback keeps its order |
| `lifecycle_safety` | `ProjectLifecycleSafety.cfg` | starts, two approvals, a stop, a restart, failing and unanswered calls: six invariants |
| `lifecycle_live` | `ProjectLifecycleLive.cfg` | every launched job ends |
| `board_review` | `IssueBoardReview.cfg` | a build, an asked and a webhook review, two pushes, two deliveries, redeliveries and a restart: a stored or skipped-for review is of the pull request and the head it is filed under, a delivery is worked on once |
| `board_sync` | `IssueBoardSync.cfg` | two syncs among a build, a merge with its build check, a stray pull request that lookups may take for the issue's, and a restart: a row offers pull requests that exist, an undisturbed sync repairs what was left, save where its lookup came back empty |
| `board_live` | `IssueBoardLive.cfg` | two builds of one issue, two reviews, no restart |
| `board_duplicate` | `IssueBoardDuplicate.cfg` | violated: a delivery that was never worked on is a duplicate |
| `workspaces` | `Workspaces.cfg` | a build and a rework in one clone, or previews of two projects, or one of each, with a person's push or a restart: what is pushed, whose commits a push may drop, what is served and at which port |
| `workspaces_dirty` | `WorkspacesDirty.cfg` | violated: a rework reported as pushed without its commit, in a clone where an earlier run left a modified lock file or edits |
| `provision` | `Provision.cfg` | one project planned twice and perhaps deleted, two projects provisioned at once, a project with its own credentials, with a fault anywhere: a run fails only at a step that gives it cause, what is written down is live, planning ends |

Why the bounds are enough for the hazards they are aimed at. A race of the
deployment guard needs two requests; two contents tell "what was approved" from
"what runs now", two snapshots turn a verdict from passed to blocked, and a
content with two remote actions is what another run can step between; the proofs
hold for any number of each. In `DeployPlan` two inventories and one move
give a plan made before a change and validated after it, and the six servers
are one of each kind the detectors tell apart, with one that has two proxies, of
which an inventory may lose either. What an inventory loses is not bounded. In the lifecycle two approvers
and one stopper give every order of launch, replace and cancel; a plan of two
tasks separates "first" from "all"; two plans with a shared key let a second
build meet rows of the first. On the board one issue is enough since no writer
relates two issues, save the count that starts a preview; two heads make a push
between two reads; two deliveries are an opening and a closing or a merge, and
two hooks make a redelivery overlap; two syncs make duplicate rows without a
creator, and one stray beside the issue is the pull request a lookup confuses
with the issue's own. Deliveries of strays change nothing there and do not count. In `Workspaces` a build and a rework are the two ways through the
clone, each over branches that exist or do not and over a fresh clone or one that
a finished run left on either branch with any artifacts; one turn of the tool loop writes or does not; two ports for two projects make
both a free and a full range; three previews are two of one project beside
another. In `Provision` two runs of one project give every half-done state
followed by a full run, and two tables separate "some" from "all". One restart,
fault or disturbance is enough where it is the only one in the bound: a restart
forgets everything but what is stored, and the state it leaves is met by a
complete later run.

`SYMMETRY` permutes requests, builders, hooks and syncs, none of which any
property names apart, and is not used where liveness or a refinement is checked.
`CHECK_DEADLOCK` is off because requests are bounded and a finished system
stops.

Bounds: `MaxValidations`, `MaxApprovals`, `MaxEdits`, `MaxCrashes`, `MaxHead`,
`MaxDeliveries`, `MaxInventories`, `MaxMoves`, `MaxDisturbed` and `MaxFaults`
bound only what comes from outside (people, GitHub, servers, failing calls,
restarts); when one is reached the program itself still moves, save that a
builder cannot push past `MaxHead` and nothing else hangs on it. `MaxTurns` is
the setting `max_iterations`. `Mixes`, `Worked` and `Deleted` choose which runs,
branches and deletions one behaviour has, so that two small cases are explored
one beside the other instead of multiplied. `Awaited` of `DeployRun` leaves out
the inventories that no plan or validation will read within the other bounds.

## Fairness

Weak fairness is on steps of the program only, never on requests, people or
GitHub. asyncio runs each ready coroutine, so a coroutine stops only in an
await: every SSH call has a timeout (`subprocess.run(..., timeout=)`), every HTTP
client has one, and the reviewer's model call is under `asyncio.wait_for` with
180 seconds, so in `IssueBoard` the answer of the model is not fair and its
timeout is. In `Provision` every call of a run returns or raises and PostgREST's
reload is not fair, which is why `Verify` has to give up. The live runs of the
lifecycle and the board have no restart, and `RunFinishes` speaks of behaviours
without one: after a restart nothing resumes a task, which is a property of the
code; the safety runs have restarts. `DeployPlan` and `Workspaces` have safety
only: the former is a chain of straight calls, and previews call git and docker
without a timeout, so nothing justifies that they end.

## Proofs

Each `*Proofs` module proves its theorems for every value of the constants under
the named assumption of its module and nothing else.

* `DeployRunProofs`: `TypeCorrect`, `Authorised`, `GuardSound`, `Executable`.
  `IInv` joins the types with `ReadInv` (what a request or an approval read was
  a row), `StatusInv` (the row of a request matches where it is), `GateInv`
  (behind each gate the evidence the gate read is still in the append-only logs,
  which is what lets later validations and edits pass), and `VerdictInv` (a
  validation that is not blocked was computed from a content with executable
  actions only). `GuardHonest` needs that a terminal status never changes.
* `DeployPromiseProofs`: `Implements` is `Spec => PromiseKept`, initial states
  and step simulation. `PInv` adds to `IInv` what the steps need: `WorkInv` (the
  step log of a run is determined by its place in the executor), `OwnerInv`
  (whoever marked a server has a row) and `MarkInv` (its marks are of steps it
  reported or of the one in flight). The argument goes through `OneView`: a step
  of one request leaves every other run's view alone, since an SSH call only
  appends to the server's log; what is left is one case per action, most of them
  stutters. With the same invariants `StepLogTrue` proves `StepLogFaithful`
  (`TruthInv`: an ok row of a remote action, saved or about to be, has its mark)
  and `RacesOnly` proves `InterleavingOnlyFromRace` (`RaceInv`: whoever marks a
  server after another run was not seen by that run's guard, because what the
  guard saw was over for good).
* `ProjectLifecycleProofs`: `TypeCorrect`, `SingleJob`, `Stopped`, `Held`,
  `RecordedOnce`, `Truthful`. `RegistryInv` is the heart: a job able to write is
  the one in the registry, and it survives because `run_tracked` cancels before
  it replaces and `finally` compares before it clears. `LoopInv` says of each
  building job that the tasks it handled are a prefix of its plan and that its
  snapshot covers the rows; `CountInv` ties the counters to that prefix.
* `IssueBoardProofs`: `TypeCorrect`, `ReviewsTrue`, `OffersTrue`,
  `DeliveriesWorkedOnce`, `SkipsSound`. `Grows` says that heads only grow and a
  pull request never disappears; `Steps` says what any step does to any row: it
  keeps its review and pull request, records one some process held, or appends
  a fresh row behind the others. `BuilderInv`, `ReviewerInv` and `HeldInv` say
  that what a process holds is true of GitHub since it was read, and `RowInv` that
  a first row which offers a pull request has one. With heads growing, a review
  held by a slow reviewer stays true, which is why a late store is harmless to
  `ReviewOfItsDiff`. `OnceInv` ties the hooks at work to `recorded`.
  `SyncsRepair` proves `SyncRepairs`. `EndedInv` says that the rows of an issue
  end together, so the one row the sync looks at speaks for the others: whoever
  writes a status writes it to all of them, and only an insert tells rows apart.
  `QuietInv` accounts, issue by issue, for what a sync beside which nobody wrote
  has still to do (`Owed`): a closed issue has ended or is in its list to settle, an
  open one knows its pull request or is to be looked up. `QuietOrOwn` shows that
  any other step leaves statuses, pull requests and GitHub alone, or ends the
  quiet.
* `DeployPlanProofs`: `TypeCorrect`, `StopsBeforeUp`, `DraftPasses`,
  `AcceptedFits`, `FirstInOrder`. Most of it is about operators: `SnapInv` says
  that every snapshot is none, unreachable or what the detectors make of some
  server and of what any set of lost commands leaves, and `SnapshotPair` which
  pairs of manager and proxy that can be. `DraftPasses` holds for two different
  inventories, the planner's and the validator's: the validator takes the proxy
  from the plan, so what the planner's inventory lost or saw decides those checks. `PlanInv` says that a plan
  that is not blocked passed schema and policy for the snapshot it was made
  from, and has either no actions or the five of compose; `VerdictInv` what the
  validator computed it from; `RunInv` that the executor checked what it passed.
  `ChainInv` and `FallInv` say that the provider chain has gone through a prefix
  of the configured order.
* `ProvisionProofs`: `TypeCorrect`, `CredentialsServe`, `TablesLive`, `RunsPlan`,
  `NothingLeft`. `TypeOK` alone is not inductive: that the next shared role is
  one to create needs `RoleInv`, which also says that a role is found there
  already only by a run that lost a race. `OneRun` (one planning run of a project
  is at work) carries the rest: `UrlInv` and `HoldsInv` say what a run knows at
  each place, `AchievedInv` what provisioning has done by then unless the project
  is being deleted, `CacheInv` and `KnownInv` that PostgREST's cache is behind the
  database and a run's knowledge within it, `DeleteInv` what a deletion has
  removed. `RunsPlan` is an action property: at each step that can fail, the
  invariants leave only the causes it names. `LeftInv` says in which order a run
  writes its record and its migration, so that a run that migrated and is not at
  work has planned, failed or been cancelled (`Left`); `TablesInv` that the tables
  of a provisioned database come from a run in `migrated`; and `FreshInv` that a
  run which takes a database for empty either misread it, or finds in it only
  what abandoned runs left. Steps of other projects drop out through
  `OtherRuns` and `OtherProjects`.
* `WorkspacesProofs`: `TypeCorrect`, `PushesOwnWork`, `KeepsLease`, `ShowsAsked`,
  `UrlIsServed`, `ClashesRaced`. `BuildersMeet` and `PreviewsMeet` say that whoever
  is at work beside another run in a clone is in `met`, so a run that is not takes
  all steps there (`StepsAlone`, `PreviewAlone`). For such a builder `FetchedInv`
  keeps the tracking ref at what it fetched, and `AloneInv` says of each place what
  the clone holds: the branch checked out at the base the run started from
  (`Prepared`), edits and index of that run alone once reset and clean are done,
  whatever failed and killed runs left (`Worktree`), and base and own commit at the
  end (`Committed`). For previews `TreeInv` ties the directory to the branch asked
  for, `ReplacedInv` the container to the run between its start and the saved
  URL, and `PortInv` keeps the ports of those that wait apart from each other and
  from the running containers unless they raced. `TypeOK` needs `OntoInv`: only a
  rework that found its branch at GitHub checks it out.

Only model-checked: liveness (`RunFinishes`, `JobsFinish`, `FailureReleases`,
`OpenedIsReviewed`, `PlanningEnds`), which is outside the prover. Every invariant,
every safety action property and the refinement that a run checks is also a theorem.

## Disagreements

Three runs must find a claim of the repository violated; the claim is quoted in
the comment of the property and in `PROJECT.json`.

* `SingleFlight`: two active runs on one target; the guard's SELECT and the
  INSERT are not one transaction.
* `DuplicateWasProcessed`: a delivery is recorded before it is worked on.
* `SuccessMeansPushed`: lock files or edits an earlier run left in the clone make
  git refuse the checkout of a rework; its commit lands on another branch, and the push of
  the untouched one is reported as a success.

The models contain further behaviours that a reader of the code's comments may
not expect. No run is spent on them; the properties are stated around them.

**Lifecycle and board.**

* A planning job that outlives a deletion writes its stage and status over the
  deleted ones (`orchestrator.py:1186`); `routes.py:392-393` writes without
  cancelling, where `websocket.py:79-81` cancels.
* An approval after a build that left tasks out is answered "already applied"
  (`routes.py:588`), though `orchestrator.py:1280-1282` is ready to create only
  the missing issues.
* A lookup may give a row the pull request of another issue, or none
  (`github/issues.py:317`, `325`, `329-336`): the row is then reviewed, offered and
  merged under the wrong number, or stays open without one, and nothing is logged.
  `OfferedPRExists` and `ReviewOfItsDiff` speak of the pull request a row names,
  and `SyncRepairs` leaves out the issues whose lookup came back empty.
* An issue reopened on GitHub (`CloseOrReopenIssue`) keeps the row that ended: the
  sync ends rows of closed issues and looks for pull requests of open rows, and
  nothing sets an ended row back (`orchestrator.py:1440-1458`).
* The webhook clears the review of a reopened pull request
  (`webhook_github.py:161`), so the short-circuit on the head SHA
  (`orchestrator.py:1751`) no longer sees that this head was reviewed.
* A create call whose answer was lost is repeated (`orchestrator.py:1340`), so a
  task can have two issues in the repository, of which one has a row. Editing the plan changes its text
  and not the plan that is built (`routes.py:551`). A start plans again whatever
  was approved (`routes.py:574`). A sync and a creator can insert one issue
  twice (hence the sequences of `board`, `First` and `Last`). An issue closed
  before it was imported keeps an open row (`imported` in `SyncRepairs`). A
  build that cannot open its pull request leaves "implementing" behind
  (`BuildOpenPRFails`), which is why `FailureReleases` speaks of failures that
  reach the revert. When the sync of a merge raises, its build check does not
  run (`webhook_github.py:177`).

**Planning of deployments.**

* The routing checks use the proxy recorded in the plan, not that of the
  snapshot they validate against (`validator.py:152-154`, whose header speaks of
  the latest inventory; `policy.py:39-40`): a proxy that appeared in between is
  not seen. `AcceptedFitsServer` speaks of plans validated on the server they
  were made for.
* A lost command makes a server with a proxy look empty (`_safe_run`), a
  snapshot that failed altogether still validates, and only the first 20
  containers are inspected (`inventory.py:141`).
* `param_validators.py:35-41` speaks of validation before any SSH call; the
  executor checks an action's parameters when it reaches that action. The
  planner's file name rule accepts a leading underscore and two dots, the
  executor's does not; such a plan is accepted and stops at its upload.
* Five names of `PreferredStrategy` are not names of a strategy, so choosing
  them ends in a blocked plan. The default of a private deployment is blocked by
  the planner's own question. A mixed-case domain never conflicts. "Do NOT let
  the AI block" (`planner.py:291-298`) yields to the maximum taken in
  `_build_plan`. A manual plan that policy produced keeps its actions.
* An answer of Gordon or the model runner that cannot be parsed becomes an
  unblocked manual draft, and ends the chain; the probe of Gordon is kept for
  the life of the process; the `docker_agent` provider always fails for want of
  a database handle.

**Clones and previews.**

* `build_check.py:134` says that it "automatically opens a GitHub issue"; only
  the route does (`routes.py:436-448`), the webhook's check does not. Docker not
  being available counts as a passed build.
* The old preview is removed before the new image is built: after a failed build
  the row keeps a URL without a container. A preview whose health check timed
  out is saved as ready. A failed fetch goes unnoticed and an older commit is
  shown (`preview.py:226`); `ServesAsked` is about the branch, not the commit.
* Git and docker calls of a preview have no timeout and run on the event loop.

**Provisioning.**

* A provisioned database that cannot be read is taken for an empty one
  (`orchestrator.py:774-780`; its comment says it is "STILL empty") and migrated
  again; the migration then fails over the tables that are there.
* A migration whose run got no further stands in the way of later runs: the
  tables are there and PostgREST shows none of them until it reloads, so the
  next run takes the database for empty and its migration fails over them. It is
  the one thing left half done that does (`Abandoned` in `FailureHasCause`).
* The verification gives up after six readings. When PostgREST has yet to reload,
  the run fails with its migration applied, which is such an abandoned one.
* The gate says "Fix the supabase_url", but no route edits credentials.
* `_introspect_after_migration` accepts the first schema it can read, which
  after a resume may be the one PostgREST had cached before.
* A deletion does not cancel planning, so the run may create the database
  again; the deleted row keeps its credentials.

## What is not modelled

* The content of SSH commands, prompts, diffs, plans and issues; what a review
  concludes; formatting, logging and events.
* Errors of SQLite itself. Each statement commits on a connection of its own.
* Preflight, milestones, labels and the push of documents in the planning and
  building jobs: they write no modelled state and a failure ends or continues
  the job as a modelled failure does.
* A call in flight when its job is cancelled took place or not, which in
  `ProjectLifecycle` is a cancel just after or just before it; `Provision` has
  both outcomes.
* More than one pull request opened for an issue, and a pull request that closes
  several issues; a row may name a pull request opened for another issue.
* More than one page of GitHub issues (100, `github/issues.py:206`): a listing is
  complete.
* In `DeployPlan`, labels of networks and volumes, and hints from a repository's
  `deploy.yml`: the code drops the former, and looks for signals in the latter
  that its own reader never produces.
* In `Provision`, that a schema is cached for a minute (`orchestrator.py:656`)
  between two runs of a project.
* In `Workspaces`, what the model writes (any set of edits and new files), and
  the builders of a second project, whose clone is another directory.
* The CI/CD specialist: nothing in the application calls it, only its tests, so
  how its requests interleave cannot be read from the code.
* Post-build feedback, the audit and the front-end store: see the plan.
* The components listed with status `not_modelled` in `PROJECT.json`, each with
  its reason.
