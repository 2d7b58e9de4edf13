------------------------------ MODULE Provision ------------------------------
(***************************************************************************)
(* The database a project is planned against: planning's schema gate       *)
(* (orchestrator.py, analyze_and_plan), the database, login role and       *)
(* PostgREST container it provisions for a project that has none           *)
(* (db_provision/), the architect's first migration, and the teardown when *)
(* the project is deleted (api/routes.py).                                 *)
(*                                                                         *)
(* An action is at most one call to Postgres, Docker, GitHub or the        *)
(* project row; a planning run may be cancelled, and the process restarted,*)
(* between any two.  A run's call that was in flight either took place or  *)
(* not.  A schema is its set of tables, a migration the set it creates, a  *)
(* generated password the run that generated it.                           *)
(***************************************************************************)
EXTENDS Naturals, Sequences, SequencesExt

CONSTANTS
    Projects, Runs, ProjectOf,   \* planning runs, and the project of each
    Stored,        \* projects whose intake or README speaks of stored data
    Supplied,      \* projects created with credentials of their own,
    SuppliedTables,  \* whose database has these tables
    Tables, Answers, \* what the architect's sql:migration block may create
    SharedRoles,   \* anon, authenticated, service_role, in order
    NoRun,
    Mixes,         \* bound: the runs launched in one behaviour
    Deleted,       \* bound: projects that may be deleted
    MaxFaults      \* bound: failed calls, stops and restarts

ASSUME ProvisionAssumption ==
    /\ ProjectOf \in [Runs -> Projects] /\ NoRun \notin Runs
    /\ Stored \subseteq Projects /\ Supplied \subseteq Projects
    /\ SuppliedTables \subseteq Tables /\ SuppliedTables # {}
    /\ Answers \subseteq SUBSET Tables
    /\ SharedRoles \in Seq(STRING)
    /\ Mixes \subseteq SUBSET Runs /\ Deleted \subseteq Projects
    /\ MaxFaults \in Nat

VARIABLES
    wanted,      \* the runs of this behaviour
    configured,  \* provisioning_unavailable_reason() is None
    shared,      \* cluster-wide roles that exist
    db,          \* database of each project: [there, granted, tables]
    role,        \* password of auth_<slug>, by the run that set it
    api,         \* PostgREST container: [by, cache, notified], by: password in
                 \* its DSN
    url,         \* projects.supabase_url: none, "supplied" or "provisioned"
    repo,        \* main at GitHub: [pkg, migration, types]
    plan,        \* the plan awaiting approval: [against, pkg]
    pc,          \* where each planning run is
    view,        \* its locals: [url, empty, schema, next, pkg, answer],
                 \* next: the shared role it looks at
    deleting,    \* where each DELETE request is
    misread,     \* history: runs whose first reading of the schema failed
    raced,       \* history: runs that lost the creation of a shared role
    migrated,    \* history: runs whose migration was committed
    overlapped,  \* history: projects deleted while or before one was planned
    logged,      \* history: projects whose teardown failed and said so
    faults       \* faults so far

serverVars  == <<shared, db, role, api>>
recordVars  == <<url, repo, plan>>
runVars     == <<pc, view>>
historyVars == <<misread, raced, migrated, overlapped, logged>>
vars == <<wanted, configured, serverVars, recordVars, runVars, deleting,
          historyVars, faults>>

(* A schema that was read has a table: no tables are a failure to read.    *)
NoSchema == {}

NoDatabase  == [there |-> FALSE, granted |-> FALSE, tables |-> {}]
NoContainer == [by |-> NoRun, cache |-> {}, notified |-> FALSE]
NoPlan      == [against |-> NoSchema, pkg |-> "none"]
NoView == [url |-> "none", empty |-> FALSE, schema |-> NoSchema,
           next |-> 1, pkg |-> "none", answer |-> {}]

Provisioning == {"roles", "create_role", "database", "authenticator",
                 "grant", "start", "save"}
Migrating    == {"migrate", "regrant", "notify", "push_migration", "verify",
                 "push_types"}
Active == {"read", "introspect", "decide", "scaffold", "gate", "architect",
           "store"} \cup Provisioning \cup Migrating

Places == Active \cup {"absent", "planned", "failed", "cancelled"}

Urls     == {"none", "supplied", "provisioned"}
Packages == {"none", "plain", "supabase"}
Schemas  == SUBSET Tables

Databases    == [there : BOOLEAN, granted : BOOLEAN, tables : Schemas]
Containers   == [by : Runs \cup {NoRun}, cache : Schemas, notified : BOOLEAN]
Repositories == [pkg : Packages, migration : Schemas, types : Schemas]
Plans        == [against : Schemas, pkg : Packages]
Views        == [url : Urls, empty : BOOLEAN, schema : Schemas,
                 next : 1..Len(SharedRoles) + 1, pkg : Packages, answer : Schemas]

TypeOK ==
    /\ wanted \in Mixes /\ configured \in BOOLEAN
    /\ shared \subseteq ToSet(SharedRoles)
    /\ db \in [Projects -> Databases]
    /\ role \in [Projects -> Runs \cup {NoRun}]
    /\ api \in [Projects -> Containers]
    /\ url \in [Projects -> Urls]
    /\ repo \in [Projects -> Repositories]
    /\ plan \in [Projects -> Plans]
    /\ pc \in [Runs -> Places]
    /\ view \in [Runs -> Views]
    /\ deleting \in [Projects -> {"idle", "stop", "drop", "drop_role", "mark",
                                  "deleted", "interrupted"}]
    /\ misread \subseteq Runs /\ raced \subseteq Runs /\ migrated \subseteq Runs
    /\ overlapped \subseteq Projects /\ logged \subseteq Projects
    /\ faults \in Nat

(* A repository is bare, or has the Supabase client from the start.        *)
Init ==
    /\ wanted \in Mixes /\ configured \in BOOLEAN
    /\ shared = {}
    /\ db = [p \in Projects |-> NoDatabase]
    /\ role = [p \in Projects |-> NoRun]
    /\ api = [p \in Projects |-> NoContainer]
    /\ url = [p \in Projects |-> IF p \in Supplied THEN "supplied" ELSE "none"]
    /\ \E pkg \in {"none", "supabase"} :
          repo = [p \in Projects |-> [pkg |-> pkg, migration |-> NoSchema,
                                      types |-> NoSchema]]
    /\ plan = [p \in Projects |-> NoPlan]
    /\ pc = [r \in Runs |-> "absent"]
    /\ view = [r \in Runs |-> NoView]
    /\ deleting = [p \in Projects |-> "idle"]
    /\ misread = {} /\ raced = {} /\ migrated = {}
    /\ overlapped = {} /\ logged = {}
    /\ faults = 0

-----------------------------------------------------------------------------
(* The introspection *)

(* PostgREST answers with the cached tables its role may read, once it can *)
(* log in.                                                                 *)
Exposed(p) ==
    IF /\ api[p].by # NoRun /\ api[p].by = role[p]
       /\ db[p].there /\ db[p].granted
    THEN api[p].cache ELSE {}

Readable(p, u) == IF u = "supplied" THEN SuppliedTables ELSE Exposed(p)

Live(p) == IF url[p] = "supplied" THEN SuppliedTables ELSE db[p].tables

Introspected(r) == Readable(ProjectOf[r], view[r].url)

-----------------------------------------------------------------------------
(* Faults and the frame of a run's step *)

Fault == faults < MaxFaults /\ faults' = faults + 1

Goto(r, from, to) == pc[r] = from /\ pc' = [pc EXCEPT ![r] = to]

FrameButMigrated == UNCHANGED <<wanted, configured, deleting, overlapped, logged>>
Frame  == FrameButMigrated /\ UNCHANGED migrated
Smooth == Frame /\ UNCHANGED <<misread, raced, faults>>

(* A call of the run raises or answers an error, which ends the run.       *)
RunFails(r) ==
    /\ pc[r] \in Active \ {"introspect", "decide", "verify"}
    /\ Fault
    /\ pc' = [pc EXCEPT ![r] = "failed"]
    /\ Frame /\ UNCHANGED <<serverVars, recordVars, view, misread, raced>>

-----------------------------------------------------------------------------
(* Launching a planning run *)

(* Mutant: a run still going is left to itself.                            *)
LaunchBeside(r) ==
    /\ r \in wanted /\ Goto(r, "absent", "read")
    /\ overlapped' = overlapped \cup
          {p \in {ProjectOf[r]} : deleting[p] # "idle"}
    /\ UNCHANGED <<wanted, configured, serverVars, recordVars, view, deleting,
                   misread, raced, migrated, logged, faults>>

(* A cancelled run's locals end with it.                                   *)
Cancel(R, then) ==
    LET gone == {s \in R : pc[s] \in Active}
    IN  /\ pc' = [s \in Runs |-> IF s \in gone THEN "cancelled" ELSE then[s]]
        /\ view' = [s \in Runs |-> IF s \in gone THEN NoView ELSE view[s]]

(* POST /start: run_tracked cancels the project's run first.               *)
Launch(r) ==
    /\ r \in wanted /\ pc[r] = "absent"
    /\ Cancel({s \in Runs : ProjectOf[s] = ProjectOf[r]},
              [pc EXCEPT ![r] = "read"])
    /\ overlapped' = overlapped \cup
          {p \in {ProjectOf[r]} : deleting[p] # "idle"}
    /\ UNCHANGED <<wanted, configured, serverVars, recordVars, deleting,
                   misread, raced, migrated, logged, faults>>

(* POST /stop, or a restart of the process, which also ends the deletes.   *)
Stop(r) ==
    /\ pc[r] \in Active /\ Fault /\ Cancel({r}, pc)
    /\ UNCHANGED <<wanted, configured, serverVars, recordVars, deleting,
                   historyVars>>

(* Mutant: a delete ends like a run.                                       *)
RestartCancelsDelete ==
    /\ Fault /\ Cancel(Runs, pc)
    /\ deleting' = [p \in Projects |->
                      IF deleting[p] \in {"stop", "drop", "drop_role", "mark"}
                      THEN "cancelled" ELSE deleting[p]]
    /\ UNCHANGED <<wanted, configured, serverVars, recordVars, historyVars>>

Restart ==
    /\ Fault
    /\ Cancel(Runs, pc)
    /\ deleting' = [p \in Projects |->
                      IF deleting[p] \in {"stop", "drop", "drop_role", "mark"}
                      THEN "interrupted" ELSE deleting[p]]
    /\ UNCHANGED <<wanted, configured, serverVars, recordVars, historyVars>>

-----------------------------------------------------------------------------
(* Does the project have a database? *)

ReadProject(r) ==
    LET u == url[ProjectOf[r]]
    IN  /\ Goto(r, "read", IF u = "none" THEN "decide" ELSE "introspect")
        /\ view' = [view EXCEPT ![r].url = u]
        /\ Smooth /\ UNCHANGED <<serverVars, recordVars>>

(* Mutant: a failed reading is left to the gate.                           *)
IntrospectNoResume(r) ==
    /\ Goto(r, "introspect", "scaffold")
    /\ view' = [view EXCEPT ![r].schema = Introspected(r)]
    /\ Smooth /\ UNCHANGED <<serverVars, recordVars>>

(* Credentials of ours that read no schema, whatever the reason, are taken *)
(* for a database that is still empty.                                     *)
ResumeIfOurs(r, read) ==
    /\ Goto(r, "introspect", "scaffold")
    /\ view' = [view EXCEPT ![r].schema = read,
                            ![r].empty = (read = NoSchema
                                          /\ view[r].url = "provisioned")]
    /\ Frame /\ UNCHANGED <<serverVars, recordVars, raced>>

Introspect(r) ==
    \/ ResumeIfOurs(r, Introspected(r)) /\ UNCHANGED <<misread, faults>>
    \/ /\ ResumeIfOurs(r, NoSchema) /\ Fault
       /\ misread' = misread \cup {r}

Decide(r) ==
    /\ Goto(r, "decide", IF ProjectOf[r] \in Stored /\ configured
                         THEN "roles" ELSE "scaffold")
    /\ Smooth /\ UNCHANGED <<serverVars, recordVars, view>>

-----------------------------------------------------------------------------
(* provision_project_database *)

(* The next shared role: passed over when it exists, else created later.   *)
CheckRole(r) ==
    /\ IF view[r].next > Len(SharedRoles)
       THEN Goto(r, "roles", "database") /\ UNCHANGED view
       ELSE IF SharedRoles[view[r].next] \in shared
       THEN /\ pc[r] = "roles" /\ UNCHANGED pc
            /\ view' = [view EXCEPT ![r].next = @ + 1]
       ELSE Goto(r, "roles", "create_role") /\ UNCHANGED view
    /\ Smooth /\ UNCHANGED <<serverVars, recordVars>>

(* CREATE ROLE of one that came to exist meanwhile is an error.            *)
CreateRole(r) ==
    LET x == SharedRoles[view[r].next]
    IN  /\ pc[r] = "create_role"
        /\ \/ /\ x \notin shared
              /\ shared' = shared \cup {x}
              /\ pc' = [pc EXCEPT ![r] = "roles"]
              /\ view' = [view EXCEPT ![r].next = @ + 1]
              /\ raced' = raced \cup {s \in Runs \ {r} :
                     pc[s] = "create_role" /\ SharedRoles[view[s].next] = x}
           \/ /\ x \in shared
              /\ pc' = [pc EXCEPT ![r] = "failed"]
              /\ UNCHANGED <<shared, view, raced>>
        /\ Frame /\ UNCHANGED <<db, role, api, recordVars, misread, faults>>

(* A check and a creation in two calls, but nothing else creates a         *)
(* database or a login role of this project.                               *)
EnsureDatabase(r) ==
    LET p == ProjectOf[r]
    IN  /\ Goto(r, "database", "authenticator")
        /\ db' = IF db[p].there THEN db
                 ELSE [db EXCEPT ![p] = [NoDatabase EXCEPT !.there = TRUE]]
        /\ Smooth /\ UNCHANGED <<shared, role, api, recordVars, view>>

EnsureAuthenticator(r) ==
    LET p == ProjectOf[r]
    IN  /\ Goto(r, "authenticator", IF db[p].there THEN "grant" ELSE "failed")
        /\ role' = [role EXCEPT ![p] = r]
        /\ Smooth /\ UNCHANGED <<shared, db, api, recordVars, view>>

Grant(r) ==
    LET p == ProjectOf[r]
    IN  /\ Goto(r, "grant", IF db[p].there THEN "start" ELSE "failed")
        /\ db' = [db EXCEPT ![p].granted = db[p].there]
        /\ Smooth /\ UNCHANGED <<shared, role, api, recordVars, view>>

(* Removes the container and runs a new one, with no await in between; a   *)
(* new PostgREST reads the schema as it starts.                            *)
StartPostgrest(r) ==
    LET p == ProjectOf[r]
    IN  \/ /\ Goto(r, "start", "save")
           /\ api' = [api EXCEPT ![p] = [by |-> r, cache |-> db[p].tables,
                                         notified |-> FALSE]]
           /\ Smooth /\ UNCHANGED <<shared, db, role, recordVars, view>>
        \/ /\ Goto(r, "start", "failed") /\ Fault
           /\ api' = [api EXCEPT ![p] = NoContainer]
           /\ Frame
           /\ UNCHANGED <<shared, db, role, recordVars, view, misread, raced>>

SaveCredentials(r) ==
    /\ Goto(r, "save", "scaffold")
    /\ url' = [url EXCEPT ![ProjectOf[r]] = "provisioned"]
    /\ view' = [view EXCEPT ![r].url = "provisioned", ![r].empty = TRUE]
    /\ Smooth /\ UNCHANGED <<serverVars, repo, plan>>

-----------------------------------------------------------------------------
(* The repository and the schema gate *)

(* A bare repository gets the skeleton, with the Supabase client when the  *)
(* project has credentials; a file that cannot be pushed is passed over.   *)
Scaffolded(r, pushed) ==
    LET p == ProjectOf[r]
        held == view[r].url # "none"
    IN  [repo EXCEPT
           ![p].pkg = IF "package.json" \notin pushed THEN @
                      ELSE IF held THEN "supabase" ELSE "plain",
           ![p].types = IF held /\ "types" \in pushed THEN view[r].schema ELSE @]

Scaffold(r) ==
    /\ Goto(r, "scaffold", "gate")
    /\ \/ Smooth /\ UNCHANGED repo    \* not bare, or no framework is known
       \/ /\ repo[ProjectOf[r]].pkg = "none"
          /\ \E pushed \in SUBSET {"package.json", "types"} :
               /\ repo' = Scaffolded(r, pushed)
               /\ IF pushed = {"package.json", "types"}
                  THEN UNCHANGED faults ELSE Fault
          /\ Frame /\ UNCHANGED <<misread, raced>>
    /\ UNCHANGED <<serverVars, url, plan, view>>

(* The Supabase client without a schema stops planning, unless the         *)
(* database is taken for empty.                                            *)
PassGate(r, read) ==
    LET pkg == repo[ProjectOf[r]].pkg
        stops == pkg = "supabase" /\ ~view[r].empty /\ read = NoSchema
    IN  /\ Goto(r, "gate", IF stops THEN "failed" ELSE "architect")
        /\ view' = [view EXCEPT ![r].schema = read, ![r].pkg = pkg]
        /\ Frame /\ UNCHANGED <<serverVars, recordVars, raced>>

(* A schema not read before is read again, unless the database is taken    *)
(* for empty; the fault that spoiled the first reading may spoil this one. *)
Gate(r) ==
    LET again == ~view[r].empty /\ view[r].schema = NoSchema
                 /\ view[r].url # "none"
    IN  /\ \E read \in IF again THEN {Introspected(r), NoSchema}
                       ELSE {view[r].schema} : PassGate(r, read)
        /\ UNCHANGED <<misread, faults>>

(* The plan speaks of the tables of its own migration, or of the schema    *)
(* in the prompt; an answer without a migration ends the run.              *)
Architect(r) ==
    /\ \E answer \in Answers :
          /\ view[r].empty \/ answer = {}
          /\ Goto(r, "architect", IF ~view[r].empty THEN "store"
                                  ELSE IF answer = {} THEN "failed"
                                  ELSE "migrate")
          /\ view' = [view EXCEPT ![r].answer = answer]
    /\ Smooth /\ UNCHANGED <<serverVars, recordVars>>

-----------------------------------------------------------------------------
(* The migration *)

(* Mutant: the error of the migration is not looked at.                    *)
MigrateAnyway(r) ==
    LET p == ProjectOf[r]
        fits == view[r].answer \cap db[p].tables = {}
    IN  /\ Goto(r, "migrate", IF db[p].there THEN "regrant" ELSE "failed")
        /\ db' = IF db[p].there /\ fits
                 THEN [db EXCEPT ![p].tables = @ \cup view[r].answer] ELSE db
        /\ migrated' = IF db[p].there THEN migrated \cup {r} ELSE migrated
        /\ FrameButMigrated
        /\ UNCHANGED <<misread, raced, faults, shared, role, api, recordVars, view>>

(* One transaction; it may fail over a table that exists.                  *)
Migrate(r) ==
    LET p == ProjectOf[r]
        clash == view[r].answer \cap db[p].tables # {}
    IN  /\ \/ /\ db[p].there
              /\ Goto(r, "migrate", "regrant")
              /\ db' = [db EXCEPT ![p].tables = @ \cup view[r].answer]
              /\ migrated' = migrated \cup {r}
           \/ /\ ~db[p].there \/ clash
              /\ Goto(r, "migrate", "failed")
              /\ UNCHANGED <<db, migrated>>
        /\ FrameButMigrated
        /\ UNCHANGED <<misread, raced, faults, shared, role, api, recordVars, view>>

Regrant(r) ==
    LET p == ProjectOf[r]
    IN  /\ Goto(r, "regrant", IF db[p].there THEN "notify" ELSE "failed")
        /\ db' = [db EXCEPT ![p].granted = db[p].there]
        /\ Smooth /\ UNCHANGED <<shared, role, api, recordVars, view>>

Notify(r) ==
    LET p == ProjectOf[r]
    IN  /\ Goto(r, "notify", IF db[p].there THEN "push_migration" ELSE "failed")
        /\ api' = [api EXCEPT ![p].notified =
                     db[p].there /\ api[p].by # NoRun]
        /\ Smooth /\ UNCHANGED <<shared, db, role, recordVars, view>>

(* PostgREST rebuilds its cache in its own time.                           *)
Reload(p) ==
    /\ api[p].notified
    /\ api' = [api EXCEPT ![p].notified = FALSE, ![p].cache = db[p].tables]
    /\ UNCHANGED <<wanted, configured, shared, db, role, recordVars, runVars,
                   deleting, historyVars, faults>>

PushMigration(r) ==
    /\ Goto(r, "push_migration", "verify")
    /\ repo' = [repo EXCEPT ![ProjectOf[r]].migration = view[r].answer]
    /\ Smooth /\ UNCHANGED <<serverVars, url, plan, view>>

(* Mutant: reads until there is a schema.                                  *)
VerifyForever(r) ==
    /\ Introspected(r) # NoSchema
    /\ Goto(r, "verify", "push_types")
    /\ view' = [view EXCEPT ![r].schema = Introspected(r)]
    /\ Smooth /\ UNCHANGED <<serverVars, recordVars>>

(* Six readings, the first of which that shows any table is the schema:    *)
(* none may, while PostgREST has yet to reload.  A reading may also fail.  *)
Verify(r) ==
    \/ /\ Introspected(r) # NoSchema
       /\ Goto(r, "verify", "push_types")
       /\ view' = [view EXCEPT ![r].schema = Introspected(r)]
       /\ Smooth /\ UNCHANGED <<serverVars, recordVars>>
    \/ /\ Goto(r, "verify", "failed")
       /\ \/ Introspected(r) = NoSchema /\ UNCHANGED faults
          \/ Fault
       /\ Frame /\ UNCHANGED <<serverVars, recordVars, view, misread, raced>>

PushTypes(r) ==
    /\ Goto(r, "push_types", "store")
    /\ repo' = [repo EXCEPT ![ProjectOf[r]].types = view[r].schema]
    /\ Smooth /\ UNCHANGED <<serverVars, url, plan, view>>

StorePlan(r) ==
    /\ Goto(r, "store", "planned")
    /\ plan' = [plan EXCEPT ![ProjectOf[r]] =
                  [against |-> IF view[r].empty THEN view[r].answer
                               ELSE view[r].schema,
                   pkg |-> view[r].pkg]]
    /\ view' = [view EXCEPT ![r] = NoView]
    /\ Smooth /\ UNCHANGED <<serverVars, url, repo>>

-----------------------------------------------------------------------------
(* DELETE /projects/{id} *)

DeleteFrame == UNCHANGED <<wanted, configured, shared, recordVars, runVars, raced,
                           migrated>>

(* Every failure is logged; one of the container's removal does not keep   *)
(* the database from being dropped, the others end the teardown.           *)
TeardownFails(p) ==
    /\ deleting[p] \in {"stop", "drop", "drop_role"}
    /\ Fault
    /\ deleting' = [deleting EXCEPT ![p] =
                      IF @ = "stop" THEN "drop" ELSE "mark"]
    /\ logged' = logged \cup {p}
    /\ DeleteFrame /\ UNCHANGED <<db, role, api, misread, overlapped>>

BeginDelete(p) ==
    /\ p \in Deleted /\ deleting[p] = "idle"
    /\ deleting' = [deleting EXCEPT ![p] = "stop"]
    /\ overlapped' = overlapped \cup
          {q \in {p} : \E r \in Runs : ProjectOf[r] = p /\ pc[r] \in Active}
    /\ DeleteFrame /\ UNCHANGED <<db, role, api, misread, logged, faults>>

(* Mutant: the container is looked up but not removed.                     *)
StopContainerLookup(p) ==
    /\ deleting[p] = "stop"
    /\ deleting' = [deleting EXCEPT ![p] = "drop"]
    /\ DeleteFrame
    /\ UNCHANGED <<db, role, api, misread, overlapped, logged, faults>>

StopContainer(p) ==
    /\ deleting[p] = "stop"
    /\ deleting' = [deleting EXCEPT ![p] = "drop"]
    /\ api' = [api EXCEPT ![p] = NoContainer]
    /\ DeleteFrame
    /\ UNCHANGED <<db, role, misread, overlapped, logged, faults>>

DropDatabase(p) ==
    /\ deleting[p] = "drop"
    /\ deleting' = [deleting EXCEPT ![p] = "drop_role"]
    /\ db' = [db EXCEPT ![p] = NoDatabase]
    /\ DeleteFrame
    /\ UNCHANGED <<role, api, misread, overlapped, logged, faults>>

DropRole(p) ==
    /\ deleting[p] = "drop_role"
    /\ deleting' = [deleting EXCEPT ![p] = "mark"]
    /\ role' = [role EXCEPT ![p] = NoRun]
    /\ DeleteFrame
    /\ UNCHANGED <<db, api, misread, overlapped, logged, faults>>

(* The row is marked deleted and keeps its credentials.                    *)
MarkDeleted(p) ==
    /\ deleting[p] = "mark"
    /\ deleting' = [deleting EXCEPT ![p] = "deleted"]
    /\ DeleteFrame
    /\ UNCHANGED <<db, role, api, misread, overlapped, logged, faults>>

-----------------------------------------------------------------------------
RunStep(r) ==
    \/ ReadProject(r) \/ Introspect(r) \/ Decide(r)
    \/ CheckRole(r) \/ CreateRole(r) \/ EnsureDatabase(r)
    \/ EnsureAuthenticator(r) \/ Grant(r) \/ StartPostgrest(r)
    \/ SaveCredentials(r) \/ Scaffold(r) \/ Gate(r) \/ Architect(r)
    \/ Migrate(r) \/ Regrant(r) \/ Notify(r) \/ PushMigration(r)
    \/ Verify(r) \/ PushTypes(r) \/ StorePlan(r)

DeleteStep(p) ==
    \/ BeginDelete(p) \/ StopContainer(p) \/ DropDatabase(p)
    \/ DropRole(p) \/ MarkDeleted(p) \/ TeardownFails(p)

Next ==
    \/ \E r \in Runs : RunStep(r) \/ RunFails(r) \/ Launch(r) \/ Stop(r)
    \/ \E p \in Projects : Reload(p) \/ DeleteStep(p)
    \/ Restart

Spec == Init /\ [][Next]_vars

(* Every call of a run returns or raises, and PostgREST may never reload.  *)
FairSpec == Spec /\ \A r \in Runs : WF_vars(RunStep(r))

-----------------------------------------------------------------------------
(* Properties *)

(* The tables of this project come from runs that migrated and got no      *)
(* further: each failed or was cancelled, none has planned.                *)
Abandoned(r) ==
    LET before == {s \in migrated \ {r} : ProjectOf[s] = ProjectOf[r]}
    IN  before # {} /\ \A s \in before : pc[s] \in {"failed", "cancelled"}

(* A planning run fails at a step that gives it cause: the call of that    *)
(* step failed, or the project was being deleted; another project created  *)
(* the shared role meanwhile; the repository wants a database nobody       *)
(* provides; the architect sent no migration; PostgREST has yet to reload; *)
(* a reading that failed before made a full database look empty, or a      *)
(* supplied one unreadable.  Of what earlier runs left half done one thing *)
(* only stands in the way: tables of a migration whose run got no further. *)
(* A database without a login role, an old password, a missing grant, a    *)
(* container, credentials without a schema never do, nor does a project    *)
(* that was planned before.                                                *)
FailureHasCause ==
    [][\A r \in Runs : pc[r] # "failed" /\ pc'[r] = "failed" =>
          \/ faults' # faults \/ deleting[ProjectOf[r]] # "idle"
          \/ pc[r] = "create_role" /\ r \in raced
          \/ /\ pc[r] = "gate" /\ view[r].url = "none"
             /\ repo[ProjectOf[r]].pkg = "supabase"
          \/ pc[r] = "architect" /\ view'[r].answer = {}
          \/ pc[r] = "verify" /\ api[ProjectOf[r]].notified
          \/ pc[r] \in {"gate", "migrate"} /\ r \in misread
          \/ pc[r] = "migrate" /\ Abandoned(r)]_vars

(* Credentials in the project row lead to a database that exists, through  *)
(* a container that holds the present password of the login role, though   *)
(* every provisioning resets that password and replaces the container.     *)
SavedCredentialsServe ==
    \A p \in Projects : url[p] = "provisioned" /\ deleting[p] = "idle" =>
        /\ db[p].there /\ db[p].granted
        /\ api[p].by # NoRun /\ api[p].by = role[p]

(* Nothing that is written down speaks of a table the live database does   *)
(* not have: neither the plan of a repository with the Supabase client,    *)
(* which has to be written against some tables, nor the migration and the  *)
(* types that are pushed, however often the project is planned again.      *)
WrittenTablesLive ==
    \A p \in Projects : deleting[p] = "idle" =>
        /\ plan[p].pkg = "supabase" =>
               plan[p].against # NoSchema /\ plan[p].against \subseteq Live(p)
        /\ repo[p].migration \cup repo[p].types \subseteq Live(p)

(* What a deletion leaves behind is in the log, unless the project was     *)
(* being planned or was planned again.                                     *)
DeletionLeavesNothing ==
    \A p \in Projects :
        deleting[p] = "deleted" /\ p \notin logged \cup overlapped =>
            ~db[p].there /\ role[p] = NoRun /\ api[p].by = NoRun

(* Planning runs end, though PostgREST may never reload.                   *)
PlanningEnds == <>[](\A r \in Runs : pc[r] \notin Active)
=============================================================================
