--------------------------- MODULE ProvisionProofs ---------------------------
(***************************************************************************)
(* Proofs about Provision for any projects, planning runs and answers of   *)
(* the architect, and any number of faults.                                *)
(***************************************************************************)
EXTENDS Provision, TLAPS

(* run_tracked: one planning run of a project is at work.                  *)
OneRun ==
    \A r, s \in Runs :
        ProjectOf[r] = ProjectOf[s] /\ pc[r] \in Active /\ pc[s] \in Active
          => r = s

(* A run is about to create a role that some other run created only if it  *)
(* lost the race for it.                                                   *)
RoleInv ==
    \A r \in Runs : pc[r] = "create_role" =>
        /\ view[r].next \in 1..Len(SharedRoles)
        /\ SharedRoles[view[r].next] \in shared => r \in raced

(* What a run read of its project's credentials is what they are, and only *)
(* a project without any is provisioned.                                   *)
UrlInv ==
    /\ \A p \in Projects : url[p] = "supplied" => p \in Supplied
    /\ \A p \in Supplied : url[p] = "supplied"
    /\ \A r \in Runs :
         /\ pc[r] \in Active \ {"read"} => view[r].url = url[ProjectOf[r]]
         /\ pc[r] \in {"decide"} \cup Provisioning => view[r].url = "none"

(* What a run holds, by the place it is at.                                *)
Holds(r) ==
    /\ pc[r] \in {"absent", "read"} => view[r] = NoView
    /\ view[r].empty => view[r].url = "provisioned"
    /\ pc[r] \in Migrating => view[r].empty
    /\ pc[r] \in Migrating \cup {"store"} /\ view[r].empty => view[r].answer # {}
    /\ pc[r] \in {"scaffold", "gate"} /\ view[r].schema = NoSchema /\ ~view[r].empty
         => view[r].url = "none" \/ (view[r].url = "supplied" /\ r \in misread)
    /\ (/\ pc[r] \in Migrating \cup {"architect", "store"}
        /\ view[r].pkg = "supabase" /\ ~view[r].empty)
         => view[r].schema # NoSchema

HoldsInv == \A r \in Runs : Holds(r)

(* What provisioning has achieved by the place it is at.                   *)
Achieved(r) ==
    LET p == ProjectOf[r]
    IN  deleting[p] = "idle" =>
          /\ pc[r] \in {"authenticator", "grant", "start", "save"} => db[p].there
          /\ pc[r] \in {"grant", "start", "save"} => role[p] = r
          /\ pc[r] \in {"start", "save"} => db[p].granted
          /\ pc[r] = "save" => api[p].by = r

AchievedInv == \A r \in Runs : Achieved(r)

(* PostgREST's cache lags behind the database, never ahead of it.          *)
CacheInv ==
    \A p \in Projects :
        /\ ~db[p].there => db[p].tables = {}
        /\ deleting[p] = "idle" => api[p].cache \subseteq db[p].tables

(* What a run has read or created is in the database, and what it created  *)
(* is in the cache or about to be.                                         *)
Known(r) ==
    LET p == ProjectOf[r]
    IN  deleting[p] = "idle" /\ pc[r] \in Active =>
          /\ view[r].schema \subseteq Live(p)
          /\ \/ pc[r] \in Migrating \ {"migrate"}
             \/ pc[r] = "store" /\ view[r].empty
             => view[r].answer \subseteq db[p].tables
          /\ pc[r] \in {"push_migration", "verify"} =>
               api[p].notified \/ api[p].cache = db[p].tables

KnownInv == \A r \in Runs : Known(r)

(* A deletion that no run is at work beside, and whose steps went well,    *)
(* has removed what it has come by.                                        *)
DeleteInv ==
    \A p \in Projects : deleting[p] # "idle" /\ p \notin overlapped =>
        /\ \A r \in Runs : ProjectOf[r] = p => pc[r] \notin Active
        /\ p \notin logged =>
             /\ deleting[p] \in {"drop", "drop_role", "mark", "deleted"}
                  => api[p].by = NoRun
             /\ deleting[p] \in {"drop_role", "mark", "deleted"} => ~db[p].there
             /\ deleting[p] \in {"mark", "deleted"} => role[p] = NoRun

(* A run whose migration was committed left its tables in the database,    *)
(* and once it verified them PostgREST shows some.                         *)
PastMigration == {"regrant", "notify", "push_migration", "verify", "push_types",
                  "store", "planned", "failed", "cancelled"}

Left(s) ==
    LET p == ProjectOf[s]
    IN  s \in migrated =>
          /\ pc[s] \in PastMigration /\ url[p] = "provisioned"
          /\ deleting[p] = "idle" =>
               /\ db[p].tables # {}
               /\ pc[s] \in {"push_types", "store", "planned"} => api[p].cache # {}

LeftInv == \A s \in Runs : Left(s)

TablesInv ==
    \A p \in Projects : db[p].tables # {} =>
        \E s \in migrated : ProjectOf[s] = p

(* A run that takes the database for empty, and whose reading did not fail,*)
(* has no run before it that migrated and planned.                         *)
Fresh(r) ==
    pc[r] \in Active /\ view[r].empty /\ r \notin misread
      /\ deleting[ProjectOf[r]] = "idle" =>
        \A s \in Runs \ {r} :
            s \in migrated /\ ProjectOf[s] = ProjectOf[r] => pc[s] # "planned"

FreshInv == \A r \in Runs : Fresh(r)

IInv ==
    /\ TypeOK /\ OneRun /\ RoleInv /\ UrlInv /\ HoldsInv /\ AchievedInv
    /\ CacheInv /\ SavedCredentialsServe /\ KnownInv /\ WrittenTablesLive
    /\ DeleteInv /\ LeftInv /\ TablesInv /\ FreshInv

-----------------------------------------------------------------------------
(* Type correctness *)

LEMMA Roles == Len(SharedRoles) \in Nat /\ DOMAIN SharedRoles = 1..Len(SharedRoles)
BY ProvisionAssumption

LEMMA NoViewType == NoView \in Views
BY Roles DEF NoView, Views, NoSchema, Urls, Packages, Schemas

LEMMA InitType == Init => TypeOK
<1> SUFFICES ASSUME Init PROVE TypeOK
  OBVIOUS
<1> USE ProvisionAssumption
<1>1. view \in [Runs -> Views]  BY NoViewType DEF Init
<1>2. db \in [Projects -> Databases]
  BY DEF Init, NoDatabase, Databases, Schemas
<1>3. api \in [Projects -> Containers]
  BY DEF Init, NoContainer, Containers, Schemas
<1>4. repo \in [Projects -> Repositories] /\ plan \in [Projects -> Plans]
  BY DEF Init, NoPlan, NoSchema, Repositories, Plans, Packages, Schemas
<1>5. pc \in [Runs -> Places] /\ url \in [Projects -> Urls]
  BY DEF Init, Places, Urls
<1> QED BY <1>1, <1>2, <1>3, <1>4, <1>5 DEF Init, TypeOK

(* What the PostgREST container shows are tables.                          *)
LEMMA IntrospectedType ==
  ASSUME TypeOK, NEW r \in Runs
  PROVE  Introspected(r) \in Schemas
BY ProvisionAssumption
   DEF TypeOK, Introspected, Readable, Exposed, Containers, Schemas

LEMMA CancelType ==
  ASSUME TypeOK, NEW R, NEW then \in [Runs -> Places], Cancel(R, then)
  PROVE  pc' \in [Runs -> Places] /\ view' \in [Runs -> Views]
BY NoViewType DEF Cancel, TypeOK, Places

(* The places of a run.                                                    *)
LEMMA PlaceNames ==
  Places = {"read", "introspect", "decide", "scaffold", "gate", "architect",
            "store", "roles", "create_role", "database", "authenticator", "grant",
            "start", "save", "migrate", "regrant", "notify", "push_migration",
            "verify", "push_types", "absent", "planned", "failed", "cancelled"}
BY DEF Places, Active, Provisioning, Migrating

(* A run's own step.                                                       *)
LEMMA RunStepPlace ==
  ASSUME TypeOK, NEW r \in Runs, RunStep(r)
  PROVE  pc' \in [Runs -> Places]
<1>1. pc \in [Runs -> Places]  BY DEF TypeOK
<1>2. PICK w \in Places : pc' = [pc EXCEPT ![r] = w] \/ pc' = pc
  BY PlaceNames DEF RunStep, Goto, ReadProject, Introspect, ResumeIfOurs, Decide,
     CheckRole, CreateRole, EnsureDatabase, EnsureAuthenticator, Grant,
     StartPostgrest, SaveCredentials, Scaffold, Gate, PassGate, Architect, Migrate,
     Regrant, Notify, PushMigration, Verify, PushTypes, StorePlan
<1> QED BY <1>1, <1>2

LEMMA RunStepView ==
  ASSUME TypeOK, RoleInv, NEW r \in Runs, RunStep(r)
  PROVE  view' \in [Runs -> Views]
<1>1. /\ view \in [Runs -> Views] /\ view[r] \in Views
      /\ repo[ProjectOf[r]].pkg \in Packages /\ url[ProjectOf[r]] \in Urls
      /\ Introspected(r) \in Schemas /\ NoSchema \in Schemas
  BY IntrospectedType, ProvisionAssumption
     DEF TypeOK, Repositories, NoSchema, Schemas
<1>2. CASE view' = view
  BY <1>1, <1>2
<1>3. CASE ReadProject(r)
  BY <1>1, <1>3 DEF ReadProject, Views
<1>4. CASE Introspect(r)
  <2>1. PICK read \in Schemas : ResumeIfOurs(r, read)
    BY <1>1, <1>4 DEF Introspect
  <2> QED BY <1>1, <2>1 DEF ResumeIfOurs, Views
<1>5. CASE (CheckRole(r) \/ CreateRole(r)) /\ view' # view
  <2>1. /\ view[r].next \in 1..Len(SharedRoles)
        /\ view' = [view EXCEPT ![r].next = @ + 1]
    <3>1. CASE CheckRole(r)
      BY <1>1, <1>5, <3>1, Roles DEF CheckRole, Views
    <3>2. CASE CreateRole(r)
      BY <1>5, <3>2 DEF CreateRole, RoleInv
    <3> QED BY <1>5, <3>1, <3>2
  <2> QED BY <1>1, <2>1, Roles DEF Views
<1>6. CASE SaveCredentials(r)
  BY <1>1, <1>6 DEF SaveCredentials, Views, Urls
<1>7. CASE Gate(r)
  <2>1. PICK read \in Schemas : PassGate(r, read)
    BY <1>1, <1>7 DEF Gate, Views
  <2> QED BY <1>1, <2>1 DEF PassGate, Views
<1>8. CASE Architect(r)
  <2>1. PICK answer \in Answers : view' = [view EXCEPT ![r].answer = answer]
    BY <1>8 DEF Architect
  <2> QED BY <1>1, <2>1, ProvisionAssumption DEF Views, Schemas
<1>9. CASE Verify(r) /\ view' # view
  BY <1>1, <1>9 DEF Verify, Views
<1>10. CASE StorePlan(r)
  BY <1>1, <1>10, NoViewType DEF StorePlan
<1> QED
  BY <1>2, <1>3, <1>4, <1>5, <1>6, <1>7, <1>8, <1>9, <1>10
     DEF RunStep, Decide, EnsureDatabase, EnsureAuthenticator, Grant,
         StartPostgrest, Scaffold, Migrate, Regrant, Notify, PushMigration,
         PushTypes

LEMMA RunStepServer ==
  ASSUME TypeOK, RoleInv, NEW r \in Runs, RunStep(r)
  PROVE  /\ shared' \subseteq ToSet(SharedRoles)
         /\ db' \in [Projects -> Databases]
         /\ role' \in [Projects -> Runs \cup {NoRun}]
         /\ api' \in [Projects -> Containers]
<1> DEFINE p == ProjectOf[r]
<1>1. /\ shared \subseteq ToSet(SharedRoles) /\ db \in [Projects -> Databases]
      /\ role \in [Projects -> Runs \cup {NoRun}] /\ api \in [Projects -> Containers]
      /\ p \in Projects /\ view[r] \in Views
  BY ProvisionAssumption DEF TypeOK
<1>2. CASE UNCHANGED serverVars
  BY <1>1, <1>2 DEF serverVars
<1>3. CASE CreateRole(r) /\ shared' # shared
  <2>1. /\ SharedRoles[view[r].next] \in ToSet(SharedRoles)
        /\ shared' = shared \cup {SharedRoles[view[r].next]}
    BY <1>1, <1>3, Roles DEF CreateRole, RoleInv, ToSet
  <2> QED BY <1>1, <1>3, <2>1 DEF CreateRole
<1>4. CASE EnsureDatabase(r)
  BY <1>1, <1>4 DEF EnsureDatabase, NoDatabase, Databases, Schemas
<1>5. CASE EnsureAuthenticator(r)
  BY <1>1, <1>5 DEF EnsureAuthenticator
<1>6. CASE Grant(r) \/ Regrant(r)
  BY <1>1, <1>6 DEF Grant, Regrant, Databases
<1>7. CASE StartPostgrest(r)
  <2>1. PICK c \in Containers : api' = [api EXCEPT ![p] = c]
    BY <1>1, <1>7 DEF StartPostgrest, NoContainer, Containers, Databases, Schemas
  <2> QED BY <1>1, <1>7, <2>1 DEF StartPostgrest
<1>8. CASE Migrate(r)
  BY <1>1, <1>8 DEF Migrate, Databases, Views, Schemas
<1>9. CASE Notify(r)
  BY <1>1, <1>9 DEF Notify, Containers, Databases
<1> QED
  BY <1>2, <1>3, <1>4, <1>5, <1>6, <1>7, <1>8, <1>9
     DEF RunStep, ReadProject, Introspect, ResumeIfOurs, Decide, CheckRole,
         CreateRole, SaveCredentials, Scaffold, Gate, PassGate, Architect,
         PushMigration, Verify, PushTypes, StorePlan, serverVars

LEMMA RunStepRecord ==
  ASSUME TypeOK, NEW r \in Runs, RunStep(r)
  PROVE  /\ url' \in [Projects -> Urls]
         /\ repo' \in [Projects -> Repositories]
         /\ plan' \in [Projects -> Plans]
<1> DEFINE p == ProjectOf[r]
<1>1. /\ url \in [Projects -> Urls] /\ repo \in [Projects -> Repositories]
      /\ plan \in [Projects -> Plans] /\ p \in Projects
      /\ view[r] \in Views
  BY ProvisionAssumption DEF TypeOK
<1>2. CASE UNCHANGED recordVars
  BY <1>1, <1>2 DEF recordVars
<1>3. CASE SaveCredentials(r)
  BY <1>1, <1>3 DEF SaveCredentials, Urls
<1>4. CASE Scaffold(r) /\ repo' # repo
  <2>1. PICK pushed : repo' = Scaffolded(r, pushed)
    BY <1>4 DEF Scaffold, Smooth
  <2> QED BY <1>1, <1>4, <2>1 DEF Scaffold, Scaffolded, Repositories, Packages, Views
<1>5. CASE PushMigration(r) \/ PushTypes(r)
  BY <1>1, <1>5 DEF PushMigration, PushTypes, Repositories, Views
<1>6. CASE StorePlan(r)
  BY <1>1, <1>6 DEF StorePlan, Plans, Views
<1> QED
  BY <1>2, <1>3, <1>4, <1>5, <1>6
     DEF RunStep, ReadProject, Introspect, ResumeIfOurs, Decide, CheckRole,
         CreateRole, EnsureDatabase, EnsureAuthenticator, Grant, StartPostgrest,
         Scaffold, Gate, PassGate, Architect, Migrate, Regrant, Notify, Verify,
         recordVars

LEMMA RunStepHistory ==
  ASSUME TypeOK, NEW r \in Runs, RunStep(r)
  PROVE  /\ FrameButMigrated
         /\ misread' \in {misread, misread \cup {r}}
         /\ migrated' \in {migrated, migrated \cup {r}}
         /\ raced \subseteq raced' /\ raced' \subseteq Runs
         /\ faults' \in Nat
<1>1. raced \subseteq Runs /\ faults \in Nat
  BY DEF TypeOK
<1>2. CASE Smooth
  BY <1>1, <1>2 DEF Smooth, Frame
<1>3. CASE CreateRole(r)
  BY <1>1, <1>3 DEF CreateRole, Frame
<1>4. CASE Introspect(r)
  BY <1>1, <1>4 DEF Introspect, ResumeIfOurs, Fault, Frame
<1>5. CASE Gate(r)
  BY <1>1, <1>5 DEF Gate, PassGate, Frame
<1>6. CASE StartPostgrest(r)
  BY <1>1, <1>6 DEF StartPostgrest, Smooth, Fault, Frame
<1>7. CASE Scaffold(r)
  <2>1. Frame /\ UNCHANGED <<misread, raced>>
    BY <1>7 DEF Scaffold, Smooth
  <2>2. faults' = faults \/ faults' = faults + 1
    BY <1>7 DEF Scaffold, Smooth, Fault
  <2> QED BY <1>1, <2>1, <2>2 DEF Frame
<1>8. CASE Verify(r)
  BY <1>1, <1>8 DEF Verify, Smooth, Fault, Frame
<1>9. CASE Migrate(r)
  BY <1>1, <1>9 DEF Migrate
<1> QED
  BY <1>2, <1>3, <1>4, <1>5, <1>6, <1>7, <1>8, <1>9
     DEF RunStep, ReadProject, Decide, CheckRole, EnsureDatabase,
         EnsureAuthenticator, Grant, SaveCredentials, Architect, Regrant,
         Notify, PushMigration, PushTypes, StorePlan

LEMMA NextType == TypeOK /\ RoleInv /\ [Next]_vars => TypeOK'
<1> SUFFICES ASSUME TypeOK, RoleInv, [Next]_vars PROVE TypeOK'
  OBVIOUS
<1>1. CASE UNCHANGED vars
  BY <1>1 DEF vars, serverVars, recordVars, runVars, historyVars, TypeOK
<1>2. ASSUME NEW r \in Runs, RunStep(r) PROVE TypeOK'
  BY <1>2, RunStepPlace, RunStepView, RunStepServer, RunStepRecord,
     RunStepHistory DEF TypeOK, FrameButMigrated
<1>3. ASSUME NEW r \in Runs, RunFails(r) PROVE TypeOK'
  BY <1>3 DEF TypeOK, RunFails, Frame, FrameButMigrated, Fault, serverVars, recordVars,
     Places
<1>4. ASSUME NEW r \in Runs, Launch(r) PROVE TypeOK'
  <2>1. [pc EXCEPT ![r] = "read"] \in [Runs -> Places]
    BY PlaceNames DEF TypeOK
  <2>2. pc' \in [Runs -> Places] /\ view' \in [Runs -> Views]
    BY <1>4, <2>1, CancelType DEF Launch
  <2> QED
    BY <1>4, <2>2, ProvisionAssumption DEF TypeOK, Launch, serverVars, recordVars
<1>5. ASSUME NEW r \in Runs, Stop(r) PROVE TypeOK'
  <2>1. pc' \in [Runs -> Places] /\ view' \in [Runs -> Views]
    BY <1>5, CancelType DEF Stop, TypeOK
  <2> QED
    BY <1>5, <2>1 DEF TypeOK, Stop, Fault, serverVars, recordVars, historyVars
<1>6. CASE Restart
  <2>1. pc' \in [Runs -> Places] /\ view' \in [Runs -> Views]
    BY <1>6, CancelType DEF Restart, TypeOK
  <2> QED
    BY <1>6, <2>1 DEF TypeOK, Restart, Fault, serverVars, recordVars, historyVars
<1>7. ASSUME NEW p \in Projects, Reload(p) PROVE TypeOK'
  <2>1. api' \in [Projects -> Containers]
    BY <1>7 DEF TypeOK, Reload, Containers, Databases
  <2> QED BY <1>7, <2>1 DEF TypeOK, Reload, recordVars, runVars, historyVars
<1>8. ASSUME NEW p \in Projects, DeleteStep(p) PROVE TypeOK'
  <2>1. api' \in [Projects -> Containers] /\ db' \in [Projects -> Databases]
    <3>1. NoContainer \in Containers /\ NoDatabase \in Databases
      BY DEF NoContainer, NoDatabase, Containers, Databases, Schemas
    <3>2. api' \in {api, [api EXCEPT ![p] = NoContainer]}
      BY <1>8 DEF DeleteStep, BeginDelete, StopContainer, DropDatabase, DropRole,
         MarkDeleted, TeardownFails
    <3>3. db' \in {db, [db EXCEPT ![p] = NoDatabase]}
      BY <1>8 DEF DeleteStep, BeginDelete, StopContainer, DropDatabase, DropRole,
         MarkDeleted, TeardownFails
    <3> QED BY <3>1, <3>2, <3>3 DEF TypeOK
  <2> QED
    BY <1>8, <2>1 DEF TypeOK, DeleteStep, BeginDelete, StopContainer, DropDatabase,
       DropRole, MarkDeleted, TeardownFails, DeleteFrame, recordVars, runVars, Fault
<1> QED BY <1>1, <1>2, <1>3, <1>4, <1>5, <1>6, <1>7, <1>8 DEF Next
-----------------------------------------------------------------------------
(* What a step may touch *)

(* A run's step is taken at a place where the run is at work, and touches  *)
(* no other run.                                                           *)
LEMMA OtherRuns ==
  ASSUME TypeOK, NEW r \in Runs, RunStep(r)
  PROVE  /\ pc[r] \in Active
         /\ \A s \in Runs \ {r} : pc'[s] = pc[s] /\ view'[s] = view[s]
<1>1. pc \in [Runs -> Places] /\ view \in [Runs -> Views]
  BY DEF TypeOK
<1>2. pc[r] \in Active
  BY DEF Active, Provisioning, Migrating, RunStep, Goto, ReadProject, Introspect,
     ResumeIfOurs, Decide, CheckRole, CreateRole, EnsureDatabase,
     EnsureAuthenticator, Grant, StartPostgrest, SaveCredentials, Scaffold, Gate,
     PassGate, Architect, Migrate, Regrant, Notify, PushMigration, Verify,
     PushTypes, StorePlan
<1>3. PICK w : pc' = [pc EXCEPT ![r] = w] \/ pc' = pc
  BY DEF RunStep, Goto, ReadProject, Introspect, ResumeIfOurs, Decide,
     CheckRole, CreateRole, EnsureDatabase, EnsureAuthenticator, Grant,
     StartPostgrest, SaveCredentials, Scaffold, Gate, PassGate, Architect, Migrate,
     Regrant, Notify, PushMigration, Verify, PushTypes, StorePlan
<1>4. ASSUME NEW s \in Runs \ {r} PROVE view'[s] = view[s]
  BY <1>1, <1>4 DEF RunStep, ReadProject, Introspect, ResumeIfOurs, Decide,
     CheckRole, CreateRole, EnsureDatabase, EnsureAuthenticator, Grant,
     StartPostgrest, SaveCredentials, Scaffold, Gate, PassGate, Architect, Migrate,
     Regrant, Notify, PushMigration, Verify, PushTypes, StorePlan
<1> QED BY <1>1, <1>2, <1>3, <1>4

(* It touches no other project.                                            *)
LEMMA OtherProjects ==
  ASSUME TypeOK, NEW r \in Runs, RunStep(r), NEW p \in Projects, p # ProjectOf[r]
  PROVE  /\ db'[p] = db[p] /\ role'[p] = role[p] /\ api'[p] = api[p]
         /\ url'[p] = url[p] /\ repo'[p] = repo[p] /\ plan'[p] = plan[p]
<1>1. /\ db \in [Projects -> Databases] /\ api \in [Projects -> Containers]
      /\ role \in [Projects -> Runs \cup {NoRun}] /\ ProjectOf[r] \in Projects
  BY ProvisionAssumption DEF TypeOK
<1>2. /\ repo \in [Projects -> Repositories] /\ url \in [Projects -> Urls]
      /\ plan \in [Projects -> Plans]
  BY DEF TypeOK
<1>3. db'[p] = db[p] /\ role'[p] = role[p] /\ api'[p] = api[p]
  BY <1>1 DEF RunStep, ReadProject, Introspect, ResumeIfOurs, Decide,
     CheckRole, CreateRole, EnsureDatabase, EnsureAuthenticator, Grant,
     StartPostgrest, SaveCredentials, Scaffold, Gate, PassGate, Architect, Migrate,
     Regrant, Notify, PushMigration, Verify, PushTypes, StorePlan, serverVars
<1>4. url'[p] = url[p] /\ repo'[p] = repo[p] /\ plan'[p] = plan[p]
  BY <1>2 DEF RunStep, ReadProject, Introspect, ResumeIfOurs, Decide,
     CheckRole, CreateRole, EnsureDatabase, EnsureAuthenticator, Grant,
     StartPostgrest, SaveCredentials, Scaffold, Scaffolded, Gate, PassGate,
     Architect, Migrate, Regrant, Notify, PushMigration, Verify, PushTypes,
     StorePlan, recordVars, Smooth
<1> QED BY <1>3, <1>4

(* What a step that is no run's own may do to a run: nothing, start it     *)
(* when its project has none at work, fail it, or cancel it.               *)
Untouched(s) == pc'[s] = pc[s] /\ view'[s] = view[s]
Started(s) ==
    /\ pc[s] = "absent" /\ pc'[s] = "read" /\ view'[s] = view[s]
    /\ \A t \in Runs \ {s} : ProjectOf[t] = ProjectOf[s] => pc'[t] \notin Active
    /\ deleting[ProjectOf[s]] # "idle" => ProjectOf[s] \in overlapped'
Ended(s) ==
    /\ pc[s] \in Active
    /\ \/ pc'[s] = "failed" /\ view'[s] = view[s] /\ faults' # faults
       \/ pc'[s] = "cancelled" /\ view'[s] = NoView

(* And to a project: while it is not being deleted, PostgREST may reload.  *)
Reloads(p) ==
    /\ api[p].notified
    /\ api'[p] = [api[p] EXCEPT !.notified = FALSE, !.cache = db[p].tables]

Outside ==
    /\ UNCHANGED <<shared, url, repo, plan, raced, misread, migrated>>
    /\ overlapped \subseteq overlapped'
    /\ \A s \in Runs : Untouched(s) \/ Started(s) \/ Ended(s)
    /\ \A p \in Projects : deleting'[p] = "idle" =>
          /\ deleting[p] = "idle" /\ db'[p] = db[p] /\ role'[p] = role[p]
          /\ api'[p] = api[p] \/ Reloads(p)

LEMMA ActiveNames ==
  /\ "read" \in Active
  /\ {"absent", "failed", "cancelled", "planned"} \cap Active = {}
BY DEF Active, Provisioning, Migrating

LEMMA CancelRuns ==
  ASSUME TypeOK, NEW R \in SUBSET Runs, Cancel(R, pc), NEW s \in Runs
  PROVE  Untouched(s) \/ Ended(s)
BY DEF Cancel, Untouched, Ended, TypeOK

LEMMA LaunchRuns ==
  ASSUME TypeOK, NEW r \in Runs, Launch(r), NEW s \in Runs
  PROVE  Untouched(s) \/ Started(s) \/ Ended(s)
<1> DEFINE gone == {t \in Runs : ProjectOf[t] = ProjectOf[r] /\ pc[t] \in Active}
<1>1. /\ pc \in [Runs -> Places] /\ view \in [Runs -> Views] /\ pc[r] = "absent"
      /\ r \notin gone /\ ProjectOf[r] \in Projects
  BY ActiveNames, ProvisionAssumption DEF TypeOK, Launch
<1>2. /\ pc' = [t \in Runs |-> IF t \in gone THEN "cancelled"
                               ELSE [pc EXCEPT ![r] = "read"][t]]
      /\ view' = [t \in Runs |-> IF t \in gone THEN NoView ELSE view[t]]
  BY DEF Launch, Cancel
<1>3. CASE s \in gone
  BY <1>1, <1>2, <1>3 DEF Ended
<1>4. CASE s \notin gone /\ s # r
  BY <1>1, <1>2, <1>4 DEF Untouched
<1>5. CASE s = r
  <2>1. pc'[r] = "read" /\ view'[r] = view[r]
    BY <1>1, <1>2
  <2>2. ASSUME NEW t \in Runs \ {r}, ProjectOf[t] = ProjectOf[r]
        PROVE  pc'[t] \notin Active
    BY <1>1, <1>2, <2>2, ActiveNames
  <2>3. deleting[ProjectOf[r]] # "idle" => ProjectOf[r] \in overlapped'
    BY DEF Launch
  <2> QED BY <1>1, <1>5, <2>1, <2>2, <2>3 DEF Started
<1> QED BY <1>3, <1>4, <1>5

LEMMA OutsideSteps ==
  ASSUME TypeOK, [Next]_vars, \A r \in Runs : ~RunStep(r)
  PROVE  Outside
<1>1. CASE UNCHANGED vars
  BY <1>1 DEF vars, serverVars, recordVars, runVars, historyVars, Outside, Untouched
<1>2. ASSUME NEW r \in Runs, RunFails(r) PROVE Outside
  <2>1. ASSUME NEW s \in Runs PROVE Untouched(s) \/ Ended(s)
    BY <1>2 DEF TypeOK, RunFails, Fault, Untouched, Ended
  <2> QED
    BY <1>2, <2>1 DEF RunFails, Frame, FrameButMigrated, Outside, serverVars,
       recordVars
<1>3. ASSUME NEW r \in Runs, Launch(r) PROVE Outside
  BY <1>3, LaunchRuns DEF Launch, Outside, serverVars, recordVars
<1>4. ASSUME NEW r \in Runs, Stop(r) PROVE Outside
  BY <1>4, CancelRuns DEF Stop, Outside, serverVars, recordVars, historyVars
<1>5. CASE Restart
  <2>1. \A p \in Projects : deleting'[p] = "idle" => deleting[p] = "idle"
    BY <1>5 DEF Restart
  <2> QED
    BY <1>5, <2>1, CancelRuns DEF Restart, Outside, serverVars, recordVars, historyVars
<1>6. ASSUME NEW p \in Projects, Reload(p) PROVE Outside
  <2>1. ASSUME NEW q \in Projects PROVE api'[q] = api[q] \/ Reloads(q)
    BY <1>6 DEF Reload, Reloads, TypeOK, Containers
  <2> QED
    BY <1>6, <2>1 DEF Reload, Outside, Untouched, recordVars, runVars, historyVars
<1>7. ASSUME NEW p \in Projects, DeleteStep(p) PROVE Outside
  <2>1. /\ deleting'[p] # "idle"
        /\ \A q \in Projects \ {p} :
             /\ deleting'[q] = deleting[q] /\ db'[q] = db[q]
             /\ role'[q] = role[q] /\ api'[q] = api[q]
    BY <1>7 DEF DeleteStep, BeginDelete, StopContainer, DropDatabase, DropRole,
       MarkDeleted, TeardownFails, TypeOK
  <2> QED
    BY <1>7, <2>1 DEF DeleteStep, BeginDelete, StopContainer, DropDatabase,
       DropRole, MarkDeleted, TeardownFails, DeleteFrame, Outside, Untouched,
       recordVars, runVars
<1> QED BY <1>1, <1>2, <1>3, <1>4, <1>5, <1>6, <1>7 DEF Next
-----------------------------------------------------------------------------
(* The invariant, one conjunct at a time *)

LEMMA OneRunStep == TypeOK /\ OneRun /\ [Next]_vars => OneRun'
<1> SUFFICES ASSUME TypeOK, OneRun, [Next]_vars PROVE OneRun'
  OBVIOUS
<1>1. ASSUME NEW r \in Runs, RunStep(r) PROVE OneRun'
  BY <1>1, OtherRuns DEF OneRun
<1>2. CASE \A r \in Runs : ~RunStep(r)
  <2>1. Outside
    BY <1>2, OutsideSteps
  <2>2. ASSUME NEW r \in Runs, NEW s \in Runs, ProjectOf[r] = ProjectOf[s],
               pc'[r] \in Active, pc'[s] \in Active
        PROVE  r = s
    <3>1. /\ Untouched(r) \/ Started(r)
          /\ Untouched(s) \/ Started(s)
      BY <2>1, <2>2, ActiveNames DEF Outside, Ended
    <3>2. CASE Untouched(r) /\ Untouched(s)
      BY <2>2, <3>2 DEF Untouched, OneRun
    <3>3. CASE Started(r) \/ Started(s)
      BY <2>2, <3>3 DEF Started
    <3> QED BY <3>1, <3>2, <3>3
  <2> QED BY <2>2 DEF OneRun
<1> QED BY <1>1, <1>2

LEMMA RoleStep == TypeOK /\ RoleInv /\ [Next]_vars => RoleInv'
<1> SUFFICES ASSUME TypeOK, RoleInv, [Next]_vars,
                    NEW s \in Runs, pc'[s] = "create_role"
             PROVE  /\ view'[s].next \in 1..Len(SharedRoles)
                    /\ SharedRoles[view'[s].next] \in shared' => s \in raced'
  BY DEF RoleInv
<1>1. ASSUME NEW r \in Runs, RunStep(r), r # s
      PROVE  /\ view'[s].next \in 1..Len(SharedRoles)
             /\ SharedRoles[view'[s].next] \in shared' => s \in raced'
  <2>1. pc[s] = "create_role" /\ view'[s] = view[s]
    BY <1>1, OtherRuns
  <2>2. raced \subseteq raced'
    BY <1>1, RunStepHistory
  <2>3. CASE shared' = shared
    BY <2>1, <2>2, <2>3 DEF RoleInv
  <2>4. CASE CreateRole(r) /\ shared' # shared
    BY <1>1, <2>1, <2>2, <2>4 DEF RoleInv, CreateRole
  <2> QED
    BY <1>1, <2>3, <2>4 DEF RunStep, ReadProject, Introspect, ResumeIfOurs, Decide,
       CheckRole, EnsureDatabase, EnsureAuthenticator, Grant, StartPostgrest,
       SaveCredentials, Scaffold, Gate, PassGate, Architect, Migrate, Regrant,
       Notify, PushMigration, Verify, PushTypes, StorePlan, serverVars
<1>2. CASE RunStep(s)
  <2>1. pc \in [Runs -> Places] /\ view[s] \in Views
    BY DEF TypeOK
  <2>2. CheckRole(s)
    BY <1>2, <2>1 DEF RunStep, Goto, ReadProject, Introspect, ResumeIfOurs, Decide,
       CreateRole, EnsureDatabase, EnsureAuthenticator, Grant, StartPostgrest,
       SaveCredentials, Scaffold, Gate, PassGate, Architect, Migrate, Regrant,
       Notify, PushMigration, Verify, PushTypes, StorePlan
  <2>3. /\ view[s].next \in 1..Len(SharedRoles) + 1
        /\ ~(view[s].next > Len(SharedRoles))
        /\ SharedRoles[view[s].next] \notin shared
        /\ UNCHANGED <<view, shared>>
    BY <2>1, <2>2 DEF CheckRole, Goto, Views, serverVars
  <2> QED BY <2>3, Roles
<1>3. CASE \A r \in Runs : ~RunStep(r)
  BY <1>3, OutsideSteps DEF Outside, Untouched, Started, Ended, RoleInv
<1> QED BY <1>1, <1>2, <1>3

(* The credentials a run holds are what it read or what it saved.          *)
LEMMA UrlKept ==
  ASSUME TypeOK, NEW r \in Runs, RunStep(r),
         ~ReadProject(r), ~SaveCredentials(r), ~StorePlan(r)
  PROVE  pc[r] # "read" /\ view'[r].url = view[r].url
<1>1. view \in [Runs -> Views] /\ view[r] \in Views
  BY DEF TypeOK
<1>2. pc[r] # "read"
  BY DEF RunStep, Goto, Introspect, ResumeIfOurs, Decide, CheckRole, CreateRole,
     EnsureDatabase, EnsureAuthenticator, Grant, StartPostgrest, Scaffold, Gate,
     PassGate, Architect, Migrate, Regrant, Notify, PushMigration, Verify, PushTypes
<1> SUFFICES view'[r].url = view[r].url
  BY <1>2
<1>3. CASE Introspect(r) \/ Gate(r)
  BY <1>1, <1>3 DEF Introspect, ResumeIfOurs, Gate, PassGate, Views
<1>4. CASE CheckRole(r) \/ CreateRole(r)
  <2>1. view' = view \/ view' = [view EXCEPT ![r].next = @ + 1]
    BY <1>4 DEF CheckRole, CreateRole
  <2> QED BY <1>1, <2>1 DEF Views
<1>5. CASE Architect(r) \/ Verify(r)
  BY <1>1, <1>5 DEF Architect, Verify, Views
<1>6. CASE view' = view
  BY <1>6
<1> QED
  BY <1>2, <1>3, <1>4, <1>5, <1>6 DEF RunStep, Decide, EnsureDatabase,
     EnsureAuthenticator, Grant, StartPostgrest, Scaffold, Migrate, Regrant, Notify,
     PushMigration, PushTypes

LEMMA UrlStep == TypeOK /\ OneRun /\ UrlInv /\ [Next]_vars => UrlInv'
<1> SUFFICES ASSUME TypeOK, OneRun, UrlInv, [Next]_vars PROVE UrlInv'
  OBVIOUS
<1> USE ProvisionAssumption
<1>1. ASSUME NEW r \in Runs, RunStep(r) PROVE UrlInv'
  <2> DEFINE p == ProjectOf[r]
  <2>1. /\ pc \in [Runs -> Places] /\ view \in [Runs -> Views]
        /\ url \in [Projects -> Urls] /\ p \in Projects
    BY DEF TypeOK
  <2>2. CASE SaveCredentials(r)
    <3>1. /\ url[p] = "none" /\ url' = [url EXCEPT ![p] = "provisioned"]
          /\ pc' = [pc EXCEPT ![r] = "scaffold"] /\ view'[r].url = "provisioned"
      <4>1. pc[r] = "save" /\ pc' = [pc EXCEPT ![r] = "scaffold"]
        BY <2>2 DEF SaveCredentials, Goto
      <4>2. url[p] = "none"
        BY <4>1 DEF UrlInv, Active, Provisioning
      <4> QED BY <2>1, <2>2, <4>1, <4>2 DEF SaveCredentials, Views
    <3>2. \A q \in Projects : url'[q] = "supplied" => q \in Supplied
      BY <2>1, <3>1 DEF UrlInv
    <3>3. \A q \in Supplied : url'[q] = "supplied"
      BY <2>1, <3>1 DEF UrlInv
    <3>4. ASSUME NEW s \in Runs, pc'[s] \in Active
          PROVE  /\ s # r => ProjectOf[s] # p /\ pc'[s] = pc[s] /\ view'[s] = view[s]
      BY <1>1, <3>4, OtherRuns DEF OneRun
    <3>5. {"decide"} \cup Provisioning \subseteq Active
      BY DEF Active
    <3> QED
      BY <2>1, <3>1, <3>2, <3>3, <3>4, <3>5 DEF UrlInv, Provisioning
  <2>3. CASE ~SaveCredentials(r)
    <3>1. url' = url
      BY <1>1, <2>3 DEF RunStep, ReadProject, Introspect, ResumeIfOurs, Decide,
         CheckRole, CreateRole, EnsureDatabase, EnsureAuthenticator, Grant,
         StartPostgrest, Scaffold, Gate, PassGate, Architect, Migrate, Regrant,
         Notify, PushMigration, Verify, PushTypes, StorePlan, recordVars
    <3>2. pc'[r] \in Active \ {"read"} => view'[r].url = url[p]
      <4>1. CASE ReadProject(r)
        BY <2>1, <4>1 DEF ReadProject, Views
      <4>2. CASE StorePlan(r)
        BY <2>1, <4>2, ActiveNames DEF StorePlan, Goto
      <4>3. CASE ~ReadProject(r) /\ ~StorePlan(r)
        <5>1. pc[r] # "read" /\ view'[r].url = view[r].url
          BY <1>1, <2>1, <2>3, <4>3, UrlKept
        <5> QED BY <1>1, <5>1, OtherRuns DEF UrlInv
      <4> QED BY <4>1, <4>2, <4>3
    <3>3. pc'[r] \in {"decide"} \cup Provisioning => view'[r].url = "none"
      <4>1. CASE ReadProject(r)
        BY <2>1, <4>1 DEF ReadProject, Goto, Views, Provisioning
      <4>2. CASE ~ReadProject(r) /\ pc'[r] \in {"decide"} \cup Provisioning
        <5>1. /\ pc[r] \in {"decide"} \cup Provisioning
              /\ view'[r].url = view[r].url
          <6>1. ~StorePlan(r)
            BY <2>1, <4>2 DEF StorePlan, Goto, Provisioning
          <6>2. view'[r].url = view[r].url
            BY <1>1, <2>3, <4>2, <6>1, UrlKept
          <6>3. pc[r] \in {"decide"} \cup Provisioning
            <7>1. CASE Decide(r) \/ CheckRole(r) \/ CreateRole(r) \/ EnsureDatabase(r)
                       \/ EnsureAuthenticator(r) \/ Grant(r) \/ StartPostgrest(r)
              BY <7>1 DEF Goto, Decide, CheckRole, CreateRole, EnsureDatabase,
                 EnsureAuthenticator, Grant, StartPostgrest, Provisioning
            <7>2. CASE Introspect(r) \/ Scaffold(r) \/ Gate(r) \/ Architect(r)
              <8>1. PICK w \in {"scaffold", "gate", "architect", "store", "failed",
                                "migrate"} : pc' = [pc EXCEPT ![r] = w]
                BY <7>2 DEF Goto, Introspect, ResumeIfOurs, Scaffold, Gate, PassGate,
                   Architect
              <8> QED BY <2>1, <4>2, <8>1 DEF Provisioning
            <7>3. CASE Migrate(r) \/ Regrant(r) \/ Notify(r) \/ PushMigration(r)
                       \/ Verify(r) \/ PushTypes(r)
              BY <2>1, <4>2, <7>3 DEF Goto, Migrate, Regrant, Notify, PushMigration,
                 Verify, PushTypes, Provisioning
            <7> QED BY <1>1, <2>3, <4>2, <6>1, <7>1, <7>2, <7>3 DEF RunStep
          <6> QED BY <6>2, <6>3
        <5> QED BY <5>1 DEF UrlInv
      <4> QED BY <4>1, <4>2
    <3> QED BY <1>1, <3>1, <3>2, <3>3, OtherRuns DEF UrlInv
  <2> QED BY <2>2, <2>3
<1>2. CASE \A r \in Runs : ~RunStep(r)
  <2>1. Outside
    BY <1>2, OutsideSteps
  <2>2. ASSUME NEW s \in Runs, pc'[s] \in Active \ {"read"}
        PROVE  Untouched(s)
    BY <2>1, <2>2, ActiveNames DEF Outside, Started, Ended
  <2>3. {"decide"} \cup Provisioning \subseteq Active \ {"read"}
    BY DEF Active, Provisioning
  <2> QED BY <2>1, <2>2, <2>3 DEF UrlInv, Outside, Untouched
<1> QED BY <1>1, <1>2
(* A project without credentials reads nothing; supplied ones always read  *)
(* the tables of that database.                                            *)
LEMMA HoldsStep ==
  TypeOK /\ UrlInv /\ HoldsInv /\ [Next]_vars => HoldsInv'
<1> SUFFICES ASSUME TypeOK, UrlInv, HoldsInv, [Next]_vars, NEW s \in Runs
             PROVE  Holds(s)'
  BY DEF HoldsInv
<1>1. ASSUME NEW r \in Runs, RunStep(r), r # s PROVE Holds(s)'
  <2>1. pc'[s] = pc[s] /\ view'[s] = view[s] /\ misread \subseteq misread'
    BY <1>1, OtherRuns, RunStepHistory
  <2>2. Holds(s)
    BY DEF HoldsInv
  <2> QED BY <2>1, <2>2 DEF Holds
<1>2. CASE RunStep(s)
  <2>1. /\ pc \in [Runs -> Places] /\ view \in [Runs -> Views] /\ view[s] \in Views
        /\ Holds(s) /\ misread \subseteq misread'
        /\ pc[s] \in Active \ {"read"} => view[s].url = url[ProjectOf[s]]
    BY <1>2, RunStepHistory DEF TypeOK, HoldsInv, UrlInv
  <2>2. CASE ReadProject(s)
    <3>1. /\ view[s] = NoView /\ pc'[s] \in {"decide", "introspect"}
          /\ view'[s] = [NoView EXCEPT !.url = url[ProjectOf[s]]]
      BY <2>1, <2>2 DEF ReadProject, Goto, Holds
    <3> QED BY <3>1 DEF Holds, NoView, Migrating
  <2>3. CASE Introspect(s)
    <3>1. PICK read : /\ ResumeIfOurs(s, read)
                      /\ read = Introspected(s) \/ s \in misread'
      BY <2>3 DEF Introspect
    <3>2. /\ pc'[s] = "scaffold" /\ view'[s].url = view[s].url
          /\ view'[s].schema = read
          /\ view'[s].empty = (read = NoSchema /\ view[s].url = "provisioned")
      BY <2>1, <3>1 DEF ResumeIfOurs, Goto, Views
    <3>3. view[s].url = "supplied" /\ read = NoSchema => s \in misread'
      BY <3>1, ProvisionAssumption DEF Introspected, Readable, NoSchema
    <3>4. view[s].url \in Urls
      BY <2>1 DEF Views
    <3> QED BY <3>2, <3>3, <3>4 DEF Holds, Migrating, Urls
  <2>4. CASE SaveCredentials(s)
    <3>1. pc'[s] = "scaffold" /\ view'[s].url = "provisioned" /\ view'[s].empty
      BY <2>1, <2>4 DEF SaveCredentials, Goto, Views
    <3> QED BY <3>1 DEF Holds, Migrating
  <2>5. CASE Gate(s)
    <3>1. PICK read :
            /\ PassGate(s, read)
            /\ view[s].empty \/ view[s].schema # NoSchema \/ view[s].url = "none"
                 => read = view[s].schema
      BY <2>5 DEF Gate
    <3>2. /\ pc[s] = "gate" /\ view'[s].url = view[s].url
          /\ view'[s].empty = view[s].empty /\ view'[s].schema = read
          /\ pc'[s] \in {"failed", "architect"}
          /\ pc'[s] = "architect" /\ view'[s].pkg = "supabase" /\ ~view[s].empty
               => read # NoSchema
      BY <2>1, <3>1 DEF PassGate, Goto, Views
    <3> QED BY <2>1, <3>2 DEF Holds, Migrating
  <2>6. CASE Architect(s)
    <3>1. PICK answer \in Answers :
            /\ view' = [view EXCEPT ![s].answer = answer]
            /\ Goto(s, "architect", IF ~view[s].empty THEN "store"
                                    ELSE IF answer = {} THEN "failed" ELSE "migrate")
      BY <2>6 DEF Architect
    <3>2. /\ view'[s].url = view[s].url /\ view'[s].empty = view[s].empty
          /\ view'[s].schema = view[s].schema /\ view'[s].pkg = view[s].pkg
          /\ view'[s].answer = answer
      BY <2>1, <3>1 DEF Views
    <3>3. CASE ~view[s].empty
      <4>1. pc[s] = "architect" /\ pc'[s] = "store"
        BY <2>1, <3>1, <3>3 DEF Goto
      <4> QED BY <2>1, <3>2, <3>3, <4>1 DEF Holds, Migrating
    <3>4. CASE view[s].empty
      <4>1. /\ pc[s] = "architect"
            /\ pc'[s] = "failed" \/ (pc'[s] = "migrate" /\ answer # {})
        BY <2>1, <3>1, <3>4 DEF Goto
      <4> QED BY <2>1, <3>2, <3>4, <4>1 DEF Holds, Migrating
    <3> QED BY <3>3, <3>4
  <2>7. CASE StorePlan(s)
    BY <2>1, <2>7 DEF StorePlan, Goto, Holds, NoView, Migrating
  <2>8. CASE Verify(s)
    <3>1. /\ pc[s] = "verify" /\ pc'[s] \in {"push_types", "failed"}
          /\ view'[s].url = view[s].url /\ view'[s].empty = view[s].empty
          /\ view'[s].answer = view[s].answer
      BY <2>1, <2>8 DEF Verify, Goto, Views
    <3> QED BY <2>1, <3>1 DEF Holds, Migrating
  <2>9. CASE CheckRole(s) \/ CreateRole(s)
    <3>1. pc'[s] \in {"roles", "create_role", "database", "failed"}
      BY <2>1, <2>9 DEF CheckRole, CreateRole, Goto
    <3>2. view' = view \/ view' = [view EXCEPT ![s].next = @ + 1]
      BY <2>9 DEF CheckRole, CreateRole
    <3>3. view'[s].url = view[s].url /\ view'[s].empty = view[s].empty
      BY <2>1, <3>2 DEF Views
    <3> QED BY <2>1, <3>1, <3>3 DEF Holds, Migrating
  <2>10. CASE Decide(s) \/ Scaffold(s)
    <3>1. view'[s] = view[s]
      BY <2>10 DEF Decide, Scaffold
    <3>2. CASE Decide(s)
      <4>1. /\ pc[s] = "decide" /\ pc'[s] \in {"roles", "scaffold"}
            /\ view[s].url = "none"
        BY <2>1, <3>2 DEF Decide, Goto, UrlInv
      <4> QED BY <2>1, <3>1, <4>1 DEF Holds, Migrating
    <3>3. CASE Scaffold(s)
      <4>1. pc[s] = "scaffold" /\ pc'[s] = "gate"
        BY <2>1, <3>3 DEF Scaffold, Goto
      <4> QED BY <2>1, <3>1, <4>1 DEF Holds, Migrating
    <3> QED BY <2>10, <3>2, <3>3
  <2>11. CASE EnsureDatabase(s) \/ EnsureAuthenticator(s) \/ Grant(s) \/ StartPostgrest(s)
    <3>1. /\ view'[s] = view[s]
          /\ pc'[s] \in {"authenticator", "grant", "start", "save", "failed"}
      BY <2>1, <2>11 DEF EnsureDatabase, EnsureAuthenticator, Grant, StartPostgrest,
         Goto
    <3> QED BY <2>1, <3>1 DEF Holds, Migrating
  <2>12. CASE Migrate(s) \/ Regrant(s) \/ Notify(s) \/ PushMigration(s) \/ PushTypes(s)
    <3>1. /\ view'[s] = view[s] /\ pc[s] \in Migrating
          /\ pc'[s] \in Migrating \cup {"store", "failed"}
      BY <2>1, <2>12 DEF Migrate, Regrant, Notify, PushMigration, PushTypes, Goto,
         Migrating
    <3> QED BY <2>1, <3>1 DEF Holds, Migrating
  <2> QED
    BY <1>2, <2>2, <2>3, <2>4, <2>5, <2>6, <2>7, <2>8, <2>9, <2>10, <2>11, <2>12
       DEF RunStep
<1>3. CASE \A r \in Runs : ~RunStep(r)
  <2>1. Outside /\ Holds(s)
    BY <1>3, OutsideSteps DEF HoldsInv
  <2>2. CASE Untouched(s)
    BY <2>1, <2>2 DEF Outside, Untouched, Holds
  <2>3. CASE Started(s)
    BY <2>1, <2>3 DEF Started, Holds, Migrating
  <2>4. CASE Ended(s)
    BY <2>1, <2>4 DEF Ended, Holds, Migrating, NoView
  <2> QED BY <2>1, <2>2, <2>3, <2>4 DEF Outside
<1> QED BY <1>1, <1>2, <1>3
(* A run that is provisioning is the only one at work for its project.     *)
LEMMA AchievedStep ==
  TypeOK /\ OneRun /\ AchievedInv /\ [Next]_vars => AchievedInv'
<1> SUFFICES ASSUME TypeOK, OneRun, AchievedInv, [Next]_vars, NEW s \in Runs,
                    deleting'[ProjectOf[s]] = "idle",
                    pc'[s] \in {"authenticator", "grant", "start", "save"}
             PROVE  Achieved(s)'
  BY DEF AchievedInv, Achieved
<1> DEFINE p == ProjectOf[s]
<1>0. /\ pc \in [Runs -> Places] /\ db \in [Projects -> Databases] /\ p \in Projects
      /\ api \in [Projects -> Containers] /\ role \in [Projects -> Runs \cup {NoRun}]
      /\ Achieved(s) /\ {"authenticator", "grant", "start", "save"} \subseteq Active
  BY ProvisionAssumption DEF TypeOK, AchievedInv, Active, Provisioning
<1>1. ASSUME NEW r \in Runs, RunStep(r), r # s PROVE Achieved(s)'
  <2>1. pc[r] \in Active /\ pc'[s] = pc[s] /\ deleting' = deleting
    BY <1>1, OtherRuns, RunStepHistory DEF FrameButMigrated
  <2>2. ProjectOf[r] # p
    BY <1>0, <1>1, <2>1 DEF OneRun
  <2>3. db'[p] = db[p] /\ role'[p] = role[p] /\ api'[p] = api[p]
    BY <1>0, <1>1, <2>2, OtherProjects
  <2> QED BY <1>0, <2>1, <2>3 DEF Achieved
<1>2. CASE RunStep(s)
  <2>1. deleting' = deleting
    BY <1>2, RunStepHistory DEF FrameButMigrated
  <2>2. CASE EnsureDatabase(s)
    <3>1. pc'[s] = "authenticator" /\ db'[p].there
      BY <1>0, <2>2 DEF EnsureDatabase, Goto, NoDatabase
    <3> QED BY <3>1 DEF Achieved
  <2>3. CASE EnsureAuthenticator(s)
    <3>1. pc[s] = "authenticator" /\ db' = db /\ role'[p] = s /\ pc'[s] = "grant"
      BY <1>0, <2>3 DEF EnsureAuthenticator, Goto
    <3> QED BY <1>0, <2>1, <3>1 DEF Achieved
  <2>4. CASE Grant(s)
    <3>1. /\ pc[s] = "grant" /\ role' = role /\ pc'[s] = "start" /\ db[p].there
          /\ db'[p].there = db[p].there /\ db'[p].granted = db[p].there
      BY <1>0, <2>4 DEF Grant, Goto, Databases
    <3> QED BY <1>0, <2>1, <3>1 DEF Achieved
  <2>5. CASE StartPostgrest(s)
    <3>1. /\ pc[s] = "start" /\ role' = role /\ db' = db /\ pc'[s] = "save"
          /\ api'[p].by = s
      BY <1>0, <2>5 DEF StartPostgrest, Goto
    <3> QED BY <1>0, <2>1, <3>1 DEF Achieved
  <2>6. CASE ReadProject(s) \/ Introspect(s) \/ Decide(s) \/ CheckRole(s)
             \/ CreateRole(s) \/ SaveCredentials(s) \/ Scaffold(s) \/ Gate(s)
    <3>1. pc'[s] \in {"decide", "introspect", "scaffold", "roles", "create_role",
                     "database", "failed", "gate", "architect"}
      <4>1. CASE Gate(s)
        <5>1. PICK w \in {"failed", "architect"} : pc' = [pc EXCEPT ![s] = w]
          BY <4>1 DEF Gate, PassGate, Goto
        <5> QED BY <1>0, <5>1
      <4>2. CASE ~Gate(s)
        BY <1>0, <2>6, <4>2 DEF ReadProject, Introspect, ResumeIfOurs, Decide,
           CheckRole, CreateRole, SaveCredentials, Scaffold, Goto
      <4> QED BY <4>1, <4>2
    <3> QED BY <3>1
  <2>7. CASE Architect(s) \/ Migrate(s) \/ Regrant(s) \/ Notify(s)
             \/ PushMigration(s) \/ Verify(s) \/ PushTypes(s) \/ StorePlan(s)
    <3>1. PICK w \in {"failed", "store", "planned"} \cup Migrating :
             pc' = [pc EXCEPT ![s] = w]
      BY <2>7 DEF Architect, Migrate, Regrant, Notify, PushMigration, Verify,
         PushTypes, StorePlan, Goto, Migrating
    <3> QED BY <1>0, <3>1 DEF Migrating
  <2> QED BY <1>2, <2>2, <2>3, <2>4, <2>5, <2>6, <2>7 DEF RunStep
<1>3. CASE \A r \in Runs : ~RunStep(r)
  <2>1. /\ Outside /\ Untouched(s)
    BY <1>0, <1>3, OutsideSteps DEF Outside, Started, Ended
  <2>2. api'[p].by = api[p].by
    BY <1>0, <2>1 DEF Outside, Reloads, Containers
  <2> QED BY <1>0, <2>1, <2>2 DEF Achieved, Outside, Untouched
<1> QED BY <1>1, <1>2, <1>3

(* Only a migration changes the tables of a database.                      *)
LEMMA TablesGrow ==
  ASSUME TypeOK, CacheInv, NEW r \in Runs, RunStep(r), NEW p \in Projects
  PROVE  /\ db'[p].tables = db[p].tables
            \/ /\ Migrate(r) /\ p = ProjectOf[r] /\ db[p].there /\ db'[p].there
               /\ db'[p].tables = db[p].tables \cup view[r].answer
         /\ db[p].there => db'[p].there
<1>1. db \in [Projects -> Databases] /\ db[p] \in Databases
  BY DEF TypeOK
<1>2. CASE UNCHANGED db
  BY <1>2
<1>3. CASE EnsureDatabase(r)
  BY <1>1, <1>3 DEF EnsureDatabase, NoDatabase, CacheInv, Databases
<1>4. CASE Grant(r) \/ Regrant(r)
  BY <1>1, <1>4 DEF Grant, Regrant, Databases
<1>5. CASE Migrate(r)
  BY <1>1, <1>5 DEF Migrate, Databases
<1> QED
  BY <1>2, <1>3, <1>4, <1>5 DEF RunStep, ReadProject, Introspect, ResumeIfOurs,
     Decide, CheckRole, CreateRole, EnsureAuthenticator, StartPostgrest,
     SaveCredentials, Scaffold, Gate, PassGate, Architect, Notify, PushMigration,
     Verify, PushTypes, StorePlan, serverVars

(* A container's cache is renewed only from the database.                  *)
LEMMA CacheKept ==
  ASSUME TypeOK, NEW r \in Runs, RunStep(r), NEW p \in Projects
  PROVE  \/ api'[p].cache \in {api[p].cache, {}}
         \/ api'[p].cache = db[p].tables /\ UNCHANGED db
<1>1. api \in [Projects -> Containers]
  BY DEF TypeOK
<1>2. CASE StartPostgrest(r) \/ Notify(r)
  BY <1>1, <1>2 DEF StartPostgrest, Notify, NoContainer, Containers
<1>3. CASE UNCHANGED api
  BY <1>3
<1> QED
  BY <1>2, <1>3 DEF RunStep, ReadProject, Introspect, ResumeIfOurs,
     Decide, CheckRole, CreateRole, EnsureDatabase, EnsureAuthenticator, Grant,
     SaveCredentials, Scaffold, Gate, PassGate, Architect, Migrate, Regrant,
     PushMigration, Verify, PushTypes, StorePlan, serverVars

LEMMA CacheStep == TypeOK /\ CacheInv /\ [Next]_vars => CacheInv'
<1> SUFFICES ASSUME TypeOK, CacheInv, [Next]_vars, NEW p \in Projects
             PROVE  /\ ~db'[p].there => db'[p].tables = {}
                    /\ deleting'[p] = "idle" => api'[p].cache \subseteq db'[p].tables
  BY DEF CacheInv
<1>0. /\ ~db[p].there => db[p].tables = {}
      /\ deleting[p] = "idle" => api[p].cache \subseteq db[p].tables
      /\ db \in [Projects -> Databases] /\ api \in [Projects -> Containers]
  BY DEF CacheInv, TypeOK
<1>1. ASSUME NEW r \in Runs, RunStep(r)
      PROVE  /\ ~db'[p].there => db'[p].tables = {}
             /\ deleting'[p] = "idle" => api'[p].cache \subseteq db'[p].tables
  <2>1. deleting' = deleting
    BY <1>1, RunStepHistory DEF FrameButMigrated
  <2> QED BY <1>0, <1>1, <2>1, TablesGrow, CacheKept
<1>2. CASE \A r \in Runs : ~RunStep(r)
  <2>1. Outside
    BY <1>2, OutsideSteps
  <2>2. deleting'[p] = "idle" => api'[p].cache \subseteq db'[p].tables
    <3>1. CASE api'[p] = api[p]
      BY <1>0, <2>1, <3>1 DEF Outside
    <3>2. CASE Reloads(p)
      <4>1. api[p] \in Containers
        BY <1>0
      <4>2. api'[p].cache = db[p].tables
        BY <3>2, <4>1 DEF Reloads, Containers
      <4> QED BY <2>1, <4>2 DEF Outside
    <3> QED BY <2>1, <3>1, <3>2 DEF Outside
  <2>3. db' = db \/ \E q \in Projects : db' = [db EXCEPT ![q] = NoDatabase]
    BY <1>2 DEF Next, vars, serverVars, RunFails, Launch, Stop, Restart, Reload,
       DeleteStep, BeginDelete, StopContainer, DropDatabase, DropRole, MarkDeleted,
       TeardownFails
  <2> QED BY <1>0, <2>2, <2>3 DEF NoDatabase
<1> QED BY <1>1, <1>2
(* Once credentials are saved nobody provisions the project again, and     *)
(* only a deletion takes what they lead to away.                           *)
LEMMA ServeStep ==
  /\ TypeOK /\ OneRun /\ UrlInv /\ AchievedInv /\ CacheInv /\ SavedCredentialsServe
  /\ [Next]_vars
  => SavedCredentialsServe'
<1> DEFINE Serves(p) == /\ db[p].there /\ db[p].granted
                        /\ api[p].by # NoRun /\ api[p].by = role[p]
<1> SUFFICES ASSUME TypeOK, OneRun, UrlInv, AchievedInv, CacheInv,
                    SavedCredentialsServe, [Next]_vars, NEW p \in Projects,
                    url'[p] = "provisioned", deleting'[p] = "idle"
             PROVE  Serves(p)'
  BY DEF SavedCredentialsServe
<1>0. /\ db \in [Projects -> Databases] /\ api \in [Projects -> Containers]
      /\ role \in [Projects -> Runs \cup {NoRun}] /\ url \in [Projects -> Urls]
      /\ db[p] \in Databases /\ api[p] \in Containers
  BY DEF TypeOK
<1>1. ASSUME NEW r \in Runs, RunStep(r) PROVE Serves(p)'
  <2>1. deleting[p] = "idle"
    BY <1>1, RunStepHistory DEF FrameButMigrated
  <2>2. CASE SaveCredentials(r) /\ p = ProjectOf[r]
    <3>1. pc[r] = "save" /\ UNCHANGED <<db, role, api>>
      BY <2>2 DEF SaveCredentials, Goto, serverVars
    <3>2. Serves(p)
      BY <2>1, <2>2, <3>1, ProvisionAssumption DEF AchievedInv, Achieved
    <3> QED BY <3>1, <3>2
  <2>3. CASE ~SaveCredentials(r) \/ p # ProjectOf[r]
    <3>1. url[p] = "provisioned"
      <4>1. CASE ~SaveCredentials(r)
        <5>1. url' = url
          BY <1>1, <4>1 DEF RunStep, ReadProject, Introspect, ResumeIfOurs, Decide,
             CheckRole, CreateRole, EnsureDatabase, EnsureAuthenticator, Grant,
             StartPostgrest, Scaffold, Gate, PassGate, Architect, Migrate, Regrant,
             Notify, PushMigration, Verify, PushTypes, StorePlan, recordVars
        <5> QED BY <5>1
      <4> QED BY <1>1, <2>3, <4>1, OtherProjects
    <3>2. Serves(p)
      BY <2>1, <3>1 DEF SavedCredentialsServe
    <3>3. CASE p # ProjectOf[r]
      BY <1>1, <3>2, <3>3, OtherProjects
    <3>4. CASE p = ProjectOf[r]
      <4>1. pc[r] \notin {"decide"} \cup Provisioning
        <5>1. {"decide"} \cup Provisioning \subseteq Active \ {"read"}
          BY DEF Active, Provisioning
        <5> QED BY <3>1, <3>4, <5>1 DEF UrlInv
      <4>2. role' = role
        BY <1>1, <4>1 DEF RunStep, ReadProject, Introspect, ResumeIfOurs, Decide,
           CheckRole, CreateRole, EnsureDatabase, EnsureAuthenticator, Grant, Goto,
           StartPostgrest, SaveCredentials, Scaffold, Gate, PassGate, Architect,
           Migrate, Regrant, Notify, PushMigration, Verify, PushTypes, StorePlan,
           Provisioning, serverVars
      <4>3. api'[p].by = api[p].by
        <5>1. CASE Notify(r)
          BY <1>0, <5>1 DEF Notify, Containers
        <5>2. CASE UNCHANGED api
          BY <5>2
        <5> QED
          BY <1>1, <4>1, <5>1, <5>2 DEF RunStep, ReadProject, Introspect,
             ResumeIfOurs, Decide, CheckRole, CreateRole, EnsureDatabase,
             EnsureAuthenticator, Grant, Goto, StartPostgrest, SaveCredentials,
             Scaffold, Gate, PassGate, Architect, Migrate, Regrant, PushMigration,
             Verify, PushTypes, StorePlan, Provisioning, serverVars
      <4>4. db'[p].there /\ db'[p].granted
        <5>1. CASE Migrate(r)
          <6>1. db' = db \/ db' = [db EXCEPT ![p].tables = @ \cup view[r].answer]
            BY <3>4, <5>1 DEF Migrate
          <6> QED BY <1>0, <3>2, <6>1 DEF Databases
        <5>2. CASE Regrant(r)
          <6>1. db' = [db EXCEPT ![p].granted = db[p].there]
            BY <3>4, <5>2 DEF Regrant
          <6> QED BY <1>0, <3>2, <6>1 DEF Databases
        <5>3. CASE UNCHANGED db
          BY <3>2, <5>3
        <5> QED
          BY <1>1, <4>1, <5>1, <5>2, <5>3 DEF RunStep, ReadProject, Introspect,
             ResumeIfOurs, Decide, CheckRole, CreateRole, EnsureDatabase,
             EnsureAuthenticator, Grant, Goto, StartPostgrest, SaveCredentials,
             Scaffold, Gate, PassGate, Architect, Notify, PushMigration,
             Verify, PushTypes, StorePlan, Provisioning, serverVars
      <4> QED BY <3>2, <4>2, <4>3, <4>4
    <3> QED BY <3>3, <3>4
  <2> QED BY <2>2, <2>3
<1>2. CASE \A r \in Runs : ~RunStep(r)
  <2>1. Outside
    BY <1>2, OutsideSteps
  <2>2. Serves(p)
    BY <2>1 DEF Outside, SavedCredentialsServe
  <2>3. api'[p].by = api[p].by
    BY <1>0, <2>1 DEF Outside, Reloads, Containers
  <2> QED BY <2>1, <2>2, <2>3 DEF Outside
<1> QED BY <1>1, <1>2

(* What a run's step makes of the schema it holds.                         *)
LEMMA ViewSchema ==
  ASSUME TypeOK, NEW r \in Runs, RunStep(r)
  PROVE  view'[r].schema \in {view[r].schema, NoSchema, Introspected(r)}
<1>1. view \in [Runs -> Views] /\ view[r] \in Views
  BY DEF TypeOK
<1>2. CASE ReadProject(r) \/ SaveCredentials(r) \/ Architect(r)
  BY <1>1, <1>2 DEF ReadProject, SaveCredentials, Architect, Views
<1>3. CASE Introspect(r)
  BY <1>1, <1>3 DEF Introspect, ResumeIfOurs, Views
<1>4. CASE Gate(r)
  <2>1. PICK read \in {view[r].schema, NoSchema, Introspected(r)} : PassGate(r, read)
    BY <1>4 DEF Gate
  <2> QED BY <1>1, <2>1 DEF PassGate, Views
<1>5. CASE CheckRole(r) \/ CreateRole(r)
  <2>1. view' = view \/ view' = [view EXCEPT ![r].next = @ + 1]
    BY <1>5 DEF CheckRole, CreateRole
  <2> QED BY <1>1, <2>1 DEF Views
<1>6. CASE Verify(r)
  BY <1>1, <1>6 DEF Verify, Views
<1>7. CASE StorePlan(r)
  BY <1>1, <1>7 DEF StorePlan, NoView, Views
<1>8. CASE view' = view
  BY <1>8
<1> QED
  BY <1>2, <1>3, <1>4, <1>5, <1>6, <1>7, <1>8 DEF RunStep, Decide, EnsureDatabase,
     EnsureAuthenticator, Grant, StartPostgrest, Scaffold, Migrate, Regrant, Notify,
     PushMigration, PushTypes

(* The way into the migration, and through it.                             *)
LEMMA PlacesBeforeMigration ==
  ASSUME TypeOK, NEW r \in Runs, RunStep(r)
  PROVE  /\ pc'[r] \in Migrating \ {"migrate"}
              => pc[r] \in Migrating \ {"migrate"} \/ Migrate(r)
         /\ pc'[r] \in {"push_migration", "verify"} => Notify(r) \/ PushMigration(r)
         /\ pc'[r] = "store" => Architect(r) \/ PushTypes(r)
<1>1. pc \in [Runs -> Places]
  BY DEF TypeOK
<1>2. CASE Architect(r)
  <2>1. PICK w \in {"failed", "store", "migrate"} : pc' = [pc EXCEPT ![r] = w]
    BY <1>2 DEF Architect, Goto
  <2> QED BY <1>1, <1>2, <2>1 DEF Migrating
<1>3. CASE Migrate(r) \/ Regrant(r) \/ Notify(r) \/ PushMigration(r) \/ Verify(r)
             \/ PushTypes(r)
  BY <1>1, <1>3 DEF Migrate, Regrant, Notify, PushMigration, Verify, PushTypes, Goto,
     Migrating
<1>4. CASE ReadProject(r) \/ Introspect(r) \/ Decide(r) \/ CheckRole(r)
             \/ CreateRole(r) \/ EnsureDatabase(r) \/ EnsureAuthenticator(r)
             \/ Grant(r) \/ StartPostgrest(r) \/ SaveCredentials(r) \/ Scaffold(r)
             \/ Gate(r) \/ StorePlan(r)
  <2>1. \/ pc' = pc /\ pc[r] = "roles"
        \/ \E w \in {"decide", "introspect", "scaffold", "failed", "gate", "roles",
                     "create_role", "database", "authenticator", "grant", "start",
                     "save", "architect", "planned"} : pc' = [pc EXCEPT ![r] = w]
    BY <1>4 DEF ReadProject, Introspect, ResumeIfOurs, Decide, CheckRole, CreateRole,
       EnsureDatabase, EnsureAuthenticator, Grant, StartPostgrest, SaveCredentials,
       Scaffold, Gate, PassGate, StorePlan, Goto
  <2> QED BY <1>1, <2>1 DEF Migrating
<1> QED BY <1>2, <1>3, <1>4 DEF RunStep

(* Past the migration, the tables it creates are there.                    *)
LEMMA AnswerMigrated ==
  ASSUME TypeOK, HoldsInv, CacheInv, NEW s \in Runs, RunStep(s),
         \/ pc[s] \in Migrating \ {"migrate"}
         \/ pc[s] = "store" /\ view[s].empty
         => view[s].answer \subseteq db[ProjectOf[s]].tables,
         \/ pc'[s] \in Migrating \ {"migrate"}
         \/ pc'[s] = "store" /\ view'[s].empty
  PROVE  view'[s].answer \subseteq db'[ProjectOf[s]].tables
<1> DEFINE p == ProjectOf[s]
<1>1. /\ pc \in [Runs -> Places] /\ view \in [Runs -> Views] /\ view[s] \in Views
      /\ p \in Projects /\ db \in [Projects -> Databases]
  BY ProvisionAssumption DEF TypeOK
<1>2. CASE Migrate(s)
  <2>1. /\ pc' = [pc EXCEPT ![s] = "regrant"] \/ pc' = [pc EXCEPT ![s] = "failed"]
        /\ view' = view
    BY <1>2 DEF Migrate, Goto
  <2>2. pc'[s] # "failed"
    BY DEF Migrating
  <2>3. db' = [db EXCEPT ![p].tables = @ \cup view[s].answer]
    BY <1>1, <1>2, <2>2 DEF Migrate, Goto
  <2> QED BY <1>1, <2>1, <2>3 DEF Databases
<1>3. CASE Architect(s)
  <2>1. PICK answer : /\ view' = [view EXCEPT ![s].answer = answer]
                      /\ Goto(s, "architect", IF ~view[s].empty THEN "store"
                              ELSE IF answer = {} THEN "failed" ELSE "migrate")
    BY <1>3 DEF Architect
  <2>2. view'[s].empty = view[s].empty
    BY <1>1, <2>1 DEF Views
  <2> QED BY <1>1, <2>1, <2>2 DEF Goto, Migrating
<1>4. CASE ~Migrate(s) /\ ~Architect(s)
  <2>1. pc[s] \in Migrating \ {"migrate"}
    <3>1. CASE PushTypes(s)
      BY <3>1 DEF PushTypes, Goto, Migrating
    <3> QED BY <1>4, <3>1, PlacesBeforeMigration
  <2>2. view'[s].answer = view[s].answer
    <3>1. Regrant(s) \/ Notify(s) \/ PushMigration(s) \/ Verify(s) \/ PushTypes(s)
      BY <1>4, <2>1 DEF RunStep, ReadProject, Introspect, ResumeIfOurs, Decide,
         CheckRole, CreateRole, EnsureDatabase, EnsureAuthenticator, Grant, Goto,
         StartPostgrest, SaveCredentials, Scaffold, Gate, PassGate, StorePlan,
         Migrating
    <3> QED BY <1>1, <3>1 DEF Regrant, Notify, PushMigration, Verify, PushTypes, Views
  <2>3. db[p].tables \subseteq db'[p].tables
    BY <1>1, TablesGrow
  <2> QED BY <2>1, <2>2, <2>3
<1> QED BY <1>2, <1>3, <1>4

(* A migration is announced to a container that serves.                    *)
LEMMA KnownStep ==
  /\ TypeOK /\ OneRun /\ UrlInv /\ HoldsInv /\ AchievedInv /\ CacheInv
  /\ SavedCredentialsServe /\ KnownInv /\ [Next]_vars
  => KnownInv'
<1> SUFFICES ASSUME TypeOK, OneRun, UrlInv, HoldsInv, AchievedInv, CacheInv,
                    SavedCredentialsServe, KnownInv, [Next]_vars, NEW s \in Runs,
                    deleting'[ProjectOf[s]] = "idle", pc'[s] \in Active
             PROVE  Known(s)'
  BY DEF KnownInv, Known
<1> DEFINE p == ProjectOf[s]
<1>0. /\ db \in [Projects -> Databases] /\ api \in [Projects -> Containers]
      /\ pc \in [Runs -> Places] /\ view \in [Runs -> Views] /\ view[s] \in Views
      /\ url \in [Projects -> Urls] /\ p \in Projects
      /\ db[p] \in Databases /\ api[p] \in Containers
      /\ Known(s) /\ Holds(s)
  BY ProvisionAssumption DEF TypeOK, KnownInv, HoldsInv
<1>1. ASSUME NEW r \in Runs, RunStep(r), r # s PROVE Known(s)'
  <2>1. /\ pc[r] \in Active /\ pc'[s] = pc[s] /\ view'[s] = view[s]
        /\ deleting' = deleting
    BY <1>1, OtherRuns, RunStepHistory DEF FrameButMigrated
  <2>2. ProjectOf[r] # p
    BY <1>0, <1>1, <2>1 DEF OneRun
  <2>3. db'[p] = db[p] /\ api'[p] = api[p] /\ url'[p] = url[p]
    BY <1>0, <1>1, <2>2, OtherProjects
  <2> QED BY <1>0, <2>1, <2>3 DEF Known, Live
<1>2. CASE RunStep(s)
  <2>1. deleting' = deleting /\ pc[s] \in Active
    BY <1>2, RunStepHistory, OtherRuns DEF FrameButMigrated
  <2>2. /\ view[s].schema \subseteq Live(p)
        /\ \/ pc[s] \in Migrating \ {"migrate"}
           \/ pc[s] = "store" /\ view[s].empty
           => view[s].answer \subseteq db[p].tables
    BY <1>0, <2>1 DEF Known
  <2>3. Live(p) \subseteq Live(p)'
    <3>1. url'[p] = url[p] \/ (url[p] # "supplied" /\ url'[p] = "provisioned")
      <4>1. CASE SaveCredentials(s)
        BY <1>0, <4>1 DEF SaveCredentials, Goto, UrlInv, Active, Provisioning
      <4>2. CASE ~SaveCredentials(s)
        BY <1>2, <4>2 DEF RunStep, ReadProject, Introspect, ResumeIfOurs, Decide,
           CheckRole, CreateRole, EnsureDatabase, EnsureAuthenticator, Grant,
           StartPostgrest, Scaffold, Gate, PassGate, Architect, Migrate, Regrant,
           Notify, PushMigration, Verify, PushTypes, StorePlan, recordVars
      <4> QED BY <4>1, <4>2
    <3>2. db[p].tables \subseteq db'[p].tables
      BY <1>0, <1>2, TablesGrow
    <3> QED BY <3>1, <3>2 DEF Live
  <2>4. view'[s].schema \in {view[s].schema, NoSchema, Introspected(s)}
    BY <1>0, <1>2, ViewSchema
  <2>5. Introspected(s) \subseteq Live(p) \/ pc[s] = "read"
    BY <1>0, <2>1 DEF Introspected, Readable, Exposed, Live, UrlInv, CacheInv
  <2>6. view'[s].schema \subseteq Live(p)'
    <3>1. CASE ReadProject(s)
      BY <1>0, <2>2, <2>3, <3>1 DEF ReadProject, Views
    <3>2. CASE ~ReadProject(s)
      <4>1. pc[s] # "read"
        <5>1. CASE SaveCredentials(s) \/ StorePlan(s)
          BY <5>1 DEF SaveCredentials, StorePlan, Goto
        <5> QED BY <1>2, <3>2, <5>1, UrlKept
      <4> QED BY <2>2, <2>3, <2>4, <2>5, <4>1 DEF NoSchema
    <3> QED BY <3>1, <3>2
  <2>7. (\/ pc'[s] \in Migrating \ {"migrate"}
         \/ pc'[s] = "store" /\ view'[s].empty)
          => view'[s].answer \subseteq db'[p].tables
    BY <1>0, <1>2, <2>1, <2>2, AnswerMigrated
  <2>8. pc'[s] \in {"push_migration", "verify"}
          => api'[p].notified \/ api'[p].cache = db'[p].tables
    <3>1. CASE Notify(s) /\ pc'[s] \in Active
      <4>1. /\ pc[s] = "notify" /\ db[p].there
            /\ api'[p].notified = (db[p].there /\ api[p].by # NoRun)
        BY <1>0, <3>1, ActiveNames DEF Notify, Goto
      <4>2. url[p] = "provisioned"
        BY <1>0, <4>1 DEF Holds, UrlInv, Migrating, Active
      <4> QED BY <1>0, <2>1, <4>1, <4>2 DEF SavedCredentialsServe
    <3>2. CASE PushMigration(s)
      <4>1. pc[s] = "push_migration" /\ UNCHANGED <<api, db>>
        BY <3>2 DEF PushMigration, Goto, serverVars
      <4> QED BY <1>0, <2>1, <4>1 DEF Known
    <3>3. CASE ~PushMigration(s) /\ ~Notify(s)
                 /\ pc'[s] \in {"push_migration", "verify"}
      BY <1>0, <1>2, <3>3, PlacesBeforeMigration
    <3> QED BY <3>1, <3>2, <3>3
  <2> QED BY <2>6, <2>7, <2>8 DEF Known
<1>3. CASE \A r \in Runs : ~RunStep(r)
  <2>1. Outside /\ (Untouched(s) \/ Started(s))
    BY <1>3, OutsideSteps, ActiveNames DEF Outside, Ended
  <2>2. /\ deleting[p] = "idle" /\ db'[p] = db[p] /\ url'[p] = url[p]
        /\ api'[p] = api[p] \/ Reloads(p)
    BY <1>0, <2>1 DEF Outside
  <2>3. api'[p].cache = db[p].tables \/ api'[p] = api[p]
    BY <1>0, <2>2 DEF Reloads, Containers
  <2>4. CASE Untouched(s)
    BY <1>0, <2>2, <2>3, <2>4 DEF Untouched, Known, Live
  <2>5. CASE Started(s)
    BY <1>0, <2>2, <2>5 DEF Started, Known, Holds, NoView, NoSchema, Migrating
  <2> QED BY <2>1, <2>4, <2>5
<1> QED BY <1>1, <1>2, <1>3
(* What a step writes down is what the run knows.                          *)
LEMMA WrittenStep ==
  /\ TypeOK /\ UrlInv /\ HoldsInv /\ CacheInv /\ KnownInv /\ WrittenTablesLive
  /\ [Next]_vars
  => WrittenTablesLive'
<1> DEFINE Planned(p) == plan[p].pkg = "supabase" =>
                           plan[p].against # NoSchema /\ plan[p].against \subseteq Live(p)
           Pushed(p) == repo[p].migration \cup repo[p].types \subseteq Live(p)
<1> SUFFICES ASSUME TypeOK, UrlInv, HoldsInv, CacheInv, KnownInv, WrittenTablesLive,
                    [Next]_vars, NEW p \in Projects, deleting'[p] = "idle"
             PROVE  Planned(p)' /\ Pushed(p)'
  BY DEF WrittenTablesLive
<1>0. /\ db \in [Projects -> Databases] /\ repo \in [Projects -> Repositories]
      /\ plan \in [Projects -> Plans] /\ url \in [Projects -> Urls]
      /\ repo[p] \in Repositories
  BY DEF TypeOK
<1>1. ASSUME NEW r \in Runs, RunStep(r) PROVE Planned(p)' /\ Pushed(p)'
  <2>1. deleting[p] = "idle" /\ pc[r] \in Active
    BY <1>1, RunStepHistory, OtherRuns DEF FrameButMigrated
  <2>2. Planned(p) /\ Pushed(p)
    BY <2>1 DEF WrittenTablesLive
  <2>3. Live(p) \subseteq Live(p)'
    <3>1. url'[p] = url[p] \/ (url[p] # "supplied" /\ url'[p] = "provisioned")
      <4>1. CASE SaveCredentials(r)
        <5>1. url[ProjectOf[r]] = "none"
          BY <4>1 DEF SaveCredentials, Goto, UrlInv, Active, Provisioning
        <5> QED BY <1>0, <4>1, <5>1 DEF SaveCredentials
      <4>2. CASE ~SaveCredentials(r)
        BY <1>1, <4>2 DEF RunStep, ReadProject, Introspect, ResumeIfOurs, Decide,
           CheckRole, CreateRole, EnsureDatabase, EnsureAuthenticator, Grant,
           StartPostgrest, Scaffold, Gate, PassGate, Architect, Migrate, Regrant,
           Notify, PushMigration, Verify, PushTypes, StorePlan, recordVars
      <4> QED BY <4>1, <4>2
    <3>2. db[p].tables \subseteq db'[p].tables
      BY <1>1, TablesGrow
    <3> QED BY <3>1, <3>2 DEF Live
  <2>4. /\ view[r] \in Views /\ Holds(r)
        /\ p = ProjectOf[r] =>
             /\ view[r].schema \subseteq Live(p)
             /\ \/ pc[r] \in Migrating \ {"migrate"}
                \/ pc[r] = "store" /\ view[r].empty
                => view[r].answer \subseteq db[p].tables
    BY <2>1 DEF TypeOK, HoldsInv, KnownInv, Known
  <2>5. p = ProjectOf[r] /\ view[r].empty /\ pc[r] \in Active \ {"read"}
          => db[p].tables = Live(p)
    BY <2>4 DEF Holds, UrlInv, Live
  <2>6. Planned(p)'
    <3>1. CASE plan'[p] = plan[p]
      BY <2>2, <2>3, <3>1
    <3>2. CASE plan'[p] # plan[p]
      <4>1. StorePlan(r) /\ p = ProjectOf[r]
        BY <1>1, <3>2, OtherProjects DEF RunStep, ReadProject, Introspect,
           ResumeIfOurs, Decide, CheckRole, CreateRole, EnsureDatabase,
           EnsureAuthenticator, Grant, StartPostgrest, SaveCredentials, Scaffold,
           Gate, PassGate, Architect, Migrate, Regrant, Notify, PushMigration,
           Verify, PushTypes, recordVars
      <4>2. /\ pc[r] = "store"
            /\ plan'[p] = [against |-> IF view[r].empty THEN view[r].answer
                                       ELSE view[r].schema,
                           pkg |-> view[r].pkg]
        BY <1>0, <4>1 DEF StorePlan, Goto
      <4>3. CASE view[r].empty
        BY <2>1, <2>3, <2>4, <2>5, <4>1, <4>2, <4>3 DEF Holds, NoSchema
      <4>4. CASE ~view[r].empty
        BY <2>3, <2>4, <4>1, <4>2, <4>4 DEF Holds
      <4> QED BY <4>3, <4>4
    <3> QED BY <3>1, <3>2
  <2>7. Pushed(p)'
    <3>1. CASE repo'[p] = repo[p]
      BY <2>2, <2>3, <3>1
    <3>2. CASE PushMigration(r) /\ p = ProjectOf[r]
      <4>1. /\ pc[r] = "push_migration" /\ repo'[p].types = repo[p].types
            /\ repo'[p].migration = view[r].answer
        BY <1>0, <3>2 DEF PushMigration, Goto, Repositories
      <4>2. view[r].empty
        BY <2>4, <4>1 DEF Holds, Migrating
      <4> QED BY <2>1, <2>2, <2>3, <2>4, <2>5, <3>2, <4>1, <4>2 DEF Migrating
    <3>3. CASE PushTypes(r) /\ p = ProjectOf[r]
      <4>1. /\ repo'[p].migration = repo[p].migration
            /\ repo'[p].types = view[r].schema
        BY <1>0, <3>3 DEF PushTypes, Repositories
      <4> QED BY <2>2, <2>3, <2>4, <3>3, <4>1
    <3>4. CASE Scaffold(r) /\ p = ProjectOf[r] /\ repo'[p] # repo[p]
      <4>1. PICK pushed : repo' = Scaffolded(r, pushed)
        BY <3>4 DEF Scaffold, Smooth
      <4>2. /\ repo'[p].migration = repo[p].migration
            /\ repo'[p].types \in {repo[p].types, view[r].schema}
        BY <1>0, <3>4, <4>1 DEF Scaffolded, Repositories
      <4> QED BY <2>2, <2>3, <2>4, <3>4, <4>2
    <3> QED
      BY <1>1, <3>1, <3>2, <3>3, <3>4, OtherProjects DEF RunStep, ReadProject,
         Introspect, ResumeIfOurs, Decide, CheckRole, CreateRole, EnsureDatabase,
         EnsureAuthenticator, Grant, StartPostgrest, SaveCredentials, Gate, PassGate,
         Architect, Migrate, Regrant, Notify, Verify, StorePlan, recordVars
  <2> QED BY <2>6, <2>7
<1>2. CASE \A r \in Runs : ~RunStep(r)
  <2>1. Outside
    BY <1>2, OutsideSteps
  <2>2. Planned(p) /\ Pushed(p)
    BY <2>1 DEF Outside, WrittenTablesLive
  <2>3. /\ url'[p] = url[p] /\ db'[p] = db[p]
        /\ plan' = plan /\ repo' = repo
    BY <2>1 DEF Outside
  <2> QED BY <2>2, <2>3 DEF Live
<1> QED BY <1>1, <1>2

(* A deletion goes through its calls in order, beside no planning run.     *)
LEMMA DeleteInvStep == TypeOK /\ DeleteInv /\ [Next]_vars => DeleteInv'
<1> DEFINE Swept(p) ==
      /\ deleting[p] \in {"drop", "drop_role", "mark", "deleted"} => api[p].by = NoRun
      /\ deleting[p] \in {"drop_role", "mark", "deleted"} => ~db[p].there
      /\ deleting[p] \in {"mark", "deleted"} => role[p] = NoRun
    Alone(p) == \A r \in Runs : ProjectOf[r] = p => pc[r] \notin Active
<1> SUFFICES ASSUME TypeOK, DeleteInv, [Next]_vars, NEW p \in Projects,
                    deleting'[p] # "idle", p \notin overlapped'
             PROVE  Alone(p)' /\ (p \notin logged' => Swept(p)')
  BY DEF DeleteInv
<1>0. /\ db \in [Projects -> Databases] /\ api \in [Projects -> Containers]
      /\ role \in [Projects -> Runs \cup {NoRun}] /\ api[p] \in Containers
      /\ deleting[p] # "idle" /\ p \notin overlapped =>
           Alone(p) /\ (p \notin logged => Swept(p))
      /\ deleting \in [Projects -> {"idle", "stop", "drop", "drop_role", "mark",
                                    "deleted", "interrupted"}]
  BY DEF TypeOK, DeleteInv
<1>1. ASSUME NEW r \in Runs, RunStep(r)
      PROVE  Alone(p)' /\ (p \notin logged' => Swept(p)')
  <2>1. /\ UNCHANGED <<deleting, overlapped, logged>> /\ pc[r] \in Active
        /\ \A s \in Runs \ {r} : pc'[s] = pc[s]
    BY <1>1, RunStepHistory, OtherRuns DEF FrameButMigrated
  <2>2. CASE p = ProjectOf[r]
    BY <1>0, <2>1, <2>2
  <2>3. CASE p # ProjectOf[r]
    <3>1. db'[p] = db[p] /\ role'[p] = role[p] /\ api'[p] = api[p]
      BY <1>1, <2>3, OtherProjects
    <3> QED BY <1>0, <2>1, <2>3, <3>1
  <2> QED BY <2>2, <2>3
<1>2. CASE Outside /\ UNCHANGED <<serverVars, deleting, logged>>
  <2>1. Alone(p)'
    <3> SUFFICES ASSUME NEW r \in Runs, ProjectOf[r] = p
                 PROVE  pc'[r] \notin Active
      OBVIOUS
    <3>1. deleting[p] # "idle" /\ p \notin overlapped
      BY <1>2 DEF Outside
    <3>2. pc[r] \notin Active
      BY <1>0, <3>1
    <3>3. Untouched(r)
      BY <1>2, <3>1, <3>2 DEF Outside, Started, Ended
    <3> QED BY <3>2, <3>3 DEF Untouched
  <2>2. p \notin logged' => Swept(p)'
    BY <1>0, <1>2 DEF Outside, serverVars
  <2> QED BY <2>1, <2>2
<1>3. CASE \A r \in Runs : ~RunStep(r)
  <2>0. Outside
    BY <1>3, OutsideSteps
  <2>1. CASE Restart
    <3>1. /\ UNCHANGED <<db, role, api, logged, overlapped>>
          /\ deleting[p] # "idle"
          /\ deleting'[p] \in {deleting[p], "interrupted"}
          /\ \A r \in Runs : pc'[r] \notin Active
      BY <1>0, <2>1, ActiveNames DEF Restart, Cancel, serverVars, historyVars
    <3> QED BY <1>0, <3>1
  <2>2. ASSUME NEW q \in Projects, Reload(q)
        PROVE  Alone(p)' /\ (p \notin logged' => Swept(p)')
    <3>1. /\ UNCHANGED <<db, role, deleting, logged, overlapped, pc>>
          /\ api' = [api EXCEPT ![q].notified = FALSE, ![q].cache = db[q].tables]
      BY <2>2 DEF Reload, historyVars, runVars
    <3>2. api'[p].by = api[p].by
      BY <1>0, <3>1 DEF Containers
    <3> QED BY <1>0, <3>1, <3>2
  <2>3. ASSUME NEW q \in Projects, DeleteStep(q), q # p
        PROVE  Alone(p)' /\ (p \notin logged' => Swept(p)')
    <3>1. /\ deleting'[p] = deleting[p] /\ db'[p] = db[p] /\ role'[p] = role[p]
          /\ api'[p] = api[p] /\ UNCHANGED pc
          /\ overlapped \subseteq overlapped' /\ logged \subseteq logged'
      BY <1>0, <2>3 DEF DeleteStep, BeginDelete, StopContainer, DropDatabase,
         DropRole, MarkDeleted, TeardownFails, DeleteFrame, runVars
    <3> QED BY <1>0, <3>1
  <2>4. CASE DeleteStep(p)
    <3>1. CASE BeginDelete(p)
      <4>1. /\ deleting'[p] = "stop" /\ UNCHANGED pc
            /\ overlapped' = overlapped \cup
                  {q \in {p} : \E r \in Runs : ProjectOf[r] = p /\ pc[r] \in Active}
        BY <1>0, <3>1 DEF BeginDelete, DeleteFrame, runVars
      <4> QED BY <4>1
    <3>2. CASE StopContainer(p)
      <4>1. /\ deleting[p] = "stop" /\ deleting'[p] = "drop" /\ api'[p].by = NoRun
            /\ UNCHANGED <<pc, overlapped, logged>>
        BY <1>0, <3>2 DEF StopContainer, DeleteFrame, runVars, NoContainer
      <4> QED BY <1>0, <4>1
    <3>3. CASE DropDatabase(p)
      <4>1. /\ deleting[p] = "drop" /\ deleting'[p] = "drop_role" /\ ~db'[p].there
            /\ UNCHANGED <<pc, overlapped, logged, api>>
        BY <1>0, <3>3 DEF DropDatabase, DeleteFrame, runVars, NoDatabase
      <4> QED BY <1>0, <4>1
    <3>4. CASE DropRole(p)
      <4>1. /\ deleting[p] = "drop_role" /\ deleting'[p] = "mark" /\ role'[p] = NoRun
            /\ UNCHANGED <<pc, overlapped, logged, api, db>>
        BY <1>0, <3>4 DEF DropRole, DeleteFrame, runVars
      <4> QED BY <1>0, <4>1
    <3>5. CASE MarkDeleted(p)
      <4>1. /\ deleting[p] = "mark" /\ deleting'[p] = "deleted"
            /\ UNCHANGED <<pc, overlapped, logged, api, db, role>>
        BY <1>0, <3>5 DEF MarkDeleted, DeleteFrame, runVars
      <4> QED BY <1>0, <4>1
    <3>6. CASE TeardownFails(p)
      <4>1. /\ deleting[p] # "idle" /\ p \in logged'
            /\ UNCHANGED <<pc, overlapped>>
        BY <1>0, <3>6 DEF TeardownFails, DeleteFrame, runVars
      <4> QED BY <1>0, <4>1
    <3> QED BY <2>4, <3>1, <3>2, <3>3, <3>4, <3>5, <3>6 DEF DeleteStep
  <2>5. CASE \/ UNCHANGED vars
             \/ \E r \in Runs : RunFails(r) \/ Launch(r) \/ Stop(r)
    <3>1. UNCHANGED <<serverVars, deleting, logged>>
      BY <2>5 DEF vars, RunFails, Frame, FrameButMigrated, Launch, Stop, historyVars
    <3> QED BY <1>2, <2>0, <3>1
  <2> QED BY <1>3, <2>1, <2>2, <2>3, <2>4, <2>5 DEF Next
<1> QED BY <1>1, <1>3
(* Once the credentials are saved and some table is there, PostgREST's     *)
(* cache does not become empty again.                                      *)
LEMMA CacheStays ==
  ASSUME TypeOK, UrlInv, NEW r \in Runs, RunStep(r), NEW p \in Projects,
         url[p] = "provisioned", db[p].tables # {}, api[p].cache # {}
  PROVE  api'[p].cache # {}
<1>1. api \in [Projects -> Containers] /\ pc \in [Runs -> Places]
  BY DEF TypeOK
<1>2. CASE p # ProjectOf[r]
  BY <1>2, OtherProjects
<1>3. CASE p = ProjectOf[r] /\ StartPostgrest(r)
  <2>1. pc[r] = "start"
    BY <1>3 DEF StartPostgrest, Goto
  <2> QED BY <1>3, <2>1 DEF UrlInv, Active, Provisioning
<1>4. CASE Notify(r)
  BY <1>1, <1>4 DEF Notify, Containers
<1>5. CASE UNCHANGED api
  BY <1>5
<1> QED
  BY <1>2, <1>3, <1>4, <1>5 DEF RunStep, ReadProject, Introspect, ResumeIfOurs,
     Decide, CheckRole, CreateRole, EnsureDatabase, EnsureAuthenticator, Grant,
     SaveCredentials, Scaffold, Gate, PassGate, Architect, Migrate, Regrant,
     PushMigration, Verify, PushTypes, StorePlan, serverVars

(* Saved credentials stay.                                                 *)
LEMMA UrlStays ==
  ASSUME TypeOK, NEW r \in Runs, RunStep(r), NEW p \in Projects,
         url[p] = "provisioned"
  PROVE  url'[p] = "provisioned"
<1>1. CASE SaveCredentials(r)
  BY <1>1 DEF SaveCredentials, TypeOK
<1>2. CASE UNCHANGED url
  BY <1>2
<1> QED
  BY <1>1, <1>2 DEF RunStep, ReadProject, Introspect, ResumeIfOurs, Decide,
     CheckRole, CreateRole, EnsureDatabase, EnsureAuthenticator, Grant,
     StartPostgrest, Scaffold, Gate, PassGate, Architect, Migrate, Regrant,
     Notify, PushMigration, Verify, PushTypes, StorePlan, recordVars

(* A committed migration.                                                  *)
LEMMA Commits ==
  ASSUME TypeOK, UrlInv, HoldsInv, NEW s \in Runs, Migrate(s), s \in migrated',
         s \notin migrated
  PROVE  /\ pc'[s] = "regrant" /\ url'[ProjectOf[s]] = "provisioned"
         /\ db'[ProjectOf[s]].tables # {}
<1> DEFINE p == ProjectOf[s]
<1>1. /\ pc \in [Runs -> Places] /\ p \in Projects /\ db \in [Projects -> Databases]
      /\ Holds(s)
  BY ProvisionAssumption DEF TypeOK, HoldsInv
<1>2. /\ pc[s] = "migrate" /\ pc' = [pc EXCEPT ![s] = "regrant"] /\ url' = url
      /\ db' = [db EXCEPT ![p].tables = @ \cup view[s].answer]
  BY DEF Migrate, Goto, recordVars
<1>3. view[s].answer # {} /\ view[s].url = "provisioned"
  BY <1>1, <1>2 DEF Holds, Migrating
<1>4. url[p] = "provisioned"
  BY <1>2, <1>3 DEF UrlInv, Active, Migrating
<1> QED BY <1>1, <1>2, <1>3, <1>4 DEF Databases

(* What comes after the migration.                                         *)
LEMMA AfterMigration ==
  ASSUME TypeOK, NEW s \in Runs, RunStep(s), pc[s] \in PastMigration
  PROVE  /\ pc'[s] \in PastMigration /\ UNCHANGED migrated
         /\ \/ Regrant(s) \/ Notify(s) \/ PushMigration(s)
            \/ Verify(s) \/ PushTypes(s) \/ StorePlan(s)
<1>1. pc \in [Runs -> Places]
  BY DEF TypeOK
<1>2. Regrant(s) \/ Notify(s) \/ PushMigration(s) \/ Verify(s) \/ PushTypes(s)
        \/ StorePlan(s)
  BY DEF RunStep, ReadProject, Introspect, ResumeIfOurs, Decide, CheckRole,
     CreateRole, EnsureDatabase, EnsureAuthenticator, Grant, Goto, StartPostgrest,
     SaveCredentials, Scaffold, Gate, PassGate, Architect, Migrate, PastMigration
<1>3. pc'[s] \in PastMigration
  BY <1>1, <1>2 DEF Regrant, Notify, PushMigration, Verify, PushTypes, StorePlan,
     Goto, PastMigration
<1>4. UNCHANGED migrated
  BY <1>2 DEF Regrant, Notify, PushMigration, Verify, PushTypes, StorePlan, Smooth,
     Frame
<1> QED BY <1>2, <1>3, <1>4

LEMMA LeftStep ==
  /\ TypeOK /\ UrlInv /\ HoldsInv /\ CacheInv /\ SavedCredentialsServe /\ LeftInv
  /\ [Next]_vars
  => LeftInv'
<1> SUFFICES ASSUME TypeOK, UrlInv, HoldsInv, CacheInv, SavedCredentialsServe,
                    LeftInv, [Next]_vars, NEW s \in Runs, s \in migrated'
             PROVE  Left(s)'
  BY DEF LeftInv, Left
<1> DEFINE p == ProjectOf[s]
<1>0. /\ p \in Projects /\ pc \in [Runs -> Places] /\ api \in [Projects -> Containers]
      /\ Left(s)
  BY ProvisionAssumption DEF TypeOK, LeftInv
<1>1. ASSUME NEW r \in Runs, RunStep(r), r # s PROVE Left(s)'
  <2>1. /\ pc'[s] = pc[s] /\ s \in migrated /\ deleting' = deleting
    BY <1>1, OtherRuns, RunStepHistory DEF FrameButMigrated
  <2>2. url'[p] = "provisioned"
    BY <1>0, <1>1, <2>1, UrlStays DEF Left
  <2>3. db[p].tables \subseteq db'[p].tables
    BY <1>0, <1>1, TablesGrow
  <2>4. deleting[p] = "idle" /\ pc[s] \in {"push_types", "store", "planned"}
          => api'[p].cache # {}
    BY <1>0, <1>1, <2>1, CacheStays DEF Left
  <2> QED BY <1>0, <2>1, <2>2, <2>3, <2>4 DEF Left
<1>2. CASE RunStep(s) /\ s \in migrated
  <2>1. pc[s] \in PastMigration /\ url[p] = "provisioned"
    BY <1>0, <1>2 DEF Left
  <2>2. /\ pc'[s] \in PastMigration
        /\ \/ Regrant(s) \/ Notify(s) \/ PushMigration(s)
           \/ Verify(s) \/ PushTypes(s) \/ StorePlan(s)
    BY <1>2, <2>1, AfterMigration
  <2>3. deleting' = deleting
    BY <1>2, RunStepHistory DEF FrameButMigrated
  <2>4. url'[p] = "provisioned"
    BY <1>0, <1>2, <2>1, UrlStays
  <2>5. db[p].tables \subseteq db'[p].tables
    BY <1>0, <1>2, TablesGrow
  <2>6. ASSUME deleting[p] = "idle", pc'[s] \in {"push_types", "store", "planned"}
        PROVE  api'[p].cache # {}
    <3>1. CASE Verify(s)
      <4>1. Introspected(s) # NoSchema /\ UNCHANGED api /\ pc[s] = "verify"
        BY <1>0, <2>6, <3>1 DEF Verify, Goto, serverVars
      <4>2. view[s].url = "provisioned"
        BY <2>1, <4>1 DEF UrlInv, Active, Migrating
      <4> QED BY <4>1, <4>2 DEF Introspected, Readable, Exposed, NoSchema
    <3>2. CASE PushTypes(s) \/ StorePlan(s)
      <4>1. pc[s] \in {"push_types", "store"}
        BY <3>2 DEF PushTypes, StorePlan, Goto
      <4> QED BY <1>0, <1>2, <2>1, <2>6, <4>1, CacheStays DEF Left
    <3>3. CASE Regrant(s) \/ Notify(s) \/ PushMigration(s)
      BY <1>0, <2>6, <3>3 DEF Regrant, Notify, PushMigration, Goto
    <3> QED BY <2>2, <3>1, <3>2, <3>3
  <2> QED BY <1>0, <1>2, <2>2, <2>3, <2>4, <2>5, <2>6 DEF Left
<1>3. CASE RunStep(s) /\ s \notin migrated
  <2>1. Migrate(s)
    BY <1>3 DEF RunStep, ReadProject, Introspect, ResumeIfOurs, Decide, CheckRole,
       CreateRole, EnsureDatabase, EnsureAuthenticator, Grant, StartPostgrest,
       SaveCredentials, Scaffold, Gate, PassGate, Architect, Regrant, Notify,
       PushMigration, Verify, PushTypes, StorePlan, Smooth, Frame
  <2>2. /\ pc'[s] = "regrant" /\ url'[p] = "provisioned" /\ db'[p].tables # {}
    BY <1>3, <2>1, Commits
  <2> QED BY <2>2 DEF Left, PastMigration
<1>4. CASE \A r \in Runs : ~RunStep(r)
  <2>1. Outside
    BY <1>4, OutsideSteps
  <2>2. s \in migrated /\ pc[s] \in PastMigration /\ url'[p] = "provisioned"
    BY <1>0, <2>1 DEF Outside, Left
  <2>3. pc'[s] = pc[s] \/ pc'[s] \in {"failed", "cancelled"}
    <3>1. pc[s] # "absent"
      BY <2>2 DEF PastMigration
    <3> QED BY <2>1, <3>1 DEF Outside, Untouched, Started, Ended
  <2>4. ASSUME deleting'[p] = "idle"
        PROVE  /\ db'[p].tables # {}
               /\ pc'[s] \in {"push_types", "store", "planned"} => api'[p].cache # {}
    <3>1. /\ deleting[p] = "idle" /\ db'[p] = db[p]
          /\ api'[p] = api[p] \/ Reloads(p)
      BY <1>0, <2>1, <2>4 DEF Outside
    <3>2. api'[p].cache \in {api[p].cache, db[p].tables}
      BY <1>0, <3>1 DEF Reloads, Containers
    <3> QED BY <1>0, <2>2, <2>3, <3>1, <3>2 DEF Left
  <2> QED BY <2>2, <2>3, <2>4 DEF Left, PastMigration
<1> QED BY <1>1, <1>2, <1>3, <1>4

(* Only a migration brings tables, and only a deletion takes them away.    *)
LEMMA TablesStep == TypeOK /\ CacheInv /\ TablesInv /\ [Next]_vars => TablesInv'
<1> SUFFICES ASSUME TypeOK, CacheInv, TablesInv, [Next]_vars, NEW p \in Projects,
                    db'[p].tables # {}
             PROVE  \E s \in migrated' : ProjectOf[s] = p
  BY DEF TablesInv
<1>1. ASSUME NEW r \in Runs, RunStep(r)
      PROVE  \E s \in migrated' : ProjectOf[s] = p
  <2>1. migrated \subseteq migrated'
    BY <1>1, RunStepHistory
  <2>2. CASE db'[p].tables = db[p].tables
    BY <2>1, <2>2 DEF TablesInv
  <2>3. CASE Migrate(r) /\ p = ProjectOf[r] /\ db' # db
    <3>1. r \in migrated'
      BY <2>3 DEF Migrate
    <3> QED BY <2>3, <3>1
  <2> QED BY <1>1, <2>2, <2>3, TablesGrow
<1>2. CASE \A r \in Runs : ~RunStep(r)
  <2>1. UNCHANGED migrated
    BY <1>2, OutsideSteps DEF Outside
  <2>2. db' = db \/ \E q \in Projects : db' = [db EXCEPT ![q] = NoDatabase]
    BY <1>2 DEF Next, vars, serverVars, RunFails, Launch, Stop, Restart, Reload,
       DeleteStep, BeginDelete, StopContainer, DropDatabase, DropRole, MarkDeleted,
       TeardownFails
  <2>3. db[p].tables # {}
    BY <2>2 DEF NoDatabase, TypeOK
  <2> QED BY <2>1, <2>3 DEF TablesInv
<1> QED BY <1>1, <1>2

(* Where a run comes to take the database for empty.                       *)
LEMMA TakenForEmpty ==
  ASSUME TypeOK, NEW r \in Runs, RunStep(r), view'[r].empty, ~view[r].empty
  PROVE  Introspect(r) \/ SaveCredentials(r)
<1>1. view \in [Runs -> Views] /\ view[r] \in Views
  BY DEF TypeOK
<1>2. CASE ReadProject(r) \/ Architect(r) \/ Verify(r)
  BY <1>1, <1>2 DEF ReadProject, Architect, Verify, Views
<1>3. CASE CheckRole(r) \/ CreateRole(r)
  <2>1. view' = view \/ view' = [view EXCEPT ![r].next = @ + 1]
    BY <1>3 DEF CheckRole, CreateRole
  <2> QED BY <1>1, <2>1 DEF Views
<1>4. CASE Gate(r)
  BY <1>1, <1>4 DEF Gate, PassGate, Views
<1>5. CASE StorePlan(r)
  BY <1>1, <1>5 DEF StorePlan, NoView
<1>6. CASE view' = view
  BY <1>6
<1> QED
  BY <1>2, <1>3, <1>4, <1>5, <1>6 DEF RunStep, Decide, EnsureDatabase,
     EnsureAuthenticator, Grant, StartPostgrest, Scaffold, Migrate, Regrant, Notify,
     PushMigration, PushTypes

(* A reading that does not fail shows what a finished migration brought.   *)
LEMMA FreshStep ==
  /\ TypeOK /\ OneRun /\ UrlInv /\ HoldsInv /\ SavedCredentialsServe /\ LeftInv
  /\ FreshInv /\ [Next]_vars
  => FreshInv'
<1> SUFFICES ASSUME TypeOK, OneRun, UrlInv, HoldsInv, SavedCredentialsServe, LeftInv,
                    FreshInv, [Next]_vars, NEW r \in Runs, NEW s \in Runs,
                    pc'[r] \in Active, view'[r].empty, r \notin misread',
                    deleting'[ProjectOf[r]] = "idle",
                    s \in migrated', s # r, ProjectOf[s] = ProjectOf[r],
                    pc'[s] = "planned"
             PROVE  FALSE
  BY DEF FreshInv, Fresh
<1> DEFINE p == ProjectOf[r]
<1>0. /\ p \in Projects /\ view \in [Runs -> Views] /\ pc \in [Runs -> Places]
      /\ view[r] \in Views /\ Fresh(r) /\ Holds(r)
  BY ProvisionAssumption DEF TypeOK, FreshInv, HoldsInv
<1>1. ASSUME NEW t \in Runs, RunStep(t), t # r PROVE FALSE
  <2>1. /\ pc[r] \in Active /\ view[r].empty /\ pc[t] \in Active
        /\ misread \subseteq misread' /\ deleting' = deleting
    BY <1>1, OtherRuns, RunStepHistory DEF FrameButMigrated
  <2>2. t # s
    BY <1>1, <2>1 DEF OneRun
  <2>3. pc[s] = "planned" /\ s \in migrated
    BY <1>1, <2>2, OtherRuns, RunStepHistory
  <2> QED BY <1>0, <2>1, <2>3 DEF Fresh
<1>2. CASE RunStep(r)
  <2>1. /\ pc[r] \in Active /\ pc[s] = "planned" /\ s \in migrated
        /\ misread \subseteq misread' /\ deleting' = deleting
    BY <1>2, OtherRuns, RunStepHistory DEF FrameButMigrated
  <2>2. ~view[r].empty
    BY <1>0, <2>1 DEF Fresh
  <2>3. url[p] = "provisioned" /\ api[p].cache # {}
    BY <2>1 DEF LeftInv, Left
  <2>4. CASE SaveCredentials(r)
    <3>1. pc[r] = "save"
      BY <2>4 DEF SaveCredentials, Goto
    <3> QED BY <2>3, <3>1 DEF UrlInv, Active, Provisioning
  <2>5. CASE Introspect(r)
    <3>1. pc[r] = "introspect" /\ view[r].url = "provisioned"
      BY <1>0, <2>3, <2>5 DEF Introspect, ResumeIfOurs, Goto, UrlInv, Active
    <3>2. Introspected(r) = api[p].cache
      BY <1>0, <2>1, <2>3, <3>1
         DEF SavedCredentialsServe, Introspected, Readable, Exposed
    <3>3. ResumeIfOurs(r, Introspected(r))
      BY <2>5 DEF Introspect
    <3>4. ~view'[r].empty
      BY <1>0, <2>3, <3>2, <3>3 DEF ResumeIfOurs, NoSchema, Views
    <3> QED BY <3>4
  <2> QED BY <1>2, <2>2, <2>4, <2>5, TakenForEmpty
<1>3. CASE \A t \in Runs : ~RunStep(t)
  <2>1. Outside
    BY <1>3, OutsideSteps
  <2>2. pc[s] = "planned" /\ s \in migrated
    BY <2>1 DEF Outside, Untouched, Started, Ended
  <2>3. deleting[p] = "idle" /\ misread' = misread
    BY <1>0, <2>1 DEF Outside
  <2>4. CASE Untouched(r)
    BY <1>0, <2>2, <2>3, <2>4 DEF Untouched, Fresh
  <2>5. CASE Started(r)
    BY <1>0, <2>5 DEF Started, Holds, NoView
  <2> QED BY <2>1, <2>4, <2>5, ActiveNames DEF Outside, Ended
<1> QED BY <1>1, <1>2, <1>3

(* The tables that are in the way of a migration.                          *)
LEMMA InTheWay ==
  ASSUME TypeOK, OneRun, HoldsInv, LeftInv, TablesInv, FreshInv, NEW r \in Runs,
         pc[r] = "migrate", deleting[ProjectOf[r]] = "idle",
         db[ProjectOf[r]].tables # {}
  PROVE  r \in misread \/ Abandoned(r)
<1> DEFINE before == {s \in migrated \ {r} : ProjectOf[s] = ProjectOf[r]}
<1> SUFFICES ASSUME r \notin misread PROVE Abandoned(r)
  OBVIOUS
<1>1. /\ pc[r] \in Active /\ pc[r] \notin PastMigration /\ view[r].empty
      /\ ProjectOf[r] \in Projects /\ migrated \subseteq Runs
  BY ProvisionAssumption
     DEF TypeOK, HoldsInv, Holds, Active, Migrating, PastMigration
<1>2. r \notin migrated
  BY <1>1 DEF LeftInv, Left
<1>3. before # {}
  BY <1>1, <1>2 DEF TablesInv
<1>4. ASSUME NEW s \in before PROVE pc[s] \in {"failed", "cancelled"}
  <2>1. pc[s] \in PastMigration /\ s \in Runs
    BY <1>1, <1>4 DEF LeftInv, Left
  <2>2. pc[s] # "planned"
    BY <1>1, <1>4, <2>1 DEF FreshInv, Fresh
  <2>3. pc[s] \notin Active
    BY <1>1, <1>4, <2>1 DEF OneRun
  <2>4. PastMigration \subseteq Active \cup {"planned", "failed", "cancelled"}
    BY DEF PastMigration, Active, Migrating
  <2> QED BY <2>1, <2>2, <2>3, <2>4
<1> QED BY <1>3, <1>4 DEF Abandoned

(* Why a run that fails does.                                              *)
Cause(r) ==
    \/ faults' # faults \/ deleting[ProjectOf[r]] # "idle"
    \/ pc[r] = "create_role" /\ r \in raced
    \/ /\ pc[r] = "gate" /\ view[r].url = "none"
       /\ repo[ProjectOf[r]].pkg = "supabase"
    \/ pc[r] = "architect" /\ view'[r].answer = {}
    \/ pc[r] = "verify" /\ api[ProjectOf[r]].notified
    \/ pc[r] \in {"gate", "migrate"} /\ r \in misread
    \/ pc[r] = "migrate" /\ Abandoned(r)

LEMMA CauseStep ==
  ASSUME IInv, [Next]_vars, NEW s \in Runs, pc[s] # "failed", pc'[s] = "failed"
  PROVE  Cause(s)
<1> DEFINE p == ProjectOf[s]
<1>0. /\ p \in Projects /\ pc \in [Runs -> Places] /\ db \in [Projects -> Databases]
      /\ view \in [Runs -> Views] /\ view[s] \in Views /\ Holds(s)
      /\ TypeOK /\ UrlInv /\ AchievedInv /\ SavedCredentialsServe /\ KnownInv
  BY ProvisionAssumption DEF IInv, TypeOK, HoldsInv
<1>1. ASSUME NEW r \in Runs, RunStep(r), r # s PROVE FALSE
  BY <1>0, <1>1, OtherRuns
<1>2. CASE RunStep(s) /\ deleting[p] # "idle"
  BY <1>2 DEF Cause
<1>3. CASE RunStep(s) /\ deleting[p] = "idle"
  <2>1. CASE CreateRole(s)
    BY <1>0, <2>1 DEF CreateRole, IInv, RoleInv, Cause
  <2>2. CASE EnsureAuthenticator(s) \/ Grant(s)
    <3>1. pc[s] \in {"authenticator", "grant"} /\ ~db[p].there
      BY <1>0, <2>2 DEF EnsureAuthenticator, Grant, Goto
    <3> QED BY <1>0, <1>3, <3>1 DEF AchievedInv, Achieved
  <2>3. CASE StartPostgrest(s) \/ (Verify(s) /\ Fault)
    <3>1. Fault
      BY <1>0, <2>3 DEF StartPostgrest, Goto
    <3>2. faults' # faults
      BY <1>0, <3>1 DEF TypeOK, Fault
    <3> QED BY <3>2 DEF Cause
  <2>4. CASE Gate(s)
    <3>1. PICK read :
            /\ PassGate(s, read)
            /\ view[s].empty \/ view[s].schema # NoSchema \/ view[s].url = "none"
                 => read = view[s].schema
      BY <2>4 DEF Gate
    <3>2. /\ pc[s] = "gate" /\ repo[p].pkg = "supabase" /\ ~view[s].empty
          /\ read = NoSchema
      BY <1>0, <3>1 DEF PassGate, Goto
    <3> QED BY <1>0, <3>1, <3>2 DEF Holds, Cause
  <2>5. CASE Architect(s)
    <3>1. PICK answer :
            /\ view' = [view EXCEPT ![s].answer = answer]
            /\ Goto(s, "architect", IF ~view[s].empty THEN "store"
                                    ELSE IF answer = {} THEN "failed" ELSE "migrate")
      BY <2>5 DEF Architect
    <3>2. pc[s] = "architect" /\ answer = {}
      BY <1>0, <3>1 DEF Goto
    <3>3. view'[s].answer = answer
      BY <1>0, <3>1 DEF Views
    <3> QED BY <3>2, <3>3 DEF Cause
  <2>6. CASE Migrate(s) \/ Regrant(s) \/ Notify(s)
    <3>1. /\ pc[s] \in {"migrate", "regrant", "notify"}
          /\ \/ ~db[p].there
             \/ pc[s] = "migrate" /\ view[s].answer \cap db[p].tables # {}
      BY <1>0, <2>6 DEF Migrate, Regrant, Notify, Goto
    <3>2. view[s].empty /\ url[p] = "provisioned"
      BY <1>0, <3>1 DEF Holds, UrlInv, Migrating, Active
    <3>3. db[p].there
      BY <1>0, <1>3, <3>2 DEF SavedCredentialsServe
    <3>4. pc[s] = "migrate" /\ db[p].tables # {}
      BY <3>1, <3>3
    <3>5. s \in misread \/ Abandoned(s)
      BY <1>3, <3>4, InTheWay DEF IInv
    <3> QED BY <3>4, <3>5 DEF Cause
  <2>7. CASE Verify(s) /\ ~Fault
    <3>1. Introspected(s) = NoSchema /\ pc[s] = "verify"
      BY <1>0, <2>7 DEF Verify, Goto
    <3>2. view[s].empty /\ view[s].answer # {}
      BY <1>0, <3>1 DEF Holds, Migrating
    <3>3. url[p] = "provisioned" /\ view[s].url = "provisioned"
      BY <1>0, <3>1, <3>2 DEF Holds, UrlInv, Active, Migrating
    <3>4. Introspected(s) = api[p].cache
      BY <1>0, <1>3, <3>3 DEF SavedCredentialsServe, Introspected, Readable, Exposed
    <3>5. /\ view[s].answer \subseteq db[p].tables
          /\ api[p].notified \/ api[p].cache = db[p].tables
      BY <1>0, <1>3, <3>1 DEF KnownInv, Known, Active, Migrating
    <3>6. api[p].notified
      BY <3>1, <3>2, <3>4, <3>5 DEF NoSchema
    <3> QED BY <3>1, <3>6 DEF Cause
  <2>8. CASE ReadProject(s) \/ Introspect(s) \/ Decide(s) \/ CheckRole(s)
             \/ EnsureDatabase(s) \/ SaveCredentials(s) \/ Scaffold(s)
             \/ PushMigration(s) \/ PushTypes(s) \/ StorePlan(s)
    <3>1. pc'[s] # "failed"
      BY <1>0, <2>8 DEF ReadProject, Introspect, ResumeIfOurs, Decide, CheckRole,
         EnsureDatabase, SaveCredentials, Scaffold, PushMigration, PushTypes,
         StorePlan, Goto
    <3> QED BY <3>1
  <2> QED
    BY <1>3, <2>1, <2>2, <2>3, <2>4, <2>5, <2>6, <2>7, <2>8 DEF RunStep
<1>4. CASE \A r \in Runs : ~RunStep(r)
  <2>1. Outside
    BY <1>0, <1>4, OutsideSteps
  <2>2. faults' # faults
    BY <2>1 DEF Outside, Untouched, Started, Ended
  <2> QED BY <2>2 DEF Cause
<1> QED BY <1>1, <1>2, <1>3, <1>4

-----------------------------------------------------------------------------
(* The theorems *)

LEMMA InitIInv == Init => IInv
<1> SUFFICES ASSUME Init PROVE IInv
  OBVIOUS
<1> USE ProvisionAssumption
<1>1. TypeOK
  BY InitType
<1>2. \A r \in Runs : pc[r] = "absent" /\ view[r] = NoView
  BY DEF Init
<1>3. \A p \in Projects :
        /\ db[p] = NoDatabase /\ api[p] = NoContainer /\ role[p] = NoRun
        /\ plan[p] = NoPlan /\ deleting[p] = "idle" /\ ProjectOf \in [Runs -> Projects]
        /\ url[p] = (IF p \in Supplied THEN "supplied" ELSE "none")
        /\ repo[p].migration = {} /\ repo[p].types = {}
  BY DEF Init, NoSchema
<1>4. OneRun /\ RoleInv /\ AchievedInv /\ KnownInv /\ FreshInv
  BY <1>2, ActiveNames DEF OneRun, RoleInv, AchievedInv, Achieved, KnownInv, Known,
     FreshInv, Fresh
<1>5. UrlInv
  BY <1>2, <1>3, ActiveNames DEF UrlInv, Provisioning
<1>6. HoldsInv
  <2> SUFFICES ASSUME NEW r \in Runs PROVE Holds(r)
    BY DEF HoldsInv
  <2>1. pc[r] = "absent" /\ view[r] = NoView /\ ~NoView.empty
    BY <1>2 DEF NoView
  <2> QED BY <2>1 DEF Holds, Migrating
<1>7. CacheInv /\ DeleteInv
  BY <1>3 DEF CacheInv, DeleteInv, NoDatabase, NoContainer
<1>8. SavedCredentialsServe /\ WrittenTablesLive
  BY <1>3 DEF SavedCredentialsServe, WrittenTablesLive, NoPlan
<1>9. LeftInv /\ TablesInv
  BY <1>3 DEF Init, LeftInv, Left, TablesInv, NoDatabase
<1> QED BY <1>1, <1>4, <1>5, <1>6, <1>7, <1>8, <1>9 DEF IInv

LEMMA NextIInv == IInv /\ [Next]_vars => IInv'
BY NextType, OneRunStep, RoleStep, UrlStep, HoldsStep, AchievedStep, CacheStep,
   ServeStep, KnownStep, WrittenStep, DeleteInvStep, LeftStep, TablesStep, FreshStep DEF IInv

LEMMA Inductive == Spec => []IInv
BY InitIInv, NextIInv, PTL DEF Spec

(* Every variable stays within its type; a run creates a shared role only  *)
(* when there is one to create (db_provision/postgres.py).                 *)
THEOREM TypeCorrect == Spec => []TypeOK
<1>1. IInv => TypeOK  BY DEF IInv
<1> QED BY <1>1, Inductive, PTL

(* Credentials in the project row always lead to a database that exists,   *)
(* through a container with the login role's present password              *)
(* (provision_project_database, start_postgrest).                          *)
THEOREM CredentialsServe == Spec => []SavedCredentialsServe
<1>1. IInv => SavedCredentialsServe  BY DEF IInv
<1> QED BY <1>1, Inductive, PTL

(* The plan, the migration and the types that are written down speak only  *)
(* of tables the live database has (the migration in analyze_and_plan).    *)
THEOREM TablesLive == Spec => []WrittenTablesLive
<1>1. IInv => WrittenTablesLive  BY DEF IInv
<1> QED BY <1>1, Inductive, PTL

(* A planning run fails only at a step that gives it cause; of what earlier*)
(* runs left half done, only the tables of an abandoned migration stand in *)
(* its way (analyze_and_plan over provision_project_database).             *)
THEOREM RunsPlan == Spec => FailureHasCause
<1>1. IInv /\ [Next]_vars
        => \A r \in Runs : pc[r] # "failed" /\ pc'[r] = "failed" => Cause(r)
  BY CauseStep
<1>2. IInv /\ [Next]_vars
        => [\A r \in Runs : pc[r] # "failed" /\ pc'[r] = "failed" => Cause(r)]_vars
  BY <1>1
<1> QED BY <1>2, Inductive, PTL DEF Spec, FailureHasCause, Cause

(* A deletion that no planning ran beside removes the container, the       *)
(* database and the login role, or says in the log what it could not       *)
(* (teardown_project_database).                                            *)
THEOREM NothingLeft == Spec => []DeletionLeavesNothing
<1>1. IInv => DeletionLeavesNothing
  BY DEF IInv, DeleteInv, DeletionLeavesNothing
<1> QED BY <1>1, Inductive, PTL
=============================================================================
