----------------------- MODULE ProjectLifecycleProofs -----------------------
(***************************************************************************)
(* Proofs about ProjectLifecycle for any jobs, requests, plans and tasks,  *)
(* and any number of restarts.                                             *)
(***************************************************************************)
EXTENDS ProjectLifecycle, TLAPS

(* Where an apply job works through the tasks of the plan it read.         *)
Looping == {"loop", "create", "record", "report"}

(* A job that is able to write is the one the registry names.              *)
RegistryInv == \A j \in Jobs : pc[j] \in Working => registry = j

(* The stored plan cannot change under an apply job that did not read it.  *)
HeldInv ==
    \A j \in Jobs :
        /\ pc[j] = "absent" => jobPlan[j] = NoPlan
        /\ \/ pc[j] = "new" /\ kind[j] = "apply"
           \/ pc[j] \in {"approval", "read"}
           => decided[j] = issuePlan

(* What a job knows in its loop: the rows there are are the keys it has    *)
(* seen, and the task it is at has none.                                   *)
LoopOK(j) ==
    /\ pc[j] \in {"snapshot"} \cup Looping => jobPlan[j] \in Plans
    /\ pc[j] \in Looping => seen[j] = {k \in Keys : rows[k] > 0}
    /\ pc[j] \in {"create", "record"} =>
         todo[j] # <<>> /\ Head(todo[j]) \notin seen[j]

LoopInv == \A j \in Jobs : LoopOK(j)

(* Tasks done with: those in front of todo.  If every one of them was      *)
(* counted, every one of them has a row.                                   *)
Passed(j) == Len(Tasks[jobPlan[j]]) - Len(todo[j])

Counted(j) ==
    /\ Passed(j) \in Nat
    /\ \A i \in 1..Len(todo[j]) : todo[j][i] = Tasks[jobPlan[j]][Passed(j) + i]
    /\ handled[j] <= Passed(j)
    /\ handled[j] = Passed(j) =>
         \A i \in 1..Passed(j) : rows[Tasks[jobPlan[j]][i]] > 0

CountOK(j) ==
    /\ pc[j] \in {"absent", "new", "planning", "approval", "read", "begin",
                  "snapshot"} => handled[j] = 0
    /\ pc[j] \in Looping => Counted(j)
    /\ pc[j] = "report" => todo[j] = <<>>

CountInv == \A j \in Jobs : CountOK(j)

-----------------------------------------------------------------------------
(* Type correctness *)

LEMMA InitType == Init => TypeOK
<1> SUFFICES ASSUME Init PROVE TypeOK
  OBVIOUS
<1>1. /\ stage \in Stages /\ status \in Statuses
      /\ planApproved \in BOOLEAN /\ quiet \in BOOLEAN
  BY DEF Init, Stages, Statuses
<1>2. /\ rows \in [Keys -> Nat] /\ github \in [Keys -> Nat]
      /\ pc \in [Jobs -> Working \cup Unwinding \cup {"absent", "done"}]
      /\ todo \in [Jobs -> Seq(Keys)]
      /\ attempt \in [Jobs -> 1..3]
  BY DEF Init
<1> QED BY <1>1, <1>2 DEF Init, TypeOK

LEMMA CancelType == TypeOK => AfterCancel \in
         [Jobs -> Working \cup Unwinding \cup {"absent", "done"}]
  BY DEF TypeOK, AfterCancel, Cancelled, Working, Unwinding

LEMMA RunTrackedType ==
  ASSUME TypeOK, NEW j \in Jobs, NEW k \in {"plan", "apply"}, RunTracked(j, k)
  PROVE  /\ registry' \in Jobs
         /\ kind' \in [Jobs -> {"plan", "apply"}]
         /\ pc' \in [Jobs -> Working \cup Unwinding \cup {"absent", "done"}]
         /\ decided' \in [Jobs -> Plans \cup {NoPlan}]
         /\ quiet' = FALSE
<1>1. "new" \in Working  BY DEF Working
<1>2. pc' = [AfterCancel EXCEPT ![j] = "new"]  BY DEF RunTracked
<1>3. pc' \in [Jobs -> Working \cup Unwinding \cup {"absent", "done"}]
  BY <1>1, <1>2, CancelType
<1> QED BY <1>3 DEF RunTracked, TypeOK

LEMMA ForgetType ==
  ASSUME TypeOK, NEW J, ForgetLocals(J)
  PROVE  /\ jobPlan' \in [Jobs -> Plans \cup {NoPlan}]
         /\ todo' \in [Jobs -> Seq(Keys)]
         /\ seen' \in [Jobs -> SUBSET Keys]
         /\ attempt' \in [Jobs -> 1..3]
         /\ handled' \in [Jobs -> Nat]
  BY DEF TypeOK, ForgetLocals

(* The requests. *)
LEMMA RequestType ==
  ASSUME TypeOK, Request
  PROVE  TypeOK'
<1> USE ProjectLifecycleAssumption
<1> USE DEF projectVars, issueVars, localVars, jobVars, requestVars
<1>1. ASSUME NEW j \in Jobs, Start(j) PROVE TypeOK'
  <2>1. RunTracked(j, "plan")  BY <1>1 DEF Start
  <2>2. UNCHANGED <<projectVars, issueVars, localVars, requestVars, crashes>>
    BY <1>1 DEF Start
  <2> QED BY <2>1, <2>2, RunTrackedType DEF TypeOK
<1>2. ASSUME NEW a \in Approvers, ApproveRead(a) PROVE TypeOK'
  BY <1>2 DEF ApproveRead, TypeOK
<1>3. ASSUME NEW a \in Approvers, ApproveRefuse(a) PROVE TypeOK'
  BY <1>3 DEF ApproveRefuse, TypeOK
<1>4. ASSUME NEW a \in Approvers, NEW j \in Jobs, ApproveAccept(a, j)
      PROVE  TypeOK'
  <2>1. RunTracked(j, "apply")  BY <1>4 DEF ApproveAccept
  <2>2. /\ approving' = [approving EXCEPT ![a] = "resuming"]
        /\ UNCHANGED <<projectVars, issueVars, localVars, stopping, deleting,
                       crashes>>
    BY <1>4 DEF ApproveAccept
  <2> QED BY <2>1, <2>2, RunTrackedType DEF TypeOK
<1>5. ASSUME NEW s \in Stoppers, StopCancel(s) PROVE TypeOK'
  <2>1. pc' \in [Jobs -> Working \cup Unwinding \cup {"absent", "done"}]
    BY <1>5, CancelType DEF StopCancel
  <2> QED BY <1>5, <2>1 DEF StopCancel, TypeOK
<1>6. ASSUME NEW s \in Stoppers, StopWrite(s) PROVE TypeOK'
  BY <1>6 DEF StopWrite, TypeOK, Statuses
<1>7. ASSUME NEW d \in Deleters, DeleteStage(d) PROVE TypeOK'
  BY <1>7 DEF DeleteStage, TypeOK, Stages
<1>8. ASSUME NEW d \in Deleters, DeleteStatus(d) PROVE TypeOK'
  BY <1>8 DEF DeleteStatus, TypeOK, Statuses
<1>9. ASSUME NEW p \in Edits, EditPlan(p) PROVE TypeOK'
  BY <1>9 DEF EditPlan, TypeOK
<1> QED BY <1>1, <1>2, <1>3, <1>4, <1>5, <1>6, <1>7, <1>8, <1>9 DEF Request

(* The steps of a job.  SnapshotIssues and the loop rely on the plan that  *)
(* was read and on there being a task (LoopInv).                           *)
LEMMA JobStepType ==
  ASSUME TypeOK, LoopInv, NEW j \in Jobs, JobStep(j)
  PROVE  TypeOK'
<1> USE ProjectLifecycleAssumption
<1> USE DEF projectVars, issueVars, localVars, jobVars, requestVars, JobFrame,
            Goto
<1> DEFINE PCs == Working \cup Unwinding \cup {"absent", "done"}
<1>0. ASSUME NEW q \in PCs, pc' = [pc EXCEPT ![j] = q]
      PROVE  pc' \in [Jobs -> PCs]
  BY <1>0 DEF TypeOK
<1>a. {"new", "planning", "approval", "read", "begin", "snapshot", "loop",
       "create", "record", "report", "failing", "exit", "done"} \subseteq PCs
  BY DEF Working, Unwinding
<1>b. TypeOK => pc \in [Jobs -> PCs]
  BY DEF TypeOK
<1>c. pc' \in [Jobs -> PCs] => pc' \in [Jobs -> Working \cup Unwinding
                                              \cup {"absent", "done"}]
  OBVIOUS
<1> HIDE DEF PCs
<1>1. CASE Begin(j)
  <2>1. pc' \in [Jobs -> PCs]  BY <1>1, <1>0, <1>a DEF Begin
  <2> QED BY <1>1, <2>1, <1>c DEF Begin, TypeOK
<1>2. ASSUME NEW p \in Plans, SavePlan(j, p) PROVE TypeOK'
  <2>1. pc' \in [Jobs -> PCs]  BY <1>2, <1>0, <1>a DEF SavePlan
  <2>2. stage' \in Stages /\ status' \in Statuses
    BY <1>2 DEF SavePlan, Stages, Statuses
  <2> QED BY <1>2, <2>1, <2>2, <1>c DEF SavePlan, TypeOK
<1>3. CASE AbortPlanning(j)
  <2>1. pc' \in [Jobs -> PCs]  BY <1>3, <1>0, <1>a DEF AbortPlanning
  <2> QED BY <1>3, <2>1, <1>c DEF AbortPlanning, TypeOK
<1>4. CASE RecordApproval(j)
  <2>1. pc' \in [Jobs -> PCs]  BY <1>4, <1>0, <1>a DEF RecordApproval
  <2>2. planApproved' \in BOOLEAN  BY <1>4 DEF RecordApproval, TypeOK
  <2>3. UNCHANGED <<stage, status, issuePlan, planMd, issueVars, localVars,
                    registry, kind, requestVars, decided, quiet, crashes>>
    BY <1>4 DEF RecordApproval
  <2> QED BY <2>1, <2>2, <2>3, <1>c DEF TypeOK
<1>5. CASE ReadPlan(j)
  <2>1. pc' \in [Jobs -> PCs]  BY <1>5, <1>0, <1>a DEF ReadPlan
  <2>2. jobPlan' \in [Jobs -> Plans \cup {NoPlan}]  BY <1>5 DEF ReadPlan, TypeOK
  <2> QED BY <1>5, <2>1, <2>2, <1>c DEF ReadPlan, TypeOK
<1>6. CASE BeginBuilding(j)
  <2>1. pc' \in [Jobs -> PCs]  BY <1>6, <1>0, <1>a DEF BeginBuilding
  <2>2. stage' \in Stages /\ status' \in Statuses
    BY <1>6 DEF BeginBuilding, Stages, Statuses
  <2> QED BY <1>6, <2>1, <2>2, <1>c DEF BeginBuilding, TypeOK
<1>7. CASE SnapshotIssues(j)
  <2>1. pc' \in [Jobs -> PCs]  BY <1>7, <1>0, <1>a DEF SnapshotIssues
  <2>2. jobPlan[j] \in Plans  BY <1>7 DEF SnapshotIssues, LoopInv, LoopOK
  <2>3. todo' \in [Jobs -> Seq(Keys)]  BY <1>7, <2>2 DEF SnapshotIssues, TypeOK
  <2>4. seen' \in [Jobs -> SUBSET Keys]  BY <1>7 DEF SnapshotIssues, TypeOK
  <2> QED BY <1>7, <2>1, <2>3, <2>4, <1>c DEF SnapshotIssues, TypeOK
<1>8. CASE SkipTask(j)
  <2>1. todo' \in [Jobs -> Seq(Keys)]  BY <1>8 DEF SkipTask, TypeOK
  <2>2. handled' \in [Jobs -> Nat]  BY <1>8 DEF SkipTask, TypeOK
  <2> QED BY <1>8, <2>1, <2>2 DEF SkipTask, TypeOK
<1>9. CASE TakeTask(j)
  <2>1. pc' \in [Jobs -> PCs]  BY <1>9, <1>0, <1>a DEF TakeTask
  <2>2. attempt' \in [Jobs -> 1..3]  BY <1>9 DEF TakeTask, TypeOK
  <2> QED BY <1>9, <2>1, <2>2, <1>c DEF TakeTask, TypeOK
<1>d. ASSUME pc[j] \in {"create", "record"}
      PROVE  /\ todo[j] # <<>> /\ Head(todo[j]) \in Keys
             /\ Tail(todo[j]) \in Seq(Keys)
  BY <1>d DEF TypeOK, LoopInv, LoopOK
<1>10. CASE CreateIssue(j)
  <2>1. pc' \in [Jobs -> PCs]  BY <1>10, <1>0, <1>a DEF CreateIssue
  <2>2. Head(todo[j]) \in Keys  BY <1>10, <1>d DEF CreateIssue
  <2>3. github' \in [Keys -> Nat]
    BY <1>10, <2>2 DEF CreateIssue, IssueExists, TypeOK
  <2> QED BY <1>10, <2>1, <2>3, <1>c DEF CreateIssue, TypeOK
<1>11. CASE CreateIssueFails(j)
  <2>1. Head(todo[j]) \in Keys /\ Tail(todo[j]) \in Seq(Keys)
    BY <1>11, <1>d DEF CreateIssueFails
  <2>2. github' \in [Keys -> Nat]
    <3>1. CASE IssueExists(Head(todo[j]))
      BY <2>1, <3>1 DEF IssueExists, TypeOK
    <3> QED BY <1>11, <3>1 DEF CreateIssueFails, TypeOK
  <2>3. /\ pc' \in [Jobs -> PCs]
        /\ attempt' \in [Jobs -> 1..3]
        /\ todo' \in [Jobs -> Seq(Keys)]
    <3>1. CASE attempt[j] < 3
      <4>1. attempt' = [attempt EXCEPT ![j] = @ + 1] /\ UNCHANGED <<pc, todo>>
        BY <1>11, <3>1 DEF CreateIssueFails
      <4>2. attempt[j] \in 1..3  BY DEF TypeOK
      <4>3. attempt[j] + 1 \in 1..3  BY <3>1, <4>2
      <4> QED BY <4>1, <4>3, <1>b DEF TypeOK
    <3>2. CASE ~(attempt[j] < 3)
      <4>1. /\ pc' = [pc EXCEPT ![j] = "loop"]
            /\ todo' = [todo EXCEPT ![j] = Tail(@)]
            /\ UNCHANGED attempt
        BY <1>11, <3>2 DEF CreateIssueFails
      <4>2. pc' \in [Jobs -> PCs]  BY <4>1, <1>0, <1>a
      <4> QED BY <4>1, <4>2, <2>1 DEF TypeOK
    <3> QED BY <3>1, <3>2
  <2>4. UNCHANGED <<projectVars, rows, jobPlan, seen, handled, registry, kind,
                    requestVars, decided, quiet, crashes>>
    BY <1>11 DEF CreateIssueFails
  <2> QED BY <2>2, <2>3, <2>4, <1>c DEF TypeOK
<1>12. CASE RecordIssue(j)
  <2>1. pc' \in [Jobs -> PCs]  BY <1>12, <1>0, <1>a DEF RecordIssue
  <2>2. Head(todo[j]) \in Keys /\ Tail(todo[j]) \in Seq(Keys)
    BY <1>12, <1>d DEF RecordIssue
  <2>3. todo' \in [Jobs -> Seq(Keys)]  BY <1>12, <2>2 DEF RecordIssue, TypeOK
  <2>4. /\ rows' \in [Keys -> Nat]
        /\ seen' \in [Jobs -> SUBSET Keys]
        /\ handled' \in [Jobs -> Nat]
    <3>1. CASE UNCHANGED <<rows, seen, handled>>
      BY <3>1 DEF TypeOK
    <3>2. CASE /\ rows' = [rows EXCEPT ![Head(todo[j])] = @ + 1]
               /\ seen' = [seen EXCEPT ![j] = @ \cup {Head(todo[j])}]
               /\ handled' = [handled EXCEPT ![j] = @ + 1]
      BY <3>2, <2>2 DEF TypeOK
    <3> QED BY <1>12, <3>1, <3>2 DEF RecordIssue
  <2>5. UNCHANGED <<projectVars, github, jobPlan, attempt, registry, kind,
                    requestVars, decided, quiet, crashes>>
    BY <1>12 DEF RecordIssue
  <2> QED BY <2>1, <2>3, <2>4, <2>5, <1>c DEF TypeOK
<1>13. CASE Report(j)
  <2>1. pc' \in [Jobs -> PCs]  BY <1>13, <1>0, <1>a DEF Report
  <2> QED BY <1>13, <2>1, <1>c DEF Report, TypeOK
<1>14. CASE Finish(j)
  <2>1. pc' \in [Jobs -> PCs]  BY <1>14, <1>0, <1>a DEF Finish
  <2> QED BY <1>14, <2>1, <1>c DEF Finish, TypeOK
<1>15. CASE JobError(j)
  <2>1. pc' \in [Jobs -> PCs]  BY <1>15, <1>0, <1>a DEF JobError
  <2> QED BY <1>15, <2>1, <1>c DEF JobError, TypeOK
<1>16. CASE WriteError(j)
  <2>1. pc' \in [Jobs -> PCs]  BY <1>16, <1>0, <1>a DEF WriteError
  <2>2. stage' \in Stages /\ status' \in Statuses
    BY <1>16 DEF WriteError, Stages, Statuses
  <2> QED BY <1>16, <2>1, <2>2, <1>c DEF WriteError, TypeOK
<1>17. CASE Exit(j)
  <2>1. pc' \in [Jobs -> PCs]  BY <1>17, <1>0, <1>a DEF Exit
  <2>2. registry' \in Jobs \cup {NoJob}  BY <1>17 DEF Exit, TypeOK
  <2>3. ForgetLocals({j})  BY <1>17 DEF Exit
  <2>4. UNCHANGED <<projectVars, issueVars, kind, requestVars, decided, quiet,
                    crashes>>
    BY <1>17 DEF Exit
  <2> QED BY <2>1, <2>2, <2>3, <2>4, <1>c, ForgetType DEF TypeOK
<1> QED BY <1>1, <1>2, <1>3, <1>4, <1>5, <1>6, <1>7, <1>8, <1>9, <1>10, <1>11,
           <1>12, <1>13, <1>14, <1>15, <1>16, <1>17 DEF JobStep

LEMMA NextType == TypeOK /\ LoopInv /\ [Next]_vars => TypeOK'
<1> SUFFICES ASSUME TypeOK, LoopInv, [Next]_vars PROVE TypeOK'
  OBVIOUS
<1>1. CASE Crash
  <2>1. /\ registry' \in Jobs \cup {NoJob}
        /\ pc' \in [Jobs -> Working \cup Unwinding \cup {"absent", "done"}]
        /\ quiet' \in BOOLEAN /\ crashes' \in Nat
    BY <1>1 DEF Crash, TypeOK
  <2>2. /\ approving' \in [Approvers -> Stages \cup
                {"idle", "resuming", "already_running", "already_applied"}]
        /\ stopping' \in [Stoppers -> {"idle", "cancelled", "answered"}]
        /\ deleting' \in [Deleters -> {"idle", "staged", "answered"}]
    BY <1>1 DEF Crash, TypeOK
  <2>3. ForgetLocals(Jobs)  BY <1>1 DEF Crash
  <2>4. UNCHANGED <<projectVars, issueVars, kind, decided>>  BY <1>1 DEF Crash
  <2> QED BY <2>1, <2>2, <2>3, <2>4, ForgetType
          DEF TypeOK, projectVars, issueVars
<1>2. CASE UNCHANGED vars
  BY <1>2 DEF TypeOK, vars, projectVars, issueVars, localVars, jobVars,
              requestVars
<1> QED BY <1>1, <1>2, RequestType, JobStepType DEF Next

-----------------------------------------------------------------------------
(* The shape of a job's step *)

(* What a step of job j may touch: j itself, and the registry only when j  *)
(* unwinds.                                                                *)
Moves(j) ==
    /\ \A i \in Jobs \ {j} :
         /\ pc'[i] = pc[i] /\ jobPlan'[i] = jobPlan[i] /\ todo'[i] = todo[i]
         /\ seen'[i] = seen[i] /\ handled'[i] = handled[i]
    /\ UNCHANGED <<kind, decided, quiet>>

LEMMA ExitMoves ==
  ASSUME TypeOK, NEW j \in Jobs, Exit(j)
  PROVE  Moves(j) /\ pc[j] \in Unwinding /\ pc'[j] = "done"
  BY DEF TypeOK, Moves, Exit, ForgetLocals

LEMMA WorkMoves ==
  ASSUME TypeOK, NEW j \in Jobs, JobStep(j), ~Exit(j)
  PROVE  Moves(j) /\ pc[j] \in Working /\ registry' = registry
<1> USE DEF TypeOK, Moves, Working, JobFrame, Goto, localVars
<1> DEFINE G == Moves(j) /\ pc[j] \in Working /\ registry' = registry
<1>1. ASSUME Begin(j) PROVE G  BY <1>1 DEF Begin
<1>2. ASSUME NEW p \in Plans, SavePlan(j, p) PROVE G
  BY <1>2 DEF SavePlan
<1>3. ASSUME AbortPlanning(j) PROVE G  BY <1>3 DEF AbortPlanning
<1>4. ASSUME RecordApproval(j) PROVE G  BY <1>4 DEF RecordApproval
<1>5. ASSUME ReadPlan(j) PROVE G  BY <1>5 DEF ReadPlan
<1>6. ASSUME BeginBuilding(j) PROVE G  BY <1>6 DEF BeginBuilding
<1>7. ASSUME SnapshotIssues(j) PROVE G  BY <1>7 DEF SnapshotIssues
<1>8. ASSUME SkipTask(j) PROVE G  BY <1>8 DEF SkipTask
<1>9. ASSUME TakeTask(j) PROVE G  BY <1>9 DEF TakeTask
<1>10. ASSUME CreateIssue(j) PROVE G  BY <1>10 DEF CreateIssue
<1>11. ASSUME CreateIssueFails(j) PROVE G  BY <1>11 DEF CreateIssueFails
<1>12. ASSUME RecordIssue(j) PROVE G  BY <1>12 DEF RecordIssue
<1>13. ASSUME Report(j) PROVE G  BY <1>13 DEF Report
<1>14. ASSUME Finish(j) PROVE G  BY <1>14 DEF Finish
<1>15. ASSUME JobError(j) PROVE G  BY <1>15 DEF JobError
<1>16. ASSUME WriteError(j) PROVE G  BY <1>16 DEF WriteError
<1> HIDE DEF G
<1>17. G
  BY <1>1, <1>2, <1>3, <1>4, <1>5, <1>6, <1>7, <1>8, <1>9, <1>10,
     <1>11, <1>12, <1>13, <1>14, <1>15, <1>16 DEF JobStep
<1> QED BY <1>17 DEF G

-----------------------------------------------------------------------------
(* The kinds of steps *)

Launch ==
    \E j \in Jobs, k \in {"plan", "apply"} :
        RunTracked(j, k) /\ UNCHANGED <<projectVars, issueVars, localVars>>

Aside == UNCHANGED <<issuePlan, issueVars, jobVars, decided, quiet>>

Cancel ==
    /\ pc' = AfterCancel /\ quiet' = TRUE
    /\ UNCHANGED <<issuePlan, issueVars, registry, kind, localVars, decided>>

LEMMA NextKinds ==
  [Next]_vars => Launch \/ Aside \/ Cancel \/ Crash \/ \E j \in Jobs : JobStep(j)
<1> SUFFICES ASSUME [Next]_vars
             PROVE Launch \/ Aside \/ Cancel \/ Crash \/ \E j \in Jobs : JobStep(j)
  OBVIOUS
<1>1. ASSUME NEW j \in Jobs, Start(j) PROVE Launch
  BY <1>1 DEF Start, Launch
<1>2. ASSUME NEW a \in Approvers, ApproveRead(a) PROVE Aside
  BY <1>2 DEF ApproveRead, Aside, projectVars
<1>3. ASSUME NEW a \in Approvers, ApproveRefuse(a) PROVE Aside
  BY <1>3 DEF ApproveRefuse, Aside, projectVars
<1>4. ASSUME NEW a \in Approvers, NEW j \in Jobs, ApproveAccept(a, j)
      PROVE Launch
  BY <1>4 DEF ApproveAccept, Launch
<1>5. ASSUME NEW s \in Stoppers, StopCancel(s) PROVE Cancel
  BY <1>5 DEF StopCancel, Cancel, projectVars
<1>6. ASSUME NEW s \in Stoppers, StopWrite(s) PROVE Aside
  BY <1>6 DEF StopWrite, Aside
<1>7. ASSUME NEW d \in Deleters, DeleteStage(d) \/ DeleteStatus(d) PROVE Aside
  BY <1>7 DEF DeleteStage, DeleteStatus, Aside
<1>8. ASSUME NEW p \in Edits, EditPlan(p) PROVE Aside
  BY <1>8 DEF EditPlan, Aside
<1>9. CASE UNCHANGED vars
  BY <1>9 DEF vars, Aside, projectVars
<1> QED BY <1>1, <1>2, <1>3, <1>4, <1>5, <1>6, <1>7, <1>8, <1>9
        DEF Next, Request

-----------------------------------------------------------------------------
(* One job at a time *)

(* What is cancelled unwinds; nothing else moves.                          *)
LEMMA CancelShape ==
  ASSUME TypeOK, NEW i \in Jobs
  PROVE  \/ AfterCancel[i] = pc[i]
         \/ AfterCancel[i] \in Unwinding
  BY DEF TypeOK, AfterCancel, Cancelled, Working, Unwinding

LEMMA CancelStops ==
  ASSUME TypeOK, RegistryInv, NEW i \in Jobs
  PROVE  AfterCancel[i] \notin Working
<1>1. CASE IsRunning
  <2>1. AfterCancel = Cancelled(registry)  BY <1>1 DEF AfterCancel
  <2>2. CASE i = registry
    BY <2>1, <2>2 DEF Cancelled, TypeOK, Working
  <2>3. CASE i # registry
    BY <2>1, <2>3 DEF Cancelled, TypeOK, RegistryInv
  <2> QED BY <2>2, <2>3
<1>2. CASE ~IsRunning
  <2>1. AfterCancel = pc  BY <1>2 DEF AfterCancel
  <2>2. i = registry => pc[i] = "done"  BY <1>2, ProjectLifecycleAssumption DEF IsRunning
  <2> QED BY <2>1, <2>2 DEF RegistryInv, Working
<1> QED BY <1>1, <1>2

LEMMA LaunchShape ==
  ASSUME TypeOK, RegistryInv, NEW j \in Jobs, NEW k, RunTracked(j, k)
  PROVE  /\ pc[j] = "absent" /\ pc'[j] = "new" /\ registry' = j
         /\ decided'[j] = issuePlan /\ quiet' = FALSE
         /\ \A i \in Jobs \ {j} : /\ pc'[i] = AfterCancel[i]
                                   /\ pc'[i] \notin Working
                                   /\ decided'[i] = decided[i]
<1>1. AfterCancel \in [Jobs -> Working \cup Unwinding \cup {"absent", "done"}]
  BY CancelType
<1>2. pc' = [AfterCancel EXCEPT ![j] = "new"]  BY DEF RunTracked
<1>3. \A i \in Jobs \ {j} : pc'[i] = AfterCancel[i] /\ pc'[i] \notin Working
  BY <1>1, <1>2, CancelStops
<1>4. pc'[j] = "new"  BY <1>1, <1>2
<1> QED BY <1>3, <1>4 DEF RunTracked, TypeOK

LEMMA NextRegistry ==
  TypeOK /\ RegistryInv /\ StopStops /\ [Next]_vars => RegistryInv' /\ StopStops'
<1> SUFFICES ASSUME TypeOK, RegistryInv, StopStops, [Next]_vars
             PROVE  RegistryInv' /\ StopStops'
  OBVIOUS
<1>1. CASE Launch
  <2> PICK j \in Jobs, k \in {"plan", "apply"} : RunTracked(j, k)
    BY <1>1 DEF Launch
  <2> QED BY LaunchShape DEF RegistryInv, StopStops
<1>2. CASE Aside
  BY <1>2 DEF Aside, jobVars, RegistryInv, StopStops
<1>3. CASE Cancel
  BY <1>3, CancelStops DEF Cancel, RegistryInv, StopStops
<1>4. CASE Crash
  <2>1. \A i \in Jobs : pc'[i] \notin Working  BY <1>4 DEF Crash, Working
  <2> QED BY <2>1 DEF RegistryInv, StopStops
<1>5. ASSUME NEW j \in Jobs, JobStep(j) PROVE RegistryInv' /\ StopStops'
  <2>1. CASE Exit(j)
    <3>1. /\ pc[j] \in Unwinding /\ pc'[j] = "done"
          /\ \A i \in Jobs \ {j} : pc'[i] = pc[i]
          /\ quiet' = quiet
      BY <2>1, ExitMoves DEF Moves
    <3>2. registry # j => registry' = registry  BY <2>1 DEF Exit
    <3>3. "done" \notin Working  BY DEF Working
    <3> QED BY <3>1, <3>2, <3>3 DEF RegistryInv, StopStops
  <2>2. CASE ~Exit(j)
    <3>1. Moves(j) /\ pc[j] \in Working /\ registry' = registry
      BY <1>5, <2>2, WorkMoves
    <3>2. \A i \in Jobs : pc'[i] \in Working => pc[i] \in Working
      BY <3>1 DEF Moves
    <3> QED BY <3>1, <3>2 DEF RegistryInv, StopStops, Moves
  <2> QED BY <2>1, <2>2
<1> QED BY <1>1, <1>2, <1>3, <1>4, <1>5, NextKinds

-----------------------------------------------------------------------------
(* The approved plan is held *)

(* How a working step of j treats the stored plan and the plan j read.     *)
PlanMoves(j) ==
    /\ issuePlan' = issuePlan \/ pc'[j] = "exit"
    /\ pc'[j] \notin {"absent", "new"}
    /\ pc'[j] = "approval" => pc[j] = "new" /\ kind[j] = "apply"
    /\ pc'[j] = "read" => pc[j] = "approval"
    /\ \/ jobPlan'[j] = jobPlan[j]
       \/ pc[j] = "read" /\ jobPlan'[j] = issuePlan

LEMMA WorkPlanMoves ==
  ASSUME TypeOK, NEW j \in Jobs, JobStep(j), ~Exit(j)
  PROVE  PlanMoves(j)
<1> USE DEF TypeOK, JobFrame, Goto, projectVars, localVars
<1> DEFINE G == PlanMoves(j)
<1>1. ASSUME Begin(j) PROVE G  BY <1>1 DEF Begin, PlanMoves
<1>2. ASSUME NEW p \in Plans, SavePlan(j, p) PROVE G
  BY <1>2 DEF SavePlan, PlanMoves
<1>3. ASSUME AbortPlanning(j) PROVE G  BY <1>3 DEF AbortPlanning, PlanMoves
<1>4. ASSUME RecordApproval(j) PROVE G  BY <1>4 DEF RecordApproval, PlanMoves
<1>5. ASSUME ReadPlan(j) PROVE G  BY <1>5 DEF ReadPlan, PlanMoves
<1>6. ASSUME BeginBuilding(j) PROVE G  BY <1>6 DEF BeginBuilding, PlanMoves
<1>7. ASSUME SnapshotIssues(j) PROVE G  BY <1>7 DEF SnapshotIssues, PlanMoves
<1>8. ASSUME SkipTask(j) PROVE G  BY <1>8 DEF SkipTask, PlanMoves
<1>9. ASSUME TakeTask(j) PROVE G  BY <1>9 DEF TakeTask, PlanMoves
<1>10. ASSUME CreateIssue(j) PROVE G  BY <1>10 DEF CreateIssue, PlanMoves
<1>11. ASSUME CreateIssueFails(j) PROVE G  BY <1>11 DEF CreateIssueFails, PlanMoves
<1>12. ASSUME RecordIssue(j) PROVE G  BY <1>12 DEF RecordIssue, PlanMoves
<1>13. ASSUME Report(j) PROVE G  BY <1>13 DEF Report, PlanMoves
<1>14. ASSUME Finish(j) PROVE G  BY <1>14 DEF Finish, PlanMoves
<1>15. ASSUME JobError(j) PROVE G  BY <1>15 DEF JobError, PlanMoves
<1>16. ASSUME WriteError(j) PROVE G  BY <1>16 DEF WriteError, PlanMoves
<1> HIDE DEF G
<1>17. G
  BY <1>1, <1>2, <1>3, <1>4, <1>5, <1>6, <1>7, <1>8, <1>9, <1>10,
     <1>11, <1>12, <1>13, <1>14, <1>15, <1>16 DEF JobStep
<1> QED BY <1>17 DEF G

LEMMA NextHeld ==
  TypeOK /\ RegistryInv /\ HeldInv /\ ApprovedPlanHeld /\ [Next]_vars
    => HeldInv' /\ ApprovedPlanHeld'
<1> SUFFICES ASSUME TypeOK, RegistryInv, HeldInv, ApprovedPlanHeld, [Next]_vars
             PROVE  HeldInv' /\ ApprovedPlanHeld'
  OBVIOUS
<1>1. CASE Launch
  <2> PICK j \in Jobs, k \in {"plan", "apply"} :
         RunTracked(j, k) /\ UNCHANGED <<projectVars, issueVars, localVars>>
    BY <1>1 DEF Launch
  <2>1. issuePlan' = issuePlan /\ jobPlan' = jobPlan  BY DEF projectVars, localVars
  <2>2. /\ pc[j] = "absent" /\ pc'[j] = "new" /\ decided'[j] = issuePlan
        /\ \A i \in Jobs \ {j} : /\ pc'[i] = AfterCancel[i]
                                  /\ pc'[i] \notin Working
                                  /\ decided'[i] = decided[i]
    BY LaunchShape
  <2>3. \A i \in Jobs \ {j} : pc'[i] = "absent" => pc[i] = "absent"
    BY <2>2, CancelShape DEF Unwinding
  <2>4. jobPlan[j] = NoPlan  BY <2>2 DEF HeldInv
  <2>5. HeldInv'
    BY <2>1, <2>2, <2>3, <2>4 DEF HeldInv, Working
  <2>6. ApprovedPlanHeld'
    BY <2>1, <2>2, <2>4 DEF ApprovedPlanHeld
  <2> QED BY <2>5, <2>6
<1>2. CASE Aside
  BY <1>2 DEF Aside, jobVars, localVars, HeldInv, ApprovedPlanHeld
<1>3. CASE Cancel
  <2>1. \A i \in Jobs : /\ pc'[i] \notin Working
                        /\ pc'[i] = "absent" => pc[i] = "absent"
    BY <1>3, CancelStops, CancelShape DEF Cancel, Unwinding
  <2>2. UNCHANGED <<jobPlan, decided>>  BY <1>3 DEF Cancel, localVars
  <2> QED BY <2>1, <2>2 DEF HeldInv, ApprovedPlanHeld, Working
<1>4. CASE Crash
  <2>1. \A i \in Jobs : pc'[i] \in {"absent", "done"}  BY <1>4 DEF Crash
  <2>2. \A i \in Jobs : jobPlan'[i] = NoPlan  BY <1>4 DEF Crash, ForgetLocals
  <2> QED BY <2>1, <2>2 DEF HeldInv, ApprovedPlanHeld
<1>5. ASSUME NEW j \in Jobs, Exit(j) PROVE HeldInv' /\ ApprovedPlanHeld'
  <2>1. Moves(j) /\ pc'[j] = "done"  BY <1>5, ExitMoves
  <2>2. jobPlan'[j] = NoPlan /\ issuePlan' = issuePlan
    BY <1>5 DEF Exit, ForgetLocals, projectVars
  <2> QED BY <2>1, <2>2 DEF Moves, HeldInv, ApprovedPlanHeld
<1>6. ASSUME NEW j \in Jobs, JobStep(j), ~Exit(j)
      PROVE  HeldInv' /\ ApprovedPlanHeld'
  <2>1. Moves(j) /\ pc[j] \in Working  BY <1>6, WorkMoves
  <2>2. PlanMoves(j)  BY <1>6, WorkPlanMoves
  <2>3. \A i \in Jobs \ {j} : pc[i] \notin Working
    BY <2>1 DEF RegistryInv
  <2>4. HeldInv'
    BY <2>1, <2>2, <2>3 DEF Moves, PlanMoves, HeldInv, Working
  <2>5. ApprovedPlanHeld'
    BY <2>1, <2>2, <2>3 DEF Moves, PlanMoves, HeldInv, ApprovedPlanHeld
  <2> QED BY <2>4, <2>5
<1> QED BY <1>1, <1>2, <1>3, <1>4, <1>5, <1>6, NextKinds

-----------------------------------------------------------------------------
(* The loop over the tasks *)

(* Taking the first task off a suffix t of T leaves a suffix of T.         *)
LEMMA Shift ==
  ASSUME NEW T \in Seq(Keys), NEW t \in Seq(Keys), t # <<>>,
         Len(T) - Len(t) \in Nat,
         \A i \in 1..Len(t) : t[i] = T[Len(T) - Len(t) + i]
  PROVE  /\ Len(T) - Len(Tail(t)) = Len(T) - Len(t) + 1
         /\ Head(t) = T[Len(T) - Len(t) + 1]
         /\ \A i \in 1..Len(Tail(t)) :
               Tail(t)[i] = T[Len(T) - Len(Tail(t)) + i]
<1>1. Len(Tail(t)) = Len(t) - 1 /\ Len(t) \in Nat /\ Len(t) >= 1 /\ Len(T) \in Nat
  OBVIOUS
<1>2. Head(t) = t[1]  OBVIOUS
<1>3. ASSUME NEW i \in 1..Len(Tail(t))
      PROVE  Tail(t)[i] = T[Len(T) - Len(Tail(t)) + i]
  <2>1. Tail(t)[i] = t[i + 1] /\ i + 1 \in 1..Len(t)  BY <1>1
  <2>2. Len(T) - Len(t) + (i + 1) = Len(T) - Len(Tail(t)) + i  BY <1>1
  <2> QED BY <2>1, <2>2
<1> QED BY <1>1, <1>2, <1>3

(* A step that takes the first task off, counting it only if it has a row. *)
LEMMA PassTask ==
  ASSUME TypeOK, NEW j \in Jobs, Counted(j), jobPlan[j] \in Plans,
         todo[j] # <<>>, todo'[j] = Tail(todo[j]), jobPlan'[j] = jobPlan[j],
         \A k \in Keys : rows[k] > 0 => rows'[k] > 0,
         \/ handled'[j] = handled[j]
         \/ handled'[j] = handled[j] + 1 /\ rows'[Head(todo[j])] > 0
  PROVE  Counted(j)'
<1> DEFINE T == Tasks[jobPlan[j]]
           t == todo[j]
           n == Len(T) - Len(t)
<1>1. T \in Seq(Keys) /\ t \in Seq(Keys) /\ handled[j] \in Nat
  BY ProjectLifecycleAssumption DEF TypeOK
<1>2. /\ n \in Nat /\ handled[j] <= n
      /\ \A i \in 1..Len(t) : t[i] = T[n + i]
      /\ handled[j] = n => \A i \in 1..n : rows[T[i]] > 0
  BY DEF Counted, Passed
<1>3. /\ Len(T) - Len(Tail(t)) = n + 1
      /\ Head(t) = T[n + 1]
      /\ \A i \in 1..Len(Tail(t)) : Tail(t)[i] = T[n + 1 + i]
  BY <1>1, <1>2, Shift
<1>4. Passed(j)' = n + 1  BY <1>3 DEF Passed
<1>5. n <= Len(T)
  <2>1. Len(T) \in Nat /\ Len(t) \in Nat  BY <1>1
  <2>2. \A a, b \in Nat : a - b <= a  OBVIOUS
  <2> HIDE DEF T, t
  <2> QED BY <2>1, <2>2
<1>6. \A i \in 1..Len(todo'[j]) : todo'[j][i] = T[n + 1 + i]  BY <1>3
<1>7. \/ handled'[j] = handled[j]
      \/ handled'[j] = handled[j] + 1 /\ rows'[Head(t)] > 0
  OBVIOUS
<1>8. jobPlan'[j] = jobPlan[j] /\ n + 1 \in Nat  BY <1>2
<1> HIDE DEF n
<1>9. handled'[j] <= n + 1  BY <1>1, <1>2, <1>7
<1>10. ASSUME handled'[j] = n + 1, NEW i \in 1..(n + 1)
       PROVE  rows'[T[i]] > 0
  <2>1. handled[j] = n /\ rows'[Head(t)] > 0  BY <1>1, <1>2, <1>7, <1>10
  <2>2. CASE i = n + 1  BY <2>1, <2>2, <1>3
  <2>3. CASE i # n + 1
    <3>1. i \in 1..n  BY <2>3, <1>2
    <3>2. rows[T[i]] > 0 /\ T[i] \in Keys
      BY <3>1, <2>1, <1>1, <1>2, <1>5
    <3> QED BY <3>2
  <2> QED BY <2>2, <2>3
<1> QED BY <1>4, <1>6, <1>8, <1>9, <1>10 DEF Counted

(* What a working step of j does to its own loop.  Before the loop nothing *)
(* is counted; in it, the actions that move on a task are PassTask's.      *)
LEMMA WorkLoop ==
  ASSUME TypeOK, LoopInv, CountInv, RowPerTask,
         NEW j \in Jobs, JobStep(j), ~Exit(j)
  PROVE  LoopOK(j)' /\ CountOK(j)' /\ RowPerTask'
<1> USE DEF JobFrame, Goto, projectVars, issueVars, localVars, Looping
<1> DEFINE G == LoopOK(j)' /\ CountOK(j)' /\ RowPerTask'
<1>0. /\ LoopOK(j) /\ CountOK(j)
      /\ pc \in [Jobs -> Working \cup Unwinding \cup {"absent", "done"}]
      /\ jobPlan \in [Jobs -> Plans \cup {NoPlan}]
      /\ todo \in [Jobs -> Seq(Keys)] /\ seen \in [Jobs -> SUBSET Keys]
      /\ handled \in [Jobs -> Nat] /\ rows \in [Keys -> Nat]
  BY DEF LoopInv, CountInv, TypeOK
(* The steps outside the loop. *)
<1>1. ASSUME /\ pc'[j] \notin {"absent", "snapshot"} \cup Looping
             /\ pc'[j] \in Working => handled[j] = 0 \/ pc'[j] = "failing"
             /\ handled'[j] = handled[j] /\ rows' = rows
      PROVE  G
  BY <1>0, <1>1 DEF LoopOK, CountOK, RowPerTask, Working
<1>2. ASSUME Begin(j) PROVE G
  BY <1>0, <1>1, <1>2 DEF Begin, CountOK
<1>3. ASSUME NEW p \in Plans, SavePlan(j, p) PROVE G
  BY <1>0, <1>1, <1>3 DEF SavePlan, Working
<1>4. ASSUME AbortPlanning(j) PROVE G
  BY <1>0, <1>1, <1>4 DEF AbortPlanning, Working
<1>5. ASSUME RecordApproval(j) PROVE G
  BY <1>0, <1>1, <1>5 DEF RecordApproval, CountOK, Working
<1>6. ASSUME ReadPlan(j) PROVE G
  BY <1>0, <1>1, <1>6 DEF ReadPlan, CountOK
<1>7. ASSUME Finish(j) PROVE G
  BY <1>0, <1>1, <1>7 DEF Finish, Working
<1>8. ASSUME JobError(j) PROVE G
  BY <1>0, <1>1, <1>8 DEF JobError
<1>9. ASSUME WriteError(j) PROVE G
  BY <1>0, <1>1, <1>9 DEF WriteError, Working
<1>10. ASSUME BeginBuilding(j) PROVE G
  <2>1. jobPlan[j] \in Plans  BY <1>0, <1>10 DEF BeginBuilding, HasTasks
  <2>2. /\ pc[j] = "begin" /\ pc'[j] = "snapshot"
        /\ UNCHANGED <<rows, jobPlan, handled>>
    BY <1>0, <1>10 DEF BeginBuilding
  <2> QED BY <1>0, <2>1, <2>2 DEF LoopOK, CountOK, RowPerTask
(* The steps of the loop. *)
<1>11. ASSUME SnapshotIssues(j) PROVE G
  <2>1. /\ pc[j] = "snapshot" /\ pc'[j] = "loop"
        /\ seen'[j] = {k \in Keys : rows[k] > 0}
        /\ todo'[j] = Tasks[jobPlan[j]]
        /\ UNCHANGED <<rows, jobPlan, handled>>
    BY <1>0, <1>11 DEF SnapshotIssues
  <2>2. jobPlan[j] \in Plans /\ handled[j] = 0
    BY <1>0, <2>1 DEF LoopOK, CountOK
  <2>3. Tasks[jobPlan[j]] \in Seq(Keys)
    BY <2>2, ProjectLifecycleAssumption
  <2>4. Len(Tasks[jobPlan[j]]) \in Nat  BY <2>3
  <2>5. Passed(j)' = 0  BY <2>1, <2>4 DEF Passed
  <2>6. Counted(j)'  BY <2>1, <2>2, <2>5 DEF Counted
  <2> QED BY <1>0, <2>1, <2>2, <2>6 DEF LoopOK, CountOK, RowPerTask
<1>12. ASSUME SkipTask(j) PROVE G
  <2>1. /\ pc[j] = "loop" /\ pc'[j] = "loop"
        /\ todo[j] # <<>> /\ Head(todo[j]) \in seen[j]
        /\ todo'[j] = Tail(todo[j])
        /\ handled'[j] = handled[j] + 1
        /\ UNCHANGED <<rows, jobPlan, seen>>
    BY <1>0, <1>12 DEF SkipTask
  <2>2. jobPlan[j] \in Plans /\ seen[j] = {k \in Keys : rows[k] > 0} /\ Counted(j)
    BY <1>0, <2>1 DEF LoopOK, CountOK
  <2>3. Counted(j)'  BY <2>1, <2>2, PassTask
  <2> QED BY <1>0, <2>1, <2>2, <2>3 DEF LoopOK, CountOK, RowPerTask
<1>13. ASSUME TakeTask(j) PROVE G
  <2>1. /\ pc[j] = "loop" /\ pc'[j] = "create"
        /\ todo[j] # <<>> /\ Head(todo[j]) \notin seen[j]
        /\ UNCHANGED <<rows, jobPlan, todo, seen, handled>>
    BY <1>0, <1>13 DEF TakeTask
  <2> QED BY <1>0, <2>1 DEF LoopOK, CountOK, Counted, Passed, RowPerTask
<1>14. ASSUME CreateIssue(j) PROVE G
  <2>1. /\ pc[j] = "create" /\ pc'[j] = "record"
        /\ UNCHANGED <<rows, jobPlan, todo, seen, handled>>
    BY <1>0, <1>14 DEF CreateIssue
  <2> QED BY <1>0, <2>1 DEF LoopOK, CountOK, Counted, Passed, RowPerTask
<1>15. ASSUME CreateIssueFails(j) PROVE G
  <2>1. /\ pc[j] = "create"
        /\ UNCHANGED <<rows, jobPlan, seen, handled>>
    BY <1>15 DEF CreateIssueFails
  <2>2. CASE UNCHANGED <<pc, todo>>
    BY <1>0, <2>1, <2>2 DEF LoopOK, CountOK, Counted, Passed, RowPerTask
  <2>3. CASE pc' = [pc EXCEPT ![j] = "loop"] /\ todo' = [todo EXCEPT ![j] = Tail(@)]
    <3>1. pc'[j] = "loop" /\ todo'[j] = Tail(todo[j])  BY <1>0, <2>3
    <3>2. jobPlan[j] \in Plans /\ todo[j] # <<>> /\ Counted(j)
      BY <1>0, <2>1 DEF LoopOK, CountOK
    <3>3. Counted(j)'  BY <2>1, <3>1, <3>2, PassTask
    <3> QED BY <1>0, <2>1, <3>1, <3>3 DEF LoopOK, CountOK, RowPerTask
  <2> QED BY <1>15, <2>2, <2>3 DEF CreateIssueFails
<1>16. ASSUME RecordIssue(j) PROVE G
  <2>1. /\ pc[j] = "record" /\ pc'[j] = "loop"
        /\ todo'[j] = Tail(todo[j]) /\ jobPlan' = jobPlan
    BY <1>0, <1>16 DEF RecordIssue
  <2>2. /\ jobPlan[j] \in Plans /\ todo[j] # <<>> /\ Counted(j)
        /\ seen[j] = {k \in Keys : rows[k] > 0}
        /\ Head(todo[j]) \notin seen[j]
    BY <1>0, <2>1 DEF LoopOK, CountOK
  <2>3. CASE UNCHANGED <<rows, seen, handled>>
    <3>1. Counted(j)'  BY <2>1, <2>2, <2>3, PassTask
    <3> QED BY <1>0, <2>1, <2>2, <2>3, <3>1 DEF LoopOK, CountOK, RowPerTask
  <2>4. CASE /\ rows' = [rows EXCEPT ![Head(todo[j])] = @ + 1]
             /\ seen' = [seen EXCEPT ![j] = @ \cup {Head(todo[j])}]
             /\ handled' = [handled EXCEPT ![j] = @ + 1]
    <3>0. Head(todo[j]) \in Keys  BY <1>0, <2>2
    <3>1. rows[Head(todo[j])] = 0  BY <1>0, <2>2, <3>0
    <3>2. \A k \in Keys : rows'[k] = IF k = Head(todo[j]) THEN 1 ELSE rows[k]
      BY <1>0, <2>4, <3>1
    <3>3. handled'[j] = handled[j] + 1  BY <1>0, <2>4
    <3>4. Counted(j)'  BY <2>1, <2>2, <3>0, <3>2, <3>3, PassTask
    <3>5. seen'[j] = {k \in Keys : rows'[k] > 0}
      BY <1>0, <2>2, <2>4, <3>0, <3>2
    <3>6. RowPerTask'  BY <3>2 DEF RowPerTask
    <3> QED BY <1>0, <2>1, <2>2, <3>4, <3>5, <3>6 DEF LoopOK, CountOK
  <2> QED BY <1>16, <2>3, <2>4 DEF RecordIssue
<1>17. ASSUME Report(j) PROVE G
  <2>1. /\ pc[j] = "loop" /\ pc'[j] = "report" /\ todo[j] = <<>>
        /\ UNCHANGED <<rows, jobPlan, todo, seen, handled>>
    BY <1>0, <1>17 DEF Report
  <2> QED BY <1>0, <2>1 DEF LoopOK, CountOK, Counted, Passed, RowPerTask
<1> HIDE DEF G
<1>18. G
  BY <1>2, <1>3, <1>4, <1>5, <1>6, <1>7, <1>8, <1>9, <1>10, <1>11, <1>12,
     <1>13, <1>14, <1>15, <1>16, <1>17 DEF JobStep
<1> QED BY <1>18 DEF G

LEMMA NextLoop ==
  /\ TypeOK /\ RegistryInv /\ LoopInv /\ CountInv /\ RowPerTask
  /\ [Next]_vars
  => LoopInv' /\ CountInv' /\ RowPerTask'
<1> SUFFICES ASSUME TypeOK, RegistryInv, LoopInv, CountInv, RowPerTask,
                    [Next]_vars
             PROVE  LoopInv' /\ CountInv' /\ RowPerTask'
  OBVIOUS
(* A job that cannot write satisfies both, whatever the rows.              *)
<1>0. ASSUME NEW i \in Jobs, pc'[i] \notin Working, handled'[i] = handled[i],
             pc'[i] = "absent" => pc[i] = "absent"
      PROVE  LoopOK(i)' /\ CountOK(i)'
  BY <1>0 DEF LoopOK, CountOK, CountInv, Looping, Working
<1>1. CASE Launch
  <2> PICK j \in Jobs, k \in {"plan", "apply"} :
         RunTracked(j, k) /\ UNCHANGED <<projectVars, issueVars, localVars>>
    BY <1>1 DEF Launch
  <2>1. rows' = rows /\ handled' = handled  BY DEF issueVars, localVars
  <2>2. pc[j] = "absent" /\ pc'[j] = "new"  BY LaunchShape
  <2>3. LoopOK(j)' /\ CountOK(j)'
    BY <2>1, <2>2 DEF LoopOK, CountOK, CountInv, Looping
  <2>4. ASSUME NEW i \in Jobs \ {j} PROVE LoopOK(i)' /\ CountOK(i)'
    <3>1. pc'[i] = AfterCancel[i] /\ pc'[i] \notin Working  BY LaunchShape
    <3>2. pc'[i] = "absent" => pc[i] = "absent"
      BY <3>1, CancelShape DEF Unwinding
    <3>3. handled'[i] = handled[i]  BY <2>1
    <3> QED BY <1>0, <3>1, <3>2, <3>3
  <2> QED BY <2>1, <2>3, <2>4 DEF LoopInv, CountInv, RowPerTask
<1>2. CASE Aside
  BY <1>2 DEF Aside, jobVars, localVars, issueVars, LoopInv, LoopOK, CountInv,
              CountOK, Counted, Passed, RowPerTask
<1>3. CASE Cancel
  <2>1. \A i \in Jobs : /\ pc'[i] \notin Working
                        /\ pc'[i] = "absent" => pc[i] = "absent"
    BY <1>3, CancelStops, CancelShape DEF Cancel, Unwinding
  <2>2. rows' = rows /\ handled' = handled
    BY <1>3 DEF Cancel, issueVars, localVars
  <2>3. \A i \in Jobs : LoopOK(i)' /\ CountOK(i)'  BY <1>0, <2>1, <2>2
  <2> QED BY <2>2, <2>3 DEF LoopInv, CountInv, RowPerTask
<1>4. CASE Crash
  <2>1. /\ \A i \in Jobs : pc'[i] \in {"absent", "done"} /\ handled'[i] = 0
        /\ rows' = rows
    BY <1>4 DEF Crash, ForgetLocals, issueVars
  <2>2. \A i \in Jobs : LoopOK(i)' /\ CountOK(i)'
    BY <2>1 DEF LoopOK, CountOK, Looping
  <2> QED BY <2>1, <2>2 DEF LoopInv, CountInv, RowPerTask
<1>5. ASSUME NEW j \in Jobs, Exit(j)
      PROVE  LoopInv' /\ CountInv' /\ RowPerTask'
  <2>1. Moves(j) /\ pc'[j] = "done" /\ rows' = rows
    BY <1>5, ExitMoves DEF Exit, issueVars
  <2>2. LoopOK(j)' /\ CountOK(j)'  BY <2>1 DEF LoopOK, CountOK, Looping
  <2>3. ASSUME NEW i \in Jobs \ {j} PROVE LoopOK(i)' /\ CountOK(i)'
    <3>1. /\ pc'[i] = pc[i] /\ jobPlan'[i] = jobPlan[i] /\ todo'[i] = todo[i]
          /\ seen'[i] = seen[i] /\ handled'[i] = handled[i] /\ rows' = rows
      BY <2>1 DEF Moves
    <3>2. LoopOK(i) /\ CountOK(i)  BY DEF LoopInv, CountInv
    <3>3. LoopOK(i)'  BY <3>1, <3>2 DEF LoopOK
    <3>4. CountOK(i)'  BY <3>1, <3>2 DEF CountOK, Counted, Passed
    <3> QED BY <3>3, <3>4
  <2> QED BY <2>1, <2>2, <2>3 DEF LoopInv, CountInv, RowPerTask
<1>6. ASSUME NEW j \in Jobs, JobStep(j), ~Exit(j)
      PROVE  LoopInv' /\ CountInv' /\ RowPerTask'
  <2>1. Moves(j) /\ pc[j] \in Working  BY <1>6, WorkMoves
  <2>2. \A i \in Jobs \ {j} : pc[i] \notin Working  BY <2>1 DEF RegistryInv
  <2>3. \A i \in Jobs \ {j} : LoopOK(i)' /\ CountOK(i)'
    BY <1>0, <2>1, <2>2 DEF Moves
  <2>4. LoopOK(j)' /\ CountOK(j)' /\ RowPerTask'  BY <1>6, WorkLoop
  <2> QED BY <2>3, <2>4 DEF LoopInv, CountInv
<1> QED BY <1>1, <1>2, <1>3, <1>4, <1>5, <1>6, NextKinds

-----------------------------------------------------------------------------
(* Theorems *)

IInv ==
    /\ TypeOK
    /\ RegistryInv /\ StopStops
    /\ HeldInv /\ ApprovedPlanHeld
    /\ LoopInv /\ CountInv /\ RowPerTask

LEMMA InitInv == Init => IInv
<1> SUFFICES ASSUME Init PROVE IInv
  OBVIOUS
<1>1. TypeOK  BY InitType
<1>2. \A j \in Jobs : pc[j] = "absent" /\ jobPlan[j] = NoPlan /\ handled[j] = 0
  BY DEF Init
<1>3. RegistryInv /\ StopStops  BY <1>2 DEF RegistryInv, StopStops, Working
<1>4. HeldInv /\ ApprovedPlanHeld  BY <1>2 DEF HeldInv, ApprovedPlanHeld
<1>5. LoopInv /\ CountInv
  BY <1>2 DEF LoopInv, LoopOK, CountInv, CountOK, Looping
<1>6. RowPerTask  BY DEF Init, RowPerTask
<1> QED BY <1>1, <1>3, <1>4, <1>5, <1>6 DEF IInv

THEOREM Inductive == Spec => []IInv
<1>1. IInv /\ [Next]_vars => IInv'
  BY NextType, NextRegistry, NextHeld, NextLoop DEF IInv
<1> QED BY InitInv, <1>1, PTL DEF Spec

(* Every variable keeps its type, for any jobs, requests and plans.        *)
THEOREM TypeCorrect == Spec => []TypeOK
<1>1. IInv => TypeOK  BY DEF IInv
<1> QED BY Inductive, <1>1, PTL

(* run_tracked keeps a project to one job, however many requests race.     *)
THEOREM SingleJob == Spec => []OneJob
<1>1. IInv => OneJob  BY DEF IInv, RegistryInv, OneJob
<1> QED BY Inductive, <1>1, PTL

(* After a stop request nothing runs until the next launch.                *)
THEOREM Stopped == Spec => []StopStops
<1>1. IInv => StopStops  BY DEF IInv
<1> QED BY Inductive, <1>1, PTL

(* An apply job reads the plan that was stored when it was approved.       *)
THEOREM Held == Spec => []ApprovedPlanHeld
<1>1. IInv => ApprovedPlanHeld  BY DEF IInv
<1> QED BY Inductive, <1>1, PTL

(* apply_plan is idempotent on the rows: no task is ever recorded twice.   *)
THEOREM RecordedOnce == Spec => []RowPerTask
<1>1. IInv => RowPerTask  BY DEF IInv
<1> QED BY Inductive, <1>1, PTL

(* A build that reports SUCCESS has a row for every task of its plan.      *)
THEOREM Truthful == Spec => []ReportTruthful
<1>1. IInv => ReportTruthful
  <2> SUFFICES ASSUME IInv, NEW j \in Jobs, pc[j] = "report", AllHandled(j),
                      NEW i \in 1..Len(Tasks[jobPlan[j]])
               PROVE  rows[Tasks[jobPlan[j]][i]] > 0
    BY DEF ReportTruthful
  <2>1. Counted(j) /\ todo[j] = <<>> /\ jobPlan[j] \in Plans
    BY DEF IInv, CountInv, CountOK, LoopInv, LoopOK, Looping
  <2>2. Len(Tasks[jobPlan[j]]) \in Nat
    BY <2>1, ProjectLifecycleAssumption
  <2>3. Passed(j) = Len(Tasks[jobPlan[j]])  BY <2>1, <2>2 DEF Passed
  <2> QED BY <2>1, <2>3 DEF Counted, AllHandled
<1> QED BY Inductive, <1>1, PTL
=============================================================================
