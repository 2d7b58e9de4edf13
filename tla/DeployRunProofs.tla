--------------------------- MODULE DeployRunProofs ---------------------------
(***************************************************************************)
(* Proofs about DeployRun for any targets, plans, requests, contents and   *)
(* validator verdicts.                                                     *)
(***************************************************************************)
EXTENDS DeployRun, TLAPS

-----------------------------------------------------------------------------
(* The state of an execute request, as its place in the code determines it *)

Validated(p, c) ==
    \E i \in 1..Len(validations[p]) :
        /\ validations[p][i].content = c
        /\ validations[p][i].status # "blocked"

Approved(p, c) == \E i \in 1..Len(approvals[p]) : approvals[p][i] = c

HasRun(r) == status[r] # "none"

(* What a request holds from its reads: the plan of an execute or approve  *)
(* request exists, and a step waiting to be saved has an outcome.          *)
ApprovingInv == \A a \in approving : plans[a[1]] # Absent

RequestInv ==
    \A r \in Requests :
        /\ pc[r] # "idle" => reqPlan[r] \in Plans /\ reqContent[r] \in Contents
        /\ pc[r] = "save" => outcome[r] \in {"ok", "failed"}
        /\ pc[r] = "ssh" => MoreSteps(r)

ReadInv == ApprovingInv /\ RequestInv

(* Which statuses the run row can have while the request is at each point. *)
StatusInv ==
    \A r \in Requests :
        /\ pc[r] \in Gating \cup {"idle", "rejected"} => status[r] = "none"
        /\ pc[r] \in {"prepared", "start", "refused"} => status[r] = "pending"
        /\ pc[r] \in {"step", "ssh", "save", "fail"} => status[r] = "running"
        /\ pc[r] \in {"health", "done"} => status[r] \in Terminal

(* What the gates passed so far have established.                          *)
GateInv ==
    \A r \in Requests :
        /\ pc[r] \in {"gate_approval", "gate_busy", "insert"} \/ HasRun(r) =>
             Validated(reqPlan[r], reqContent[r])
        /\ pc[r] \in {"gate_busy", "insert"} \/ HasRun(r) =>
             /\ Approved(reqPlan[r], reqContent[r])
             /\ reqContent[r] \notin BlockedRisk

(* Every verdict, stored or about to be, blocks what cannot be executed.   *)
Runnable(row) ==
    row.status # "blocked" =>
        ActionSet(row.content) \cap (Forbidden \cup NotImplemented) = {}

VerdictInv ==
    /\ \A p \in Plans : \A i \in 1..Len(validations[p]) : Runnable(validations[p][i])
    /\ \A v \in validating : Runnable(v[2])

-----------------------------------------------------------------------------
(* Type correctness *)

LEMMA VerdictType ==
  ASSUME NEW c \in Contents, NEW s \in Snapshots \cup {NoSnapshot}
  PROVE  Verdict(c, s) \in Statuses
  BY DeployRunAssumption DEF Verdict, Statuses

LEMMA RowUpdate ==
  ASSUME NEW row \in PlanRows, NEW c \in Contents
  PROVE  /\ [row EXCEPT !.content = c] \in PlanRows
         /\ [row EXCEPT !.status = "approved"] \in PlanRows
         /\ row.content \in Contents
  BY DEF PlanRows

LEMMA InitType == Init => TypeOK
  BY DeployRunAssumption DEF Init, TypeOK, Absent, PCs, Healths, RunStatuses

LEMMA NextType == TypeOK /\ ReadInv /\ [Next]_vars => TypeOK'
<1> SUFFICES ASSUME TypeOK, ReadInv, [Next]_vars PROVE TypeOK'
  OBVIOUS
<1> USE DeployRunAssumption
<1> USE DEF TypeOK, tableVars, opVars, runVars, reqVars, PCs, Gating, Running
<1>1. ASSUME NEW t \in Targets, NEW s \in Snapshots, RunInventory(t, s)
      PROVE  TypeOK'
  BY <1>1 DEF RunInventory
<1>2. ASSUME NEW p \in Plans, NEW c \in Contents, CreatePlan(p, c)
      PROVE  TypeOK'
  <2> DEFINE row == [content |-> c, risk |-> c \in BlockedRisk,
                     status |-> IF c \in BlockedRisk THEN "blocked" ELSE "draft"]
  <2>1. row \in PlanRows  BY DEF PlanRows
  <2> HIDE DEF row
  <2>2. plans' = [plans EXCEPT ![p] = row]  BY <1>2 DEF CreatePlan, row
  <2>3. plans' \in [Plans -> PlanRows \cup {Absent}]  BY <2>1, <2>2
  <2>4. UNCHANGED <<inventory, validations, approvals, opVars, pc, reqVars,
                    runVars, outcome, effects, edits, crashes>>
    BY <1>2 DEF CreatePlan
  <2> QED BY <2>3, <2>4
<1>3. ASSUME NEW p \in Plans, NEW c \in Contents, EditPlan(p, c)
      PROVE  TypeOK'
  <2> DEFINE row == [plans[p] EXCEPT !.content = c]
  <2>0. plans[p] \in PlanRows  BY <1>3 DEF EditPlan
  <2>1. row \in PlanRows  BY <2>0, RowUpdate
  <2> HIDE DEF row
  <2>2. plans' = [plans EXCEPT ![p] = row]  BY <1>3 DEF EditPlan, row
  <2>3. plans' \in [Plans -> PlanRows \cup {Absent}]  BY <2>1, <2>2
  <2>4. /\ edits' \in Nat
        /\ UNCHANGED <<inventory, validations, approvals, opVars, pc, reqVars,
                       runVars, outcome, effects, crashes>>
    BY <1>3 DEF EditPlan
  <2> QED BY <2>3, <2>4
<1>4. ASSUME NEW p \in Plans, ValidateRead(p) PROVE TypeOK'
  <2> DEFINE s == inventory[PlanTarget[p]]
             v == Verdict(plans[p].content, s)
             row == [content |-> plans[p].content, status |-> v]
  <2>1. plans[p].content \in Contents  BY <1>4 DEF ValidateRead, PlanRows
  <2>2. v \in Statuses  BY <2>1, VerdictType
  <2> HIDE DEF v
  <2>3. row \in ValidationRows  BY <2>1, <2>2 DEF ValidationRows
  <2> HIDE DEF row
  <2>4. validating' = validating \cup {<<p, row>>}
    BY <1>4 DEF ValidateRead, row, v
  <2> QED BY <1>4, <2>3, <2>4 DEF ValidateRead
<1>5. ASSUME NEW p \in Plans, ApproveRead(p) PROVE TypeOK'
  <2>1. plans[p].content \in Contents  BY <1>5 DEF ApproveRead, PlanRows
  <2>2. /\ approving' = approving \cup {<<p, plans[p].content>>}
        /\ UNCHANGED <<tableVars, validating, pc, reqVars, runVars, outcome,
                       effects, edits, crashes>>
    BY <1>5 DEF ApproveRead
  <2>3. approving' \subseteq Plans \X Contents  BY <2>1, <2>2
  <2> QED BY <2>2, <2>3
<1>6. ASSUME NEW v \in validating, ValidateInsert(v) PROVE TypeOK'
  <2>1. v[1] \in Plans /\ v[2] \in ValidationRows  OBVIOUS
  <2>2. validations' \in [Plans -> Seq(ValidationRows)]
    BY <1>6, <2>1 DEF ValidateInsert
  <2>3. /\ validating' \subseteq validating
        /\ UNCHANGED <<inventory, plans, approvals, approving, pc, reqVars,
                       runVars, outcome, effects, edits, crashes>>
    BY <1>6 DEF ValidateInsert
  <2> QED BY <2>2, <2>3
<1>7. ASSUME NEW a \in approving, ApproveInsert(a) PROVE TypeOK'
  <2> DEFINE p == a[1]
             row == [plans[p] EXCEPT !.status = "approved"]
  <2>1. p \in Plans /\ a[2] \in Contents  OBVIOUS
  <2>2. row \in PlanRows
    <3>1. plans[p] \in PlanRows BY <2>1 DEF ReadInv, ApprovingInv
    <3> QED BY <3>1, RowUpdate
  <2> HIDE DEF row
  <2>3. plans' = [plans EXCEPT ![p] = row]  BY <1>7 DEF ApproveInsert, row
  <2>4. plans' \in [Plans -> PlanRows \cup {Absent}]  BY <2>1, <2>2, <2>3
  <2>5. approvals' = [approvals EXCEPT ![p] = Append(@, a[2])]
    BY <1>7 DEF ApproveInsert
  <2> HIDE DEF p
  <2>6. approvals' \in [Plans -> Seq(Contents)]  BY <2>1, <2>5
  <2>7. /\ approving' \subseteq approving
        /\ UNCHANGED <<inventory, validations, validating, pc, reqVars, runVars,
                       outcome, effects, edits, crashes>>
    BY <1>7 DEF ApproveInsert
  <2> QED BY <2>4, <2>6, <2>7
<1>8. ASSUME NEW r \in Requests, Prepare(r) PROVE TypeOK'
  <2>1. ASSUME NEW p \in Plans, Execute(r, p) PROVE TypeOK'
    BY <2>1 DEF Execute, PlanRows, Absent
  <2>2. CASE GateValidation(r)  BY <2>2 DEF GateValidation
  <2>3. CASE GateApproval(r)    BY <2>3 DEF GateApproval
  <2>4. CASE GateBusy(r)        BY <2>4 DEF GateBusy, RunsOn
  <2>5. CASE InsertRun(r)       BY <2>5 DEF InsertRun, RunStatuses
  <2> QED BY <1>8, <2>1, <2>2, <2>3, <2>4, <2>5 DEF Prepare
<1>9. ASSUME NEW r \in Requests, Executor(r) PROVE TypeOK'
  <2>1. CASE CaptureRollback(r) BY <2>1 DEF CaptureRollback
  <2>2. CASE StartRun(r)        BY <2>2 DEF StartRun, RunStatuses
  <2>3. CASE BeginStep(r)       BY <2>3 DEF BeginStep, RunStatuses
  <2>4. CASE RunStep(r)
    <3>1. pc[r] # "idle" BY <2>4 DEF RunStep
    <3>2. TargetOf(r) \in Targets BY <3>1 DEF ReadInv, RequestInv, TargetOf
    <3>3. outcome' \in [Requests -> {"none", "ok", "failed"}]
      BY <2>4 DEF RunStep
    <3>4. effects' \in [Targets -> Seq(Requests \X Nat)]
      <4> DEFINE e == <<r, Len(steps[r]) + 1>>
                 t == TargetOf(r)
      <4>1. e \in Requests \X Nat /\ t \in Targets  BY <3>2
      <4>2. \/ effects' = effects
            \/ effects' = [effects EXCEPT ![t] = Append(@, e)]
        BY <2>4 DEF RunStep
      <4> HIDE DEF e, t
      <4>3. Append(effects[t], e) \in Seq(Requests \X Nat)  BY <4>1
      <4> QED BY <4>1, <4>2, <4>3
    <3>5. pc' \in [Requests -> PCs]  BY <2>4 DEF RunStep
    <3>6. UNCHANGED <<tableVars, opVars, reqVars, runVars, edits, crashes>>
      BY <2>4 DEF RunStep
    <3> QED BY <3>3, <3>4, <3>5, <3>6
  <2>5. CASE SaveStep(r)
    <3>1. outcome[r] \in {"ok", "failed"}  BY <2>5 DEF SaveStep, ReadInv, RequestInv
    <3> QED BY <2>5, <3>1 DEF SaveStep
  <2>6. CASE FailRun(r)         BY <2>6 DEF FailRun, RunStatuses
  <2>7. CASE CompleteRun(r)     BY <2>7 DEF CompleteRun, RunStatuses, Healths
  <2>8. CASE Healthcheck(r)
    <3>1. health' \in [Requests -> Healths]  BY <2>8 DEF Healthcheck
    <3>2. pc' \in [Requests -> PCs]  BY <2>8 DEF Healthcheck
    <3> QED BY <2>8, <3>1, <3>2 DEF Healthcheck
  <2> QED BY <1>9, <2>1, <2>2, <2>3, <2>4, <2>5, <2>6, <2>7, <2>8 DEF Executor
<1>10. CASE Crash BY <1>10 DEF Crash
<1>11. CASE UNCHANGED vars BY <1>11 DEF vars
<1> QED
  BY <1>1, <1>2, <1>3, <1>4, <1>5, <1>6, <1>7, <1>8, <1>9, <1>10, <1>11 DEF Next

-----------------------------------------------------------------------------
(* What requests hold *)

LEMMA PlansPersist ==
  ASSUME TypeOK, ReadInv, [Next]_vars, NEW q \in Plans, plans[q] # Absent
  PROVE  plans'[q] # Absent
<1> USE DeployRunAssumption
<1>1. ASSUME NEW p \in Plans, NEW c \in Contents, CreatePlan(p, c) \/ EditPlan(p, c)
      PROVE  plans'[q] # Absent
  <2>1. p # q => plans'[q] = plans[q]
    BY <1>1 DEF CreatePlan, EditPlan, TypeOK
  <2>2. CASE p = q
    <3>1. EditPlan(p, c)  BY <1>1, <2>2 DEF CreatePlan
    <3>2. plans'[p] = [plans[p] EXCEPT !.content = c]
      BY <3>1 DEF EditPlan, TypeOK
    <3>3. plans[p] \in PlanRows  BY <3>1 DEF EditPlan, TypeOK
    <3>4. plans'[p].content = c  BY <3>2, <3>3 DEF PlanRows
    <3> QED BY <3>4, <2>2 DEF Absent
  <2> QED BY <2>1, <2>2
<1>2. ASSUME NEW a \in approving, ApproveInsert(a) PROVE plans'[q] # Absent
  <2> DEFINE p == a[1]
  <2>1. p \in Plans /\ plans[p] # Absent  BY DEF TypeOK, ReadInv, ApprovingInv
  <2>2. plans' = [plans EXCEPT ![p] = [@ EXCEPT !.status = "approved"]]
    BY <1>2 DEF ApproveInsert
  <2> HIDE DEF p
  <2>3. p # q => plans'[q] = plans[q]  BY <2>1, <2>2 DEF TypeOK
  <2>4. CASE p = q
    <3>1. plans[p] \in PlanRows  BY <2>1 DEF TypeOK
    <3>2. plans'[p] = [plans[p] EXCEPT !.status = "approved"]
      BY <2>1, <2>2 DEF TypeOK
    <3>3. plans'[p].content \in Contents  BY <3>1, <3>2 DEF PlanRows
    <3> QED BY <3>3, <2>4 DEF Absent
  <2> QED BY <2>3, <2>4
<1>3. CASE UNCHANGED plans  BY <1>3
<1>4. [Next]_vars => \/ \E p \in Plans, c \in Contents : CreatePlan(p, c) \/ EditPlan(p, c)
                     \/ \E a \in approving : ApproveInsert(a)
                     \/ UNCHANGED plans
  BY DEF Next, vars, tableVars, RunInventory, ValidateRead, ApproveRead,
         ValidateInsert, Prepare, Execute, GateValidation, GateApproval,
         GateBusy, InsertRun, Executor, CaptureRollback, StartRun, BeginStep,
         RunStep, SaveStep, FailRun, CompleteRun, Healthcheck, Crash
<1> QED BY <1>1, <1>2, <1>3, <1>4

LEMMA ApprovingStep == TypeOK /\ ReadInv /\ [Next]_vars => ApprovingInv'
<1> SUFFICES ASSUME TypeOK, ReadInv, [Next]_vars, NEW a \in approving'
             PROVE  plans'[a[1]] # Absent
  BY DEF ApprovingInv
<1>1. CASE a \in approving
  BY <1>1, PlansPersist DEF ReadInv, ApprovingInv, TypeOK
<1>2. CASE a \notin approving
  <2>1. PICK p \in Plans : ApproveRead(p)
    BY <1>2 DEF Next, vars, opVars, RunInventory, CreatePlan, EditPlan,
         ValidateRead, ValidateInsert, ApproveInsert, Prepare, Execute,
         GateValidation, GateApproval, GateBusy, InsertRun, Executor,
         CaptureRollback, StartRun, BeginStep, RunStep, SaveStep, FailRun,
         CompleteRun, Healthcheck, Crash
  <2>2. a[1] = p /\ plans[p] # Absent  BY <1>2, <2>1 DEF ApproveRead
  <2> QED BY <2>1, <2>2 DEF ApproveRead, tableVars
<1> QED BY <1>1, <1>2

(* A step that is not r's own leaves r as it is, except that a restart     *)
(* kills it.                                                               *)
Untouched(r) ==
    /\ \/ pc'[r] = pc[r]
       \/ pc'[r] = "dead" /\ pc[r] \in Gating \cup Running
    /\ reqPlan'[r] = reqPlan[r] /\ reqContent'[r] = reqContent[r]
    /\ seen'[r] = seen[r] /\ status'[r] = status[r]
    /\ outcome'[r] = outcome[r] /\ steps'[r] = steps[r]

LEMMA OwnStep ==
  ASSUME TypeOK, [Next]_vars, NEW r \in Requests
  PROVE  Prepare(r) \/ Executor(r) \/ Untouched(r)
<1> USE DEF TypeOK, Untouched, reqVars, runVars
<1>1. ASSUME NEW o \in Requests, o # r, Prepare(o) PROVE Untouched(r)
  BY <1>1 DEF Prepare, Execute, GateValidation, GateApproval, GateBusy, InsertRun
<1>2. ASSUME NEW o \in Requests, o # r, Executor(o) PROVE Untouched(r)
  BY <1>2 DEF Executor, CaptureRollback, StartRun, BeginStep, RunStep,
              SaveStep, FailRun, CompleteRun, Healthcheck
<1>3. CASE Crash  BY <1>3 DEF Crash
<1>4. CASE UNCHANGED <<pc, reqVars, runVars, outcome>>  BY <1>4
<1> QED
  BY <1>1, <1>2, <1>3, <1>4
     DEF Next, vars, RunInventory, CreatePlan, EditPlan, ValidateRead,
         ValidateInsert, ApproveRead, ApproveInsert

LEMMA RequestStep == TypeOK /\ ReadInv /\ [Next]_vars => RequestInv'
<1> SUFFICES ASSUME TypeOK, ReadInv, [Next]_vars, NEW r \in Requests
             PROVE  /\ pc'[r] # "idle" => /\ reqPlan'[r] \in Plans
                                          /\ reqContent'[r] \in Contents
                    /\ pc'[r] = "save" => outcome'[r] \in {"ok", "failed"}
                    /\ pc'[r] = "ssh" => MoreSteps(r)'
  BY DEF RequestInv
<1> USE DEF TypeOK, ReadInv, RequestInv, MoreSteps, reqVars, runVars
<1>1. CASE Prepare(r)
  <2>1. ASSUME NEW p \in Plans, Execute(r, p)
        PROVE  /\ reqPlan'[r] \in Plans /\ reqContent'[r] \in Contents
               /\ pc'[r] = "gate_validation"
    BY <2>1 DEF Execute, PlanRows
  <2>2. CASE GateValidation(r) \/ GateApproval(r) \/ GateBusy(r) \/ InsertRun(r)
    BY <2>2 DEF GateValidation, GateApproval, GateBusy, InsertRun
  <2> QED BY <1>1, <2>1, <2>2 DEF Prepare
<1>2. CASE Executor(r)
  <2>1. CASE RunStep(r)    BY <2>1 DEF RunStep
  <2>2. CASE BeginStep(r)  BY <2>2 DEF BeginStep
  <2>3. CASE \/ CaptureRollback(r) \/ StartRun(r) \/ SaveStep(r)
             \/ FailRun(r) \/ CompleteRun(r) \/ Healthcheck(r)
    BY <2>3 DEF CaptureRollback, StartRun, SaveStep, FailRun, CompleteRun,
                Healthcheck
  <2> QED BY <1>2, <2>1, <2>2, <2>3 DEF Executor
<1>3. CASE Untouched(r)  BY <1>3 DEF Untouched, Gating, Running
<1> QED BY <1>1, <1>2, <1>3, OwnStep

-----------------------------------------------------------------------------
(* The run row *)

LEMMA StatusStep == TypeOK /\ StatusInv /\ [Next]_vars => StatusInv'
<1> SUFFICES ASSUME TypeOK, StatusInv, [Next]_vars, NEW r \in Requests
             PROVE  /\ pc'[r] \in Gating \cup {"idle", "rejected"} => status'[r] = "none"
                    /\ pc'[r] \in {"prepared", "start", "refused"} => status'[r] = "pending"
                    /\ pc'[r] \in {"step", "ssh", "save", "fail"} => status'[r] = "running"
                    /\ pc'[r] \in {"health", "done"} => status'[r] \in Terminal
  BY DEF StatusInv
<1> USE DEF TypeOK, StatusInv, Gating, Terminal, runVars
<1>1. CASE Prepare(r)
  BY <1>1 DEF Prepare, Execute, GateValidation, GateApproval, GateBusy, InsertRun
<1>2. CASE Executor(r)
  BY <1>2 DEF Executor, CaptureRollback, StartRun, BeginStep, RunStep,
              SaveStep, FailRun, CompleteRun, Healthcheck
<1>3. CASE Untouched(r)  BY <1>3 DEF Untouched
<1> QED BY <1>1, <1>2, <1>3, OwnStep

LEMMA TerminalStep ==
  ASSUME TypeOK, StatusInv, [Next]_vars, NEW r \in Requests, status[r] \in Terminal
  PROVE  status'[r] = status[r]
<1> USE DEF TypeOK, StatusInv, Gating, Terminal, runVars
<1>1. CASE Prepare(r)
  BY <1>1 DEF Prepare, Execute, GateValidation, GateApproval, GateBusy, InsertRun
<1>2. CASE Executor(r)
  BY <1>2 DEF Executor, CaptureRollback, StartRun, BeginStep, RunStep,
              SaveStep, FailRun, CompleteRun, Healthcheck
<1>3. CASE Untouched(r)  BY <1>3 DEF Untouched
<1> QED BY <1>1, <1>2, <1>3, OwnStep

(* What a guard saw stays over: the row of a finished run does not change, *)
(* and a guard that passes saw finished runs only.                         *)
LEMMA GuardStep ==
  TypeOK /\ StatusInv /\ GuardHonest /\ [Next]_vars => GuardHonest'
<1> SUFFICES ASSUME TypeOK, StatusInv, GuardHonest, [Next]_vars,
                    NEW r \in Requests,
                    pc'[r] \in {"insert"} \cup Running \/ status'[r] # "none",
                    NEW o \in seen'[r]
             PROVE  status'[o] \in Terminal
  BY DEF GuardHonest
<1> DEFINE Passed == pc[r] \in {"insert"} \cup Running \/ status[r] # "none"
<1>1. CASE Passed /\ seen'[r] = seen[r]
  <2>1. status[o] \in Terminal /\ o \in Requests
    BY <1>1 DEF GuardHonest, TypeOK
  <2> QED BY <2>1, TerminalStep
<1>2. CASE GateBusy(r)
  <2>1. o \in RunsOn(TargetOf(r))  BY <1>2 DEF GateBusy, TypeOK
  <2>2. o \in Requests /\ status[o] # "none"  BY <2>1 DEF RunsOn
  <2>3. status[o] \notin Active
    <3>1. status'[r] = "none"
      BY <1>2 DEF GateBusy, runVars, StatusInv, Gating
    <3>2. pc'[r] = "insert" \/ pc'[r] = "rejected"
      BY <1>2 DEF GateBusy, TypeOK
    <3>3. pc'[r] = "insert"  BY <3>1, <3>2 DEF Running
    <3> QED BY <1>2, <2>1, <3>3 DEF GateBusy, TypeOK
  <2> QED BY <1>2, <2>2, <2>3 DEF GateBusy, runVars, TypeOK, RunStatuses, Active, Terminal
<1>3. (Passed /\ seen'[r] = seen[r]) \/ GateBusy(r)
  <2> USE DEF TypeOK, reqVars, runVars, Running, Gating
  <2>1. CASE Prepare(r)
    BY <2>1 DEF Prepare, Execute, GateValidation, GateApproval, InsertRun
  <2>2. CASE Executor(r)
    BY <2>2 DEF Executor, CaptureRollback, StartRun, BeginStep, RunStep,
                SaveStep, FailRun, CompleteRun, Healthcheck
  <2>3. CASE Untouched(r)  BY <2>3 DEF Untouched
  <2> QED BY <2>1, <2>2, <2>3, OwnStep
<1> QED BY <1>1, <1>2, <1>3

-----------------------------------------------------------------------------
(* The gates *)

(* Validation and approval rows are only ever appended.                    *)
LEMMA LogsGrow ==
  ASSUME TypeOK, [Next]_vars, NEW p \in Plans, NEW c
  PROVE  /\ Validated(p, c) => Validated(p, c)'
         /\ Approved(p, c) => Approved(p, c)'
<1>1. ASSUME NEW v \in validating, ValidateInsert(v)
      PROVE  /\ Validated(p, c) => Validated(p, c)'
             /\ UNCHANGED approvals
  <2>1. v[1] \in Plans /\ v[2] \in ValidationRows  BY DEF TypeOK
  <2>2. validations[p] \in Seq(ValidationRows)  BY DEF TypeOK
  <2>3. validations'[p] = IF p = v[1] THEN Append(validations[p], v[2])
                          ELSE validations[p]
    BY <1>1, <2>1 DEF ValidateInsert, TypeOK
  <2>4. /\ Len(validations'[p]) >= Len(validations[p])
        /\ \A i \in 1..Len(validations[p]) : validations'[p][i] = validations[p][i]
    BY <2>1, <2>2, <2>3
  <2>5. Len(validations[p]) \in Nat /\ Len(validations'[p]) \in Nat
    BY <2>1, <2>2, <2>3
  <2> QED BY <1>1, <2>4, <2>5 DEF ValidateInsert, Validated
<1>2. ASSUME NEW a \in approving, ApproveInsert(a)
      PROVE  /\ Approved(p, c) => Approved(p, c)'
             /\ UNCHANGED validations
  <2>1. a[1] \in Plans /\ a[2] \in Contents  BY DEF TypeOK
  <2>2. approvals[p] \in Seq(Contents)  BY DEF TypeOK
  <2>3. approvals'[p] = IF p = a[1] THEN Append(approvals[p], a[2])
                        ELSE approvals[p]
    BY <1>2, <2>1 DEF ApproveInsert, TypeOK
  <2>4. /\ Len(approvals'[p]) >= Len(approvals[p])
        /\ \A i \in 1..Len(approvals[p]) : approvals'[p][i] = approvals[p][i]
    BY <2>1, <2>2, <2>3
  <2>5. Len(approvals[p]) \in Nat /\ Len(approvals'[p]) \in Nat
    BY <2>1, <2>2, <2>3
  <2> QED BY <1>2, <2>4, <2>5 DEF ApproveInsert, Approved
<1>3. CASE UNCHANGED <<validations, approvals>>  BY <1>3 DEF Validated, Approved
<1>4. \/ \E v \in validating : ValidateInsert(v)
      \/ \E a \in approving : ApproveInsert(a)
      \/ UNCHANGED <<validations, approvals>>
  BY DEF Next, vars, tableVars, RunInventory, CreatePlan, EditPlan,
         ValidateRead, ApproveRead, Prepare, Execute, GateValidation,
         GateApproval, GateBusy, InsertRun, Executor, CaptureRollback,
         StartRun, BeginStep, RunStep, SaveStep, FailRun, CompleteRun,
         Healthcheck, Crash
<1> QED BY <1>1, <1>2, <1>3, <1>4 DEF Validated, Approved

(* The newest row is one of the rows.                                      *)
LEMMA LatestCounts ==
  ASSUME TypeOK, NEW p \in Plans, NEW c
  PROVE  /\ ValidationAllows(p, c) => Validated(p, c)
         /\ ApprovalMatches(p, c) => Approved(p, c)
<1>1. validations[p] \in Seq(ValidationRows) /\ approvals[p] \in Seq(Contents)
  BY DEF TypeOK
<1>2. validations[p] # <<>> => Len(validations[p]) \in 1..Len(validations[p])
  BY <1>1
<1>3. approvals[p] # <<>> => Len(approvals[p]) \in 1..Len(approvals[p])
  BY <1>1
<1> QED BY <1>2, <1>3 DEF ValidationAllows, ApprovalMatches, Latest, Validated,
                          Approved

(* What request r has passed stays passed: its plan and content do not     *)
(* change once read.                                                       *)
Cleared(r) ==
    /\ pc[r] \in {"gate_approval", "gate_busy", "insert"} \/ HasRun(r) =>
         Validated(reqPlan[r], reqContent[r])
    /\ pc[r] \in {"gate_busy", "insert"} \/ HasRun(r) =>
         /\ Approved(reqPlan[r], reqContent[r])
         /\ reqContent[r] \notin BlockedRisk

LEMMA GateStep ==
  TypeOK /\ ReadInv /\ StatusInv /\ GateInv /\ [Next]_vars => GateInv'
<1> SUFFICES ASSUME TypeOK, ReadInv, StatusInv, GateInv, [Next]_vars,
                    NEW r \in Requests
             PROVE  Cleared(r)'
  BY DEF GateInv, Cleared
<1>0. Cleared(r)  BY DEF GateInv, Cleared
<1> USE DEF HasRun, tableVars, runVars, reqVars
<1> DEFINE p == reqPlan[r]
           c == reqContent[r]
<1>1. CASE \E q \in Plans : Execute(r, q)
  <2>1. pc'[r] = "gate_validation" /\ status'[r] = "none"
    BY <1>1 DEF Execute, StatusInv, TypeOK
  <2> QED BY <2>1 DEF Cleared
<1>2. ASSUME pc[r] # "idle",
             /\ reqPlan'[r] = p /\ reqContent'[r] = c
             /\ pc'[r] \in {"gate_approval", "gate_busy", "insert"} \/ status'[r] # "none" =>
                  Validated(p, c)
             /\ pc'[r] \in {"gate_busy", "insert"} \/ status'[r] # "none" =>
                  Approved(p, c) /\ c \notin BlockedRisk
      PROVE  Cleared(r)'
  <2>1. PICK q \in Plans, d \in Contents : q = p /\ d = c
    BY <1>2 DEF ReadInv, RequestInv
  <2>2. /\ Validated(q, d) => Validated(q, d)'
        /\ Approved(q, d) => Approved(q, d)'
    BY LogsGrow
  <2>3. /\ Validated(q, d)' => Validated(reqPlan[r], reqContent[r])'
        /\ Approved(q, d)' => Approved(reqPlan[r], reqContent[r])'
    BY <1>2, <2>1 DEF Validated, Approved
  <2> QED BY <1>2, <2>1, <2>2, <2>3 DEF Cleared
<1>3. CASE GateValidation(r)
  <2>1. p \in Plans /\ pc[r] # "idle" /\ status[r] = "none"
    BY <1>3 DEF GateValidation, ReadInv, RequestInv, StatusInv, Gating
  <2>2. pc'[r] = "rejected" \/ (pc'[r] = "gate_approval" /\ ValidationAllows(p, c))
    BY <1>3 DEF GateValidation, TypeOK
  <2>3. pc'[r] = "gate_approval" => Validated(p, c)  BY <2>1, <2>2, LatestCounts
  <2>4. UNCHANGED <<reqPlan, reqContent, status>>  BY <1>3 DEF GateValidation
  <2> HIDE DEF p, c
  <2> QED BY <2>1, <2>2, <2>3, <2>4, <1>2 DEF p, c
<1>4. CASE GateApproval(r)
  <2>1. p \in Plans /\ pc[r] # "idle" /\ status[r] = "none"
    BY <1>4 DEF GateApproval, ReadInv, RequestInv, StatusInv, Gating
  <2>2. \/ pc'[r] = "rejected"
        \/ pc'[r] = "gate_busy" /\ ApprovalMatches(p, c) /\ c \notin BlockedRisk
    BY <1>4 DEF GateApproval, TypeOK
  <2>3. Validated(p, c)  BY <1>0, <1>4 DEF GateApproval, Cleared
  <2>4. pc'[r] = "gate_busy" => Approved(p, c)  BY <2>1, <2>2, LatestCounts
  <2>5. UNCHANGED <<reqPlan, reqContent, status>>  BY <1>4 DEF GateApproval
  <2> HIDE DEF p, c
  <2> QED BY <2>1, <2>2, <2>3, <2>4, <2>5, <1>2 DEF p, c
<1>5. CASE GateBusy(r) \/ InsertRun(r)
  <2>1. /\ pc[r] \in {"gate_busy", "insert"}
        /\ UNCHANGED <<reqPlan, reqContent>>
    BY <1>5 DEF GateBusy, InsertRun
  <2>2. Validated(p, c) /\ Approved(p, c) /\ c \notin BlockedRisk
    BY <1>0, <2>1 DEF Cleared
  <2> QED BY <1>2, <2>1, <2>2
<1>6. CASE Executor(r)
  <2>1. /\ status[r] # "none" /\ pc[r] # "idle"
        /\ UNCHANGED <<reqPlan, reqContent>>
    BY <1>6 DEF Executor, CaptureRollback, StartRun, BeginStep, RunStep,
                SaveStep, FailRun, CompleteRun, Healthcheck, StatusInv, Terminal
  <2>2. Validated(p, c) /\ Approved(p, c) /\ c \notin BlockedRisk
    BY <1>0, <2>1 DEF Cleared
  <2> QED BY <1>2, <2>1, <2>2
<1>7. CASE Untouched(r)
  <2>1. CASE pc[r] = "idle"
    <3>1. pc'[r] = "idle" /\ status'[r] = "none"
      BY <1>7, <2>1 DEF Untouched, StatusInv, Gating, Running
    <3> QED BY <3>1 DEF Cleared
  <2>2. CASE pc[r] # "idle"
    BY <1>0, <1>2, <1>7, <2>2 DEF Cleared, Untouched
  <2> QED BY <2>1, <2>2
<1> QED BY <1>1, <1>3, <1>4, <1>5, <1>6, <1>7, OwnStep DEF Prepare

LEMMA VerdictStep == TypeOK /\ VerdictInv /\ [Next]_vars => VerdictInv'
<1> SUFFICES ASSUME TypeOK, VerdictInv, [Next]_vars PROVE VerdictInv'
  OBVIOUS
<1>1. ASSUME NEW q \in Plans, ValidateRead(q) PROVE VerdictInv'
  <2> DEFINE c == plans[q].content
             row == [content |-> c, status |-> Verdict(c, inventory[PlanTarget[q]])]
  <2>1. Runnable(row)  BY DEF Runnable, Verdict
  <2> HIDE DEF row
  <2>2. validating' = validating \cup {<<q, row>>} /\ validations' = validations
    BY <1>1 DEF ValidateRead, tableVars, row
  <2> QED BY <2>1, <2>2 DEF VerdictInv
<1>2. ASSUME NEW v \in validating, ValidateInsert(v) PROVE VerdictInv'
  <2>1. v[1] \in Plans /\ v[2] \in ValidationRows  BY DEF TypeOK
  <2>2. validating' \subseteq validating  BY <1>2 DEF ValidateInsert
  <2>3. ASSUME NEW p \in Plans, NEW i \in 1..Len(validations'[p])
        PROVE  Runnable(validations'[p][i])
    <3>1. validations[p] \in Seq(ValidationRows)  BY DEF TypeOK
    <3>2. validations'[p] = IF p = v[1] THEN Append(validations[p], v[2])
                            ELSE validations[p]
      BY <1>2, <2>1 DEF ValidateInsert, TypeOK
    <3>3. validations'[p][i] = v[2] \/ (/\ i \in 1..Len(validations[p])
                                       /\ validations'[p][i] = validations[p][i])
      BY <2>1, <3>1, <3>2
    <3> QED BY <3>3 DEF VerdictInv
  <2>4. VerdictInv' = (/\ \A p \in Plans : \A i \in 1..Len(validations'[p]) :
                             Runnable(validations'[p][i])
                       /\ \A w \in validating' : Runnable(w[2]))
    BY DEF VerdictInv, Runnable
  <2> QED BY <2>2, <2>3, <2>4 DEF VerdictInv
<1>3. CASE validations' = validations /\ validating' \subseteq validating
  BY <1>3 DEF VerdictInv, Runnable
<1>4. \/ \E p \in Plans : ValidateRead(p)
      \/ \E v \in validating : ValidateInsert(v)
      \/ validations' = validations /\ validating' \subseteq validating
  BY DEF Next, vars, tableVars, opVars, RunInventory, CreatePlan, EditPlan,
         ApproveRead, ApproveInsert, Prepare, Execute, GateValidation,
         GateApproval, GateBusy, InsertRun, Executor, CaptureRollback,
         StartRun, BeginStep, RunStep, SaveStep, FailRun, CompleteRun,
         Healthcheck, Crash
<1> QED BY <1>1, <1>2, <1>3, <1>4

(* A validated content holds no action the executor would refuse or stub.  *)
LEMMA ValidatedRunnable ==
  ASSUME TypeOK, VerdictInv, NEW p \in Plans, NEW c, Validated(p, c)
  PROVE  ActionSet(c) \cap (Forbidden \cup NotImplemented) = {}
  BY DEF VerdictInv, Runnable, Validated

LEMMA NotRefusedStep ==
  ASSUME TypeOK, ReadInv, StatusInv, GateInv, VerdictInv, [Next]_vars,
         NEW r \in Requests, pc[r] # "refused"
  PROVE  pc'[r] # "refused"
<1>1. CASE StartRun(r)
  <2>1. reqPlan[r] \in Plans  BY <1>1 DEF StartRun, ReadInv, RequestInv
  <2>2. HasRun(r)  BY <1>1 DEF StartRun, StatusInv, HasRun
  <2>3. /\ Validated(reqPlan[r], reqContent[r])
        /\ Approved(reqPlan[r], reqContent[r])
        /\ reqContent[r] \notin BlockedRisk
    BY <2>2 DEF GateInv
  <2>4. approvals[reqPlan[r]] # <<>>
    BY <2>1, <2>3 DEF Approved, TypeOK
  <2>5. ActionSet(reqContent[r]) \cap Forbidden = {}
    BY <2>1, <2>3, ValidatedRunnable
  <2> QED BY <1>1, <2>3, <2>4, <2>5 DEF StartRun, TypeOK
<1>2. CASE Prepare(r)
  BY <1>2 DEF Prepare, Execute, GateValidation, GateApproval, GateBusy,
              InsertRun, TypeOK
<1>3. CASE Executor(r) /\ ~StartRun(r)
  BY <1>3 DEF Executor, CaptureRollback, BeginStep, RunStep, SaveStep,
              FailRun, CompleteRun, Healthcheck, TypeOK
<1>4. CASE Untouched(r)  BY <1>4 DEF Untouched
<1> QED BY <1>1, <1>2, <1>3, <1>4, OwnStep

NeverRefused == \A r \in Requests : pc[r] # "refused"

-----------------------------------------------------------------------------
(* The inductive invariant and the theorems *)

IInv == /\ TypeOK /\ ReadInv /\ StatusInv /\ GateInv /\ VerdictInv
        /\ GuardHonest /\ NeverRefused

LEMMA InitIInv == Init => IInv
<1> SUFFICES ASSUME Init PROVE IInv
  OBVIOUS
<1>1. TypeOK  BY InitType
<1>2. ReadInv  BY DEF Init, ReadInv, ApprovingInv, RequestInv
<1>3. StatusInv  BY DEF Init, StatusInv
<1>4. GateInv  BY DEF Init, GateInv, HasRun
<1>5. VerdictInv  BY DEF Init, VerdictInv
<1>6. GuardHonest  BY DEF Init, GuardHonest
<1>7. NeverRefused  BY DEF Init, NeverRefused
<1> QED BY <1>1, <1>2, <1>3, <1>4, <1>5, <1>6, <1>7 DEF IInv

LEMMA NextIInv == IInv /\ [Next]_vars => IInv'
<1> SUFFICES ASSUME IInv, [Next]_vars PROVE IInv'
  OBVIOUS
<1> USE DEF IInv
<1>1. TypeOK'  BY NextType
<1>2. ReadInv'  BY ApprovingStep, RequestStep DEF ReadInv
<1>3. StatusInv'  BY StatusStep
<1>4. GateInv'  BY GateStep
<1>5. VerdictInv'  BY VerdictStep
<1>6. GuardHonest'  BY GuardStep
<1>7. NeverRefused'  BY NotRefusedStep DEF NeverRefused
<1> QED BY <1>1, <1>2, <1>3, <1>4, <1>5, <1>6, <1>7

LEMMA Invariance == Spec => []IInv
  BY InitIInv, NextIInv, PTL DEF Spec

(* The variables keep their types.                                         *)
THEOREM TypeCorrect == Spec => []TypeOK
  BY Invariance, PTL DEF IInv

(* prepare_run: no run without a passing validation and a human approval   *)
(* of exactly the content it executes.                                     *)
THEOREM Authorised == Spec => []ExecutedContentAuthorised
<1>1. IInv => ExecutedContentAuthorised
  BY DEF IInv, GateInv, HasRun, Validated, Approved, ExecutedContentAuthorised
<1> QED BY <1>1, Invariance, PTL

(* The single-flight SELECT: whatever it lets pass is over for good.       *)
THEOREM GuardSound == Spec => []GuardHonest
  BY Invariance, PTL DEF IInv

(* executor.execute_plan: its own refusals are unreachable behind the      *)
(* gates, and no unimplemented action is ever reached.                     *)
THEOREM Executable == Spec => []PreparedRunIsExecutable
<1>1. IInv => PreparedRunIsExecutable
  <2> SUFFICES ASSUME IInv, NEW r \in Requests
               PROVE  /\ pc[r] # "refused"
                      /\ pc[r] = "ssh" => NextAction(r) \notin Forbidden \cup NotImplemented
    BY DEF PreparedRunIsExecutable
  <2> USE DEF IInv
  <2>1. pc[r] # "refused"  BY DEF NeverRefused
  <2>2. ASSUME pc[r] = "ssh"
        PROVE  NextAction(r) \notin Forbidden \cup NotImplemented
    <3>1. reqPlan[r] \in Plans /\ reqContent[r] \in Contents /\ MoreSteps(r)
      BY <2>2 DEF ReadInv, RequestInv
    <3>2. Validated(reqPlan[r], reqContent[r])
      BY <2>2 DEF StatusInv, GateInv, HasRun
    <3>3. ActionSet(reqContent[r]) \cap (Forbidden \cup NotImplemented) = {}
      BY <3>1, <3>2, ValidatedRunnable
    <3>4. /\ Actions[reqContent[r]] \in Seq(ActionTypes)
          /\ steps[r] \in Seq({"ok", "failed"})
      BY <3>1, DeployRunAssumption DEF TypeOK
    <3>5. Len(steps[r]) + 1 \in 1..Len(Actions[reqContent[r]])
      BY <3>1, <3>4 DEF MoreSteps
    <3>6. NextAction(r) \in ActionSet(reqContent[r])
      BY <3>5 DEF NextAction, ActionSet
    <3> QED BY <3>3, <3>6
  <2> QED BY <2>1, <2>2
<1> QED BY <1>1, Invariance, PTL

=============================================================================
