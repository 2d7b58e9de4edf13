------------------------- MODULE DeployPromiseProofs -------------------------
(***************************************************************************)
(* DeployRun implements DeployPromise, for any targets, plans, requests    *)
(* and contents: every step of the service is a step of the promise or     *)
(* leaves what it speaks of alone.  With it, what the step logs and the    *)
(* servers say of each other, and how runs interleave on one server.       *)
(***************************************************************************)
EXTENDS DeployRunProofs

-----------------------------------------------------------------------------
(* What the rows of a run and the server say about each other *)

AllStepsOk(r) == \A i \in 1..Len(steps[r]) : steps[r][i] = "ok"

(* The step log of a run, as its place in the executor determines it.      *)
WorkInv ==
    \A r \in Requests :
        /\ status[r] \in {"none", "pending"} => steps[r] = <<>>
        /\ pc[r] \in {"step", "ssh", "save"} =>
             AllStepsOk(r) /\ Len(steps[r]) <= Len(Actions[reqContent[r]])
        /\ pc[r] = "save" => MoreSteps(r)
        /\ pc[r] = "fail" => ~AllStepsOk(r)

(* Every mark on a server was left by a run that has a row.                *)
OwnerInv ==
    \A t \in Targets : \A i \in 1..Len(effects[t]) : HasRun(effects[t][i][1])

(* A run's marks are of steps it has reported, or of the one in flight.    *)
MarkInv ==
    \A r \in Requests : \A d \in Touched(r) :
        /\ pc[r] \in {"prepared", "start", "step", "ssh"} => d[2] <= Len(steps[r])
        /\ d[2] <= Len(steps[r]) + 1

PInv == IInv /\ WorkInv /\ OwnerInv /\ MarkInv

-----------------------------------------------------------------------------
(* How a step changes the marks *)

(* A run keeps the plan it was created for.                                *)
LEMMA RunKeepsPlan ==
  ASSUME TypeOK, ReadInv, StatusInv, [Next]_vars, NEW r \in Requests, HasRun(r)
  PROVE  /\ reqPlan'[r] = reqPlan[r] /\ reqContent'[r] = reqContent[r]
         /\ TargetOf(r) \in Targets /\ TargetOf(r)' = TargetOf(r)
         /\ reqContent[r] \in Contents
         /\ HasRun(r)'
<1> USE DEF HasRun
<1>1. pc[r] \notin Gating \ {"insert"} /\ pc[r] # "idle" /\ pc[r] # "insert"
  BY DEF StatusInv, Gating
<1>2. reqPlan[r] \in Plans /\ reqContent[r] \in Contents
  BY <1>1 DEF ReadInv, RequestInv
<1>3. ~Prepare(r)
  BY <1>1 DEF Prepare, Execute, GateValidation, GateApproval, GateBusy,
              InsertRun, Gating
<1>4. /\ reqPlan'[r] = reqPlan[r] /\ reqContent'[r] = reqContent[r]
      /\ status'[r] # "none"
  <2>1. CASE Executor(r)
    BY <2>1 DEF Executor, CaptureRollback, StartRun, BeginStep, RunStep,
                SaveStep, FailRun, CompleteRun, Healthcheck, TypeOK, reqVars, runVars
  <2>2. CASE Untouched(r)  BY <2>2 DEF Untouched
  <2> QED BY <1>3, <2>1, <2>2, OwnStep
<1>5. TargetOf(r) \in Targets  BY <1>2, DeployRunAssumption DEF TargetOf
<1> QED BY <1>2, <1>4, <1>5 DEF TargetOf

Mark(o) == <<o, Len(steps[o]) + 1>>

(* Only a step that makes an SSH call leaves a mark, its own.              *)
LEMMA EffectsStep ==
  ASSUME TypeOK, [Next]_vars
  PROVE  \/ UNCHANGED effects
         \/ \E o \in Requests :
              /\ RunStep(o)
              /\ effects' = [effects EXCEPT ![TargetOf(o)] = Append(@, Mark(o))]
<1>1. ASSUME NEW o \in Requests, RunStep(o)
      PROVE  \/ UNCHANGED effects
             \/ effects' = [effects EXCEPT ![TargetOf(o)] = Append(@, Mark(o))]
  BY <1>1 DEF RunStep, Mark
<1>2. UNCHANGED effects \/ \E o \in Requests : RunStep(o)
  BY DEF Next, vars, tableVars, opVars, RunInventory, CreatePlan, EditPlan,
         ValidateRead, ApproveRead, ValidateInsert, ApproveInsert, Prepare,
         Execute, GateValidation, GateApproval, GateBusy, InsertRun, Executor,
         CaptureRollback, StartRun, BeginStep, SaveStep, FailRun, CompleteRun,
         Healthcheck, Crash
<1> QED BY <1>1, <1>2

(* An SSH call adds its own mark to those of its run.                      *)
LEMMA TouchedGrows ==
  ASSUME TypeOK, ReadInv, StatusInv, [Next]_vars, NEW r \in Requests, HasRun(r),
         Len(effects'[TargetOf(r)]) = Len(effects[TargetOf(r)]) + 1,
         effects' = [effects EXCEPT ![TargetOf(r)] = Append(@, Mark(r))]
  PROVE  Touched(r)' = Touched(r) \cup
           {<<Len(effects[TargetOf(r)]) + 1, Len(steps[r]) + 1>>}
<1> DEFINE log == effects[TargetOf(r)]
           new == effects'[TargetOf(r)]
           n == Len(log)
<1>1. /\ TargetOf(r) \in Targets /\ TargetOf(r)' = TargetOf(r) /\ HasRun(r)'
  BY RunKeepsPlan
<1>2. /\ Touched(r) = {<<i, log[i][2]>> : i \in {j \in 1..n : log[j][1] = r}}
      /\ Touched(r)' = {<<i, new[i][2]>> : i \in {j \in 1..Len(new) : new[j][1] = r}}
  BY <1>1 DEF Touched, HasRun
<1>3. log \in Seq(Requests \X Nat) /\ new = Append(log, Mark(r))
  BY <1>1 DEF TypeOK
<1>4. Mark(r) \in Requests \X Nat /\ Mark(r)[1] = r /\ Mark(r)[2] = Len(steps[r]) + 1
  BY DEF Mark, TypeOK
<1> HIDE DEF log, new
<1>5. /\ n \in Nat /\ Len(new) = n + 1 /\ new[n + 1] = Mark(r)
      /\ \A i \in 1..n : new[i] = log[i]
  BY <1>3, <1>4
<1>6. 1..(n + 1) = 1..n \cup {n + 1}  BY <1>5
<1>7. {j \in 1..Len(new) : new[j][1] = r} = {j \in 1..n : log[j][1] = r} \cup {n + 1}
  BY <1>4, <1>5, <1>6
<1> QED BY <1>2, <1>4, <1>5, <1>7 DEF log

(* The marks of a run are kept, and only its own step adds one, later than *)
(* all of them.                                                            *)
LEMMA TouchedStep ==
  ASSUME TypeOK, ReadInv, StatusInv, [Next]_vars, NEW r \in Requests, HasRun(r)
  PROVE  \/ Touched(r)' = Touched(r)
         \/ /\ RunStep(r)
            /\ Touched(r)' = Touched(r) \cup
                 {<<Len(effects[TargetOf(r)]) + 1, Len(steps[r]) + 1>>}
            /\ Len(effects'[TargetOf(r)]) = Len(effects[TargetOf(r)]) + 1
<1> DEFINE T == TargetOf(r)
           log == effects[T]
<1>1. /\ T \in Targets /\ TargetOf(r)' = T /\ HasRun(r)'
  BY RunKeepsPlan
<1>2. log \in Seq(Requests \X Nat)  BY <1>1 DEF TypeOK
<1>3. /\ Touched(r) = {<<i, log[i][2]>> : i \in {j \in 1..Len(log) : log[j][1] = r}}
      /\ Touched(r)' = {<<i, effects'[T][i][2]>> :
                          i \in {j \in 1..Len(effects'[T]) : effects'[T][j][1] = r}}
  BY <1>1 DEF Touched, HasRun
<1>4. CASE UNCHANGED effects  BY <1>3, <1>4
<1>5. ASSUME NEW o \in Requests, RunStep(o),
             effects' = [effects EXCEPT ![TargetOf(o)] = Append(@, Mark(o))]
      PROVE  \/ Touched(r)' = Touched(r)
             \/ /\ RunStep(r)
                /\ Touched(r)' = Touched(r) \cup {<<Len(log) + 1, Len(steps[r]) + 1>>}
                /\ Len(effects'[T]) = Len(log) + 1
  <2>1. CASE TargetOf(o) # T
    <3>1. effects'[T] = log  BY <1>1, <1>5, <2>1 DEF TypeOK
    <3> QED BY <1>3, <3>1
  <2>2. CASE TargetOf(o) = T
    <3>1. effects'[T] = Append(log, Mark(o))  BY <1>1, <1>5, <2>2 DEF TypeOK
    <3> DEFINE n == Len(log)
               new == effects'[T]
    <3>2. Mark(o) \in Requests \X Nat
      BY <1>5 DEF Mark, TypeOK
    <3>3. /\ n \in Nat /\ Len(new) = n + 1 /\ new[n + 1] = Mark(o)
          /\ \A i \in 1..n : new[i] = log[i]
      BY <1>2, <3>1, <3>2
    <3>4. 1..(n + 1) = 1..n \cup {n + 1}  BY <3>3
    <3> HIDE DEF n, new
    <3>5. CASE o # r
      <4>1. new[n + 1][1] # r  BY <3>3, <3>5 DEF Mark
      <4>2. {j \in 1..Len(new) : new[j][1] = r} = {j \in 1..n : log[j][1] = r}
        BY <3>3, <3>4, <4>1
      <4>3. Touched(r)' = {<<i, log[i][2]>> : i \in {j \in 1..n : log[j][1] = r}}
        BY <1>3, <3>3, <4>2 DEF new
      <4> QED BY <1>3, <4>3 DEF n
    <3>6. CASE o = r
      <4>1. Len(effects'[T]) = n + 1 /\ RunStep(r)
        BY <1>5, <3>3, <3>6 DEF new
      <4> QED BY <1>5, <3>6, <4>1, TouchedGrows DEF n
    <3> QED BY <3>5, <3>6
  <2> QED BY <2>1, <2>2
<1> QED BY <1>4, <1>5, EffectsStep

(* A mark's place and step are numbers, its place one of the server's log. *)
LEMMA TouchedRange ==
  ASSUME TypeOK, ReadInv, StatusInv, NEW r \in Requests, NEW d \in Touched(r)
  PROVE  /\ HasRun(r) /\ d[1] \in Nat /\ d[2] \in Nat
         /\ d[1] <= Len(effects[TargetOf(r)]) /\ Len(effects[TargetOf(r)]) \in Nat
<1>1. HasRun(r)  BY DEF Touched, HasRun
<1>2. TargetOf(r) \in Targets
  <2>1. pc[r] # "idle"  BY <1>1 DEF HasRun, StatusInv
  <2> QED BY <2>1, DeployRunAssumption DEF ReadInv, RequestInv, TargetOf
<1> DEFINE log == effects[TargetOf(r)]
<1>3. log \in Seq(Requests \X Nat)  BY <1>2 DEF TypeOK
<1> HIDE DEF log
<1>4. PICK i \in 1..Len(log) : d = <<i, log[i][2]>>
  BY <1>1 DEF Touched, HasRun, log
<1>5. log[i] \in Requests \X Nat /\ Len(log) \in Nat  BY <1>3
<1>6. log[i][2] \in Nat  BY <1>5
<1> QED BY <1>1, <1>4, <1>5, <1>6 DEF log

-----------------------------------------------------------------------------
(* The strengthened invariant is inductive *)

LEMMA WorkStep ==
  TypeOK /\ ReadInv /\ StatusInv /\ WorkInv /\ [Next]_vars => WorkInv'
<1> SUFFICES ASSUME TypeOK, ReadInv, StatusInv, WorkInv, [Next]_vars,
                    NEW r \in Requests
             PROVE  /\ status'[r] \in {"none", "pending"} => steps'[r] = <<>>
                    /\ pc'[r] \in {"step", "ssh", "save"} =>
                         /\ AllStepsOk(r)'
                         /\ Len(steps'[r]) <= Len(Actions[reqContent'[r]])
                    /\ pc'[r] = "save" => MoreSteps(r)'
                    /\ pc'[r] = "fail" => ~AllStepsOk(r)'
  BY DEF WorkInv
<1> USE DEF AllStepsOk, MoreSteps
<1>0. /\ status[r] \in {"none", "pending"} => steps[r] = <<>>
      /\ pc[r] \in {"step", "ssh", "save"} =>
           AllStepsOk(r) /\ Len(steps[r]) <= Len(Actions[reqContent[r]])
      /\ pc[r] = "save" => MoreSteps(r)
      /\ pc[r] = "fail" => ~AllStepsOk(r)
      /\ steps[r] \in Seq({"ok", "failed"})
  BY DEF WorkInv, TypeOK
<1>1. CASE Prepare(r)
  <2>1. /\ status[r] = "none" /\ steps'[r] = steps[r]
        /\ pc'[r] \notin {"step", "ssh", "save", "fail"}
    BY <1>1 DEF Prepare, Execute, GateValidation, GateApproval, GateBusy,
                InsertRun, TypeOK, StatusInv, Gating, runVars
  <2> QED BY <1>0, <2>1
<1>2. CASE SaveStep(r)
  <2>1. /\ outcome[r] \in {"ok", "failed"} /\ pc[r] = "save"
        /\ status[r] = "running" /\ reqContent[r] \in Contents
    BY <1>2 DEF SaveStep, ReadInv, RequestInv, StatusInv
  <2>2. /\ steps'[r] = Append(steps[r], outcome[r]) /\ status'[r] = "running"
        /\ reqContent'[r] = reqContent[r]
        /\ pc'[r] = IF outcome[r] = "failed" THEN "fail" ELSE "step"
    BY <1>2, <2>1 DEF SaveStep, TypeOK, reqVars
  <2>3. /\ Len(steps'[r]) = Len(steps[r]) + 1
        /\ steps'[r][Len(steps[r]) + 1] = outcome[r]
        /\ \A i \in 1..Len(steps[r]) : steps'[r][i] = steps[r][i]
        /\ Len(steps[r]) \in Nat
    BY <1>0, <2>1, <2>2
  <2>4. Len(Actions[reqContent[r]]) \in Nat
    BY <2>1, DeployRunAssumption
  <2>5. Len(steps'[r]) <= Len(Actions[reqContent[r]])
    BY <1>0, <2>1, <2>3, <2>4
  <2>6. 1..Len(steps'[r]) = 1..Len(steps[r]) \cup {Len(steps[r]) + 1}
    BY <2>3
  <2>7. CASE outcome[r] = "failed"
    BY <2>2, <2>3, <2>6, <2>7
  <2>8. CASE outcome[r] = "ok"
    BY <1>0, <2>1, <2>2, <2>3, <2>5, <2>6, <2>8
  <2> QED BY <2>1, <2>7, <2>8
<1>3. CASE Executor(r) /\ ~SaveStep(r)
  <2>1. /\ steps'[r] = steps[r] /\ reqContent'[r] = reqContent[r]
        /\ status[r] # "none"
        /\ reqContent[r] \in Contents
    BY <1>3 DEF Executor, CaptureRollback, StartRun, BeginStep, RunStep,
         FailRun, CompleteRun, Healthcheck, TypeOK, StatusInv, Terminal,
         reqVars, runVars, ReadInv, RequestInv
  <2>2. status'[r] \in {"none", "pending"} => status[r] \in {"none", "pending"}
    BY <1>3 DEF Executor, CaptureRollback, StartRun, BeginStep, RunStep,
         FailRun, CompleteRun, Healthcheck, TypeOK, runVars
  <2>3. \/ pc'[r] \notin {"step", "ssh", "save", "fail"}
        \/ pc[r] = "start" /\ pc'[r] = "step"
        \/ pc[r] = "step" /\ pc'[r] = "ssh" /\ MoreSteps(r)
        \/ pc[r] = "ssh" /\ pc'[r] = "save" /\ MoreSteps(r)
    BY <1>3 DEF Executor, CaptureRollback, StartRun, BeginStep, RunStep,
         FailRun, CompleteRun, Healthcheck, TypeOK, ReadInv, RequestInv
  <2>4. pc[r] = "start" => AllStepsOk(r) /\ Len(steps[r]) = 0
    BY <1>0 DEF StatusInv
  <2>5. Len(Actions[reqContent[r]]) \in Nat
    BY <2>1, DeployRunAssumption
  <2> QED BY <1>0, <2>1, <2>2, <2>3, <2>4, <2>5
<1>4. CASE Untouched(r)
  <2>1. CASE pc[r] = "idle"
    <3>1. pc'[r] = "idle"  BY <1>4, <2>1 DEF Untouched, Gating, Running
    <3> QED BY <1>0, <1>4, <3>1 DEF Untouched
  <2>2. CASE pc[r] # "idle"
    BY <1>0, <1>4, <2>2 DEF Untouched
  <2> QED BY <2>1, <2>2
<1> QED BY <1>1, <1>2, <1>3, <1>4, OwnStep

LEMMA OwnerStep ==
  TypeOK /\ ReadInv /\ StatusInv /\ OwnerInv /\ [Next]_vars => OwnerInv'
<1> SUFFICES ASSUME TypeOK, ReadInv, StatusInv, OwnerInv, [Next]_vars,
                    NEW t \in Targets, NEW i \in 1..Len(effects'[t])
             PROVE  status'[effects'[t][i][1]] # "none"
  BY DEF OwnerInv, HasRun
<1> DEFINE n == Len(effects[t])
<1>1. effects[t] \in Seq(Requests \X Nat)  BY DEF TypeOK
<1>2. CASE i \in 1..n /\ effects'[t][i] = effects[t][i]
  <2>1. effects[t][i][1] \in Requests  BY <1>1, <1>2
  <2>2. PICK o \in Requests : o = effects[t][i][1]  BY <2>1
  <2>3. HasRun(o)  BY <1>2, <2>2 DEF OwnerInv
  <2>4. HasRun(o)'  BY <2>3, RunKeepsPlan
  <2> QED BY <1>2, <2>2, <2>4 DEF HasRun
<1>3. ASSUME NEW o \in Requests, RunStep(o),
             effects' = [effects EXCEPT ![TargetOf(o)] = Append(@, Mark(o))]
      PROVE  \/ i \in 1..n /\ effects'[t][i] = effects[t][i]
             \/ status'[effects'[t][i][1]] # "none"
  <2>1. HasRun(o)  BY <1>3 DEF RunStep, StatusInv, HasRun
  <2>2. HasRun(o)'  BY <2>1, RunKeepsPlan
  <2>3. Mark(o) \in Requests \X Nat /\ Mark(o)[1] = o  BY DEF Mark, TypeOK
  <2>4. effects'[t] = effects[t] \/ effects'[t] = Append(effects[t], Mark(o))
    BY <1>3 DEF TypeOK
  <2> HIDE DEF n
  <2>5. CASE effects'[t] = effects[t]  BY <2>5 DEF n
  <2>6. CASE effects'[t] = Append(effects[t], Mark(o))
    <3>1. \/ i \in 1..n /\ effects'[t][i] = effects[t][i]
          \/ effects'[t][i] = Mark(o)
      BY <1>1, <2>3, <2>6 DEF n
    <3> QED BY <2>2, <2>3, <3>1 DEF HasRun
  <2> QED BY <2>4, <2>5, <2>6
<1>4. CASE UNCHANGED effects  BY <1>2, <1>4
<1> QED BY <1>2, <1>3, <1>4, EffectsStep

(* A run starts with an unmarked server.                                   *)
LEMMA FreshRun ==
  ASSUME TypeOK, ReadInv, StatusInv, OwnerInv, [Next]_vars,
         NEW r \in Requests, InsertRun(r)
  PROVE  Touched(r)' = {} /\ Touched(r) = {}
<1>1. /\ pc[r] = "insert" /\ ~HasRun(r) /\ status'[r] = "pending"
      /\ effects' = effects /\ reqPlan' = reqPlan
  BY DEF InsertRun, StatusInv, Gating, HasRun, TypeOK, reqVars
<1>2. TargetOf(r) \in Targets /\ TargetOf(r)' = TargetOf(r)
  BY <1>1, DeployRunAssumption DEF ReadInv, RequestInv, TargetOf
<1>3. \A i \in 1..Len(effects[TargetOf(r)]) : effects[TargetOf(r)][i][1] # r
  BY <1>1, <1>2 DEF OwnerInv
<1> QED BY <1>1, <1>2, <1>3 DEF Touched, HasRun

(* A run comes into being by InsertRun only.                               *)
LEMMA RunBorn ==
  ASSUME TypeOK, StatusInv, [Next]_vars, NEW r \in Requests,
         ~HasRun(r), status'[r] # "none"
  PROVE  InsertRun(r)
<1>1. CASE Prepare(r)
  BY <1>1 DEF Prepare, Execute, GateValidation, GateApproval, GateBusy,
              HasRun, runVars
<1>2. CASE Executor(r)
  BY <1>2 DEF Executor, CaptureRollback, StartRun, BeginStep, RunStep,
              SaveStep, FailRun, CompleteRun, Healthcheck, StatusInv, HasRun,
              Terminal
<1>3. CASE Untouched(r)  BY <1>3 DEF Untouched, HasRun
<1> QED BY <1>1, <1>2, <1>3, OwnStep

LEMMA MarkStep == PInv /\ [Next]_vars => MarkInv'
<1> SUFFICES ASSUME PInv, [Next]_vars, NEW r \in Requests, NEW d \in Touched(r)'
             PROVE  /\ pc'[r] \in {"prepared", "start", "step", "ssh"} =>
                         d[2] <= Len(steps'[r])
                    /\ d[2] <= Len(steps'[r]) + 1
  BY DEF MarkInv
<1> USE DEF PInv, IInv
<1>1. CASE ~HasRun(r)
  <2>1. status'[r] # "none"  BY DEF Touched
  <2>2. InsertRun(r)  BY <1>1, <2>1, RunBorn
  <2> QED BY <2>2, FreshRun
<1>2. CASE HasRun(r) /\ d \in Touched(r)
  <2>1. /\ d[2] \in Nat /\ d[2] <= Len(steps[r]) + 1
        /\ pc[r] \in {"prepared", "start", "step", "ssh"} => d[2] <= Len(steps[r])
    BY <1>2, TouchedRange DEF MarkInv
  <2>2. steps[r] \in Seq({"ok", "failed"})  BY DEF TypeOK
  <2>3. CASE SaveStep(r)
    <3>1. outcome[r] \in {"ok", "failed"}  BY <2>3 DEF SaveStep, ReadInv, RequestInv
    <3>2. steps'[r] = Append(steps[r], outcome[r])  BY <2>3 DEF SaveStep, TypeOK
    <3>3. Len(steps'[r]) = Len(steps[r]) + 1 /\ Len(steps[r]) \in Nat
      BY <2>2, <3>1, <3>2
    <3> QED BY <2>1, <3>3
  <2>4. CASE Executor(r) /\ ~SaveStep(r)
    <3>1. steps'[r] = steps[r]
      BY <2>4 DEF Executor, CaptureRollback, StartRun, BeginStep, RunStep,
                  FailRun, CompleteRun, Healthcheck, runVars
    <3>2. pc'[r] \in {"prepared", "start", "step", "ssh"} =>
            pc[r] \in {"prepared", "start", "step", "ssh"}
      BY <2>4 DEF Executor, CaptureRollback, StartRun, BeginStep, RunStep,
                  FailRun, CompleteRun, Healthcheck, TypeOK
    <3> QED BY <2>1, <3>1, <3>2
  <2>5. CASE Untouched(r)  BY <2>1, <2>5 DEF Untouched
  <2>6. ~Prepare(r)
    BY <1>2 DEF HasRun, StatusInv, Gating, Prepare, Execute, GateValidation,
                GateApproval, GateBusy, InsertRun
  <2> QED BY <2>3, <2>4, <2>5, <2>6, OwnStep
<1>3. CASE HasRun(r) /\ d \notin Touched(r)
  <2>1. RunStep(r) /\ d[2] = Len(steps[r]) + 1
    BY <1>3, TouchedStep
  <2>2. pc'[r] = "save" /\ steps'[r] = steps[r]
    BY <2>1 DEF RunStep, TypeOK, runVars
  <2>3. Len(steps[r]) \in Nat  BY DEF TypeOK
  <2> QED BY <2>1, <2>2, <2>3
<1> QED BY <1>1, <1>2, <1>3

LEMMA InitPInv == Init => PInv
<1> SUFFICES ASSUME Init PROVE PInv
  OBVIOUS
<1>1. IInv  BY InitIInv
<1>2. WorkInv  BY DEF Init, WorkInv
<1>3. OwnerInv  BY DEF Init, OwnerInv
<1>4. MarkInv  BY DEF Init, MarkInv, Touched
<1> QED BY <1>1, <1>2, <1>3, <1>4 DEF PInv

LEMMA NextPInv == PInv /\ [Next]_vars => PInv'
<1> SUFFICES ASSUME PInv, [Next]_vars PROVE PInv'
  OBVIOUS
<1>1. IInv'  BY NextIInv DEF PInv
<1>2. WorkInv'  BY WorkStep DEF PInv, IInv
<1>3. OwnerInv'  BY OwnerStep DEF PInv, IInv
<1>4. MarkInv'  BY MarkStep
<1> QED BY <1>1, <1>2, <1>3, <1>4 DEF PInv

-----------------------------------------------------------------------------
(* The refinement mapping *)

(* What the promise speaks of, for one run.                                *)
ContentOf(r) == IF status[r] = "none" THEN NoContent ELSE reqContent[r]

SameView(r) ==
    /\ status'[r] = status[r] /\ steps'[r] = steps[r]
    /\ ContentOf(r)' = ContentOf(r) /\ Touched(r)' = Touched(r)

LEMMA ViewKept ==
  ASSUME PInv, [Next]_vars, NEW r \in Requests,
         status'[r] = status[r], steps'[r] = steps[r],
         ~RunStep(r) \/ effects' = effects
  PROVE  SameView(r)
<1> USE DEF PInv, IInv
<1>1. CASE ~HasRun(r)
  BY <1>1 DEF SameView, HasRun, ContentOf, Touched
<1>2. CASE HasRun(r) /\ ~RunStep(r)
  BY <1>2, RunKeepsPlan, TouchedStep DEF SameView, HasRun, ContentOf
<1>3. CASE HasRun(r) /\ effects' = effects
  <2>1. TargetOf(r)' = TargetOf(r)  BY <1>3, RunKeepsPlan
  <2>2. Touched(r)' = Touched(r)  BY <1>3, <2>1 DEF Touched
  <2> QED BY <1>3, <2>2, RunKeepsPlan DEF SameView, HasRun, ContentOf
<1> QED BY <1>1, <1>2, <1>3

ContentView == [r \in Requests |-> ContentOf(r)]
TouchedView == [r \in Requests |-> Touched(r)]

(* A step of one request leaves the view of every other one alone.         *)
LEMMA OneView ==
  ASSUME PInv, [Next]_vars, NEW r \in Requests, Prepare(r) \/ Executor(r)
  PROVE  /\ ContentView' = [ContentView EXCEPT ![r] = ContentOf(r)']
         /\ TouchedView' = [TouchedView EXCEPT ![r] = Touched(r)']
<1>1. ASSUME NEW o \in Requests, o # r PROVE SameView(o)
  <2>1. /\ status'[o] = status[o] /\ steps'[o] = steps[o] /\ pc'[o] = pc[o]
        /\ pc \in [Requests -> PCs]
    BY <1>1 DEF PInv, IInv, TypeOK, Prepare, Execute, GateValidation,
         GateApproval, GateBusy, InsertRun, Executor, CaptureRollback,
         StartRun, BeginStep, RunStep, SaveStep, FailRun, CompleteRun,
         Healthcheck, runVars
  <2>2. ~RunStep(o)  BY <2>1 DEF RunStep
  <2> QED BY <2>1, <2>2, ViewKept
<1>2. \A o \in Requests : o # r =>
        ContentOf(o)' = ContentOf(o) /\ Touched(o)' = Touched(o)
  BY <1>1 DEF SameView
<1>3. /\ ContentView' = [o \in Requests |-> ContentOf(o)']
      /\ TouchedView' = [o \in Requests |-> Touched(o)']
  BY DEF ContentView, TouchedView
<1> QED BY <1>2, <1>3 DEF ContentView, TouchedView

(* A step of a request that changes neither its row, its log nor the       *)
(* server is invisible.                                                    *)
LEMMA Stutter ==
  ASSUME PInv, [Next]_vars, status' = status, steps' = steps, effects' = effects
  PROVE  UNCHANGED Promise!promiseVars
<1>1. \A o \in Requests : SameView(o)  BY ViewKept
<1>2. ContentView' = ContentView /\ TouchedView' = TouchedView
  BY <1>1 DEF SameView, ContentView, TouchedView
<1> QED BY <1>2 DEF Promise!promiseVars, ContentView, TouchedView, ContentOf

LEMMA RefInit == Init => Promise!Init
  BY DEF Init, Promise!Init, Touched

LEMMA RefStep == PInv /\ [Next]_vars => [Promise!Next]_(Promise!promiseVars)
<1> SUFFICES ASSUME PInv, [Next]_vars
             PROVE  Promise!Next \/ UNCHANGED Promise!promiseVars
  OBVIOUS
<1> USE DEF PInv, IInv
<1>1. ASSUME NEW r \in Requests, InsertRun(r) PROVE Promise!Queue(r)
  <2>1. /\ status[r] = "none" /\ status' = [status EXCEPT ![r] = "pending"]
        /\ steps' = steps /\ reqContent' = reqContent
        /\ reqContent[r] \in Contents
    BY <1>1 DEF InsertRun, reqVars, StatusInv, Gating, ReadInv, RequestInv
  <2>2. ContentOf(r)' = reqContent[r]  BY <2>1 DEF ContentOf, TypeOK
  <2>3. Touched(r)' = TouchedView[r]  BY <1>1, FreshRun DEF TouchedView
  <2>4. Prepare(r)  BY <1>1 DEF Prepare
  <2>5. /\ ContentView' = [ContentView EXCEPT ![r] = reqContent[r]]
        /\ TouchedView' = [TouchedView EXCEPT ![r] = TouchedView[r]]
    BY <2>2, <2>3, <2>4, OneView
  <2>6. TouchedView' = TouchedView  BY <2>5 DEF TouchedView
  <2> QED BY <2>1, <2>5, <2>6 DEF Promise!Queue, ContentView, TouchedView, ContentOf
<1>2. ASSUME NEW r \in Requests, StartRun(r) \/ FailRun(r) \/ CompleteRun(r)
      PROVE  Promise!Start(r) \/ Promise!Fail(r) \/ Promise!Complete(r)
  <2>1. Executor(r)  BY <1>2 DEF Executor
  <2>2. HasRun(r)
    BY <1>2 DEF StartRun, FailRun, CompleteRun, StatusInv, HasRun
  <2>3. steps' = steps /\ effects' = effects
    BY <1>2 DEF StartRun, FailRun, CompleteRun
  <2>4. TargetOf(r)' = TargetOf(r) /\ ContentOf(r)' = ContentOf(r)
    BY <2>2, RunKeepsPlan DEF HasRun, ContentOf
  <2>5. Touched(r)' = Touched(r)
    BY <2>2, <2>3, <2>4, RunKeepsPlan DEF Touched, HasRun
  <2>6. ContentView' = ContentView /\ TouchedView' = TouchedView
    BY <2>1, <2>4, <2>5, OneView DEF ContentView, TouchedView
  <2>7. CASE StartRun(r)
    <3>1. NeverRefused'  BY NextIInv
    <3>2. status[r] = "pending" /\ status' = [status EXCEPT ![r] = "running"]
      BY <2>7, <3>1 DEF StartRun, StatusInv, NeverRefused, TypeOK
    <3> QED BY <2>3, <2>6, <3>2 DEF Promise!Start, ContentView, TouchedView, ContentOf
  <2>8. CASE FailRun(r)
    <3>1. /\ status[r] = "running" /\ ~AllStepsOk(r)
          /\ status' = [status EXCEPT ![r] = "failed"]
      BY <2>8 DEF FailRun, StatusInv, WorkInv
    <3> QED BY <2>3, <2>6, <3>1
         DEF Promise!Fail, Promise!AllOk, AllStepsOk, ContentView, TouchedView, ContentOf
  <2>9. CASE CompleteRun(r)
    <3>1. /\ status[r] = "running" /\ AllStepsOk(r) /\ ~MoreSteps(r)
          /\ Len(steps[r]) <= Len(Actions[reqContent[r]])
          /\ status' = [status EXCEPT ![r] = "completed"]
      BY <2>9 DEF CompleteRun, StatusInv, WorkInv
    <3>2. reqContent[r] \in Contents  BY <2>2, RunKeepsPlan
    <3>3. Len(steps[r]) \in Nat /\ Len(Actions[reqContent[r]]) \in Nat
      BY <3>2, DeployRunAssumption DEF TypeOK
    <3>4. Len(steps[r]) = Len(Actions[reqContent[r]])
      BY <3>1, <3>3 DEF MoreSteps
    <3> QED BY <2>3, <2>6, <3>1, <3>2, <3>4
         DEF Promise!Complete, Promise!AllOk, AllStepsOk, ContentView, TouchedView, ContentOf
  <2> QED BY <1>2, <2>7, <2>8, <2>9
<1>3. ASSUME NEW r \in Requests, RunStep(r), effects' # effects
      PROVE  Promise!Touch(r)
  <2> DEFINE e == <<Len(effects[TargetOf(r)]) + 1, Len(steps[r]) + 1>>
  <2>1. Executor(r) /\ status' = status /\ steps' = steps
    BY <1>3 DEF RunStep, Executor, runVars
  <2>2. /\ pc[r] = "ssh" /\ status[r] = "running" /\ HasRun(r)
        /\ AllStepsOk(r) /\ MoreSteps(r)
    BY <1>3 DEF RunStep, StatusInv, HasRun, WorkInv, ReadInv, RequestInv
  <2>3. /\ TargetOf(r) \in Targets /\ reqContent[r] \in Contents
        /\ ContentOf(r)' = ContentOf(r)
    BY <2>2, RunKeepsPlan DEF HasRun, ContentOf
  <2>4. Touched(r)' = Touched(r) \cup {e}
    <3>1. effects' = [effects EXCEPT ![TargetOf(r)] = Append(@, Mark(r))]
      BY <1>3 DEF RunStep, Mark
    <3>2. Len(effects'[TargetOf(r)]) = Len(effects[TargetOf(r)]) + 1
      <4>1. effects[TargetOf(r)] \in Seq(Requests \X Nat)  BY <2>3 DEF TypeOK
      <4>2. Mark(r) \in Requests \X Nat  BY DEF Mark, TypeOK
      <4> QED BY <2>3, <3>1, <4>1, <4>2 DEF TypeOK
    <3> QED BY <2>2, <2>3, <3>1, <3>2, TouchedGrows
  <2>5. \A d \in Touched(r) : d[1] < e[1] /\ d[2] < e[2]
    <3> SUFFICES ASSUME NEW d \in Touched(r)
                 PROVE  d[1] < e[1] /\ d[2] < e[2]
      OBVIOUS
    <3>1. /\ d[1] \in Nat /\ d[2] \in Nat
          /\ d[1] <= Len(effects[TargetOf(r)]) /\ Len(effects[TargetOf(r)]) \in Nat
      BY TouchedRange
    <3>2. d[2] <= Len(steps[r])  BY <2>2 DEF MarkInv
    <3>3. Len(steps[r]) \in Nat  BY DEF TypeOK
    <3> QED BY <3>1, <3>2, <3>3
  <2>6. /\ ContentView' = ContentView
        /\ TouchedView' = [TouchedView EXCEPT ![r] = Touched(r) \cup {e}]
    BY <2>1, <2>3, <2>4, OneView DEF ContentView
  <2>7. e[2] = Len(steps[r]) + 1  OBVIOUS
  <2> HIDE DEF e
  <2>8. Promise!Working(r)
    BY <2>2, <2>3 DEF Promise!Working, Promise!AllOk, AllStepsOk, MoreSteps
  <2>9. e \in TouchedView'[r] /\ TouchedView[r] = Touched(r)
    BY <2>6 DEF TouchedView
  <2>10. TouchedView' = [TouchedView EXCEPT ![r] = @ \cup {e}]
    BY <2>6, <2>9
  <2> QED BY <2>1, <2>5, <2>6, <2>7, <2>8, <2>9, <2>10
       DEF Promise!Touch, ContentView, TouchedView, ContentOf
<1>4. ASSUME NEW r \in Requests, SaveStep(r) PROVE Promise!Report(r)
  <2>1. Executor(r) /\ status' = status /\ effects' = effects
    BY <1>4 DEF SaveStep, Executor
  <2>2. /\ pc[r] = "save" /\ status[r] = "running" /\ HasRun(r)
        /\ AllStepsOk(r) /\ MoreSteps(r) /\ outcome[r] \in {"ok", "failed"}
    BY <1>4 DEF SaveStep, StatusInv, HasRun, WorkInv, ReadInv, RequestInv
  <2>3. steps' = [steps EXCEPT ![r] = Append(@, outcome[r])]
    BY <1>4 DEF SaveStep
  <2>4. /\ reqContent[r] \in Contents /\ ContentOf(r)' = ContentOf(r)
        /\ TargetOf(r)' = TargetOf(r)
    BY <2>2, RunKeepsPlan DEF HasRun, ContentOf
  <2>5. Touched(r)' = Touched(r)
    BY <2>1, <2>2, <2>4, RunKeepsPlan DEF Touched, HasRun
  <2>6. ContentView' = ContentView /\ TouchedView' = TouchedView
    BY <2>1, <2>4, <2>5, OneView DEF ContentView, TouchedView
  <2>7. Promise!Working(r)
    BY <2>2, <2>4 DEF Promise!Working, Promise!AllOk, AllStepsOk, MoreSteps
  <2> QED BY <2>1, <2>2, <2>3, <2>6, <2>7
       DEF Promise!Report, ContentView, TouchedView, ContentOf
<1>5. \/ UNCHANGED <<status, steps, effects>>
      \/ \E r \in Requests :
           \/ InsertRun(r) \/ StartRun(r) \/ FailRun(r) \/ CompleteRun(r)
           \/ RunStep(r) /\ effects' # effects
           \/ SaveStep(r)
  <2>1. ASSUME NEW r \in Requests, Prepare(r), ~InsertRun(r)
        PROVE  UNCHANGED <<status, steps, effects>>
    BY <2>1 DEF Prepare, Execute, GateValidation, GateApproval, GateBusy, runVars
  <2>2. ASSUME NEW r \in Requests,
               \/ CaptureRollback(r) \/ Healthcheck(r)
               \/ RunStep(r) /\ effects' = effects
        PROVE  UNCHANGED <<status, steps, effects>>
    BY <2>2 DEF CaptureRollback, Healthcheck, RunStep, runVars
  <2>3. ASSUME NEW r \in Requests, BeginStep(r)
        PROVE  UNCHANGED <<status, steps, effects>>
    BY <2>3 DEF BeginStep, StatusInv, TypeOK
  <2>4. \/ UNCHANGED <<status, steps, effects>>
        \/ \E r \in Requests : Prepare(r) \/ Executor(r)
    BY DEF Next, vars, tableVars, opVars, runVars, RunInventory, CreatePlan,
         EditPlan, ValidateRead, ApproveRead, ValidateInsert, ApproveInsert, Crash
  <2> QED BY <2>1, <2>2, <2>3, <2>4 DEF Executor
<1> QED BY <1>1, <1>2, <1>3, <1>4, <1>5, Stutter DEF Promise!Next

(* DeployRun keeps the promise of DeployPromise: for every run the steps   *)
(* reach the server in order and at most once, each is reported before the *)
(* next begins, completed means that every step succeeded and failed that  *)
(* one did not, and neither report is ever rewritten.                      *)
THEOREM Implements == Spec => PromiseKept
<1>1. Init => PInv  BY InitPInv
<1>2. PInv /\ [Next]_vars => PInv'  BY NextPInv
<1> QED BY <1>1, <1>2, RefInit, RefStep, PTL DEF Spec, PromiseKept, Promise!Spec

-----------------------------------------------------------------------------
(* The step log and the server *)

(* The log of a run, by its status.                                        *)
LogTruth(r) ==
    /\ \A i \in 1..Len(steps[r]) - 1 : steps[r][i] = "ok"
    /\ status[r] = "completed" =>
         AllStepsOk(r) /\ Len(steps[r]) = Len(Actions[reqContent[r]])
    /\ status[r] = "failed" \/ pc[r] = "fail" =>
         steps[r] # <<>> /\ Latest(steps[r]) = "failed"

(* A remote action that succeeded, saved or about to be, left its mark.    *)
Remote(r, k) == Actions[reqContent[r]][k] \notin Local

Marked(r, k) == \E d \in Touched(r) : d[2] = k

MarkTruth(r) ==
    /\ \A d, e \in Touched(r) : d[1] < e[1] => d[2] < e[2]
    /\ \A k \in 1..Len(steps[r]) :
         steps[r][k] = "ok" /\ Remote(r, k) => Marked(r, k)
    /\ pc[r] = "save" /\ outcome[r] = "ok" /\ Remote(r, Len(steps[r]) + 1) =>
         Marked(r, Len(steps[r]) + 1)

TruthInv == \A r \in Requests : LogTruth(r) /\ MarkTruth(r)

LEMMA LogTruthStep ==
  ASSUME PInv, TruthInv, [Next]_vars, NEW r \in Requests
  PROVE  LogTruth(r)'
<1> USE DEF PInv, IInv
<1>0. LogTruth(r) /\ steps[r] \in Seq({"ok", "failed"})
  BY DEF TruthInv, TypeOK
<1>1. CASE SaveStep(r)
  <2>1. /\ pc[r] = "save" /\ status[r] = "running" /\ status'[r] = "running"
        /\ outcome[r] \in {"ok", "failed"} /\ AllStepsOk(r)
        /\ steps'[r] = Append(steps[r], outcome[r])
        /\ pc'[r] = "fail" => outcome[r] = "failed"
    BY <1>1 DEF SaveStep, StatusInv, ReadInv, RequestInv, WorkInv, TypeOK
  <2>2. /\ Len(steps'[r]) = Len(steps[r]) + 1 /\ Len(steps[r]) \in Nat
        /\ steps'[r][Len(steps'[r])] = outcome[r] /\ steps'[r] # <<>>
        /\ \A i \in 1..Len(steps[r]) : steps'[r][i] = steps[r][i]
    BY <1>0, <2>1
  <2>3. \A i \in 1..Len(steps'[r]) - 1 : steps'[r][i] = "ok"
    BY <2>1, <2>2 DEF AllStepsOk
  <2> QED BY <2>1, <2>2, <2>3 DEF LogTruth, Latest
<1>2. CASE CompleteRun(r)
  <2>1. /\ pc[r] = "step" /\ AllStepsOk(r) /\ ~MoreSteps(r)
        /\ Len(steps[r]) <= Len(Actions[reqContent[r]])
        /\ steps'[r] = steps[r] /\ reqContent'[r] = reqContent[r]
        /\ status'[r] = "completed" /\ pc'[r] = "health"
        /\ reqContent[r] \in Contents
    BY <1>2 DEF CompleteRun, WorkInv, TypeOK, reqVars, ReadInv, RequestInv
  <2>2. Len(steps[r]) = Len(Actions[reqContent[r]])
    <3>1. Len(steps[r]) \in Nat /\ Len(Actions[reqContent[r]]) \in Nat
      BY <2>1, DeployRunAssumption DEF TypeOK
    <3> QED BY <2>1, <3>1 DEF MoreSteps
  <2> QED BY <1>0, <2>1, <2>2 DEF LogTruth, AllStepsOk
<1>3. CASE FailRun(r)
  <2>1. /\ pc[r] = "fail" /\ steps'[r] = steps[r]
        /\ status'[r] = "failed" /\ pc'[r] = "done"
    BY <1>3 DEF FailRun, TypeOK
  <2> QED BY <1>0, <2>1 DEF LogTruth, Latest
<1>4. CASE /\ steps'[r] = steps[r] /\ reqContent'[r] = reqContent[r]
           /\ status'[r] \in {"completed", "failed"} => status'[r] = status[r]
           /\ pc'[r] = "fail" => pc[r] = "fail"
  BY <1>0, <1>4 DEF LogTruth, AllStepsOk, Latest
<1>5. CASE Executor(r)
  <2>1. CASE CaptureRollback(r) \/ StartRun(r) \/ BeginStep(r) \/ RunStep(r)
             \/ Healthcheck(r)
    BY <1>4, <2>1 DEF CaptureRollback, StartRun, BeginStep, RunStep,
         Healthcheck, TypeOK, reqVars, runVars
  <2> QED BY <1>1, <1>2, <1>3, <1>5, <2>1 DEF Executor
<1>6. CASE Prepare(r)
  <2>1. /\ status[r] = "none" /\ steps'[r] = steps[r] /\ steps[r] = <<>>
        /\ status'[r] \in {"none", "pending"} /\ pc'[r] # "fail"
    BY <1>6 DEF Prepare, Execute, GateValidation, GateApproval, GateBusy,
         InsertRun, TypeOK, StatusInv, Gating, WorkInv, runVars
  <2> QED BY <2>1 DEF LogTruth
<1>7. CASE Untouched(r)  BY <1>4, <1>7 DEF Untouched
<1> QED BY <1>5, <1>6, <1>7, OwnStep

LEMMA MarkTruthStep ==
  ASSUME PInv, TruthInv, [Next]_vars, NEW r \in Requests
  PROVE  MarkTruth(r)'
<1> USE DEF PInv, IInv
<1>0. MarkTruth(r) /\ steps[r] \in Seq({"ok", "failed"}) /\ Len(steps[r]) \in Nat
  BY DEF TruthInv, TypeOK
<1>1. CASE ~HasRun(r)
  <2>1. steps[r] = <<>>  BY <1>1 DEF HasRun, WorkInv
  <2>2. Touched(r)' = {} /\ steps'[r] = <<>> /\ pc'[r] # "save"
    <3>1. CASE InsertRun(r)
      BY <2>1, <3>1, FreshRun DEF InsertRun, TypeOK
    <3>2. CASE ~InsertRun(r)
      <4>1. status'[r] = "none"  BY <1>1, <3>2, RunBorn
      <4>2. ~Executor(r)
        BY <1>1 DEF Executor, CaptureRollback, StartRun, BeginStep, RunStep,
             SaveStep, FailRun, CompleteRun, Healthcheck, StatusInv, HasRun,
             Terminal
      <4>3. CASE Prepare(r)
        BY <2>1, <3>2, <4>1, <4>3 DEF Touched, Prepare, Execute,
           GateValidation, GateApproval, GateBusy, TypeOK, runVars
      <4>4. CASE Untouched(r)
        BY <1>1, <2>1, <4>1, <4>4 DEF Touched, Untouched, HasRun, StatusInv
      <4> QED BY <4>2, <4>3, <4>4, OwnStep
    <3> QED BY <3>1, <3>2
  <2> QED BY <2>2 DEF MarkTruth
<1>2. ASSUME HasRun(r)
      PROVE  /\ reqContent'[r] = reqContent[r] /\ ~Prepare(r)
             /\ \A k : Remote(r, k)' = Remote(r, k)
  <2>1. reqContent'[r] = reqContent[r]  BY <1>2, RunKeepsPlan
  <2>2. ~Prepare(r)
    BY <1>2 DEF HasRun, StatusInv, Gating, Prepare, Execute, GateValidation,
                GateApproval, GateBusy, InsertRun
  <2> QED BY <2>1, <2>2 DEF Remote
<1>3. CASE HasRun(r) /\ SaveStep(r)
  <2>1. /\ steps'[r] = Append(steps[r], outcome[r]) /\ pc[r] = "save"
        /\ pc'[r] # "save" /\ outcome[r] \in {"ok", "failed"}
    BY <1>3 DEF SaveStep, TypeOK, ReadInv, RequestInv
  <2>2. /\ Len(steps'[r]) = Len(steps[r]) + 1
        /\ steps'[r][Len(steps[r]) + 1] = outcome[r]
        /\ \A i \in 1..Len(steps[r]) : steps'[r][i] = steps[r][i]
        /\ 1..Len(steps'[r]) = 1..Len(steps[r]) \cup {Len(steps[r]) + 1}
    BY <1>0, <2>1
  <2>3. ~RunStep(r)  BY <2>1 DEF RunStep
  <2>4. Touched(r)' = Touched(r)  BY <1>3, <2>3, TouchedStep
  <2>5. \A k : Marked(r, k)' = Marked(r, k)  BY <2>4 DEF Marked
  <2> QED BY <1>0, <1>2, <1>3, <2>1, <2>2, <2>4, <2>5 DEF MarkTruth
<1>4. CASE HasRun(r) /\ RunStep(r)
  <2>1. /\ steps'[r] = steps[r] /\ pc[r] = "ssh" /\ pc'[r] = "save"
    BY <1>4 DEF RunStep, TypeOK, runVars
  <2> DEFINE e == <<Len(effects[TargetOf(r)]) + 1, Len(steps[r]) + 1>>
  <2>2. \/ Touched(r)' = Touched(r)
        \/ Touched(r)' = Touched(r) \cup {e}
    BY <1>4, TouchedStep
  <2>3. \A k : Marked(r, k) => Marked(r, k)'  BY <2>2 DEF Marked
  <2>4. \A d \in Touched(r) : d[1] < e[1] /\ d[2] < e[2] /\ ~(e[1] < d[1])
    <3> SUFFICES ASSUME NEW d \in Touched(r)
                 PROVE  d[1] < e[1] /\ d[2] < e[2] /\ ~(e[1] < d[1])
      OBVIOUS
    <3>1. /\ d[1] \in Nat /\ d[2] \in Nat
          /\ d[1] <= Len(effects[TargetOf(r)]) /\ Len(effects[TargetOf(r)]) \in Nat
      BY TouchedRange
    <3>2. d[2] <= Len(steps[r])  BY <2>1 DEF MarkInv
    <3> QED BY <1>0, <3>1, <3>2
  <2>5. ~(e[1] < e[1])
    <3>1. TargetOf(r) \in Targets  BY <1>4, RunKeepsPlan
    <3>2. Len(effects[TargetOf(r)]) \in Nat  BY <3>1 DEF TypeOK
    <3> QED BY <3>2
  <2>6. outcome'[r] = "ok" /\ Remote(r, Len(steps[r]) + 1) =>
          Marked(r, Len(steps[r]) + 1)'
    <3> SUFFICES ASSUME outcome'[r] = "ok", Remote(r, Len(steps[r]) + 1)
                 PROVE  Marked(r, Len(steps[r]) + 1)'
      OBVIOUS
    <3>1. NextAction(r) \notin Local  BY DEF Remote, NextAction
    <3>2. effects' = [effects EXCEPT ![TargetOf(r)] = Append(@, Mark(r))]
      BY <1>4, <3>1 DEF RunStep, Mark, TypeOK
    <3>3. TargetOf(r) \in Targets  BY <1>4, RunKeepsPlan
    <3>4. Len(effects'[TargetOf(r)]) = Len(effects[TargetOf(r)]) + 1
      <4>1. effects[TargetOf(r)] \in Seq(Requests \X Nat)  BY <3>3 DEF TypeOK
      <4>2. Mark(r) \in Requests \X Nat  BY DEF Mark, TypeOK
      <4> QED BY <3>2, <3>3, <4>1, <4>2 DEF TypeOK
    <3>5. Touched(r)' = Touched(r) \cup {e}  BY <1>4, <3>2, <3>4, TouchedGrows
    <3>6. e \in Touched(r)' /\ e[2] = Len(steps[r]) + 1  BY <3>5
    <3> QED BY <2>1, <3>6 DEF Marked
  <2> HIDE DEF e
  <2>7. \A d, f \in Touched(r)' : d[1] < f[1] => d[2] < f[2]
    BY <1>0, <2>2, <2>4, <2>5 DEF MarkTruth
  <2> QED BY <1>0, <1>2, <1>4, <2>1, <2>3, <2>6, <2>7 DEF MarkTruth
<1>5. CASE HasRun(r) /\ ~SaveStep(r) /\ ~RunStep(r)
  <2>1. /\ steps'[r] = steps[r]
        /\ pc'[r] = "save" => pc[r] = "save" /\ outcome'[r] = outcome[r]
    <3>1. CASE Executor(r)
      BY <1>5, <3>1 DEF Executor, CaptureRollback, StartRun, BeginStep,
         FailRun, CompleteRun, Healthcheck, TypeOK, runVars
    <3>2. CASE Untouched(r)  BY <3>2 DEF Untouched
    <3> QED BY <1>2, <1>5, <3>1, <3>2, OwnStep
  <2>2. Touched(r)' = Touched(r)  BY <1>5, TouchedStep
  <2>3. \A k : Marked(r, k)' = Marked(r, k)  BY <2>2 DEF Marked
  <2> QED BY <1>0, <1>2, <1>5, <2>1, <2>2, <2>3 DEF MarkTruth
<1> QED BY <1>1, <1>3, <1>4, <1>5

LEMMA InitTruth == Init => TruthInv
  BY DEF Init, TruthInv, LogTruth, MarkTruth, Touched

LEMMA TruthMeans == PInv /\ TruthInv => StepLogFaithful
<1> SUFFICES ASSUME PInv, TruthInv, NEW r \in Requests
             PROVE  /\ \A i \in 1..Len(steps[r]) - 1 : steps[r][i] = "ok"
                    /\ status[r] = "completed" =>
                         /\ Len(steps[r]) = Len(Actions[reqContent[r]])
                         /\ \A i \in 1..Len(steps[r]) : steps[r][i] = "ok"
                    /\ status[r] = "failed" =>
                         steps[r] # <<>> /\ Latest(steps[r]) = "failed"
                    /\ status[r] # "none" =>
                         LET log == effects[TargetOf(r)]
                             mine == {i \in 1..Len(log) : log[i][1] = r}
                         IN  /\ \A i \in mine : log[i][2] <= Len(steps[r]) + 1
                             /\ \A i, j \in mine : i < j => log[i][2] < log[j][2]
                             /\ \A k \in 1..Len(steps[r]) :
                                  steps[r][k] = "ok" /\ Actions[reqContent[r]][k] \notin Local
                                    => \E i \in mine : log[i][2] = k
  BY DEF StepLogFaithful
<1>1. LogTruth(r) /\ MarkTruth(r)  BY DEF TruthInv
<1>2. ASSUME status[r] # "none"
      PROVE  LET log == effects[TargetOf(r)]
                 mine == {i \in 1..Len(log) : log[i][1] = r}
             IN  /\ \A i \in mine : log[i][2] <= Len(steps[r]) + 1
                 /\ \A i, j \in mine : i < j => log[i][2] < log[j][2]
                 /\ \A k \in 1..Len(steps[r]) :
                      steps[r][k] = "ok" /\ Actions[reqContent[r]][k] \notin Local
                        => \E i \in mine : log[i][2] = k
  <2> DEFINE log == effects[TargetOf(r)]
             mine == {i \in 1..Len(log) : log[i][1] = r}
  <2>1. Touched(r) = {<<i, log[i][2]>> : i \in mine}  BY <1>2 DEF Touched
  <2>2. \A i \in mine : <<i, log[i][2]>> \in Touched(r)  BY <2>1
  <2>3. \A d \in Touched(r) : d[1] \in mine /\ log[d[1]][2] = d[2]  BY <2>1
  <2> HIDE DEF log, mine
  <2>4. \A i \in mine : log[i][2] <= Len(steps[r]) + 1
    BY <2>2 DEF PInv, MarkInv
  <2>5. \A i, j \in mine : i < j => log[i][2] < log[j][2]
    BY <1>1, <2>2 DEF MarkTruth
  <2>6. ASSUME NEW k \in 1..Len(steps[r]),
               steps[r][k] = "ok" /\ Actions[reqContent[r]][k] \notin Local
        PROVE  \E i \in mine : log[i][2] = k
    <3>1. Marked(r, k)  BY <1>1, <2>6 DEF MarkTruth, Remote
    <3> QED BY <2>3, <3>1 DEF Marked
  <2> QED BY <2>4, <2>5, <2>6 DEF log, mine
<1> QED BY <1>1, <1>2 DEF LogTruth, AllStepsOk

(* deployment_run_steps: a completed run has one ok row per action, a      *)
(* failed one stops at its failure, every ok row of a remote action        *)
(* happened on the target, in order and once, and at most the step in      *)
(* flight happened without a row.                                          *)
THEOREM StepLogTrue == Spec => []StepLogFaithful
<1>1. Init => PInv /\ TruthInv  BY InitPInv, InitTruth
<1>2. PInv /\ TruthInv /\ [Next]_vars => PInv' /\ TruthInv'
  <2> SUFFICES ASSUME PInv, TruthInv, [Next]_vars PROVE PInv' /\ TruthInv'
    OBVIOUS
  <2>1. PInv'  BY NextPInv
  <2>2. \A r \in Requests : LogTruth(r)' /\ MarkTruth(r)'
    BY LogTruthStep, MarkTruthStep
  <2> QED BY <2>1, <2>2 DEF TruthInv
<1> QED BY <1>1, <1>2, TruthMeans, PTL DEF Spec

-----------------------------------------------------------------------------
(* Interleaved runs *)

(* Whoever marks a server after another run was not seen by that run's     *)
(* guard: what the guard saw was over for good.                            *)
RaceInv ==
    \A t \in Targets : \A i, j \in 1..Len(effects[t]) :
        i < j /\ effects[t][i][1] # effects[t][j][1] =>
            effects[t][j][1] \notin seen[effects[t][i][1]]

(* What a run's guard saw does not change.                                 *)
LEMMA SeenKept ==
  ASSUME TypeOK, StatusInv, [Next]_vars, NEW r \in Requests, HasRun(r)
  PROVE  seen'[r] = seen[r]
<1>1. CASE Prepare(r)
  BY <1>1 DEF HasRun, StatusInv, Gating, Prepare, Execute, GateValidation,
     GateApproval, GateBusy, InsertRun
<1>2. CASE Executor(r)
  BY <1>2 DEF Executor, CaptureRollback, StartRun, BeginStep, RunStep,
              SaveStep, FailRun, CompleteRun, Healthcheck, reqVars
<1>3. CASE Untouched(r)  BY <1>3 DEF Untouched
<1> QED BY <1>1, <1>2, <1>3, OwnStep

LEMMA RaceStep == PInv /\ RaceInv /\ [Next]_vars => RaceInv'
<1> SUFFICES ASSUME PInv, RaceInv, [Next]_vars, NEW t \in Targets,
                    NEW i \in 1..Len(effects'[t]), NEW j \in 1..Len(effects'[t]),
                    i < j, effects'[t][i][1] # effects'[t][j][1]
             PROVE  effects'[t][j][1] \notin seen'[effects'[t][i][1]]
  BY DEF RaceInv
<1> USE DEF PInv, IInv
<1> DEFINE n == Len(effects[t])
<1>1. effects[t] \in Seq(Requests \X Nat) /\ n \in Nat  BY DEF TypeOK
<1>2. \A k \in 1..n : effects[t][k][1] \in Requests /\ HasRun(effects[t][k][1])
  BY <1>1 DEF OwnerInv
<1>3. ASSUME NEW k \in 1..n
      PROVE  seen'[effects[t][k][1]] = seen[effects[t][k][1]]
  <2>1. PICK o \in Requests : o = effects[t][k][1] /\ HasRun(o)  BY <1>2
  <2>2. seen'[o] = seen[o]  BY <2>1, SeenKept
  <2> QED BY <2>1, <2>2
<1>4. CASE effects'[t] = effects[t]
  <2>1. i \in 1..n /\ j \in 1..n  BY <1>4
  <2>2. effects[t][j][1] \notin seen[effects[t][i][1]]  BY <1>4, <2>1 DEF RaceInv
  <2> QED BY <1>3, <1>4, <2>1, <2>2
<1>5. ASSUME NEW o \in Requests, RunStep(o),
             effects'[t] = Append(effects[t], Mark(o))
      PROVE  effects'[t][j][1] \notin seen'[effects'[t][i][1]]
  <2>1. Mark(o) \in Requests \X Nat /\ Mark(o)[1] = o  BY DEF Mark, TypeOK
  <2>2. /\ Len(effects'[t]) = n + 1 /\ effects'[t][n + 1] = Mark(o)
        /\ \A k \in 1..n : effects'[t][k] = effects[t][k]
    BY <1>1, <1>5, <2>1
  <2>3. i \in 1..n /\ effects'[t][i] = effects[t][i]  BY <1>1, <2>2
  <2>4. CASE j \in 1..n
    <3>1. effects[t][j][1] \notin seen[effects[t][i][1]]
      BY <2>2, <2>3, <2>4 DEF RaceInv
    <3> QED BY <1>3, <2>2, <2>3, <2>4, <3>1
  <2>5. CASE j = n + 1
    <3>1. PICK a \in Requests : a = effects[t][i][1] /\ HasRun(a)  BY <1>2, <2>3
    <3>2. status[o] = "running"  BY <1>5 DEF RunStep, StatusInv
    <3>3. o \notin seen[a]
      BY <3>1, <3>2 DEF GuardHonest, HasRun, Terminal
    <3>4. seen'[a] = seen[a]  BY <3>1, SeenKept
    <3> QED BY <2>1, <2>2, <2>3, <2>5, <3>1, <3>3, <3>4
  <2> QED BY <1>1, <2>2, <2>4, <2>5
<1>6. \/ effects'[t] = effects[t]
      \/ \E o \in Requests : RunStep(o) /\ effects'[t] = Append(effects[t], Mark(o))
  <2>1. ASSUME NEW o \in Requests, RunStep(o),
               effects' = [effects EXCEPT ![TargetOf(o)] = Append(@, Mark(o))]
        PROVE  effects'[t] = effects[t] \/ effects'[t] = Append(effects[t], Mark(o))
    BY <2>1 DEF TypeOK
  <2> QED BY <2>1, EffectsStep
<1> QED BY <1>4, <1>5, <1>6

(* The single-flight guard's effect on the server: the steps of two runs   *)
(* interleave on one target only if neither was visible to the other.      *)
THEOREM RacesOnly == Spec => []InterleavingOnlyFromRace
<1>1. Init => PInv /\ RaceInv
  BY InitPInv DEF Init, RaceInv
<1>2. PInv /\ RaceInv /\ [Next]_vars => PInv' /\ RaceInv'
  BY NextPInv, RaceStep
<1>3. PInv /\ RaceInv => InterleavingOnlyFromRace
  <2> SUFFICES ASSUME PInv, RaceInv, NEW t \in Targets,
                      NEW i \in 1..Len(effects[t]), NEW j \in 1..Len(effects[t]),
                      NEW k \in 1..Len(effects[t]), i < j, j < k,
                      effects[t][i][1] = effects[t][k][1],
                      effects[t][i][1] # effects[t][j][1]
               PROVE  /\ effects[t][j][1] \notin seen[effects[t][i][1]]
                      /\ effects[t][i][1] \notin seen[effects[t][j][1]]
    BY DEF InterleavingOnlyFromRace
  <2> QED BY DEF RaceInv
<1> QED BY <1>1, <1>2, <1>3, PTL DEF Spec

=============================================================================
