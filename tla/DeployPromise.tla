---------------------------- MODULE DeployPromise ----------------------------
(***************************************************************************)
(* What the deployment service promises whoever asked for a deployment: a  *)
(* run works through its plan in order, each step reaches the server at    *)
(* most once and is reported before the next one begins, a run is reported *)
(* completed when every step succeeded and failed when one did not, and    *)
(* that report is final.  How requests are gated, how the task is          *)
(* scheduled and what a restart loses is not part of the promise.          *)
(***************************************************************************)
EXTENDS Naturals, Sequences

CONSTANTS Runs, Contents, NoContent, Steps

VARIABLES
    state,     \* what the client reads of the run
    content,   \* the plan content it executes
    log,       \* the results reported, in order
    touched    \* <<when, step>>: what the server saw of the run

promiseVars == <<state, content, log, touched>>

Init ==
    /\ state = [r \in Runs |-> "none"]
    /\ content = [r \in Runs |-> NoContent]
    /\ log = [r \in Runs |-> <<>>]
    /\ touched = [r \in Runs |-> {}]

AllOk(r) == \A i \in 1..Len(log[r]) : log[r][i] = "ok"

Working(r) == state[r] = "running" /\ AllOk(r) /\ Len(log[r]) < Steps[content[r]]

Queue(r) ==
    /\ state[r] = "none"
    /\ \E c \in Contents : content' = [content EXCEPT ![r] = c]
    /\ state' = [state EXCEPT ![r] = "pending"]
    /\ UNCHANGED <<log, touched>>

Start(r) ==
    /\ state[r] = "pending"
    /\ state' = [state EXCEPT ![r] = "running"]
    /\ UNCHANGED <<content, log, touched>>

(* The next step reaches the server, after all that reached it before.     *)
Touch(r) ==
    /\ Working(r)
    /\ \E e \in touched'[r] :
          /\ e[2] = Len(log[r]) + 1
          /\ \A d \in touched[r] : d[1] < e[1] /\ d[2] < e[2]
          /\ touched' = [touched EXCEPT ![r] = @ \cup {e}]
    /\ UNCHANGED <<state, content, log>>

Report(r) ==
    /\ Working(r)
    /\ \E o \in {"ok", "failed"} : log' = [log EXCEPT ![r] = Append(@, o)]
    /\ UNCHANGED <<state, content, touched>>

Complete(r) ==
    /\ state[r] = "running" /\ AllOk(r) /\ Len(log[r]) = Steps[content[r]]
    /\ state' = [state EXCEPT ![r] = "completed"]
    /\ UNCHANGED <<content, log, touched>>

Fail(r) ==
    /\ state[r] = "running" /\ ~AllOk(r)
    /\ state' = [state EXCEPT ![r] = "failed"]
    /\ UNCHANGED <<content, log, touched>>

Next == \E r \in Runs :
    Queue(r) \/ Start(r) \/ Touch(r) \/ Report(r) \/ Complete(r) \/ Fail(r)

Spec == Init /\ [][Next]_promiseVars
=============================================================================
