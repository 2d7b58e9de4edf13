----------------------------- MODULE MCDeployRun -----------------------------
(***************************************************************************)
(* Instances of DeployRun for TLC.  "compose" is an ordinary content of a *)
(* plan, "edited" one that gets a warning and has a local action only,     *)
(* "risky" one whose risk_level is blocked, "login" one that names an      *)
(* unimplemented action.                                                   *)
(***************************************************************************)
EXTENDS DeployRun, TLC

MCActionTypes == {"UPLOAD", "MARK", "UP", "LOGIN", "SHELL"}
MCForbidden == {"SHELL"}
MCNotImplemented == {"LOGIN"}
MCLocal == {"MARK"}

MCContents == {"compose", "edited", "risky", "login"}
MCActionsOf == [compose |-> <<"UPLOAD", "UP">>,
                edited |-> <<"MARK">>,
                risky |-> <<"UP">>, login |-> <<"LOGIN">>]
MCActions == [c \in Contents |-> MCActionsOf[c]]
MCBlockedRisk == {"risky"} \cap Contents

\* The host port of the plan is taken in snapshot "busy" and free in "free".
MCChecks == [c \in Contents |->
               [s \in Snapshots \cup {NoSnapshot} |->
                  IF s = "busy" THEN "blocked"
                  ELSE IF c = "compose" THEN "passed" ELSE "warning"]]

CONSTANT t1
OneTarget == [p \in Plans |-> t1]

Symmetry == Permutations(Requests)
=============================================================================
