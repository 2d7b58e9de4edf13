---------------------------- MODULE MCDeployPlan ----------------------------
(***************************************************************************)
(* Instances of DeployPlan for TLC: one server of each kind the detectors  *)
(* tell apart, requests that reach every branch of the planner and every   *)
(* parameter check, and answers of each class.                             *)
(***************************************************************************)
EXTENDS DeployPlan

Bare == [seat |-> [k \in Kinds |-> "absent"], other |-> FALSE, apps |-> FALSE,
         kamal |-> {}, routed |-> FALSE, compose |-> TRUE]
With(k, seat) == [Bare EXCEPT !.seat[k] = seat]

MCServers ==
    {[Bare EXCEPT !.apps = TRUE, !.other = TRUE, !.compose = FALSE], Bare,
     [With("traefik", "edge") EXCEPT !.routed = TRUE, !.seat.nginx = "inner",
                                     !.kamal = {"containers", "network"}],
     With("kamal_proxy", "edge"), [With("traefik", "edge") EXCEPT !.seat.caddy = "edge"],
     [With("nginx", "host") EXCEPT !.seat.traefik = "inner"]}

Plain == [prefers |-> "auto_detect", path |-> "absolute", content |-> "fits",
          name |-> "plain", domain |-> "none"]
MCRequests ==
    {Plain,
     [Plain EXCEPT !.prefers = "docker_compose_with_host_port", !.domain = "lower"],
     [Plain EXCEPT !.prefers = "docker_compose_with_host_port", !.content = "oversize"],
     [Plain EXCEPT !.prefers = "docker_compose_private", !.name = "underscore",
                   !.domain = "mixed"],
     [Plain EXCEPT !.prefers = "existing_traefik", !.path = "none"]}

Says(s, r, q) == [strategy |-> s, risk |-> r, asks |-> q]
MCAnswers == {Says("reuse_existing_traefik", "low", FALSE),
              Says("docker_compose_with_host_port", "high", FALSE),
              Says("abort", "blocked", TRUE), Says("other", "other", FALSE)}

MCConfigs ==
    {[order |-> <<"gordon", "docker_agent", "litellm">>,
      enabled |-> {"docker_agent", "litellm"}, required |-> FALSE],
     [order |-> <<"gordon", "model_runner">>,
      enabled |-> {"model_runner"}, required |-> TRUE]}
=============================================================================
