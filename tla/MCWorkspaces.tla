---------------------------- MODULE MCWorkspaces ----------------------------
(* Small instances of Workspaces: two builder runs of one project, one of  *)
(* them a rework, and previews of two projects.                            *)
EXTENDS Workspaces, TLC

CONSTANTS b1, b2, v1, v2, v3, i1, i2, p1, p2

MCFix       == (b1 :> i1) @@ (b2 :> i2)
MCShows     == (v1 :> i1) @@ (v2 :> Main) @@ (v3 :> Main)
MCProjectOf == (v1 :> p1) @@ (v2 :> p1) @@ (v3 :> p2)
MCPorts     == 1..2
MCWorked    == {{i2}, {i1, i2}}
MCMixes     == {{b1, b2}, {v1, v2, v3}, {b1, v1}}
=============================================================================
