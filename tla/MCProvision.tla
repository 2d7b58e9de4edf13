---------------------------- MODULE MCProvision ----------------------------
(* Small instances of Provision: two planning runs of one project, which   *)
(* may be deleted; one each of two projects; a run of a project with       *)
(* credentials of its own.                                                 *)
EXTENDS Provision, TLC

CONSTANTS p1, p2, p3, p4, r1, r2, r3, r4, r5, t1, t2

MCProjectOf == (r1 :> p1) @@ (r2 :> p1) @@ (r3 :> p2) @@ (r4 :> p3) @@ (r5 :> p4)
MCAnswers   == {{}, {t1}, {t1, t2}}
MCSharedRoles == <<"anon", "service_role">>
MCMixes     == {{r1, r2}, {r3, r4}, {r5}}
=============================================================================
