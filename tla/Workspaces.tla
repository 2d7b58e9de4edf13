------------------------------ MODULE Workspaces ------------------------------
(***************************************************************************)
(* The working copies of a project on the orchestrator's disk: the clone   *)
(* every builder run of the project works in (builder/agent_sdk.py,        *)
(* workspace/<project>/repo-agent-sdk), the clone every preview of the     *)
(* project is built from (preview.py, workspace/<project>/preview-repo),   *)
(* the preview containers and the branches at GitHub between them.         *)
(*                                                                         *)
(* Nothing locks a clone.  A builder awaits every git command, so another  *)
(* builder may run its own between any two; a preview calls git and docker *)
(* without awaiting, and yields only where it writes the activity log.     *)
(*                                                                         *)
(* A commit is the run that made it, the issue for the work of a run       *)
(* before these, or Person; a branch is the set of commits on it beyond    *)
(* the default branch, empty for one that does not exist at GitHub.  The   *)
(* builders are those of one project.                                      *)
(***************************************************************************)
EXTENDS Naturals, FiniteSets

CONSTANTS
    Issues, Main, Person,
    Builders, Fix,        \* builder runs, and the issue each one implements
    Reworks,              \* those for an issue that has a pull request already
    Previews, Shows,      \* preview runs, and the branch each one shows
    Automatic,            \* those a sync starts because every issue is done
    Projects, ProjectOf,  \* and the project of each preview
    Ports,                \* port_range_start .. port_range_end
    HostName,             \* stands for the Traefik host name of a project
    Worked,               \* bound: the sets of issues that have a branch at first
    Mixes,                \* bound: the runs that may be asked for together
    MaxTurns,             \* max_iterations of the tool loop
    MaxDisturbed          \* bound: pushes of a person and restarts

Branches == Issues \cup {Main}
Commits  == Issues \cup Builders \cup {Person}

ASSUME WorkspacesAssumption ==
    /\ Main \notin Issues /\ Person \notin Branches
    /\ Builders \cap (Branches \cup {Person}) = {} /\ Builders \cap Previews = {}
    /\ Fix \in [Builders -> Issues] /\ Reworks \subseteq Builders
    /\ Shows \in [Previews -> Branches] /\ Automatic \subseteq Previews
    /\ ProjectOf \in [Previews -> Projects]
    /\ Ports \subseteq Nat \ {0} /\ IsFiniteSet(Ports)
    /\ HostName \in Nat \ (Ports \cup {0})
    /\ Worked \subseteq SUBSET Issues
    /\ Mixes \subseteq SUBSET (Builders \cup Previews)
    /\ {MaxTurns, MaxDisturbed} \subseteq Nat

VARIABLES
    asked,     \* the runs of this behaviour
    traefik,   \* preview_base_domain is set
    remote,    \* branches at GitHub
    clone,     \* repo-agent-sdk: [there, head, have, local, tracking,
               \* edited, fresh, staged, artifacts]: the runs that edited
               \* files, left new ones, or have either in the index; have:
               \* local branches; artifacts: what builds left, see Artifacts
    bpc,       \* where each builder is
    bview,     \* locals of each builder: [onRemote, wrote, turns, paths]
    base,      \* history: origin/<branch> after the builder's fetch
    pushed,    \* history: [over, commits] of a successful push
    met,       \* history: runs that shared a clone with another run
    tree,      \* preview-repo of each project: [there, branch, known refs]
    container, \* preview container of each project: [up, address, by, shows],
               \* by the preview that started it
    url,       \* projects.preview_url, 0 when not set
    vpc,       \* where each preview is
    vview,     \* locals of each preview: [there, address]
    refused,   \* history: reworks that could not check their branch out
    raced,     \* history: previews that held a port while another did
    last,      \* history: outcome of the latest preview of each project
    disturbed  \* pushes of a person and restarts so far

builderVars == <<clone, bpc, bview, base, pushed, refused>>
previewVars == <<tree, container, url, vpc, vview, raced, last>>
(* What no builder, and no preview, changes.                               *)
builderFrame == <<asked, traefik, previewVars, disturbed>>
previewFrame == <<asked, traefik, remote, builderVars, disturbed>>
vars == <<asked, traefik, remote, builderVars, previewVars, met, disturbed>>

Ended == {"idle", "ok", "failed", "clash"}

NoContainer == [up |-> FALSE, address |-> 0, by |-> {}, shows |-> Main]

NoClone == [there |-> FALSE, head |-> Main, have |-> {Main},
            local |-> [b \in Branches |-> {}], tracking |-> [i \in Issues |-> {}],
            edited |-> {}, fresh |-> {}, staged |-> {}, artifacts |-> {}]

(* Lock files and the like, which a build modifies when they are tracked   *)
(* and makes otherwise; they are never staged.                             *)
Artifacts == {"modified", "new"}

(* As the runs that pushed the present branches left it, the latest one on *)
(* the branch it pushed.                                                   *)
EarlierClone(there, latest, left) ==
    [NoClone EXCEPT !.there = TRUE, !.head = latest, !.tracking = there,
                    !.artifacts = left,
                    !.have = {Main} \cup {i \in Issues : there[i] # {}},
                    !.local = [b \in Branches |-> IF b = Main THEN {} ELSE there[b]]]

Init ==
    /\ asked \in Mixes /\ traefik \in BOOLEAN
    /\ asked \cap Previews = {} => ~traefik
    /\ \E there \in Worked :
          remote = [i \in Issues |-> there \cap {i}]
    /\ \/ clone = NoClone
       \/ \E latest \in {i \in Issues : remote[i] # {}}, left \in SUBSET Artifacts :
             clone = EarlierClone(remote, latest, left)
    /\ bpc = [b \in Builders |-> "idle"]
    /\ bview = [b \in Builders |->
                  [onRemote |-> FALSE, wrote |-> FALSE, turns |-> 0, paths |-> {}]]
    /\ base = [b \in Builders |-> {}] /\ refused = {}
    /\ pushed = [b \in Builders |-> [over |-> {}, commits |-> {}]]
    /\ met = {}
    /\ tree = [p \in Projects |->
                 [there |-> FALSE, branch |-> Main, known |-> {}]]
    /\ container = [p \in Projects |-> NoContainer]
    /\ url = [p \in Projects |-> 0]
    /\ vpc = [v \in Previews |-> "idle"]
    /\ vview = [v \in Previews |-> [there |-> FALSE, address |-> 0]]
    /\ raced = {}
    /\ last = [p \in Projects |-> "none"]
    /\ disturbed = 0

-----------------------------------------------------------------------------
(* Builder runs: implement_issue_via_agent_sdk *)

Building == {b \in Builders : bpc[b] \notin Ended}

Goto(b, pc) == bpc' = [bpc EXCEPT ![b] = pc]

CloneStep(b, from, to) ==
    /\ bpc[b] = from /\ Goto(b, to)
    /\ UNCHANGED <<builderFrame, remote, bview, base, pushed, refused, met>>

BuilderStart(b) ==
    /\ b \in asked /\ bpc[b] = "idle"
    /\ Goto(b, IF clone.there THEN "fetch" ELSE "clone")
    /\ met' = IF Building = {} THEN met ELSE met \cup Building \cup {b}
    /\ UNCHANGED <<builderFrame, remote, clone, bview, base, pushed, refused>>

(* The directory may have filled since it was looked at; clone then fails. *)
CloneRepo(b) ==
    /\ bpc[b] = "clone"
    /\ \/ /\ ~clone.there
          /\ clone' = [clone EXCEPT !.there = TRUE, !.tracking = remote]
          /\ Goto(b, "fetch")
       \/ Goto(b, "failed") /\ UNCHANGED clone
    /\ UNCHANGED <<builderFrame, remote, bview, base, pushed, refused, met>>

(* A fetch that fails or times out is not noticed.                         *)
Fetch(b) ==
    /\ bpc[b] = "fetch" /\ Goto(b, "list")
    /\ clone' \in {clone, [clone EXCEPT !.tracking = remote]}
    /\ base' = [base EXCEPT ![b] = clone'.tracking[Fix[b]]]
    /\ UNCHANGED <<builderFrame, remote, bview, pushed, refused, met>>

(* ls-remote; when it fails the branch counts as missing.                  *)
LsRemote(b) ==
    /\ bpc[b] = "list"
    /\ \E there \in {FALSE, remote[Fix[b]] # {}} :
        /\ bview' = [bview EXCEPT ![b].onRemote = there]
        /\ Goto(b, IF b \in Reworks /\ there THEN "checkout" ELSE "main")
    /\ UNCHANGED <<builderFrame, remote, clone, base, pushed, refused, met>>

(* checkout -B and reset --hard in a clone; new files stay.                *)
CheckoutB(c, i, commits) ==
    [c EXCEPT !.head = i, !.have = @ \cup {i}, !.local[i] = commits]
ResetHard(c, commits) ==
    [c EXCEPT !.local[c.head] = commits, !.edited = {}, !.staged = {},
              !.artifacts = @ \ {"modified"}]

Changed == clone.edited \cup clone.fresh \cup clone.staged

(* Files are modified, or new ones may be in the way of a checkout.        *)
InTheWay == Changed # {} \/ clone.artifacts # {}

(* checkout -B <branch> origin/<branch>: git refuses when the ref is       *)
(* missing, and may over files in the way; the result is not looked at.    *)
Checkout(b) ==
    LET ref == clone.tracking[Fix[b]]
    IN  /\ bpc[b] = "checkout" /\ Goto(b, "reset")
        /\ \/ /\ ref # {}
              /\ clone' = CheckoutB(clone, Fix[b], ref)
              /\ UNCHANGED refused
           \/ /\ ref = {} \/ InTheWay
              /\ refused' = refused \cup {b}
              /\ UNCHANGED clone
        /\ UNCHANGED <<builderFrame, remote, bview, base, pushed, met>>

(* reset --hard origin/<branch> moves whatever branch is checked out.      *)
Reset(b) ==
    /\ CloneStep(b, "reset", "clean")
    /\ clone' = IF clone.tracking[Fix[b]] = {} THEN clone
                ELSE ResetHard(clone, clone.tracking[Fix[b]])

(* checkout of the default branch, which git may refuse too.               *)
CheckoutMain(b) ==
    /\ CloneStep(b, "main", "resetMain")
    /\ \/ clone' = [clone EXCEPT !.head = Main]
       \/ InTheWay /\ UNCHANGED clone

(* Mutant: the working copy is not reset to the default branch.            *)
ResetMainForgotten(b) ==
    /\ CloneStep(b, "resetMain", "branch")
    /\ UNCHANGED clone

ResetMain(b) ==
    /\ CloneStep(b, "resetMain", "branch")
    /\ clone' = ResetHard(clone, {})

(* checkout -B <branch>, from what is checked out now.                     *)
CutBranch(b) ==
    /\ CloneStep(b, "branch", "clean")
    /\ clone' = CheckoutB(clone, Fix[b], clone.local[clone.head])

(* A file was edited, made, or left as it was.                             *)
Wrote(c, b) == {c, [c EXCEPT !.edited = @ \cup {b}],
                   [c EXCEPT !.fresh = @ \cup {b}]}

(* .gitignore gets the build directories it lacks.                         *)
Ignoring(c, b) == Wrote(c, b)

(* clean -fd removes new files, whoever wrote them.                        *)
Clean(b) ==
    LET cleaned == [clone EXCEPT !.fresh = {}, !.artifacts = @ \ {"new"}]
    IN  \/ /\ b \in Reworks /\ bview[b].onRemote
           /\ CloneStep(b, "clean", "merge")
           /\ clone' = cleaned
        \/ /\ ~(b \in Reworks /\ bview[b].onRemote)
           /\ CloneStep(b, "clean", "work")
           /\ clone' \in Ignoring(cleaned, b)

MergeMain(b) ==
    \/ CloneStep(b, "merge", "work") /\ clone' \in Ignoring(clone, b)
    \/ CloneStep(b, "merge", "failed") /\ UNCHANGED clone

(* write_file, edit_file and delete_file, refused or not; run_build leaves *)
(* artifacts or not; the other tools only read.                            *)
RanBuild(c) == {[c EXCEPT !.artifacts = @ \cup left] : left \in SUBSET Artifacts}

ToolEffects(b, wrote) ==
    UNION {RanBuild(c) : c \in IF wrote THEN Wrote(clone, b) ELSE {clone}}

(* Mutant: the loop has no end.                                            *)
TurnUnlimited(b) ==
    /\ bpc[b] = "work"
    /\ bview' = [bview EXCEPT ![b].turns = @ + 1]
    /\ UNCHANGED <<builderFrame, remote, clone, bpc, base, pushed, refused, met>>

(* One turn of the tool loop.                                              *)
Turn(b) ==
    /\ bpc[b] = "work" /\ bview[b].turns < MaxTurns
    /\ \E wrote \in BOOLEAN :
        /\ bview' = [bview EXCEPT ![b].turns = @ + 1, ![b].wrote = @ \/ wrote]
        /\ clone' \in ToolEffects(b, wrote)
    /\ UNCHANGED <<builderFrame, remote, bpc, base, pushed, refused, met>>

(* done, or the end of a turn, after a write; done before one is rejected. *)
Done(b) ==
    /\ bview[b].wrote
    /\ CloneStep(b, "work", "status")
    /\ UNCHANGED clone

(* The API fails, a turn has no call, it ends without a write, or the      *)
(* iterations are used up.                                                 *)
GiveUp(b) ==
    /\ CloneStep(b, "work", "failed")
    /\ UNCHANGED clone

(* status --porcelain without the build artifacts.                         *)
Status(b) ==
    /\ bpc[b] = "status"
    /\ bview' = [bview EXCEPT ![b].paths = Changed]
    /\ Goto(b, IF Changed = {} THEN "failed" ELSE "add")
    /\ UNCHANGED <<builderFrame, remote, clone, base, pushed, refused, met>>

Added(c, paths) ==
    [c EXCEPT !.staged = @ \cup (paths \cap (c.edited \cup c.fresh \cup c.staged)),
              !.edited = @ \ paths, !.fresh = @ \ paths]

(* add of the listed paths; it may fail when one of them is gone.          *)
Add(b) ==
    LET paths == bview[b].paths
    IN  \/ /\ CloneStep(b, "add", "commit")
           /\ clone' = Added(clone, paths)
        \/ /\ ~(paths \subseteq Changed)
           /\ CloneStep(b, "add", "failed")
           /\ UNCHANGED clone

Recorded(c) ==
    [c EXCEPT !.local[c.head] = @ \cup c.staged, !.staged = {}]

(* commit takes all that is staged to the branch that is checked out.      *)
Commit(b) ==
    \/ /\ clone.staged # {}
       /\ CloneStep(b, "commit", "push")
       /\ clone' = Recorded(clone)
    \/ CloneStep(b, "commit", "failed") /\ UNCHANGED clone

(* Mutant: the push is a plain --force.                                    *)
NoLease(b) == Fix[b] \in clone.have

(* push <branch> --force-with-lease: the branch exists in the clone, and   *)
(* origin/<branch> of the clone is what GitHub has.                        *)
Lease(b) == Fix[b] \in clone.have /\ clone.tracking[Fix[b]] = remote[Fix[b]]

(* A push that is killed at its timeout may have reached GitHub.           *)
Push(b) ==
    LET i == Fix[b]
    IN  /\ bpc[b] = "push"
        /\ \/ /\ Lease(b)
              /\ remote' = [remote EXCEPT ![i] = clone.local[i]]
              /\ clone' = [clone EXCEPT !.tracking[i] = clone.local[i]]
              /\ pushed' = [pushed EXCEPT ![b] = [over |-> remote[i],
                                                  commits |-> clone.local[i]]]
              /\ Goto(b, "ok")
           \/ /\ Goto(b, "failed") /\ UNCHANGED <<clone, pushed>>
              /\ \/ Lease(b) /\ remote' = [remote EXCEPT ![i] = clone.local[i]]
                 \/ UNCHANGED remote
        /\ UNCHANGED <<builderFrame, bview, base, refused, met>>

Builder(b) ==
    \/ BuilderStart(b) \/ CloneRepo(b) \/ Fetch(b) \/ LsRemote(b) \/ Checkout(b)
    \/ Reset(b) \/ CheckoutMain(b) \/ ResetMain(b) \/ CutBranch(b) \/ Clean(b)
    \/ MergeMain(b) \/ Turn(b) \/ Done(b) \/ GiveUp(b) \/ Status(b) \/ Add(b)
    \/ Commit(b) \/ Push(b)

-----------------------------------------------------------------------------
(* Previews: run_preview_locally, _run_preview_and_save                    *)

Held(v) == vpc[v] \notin Ended
Previewing(p) == {v \in Previews : ProjectOf[v] = p /\ Held(v)}

VGoto(v, pc) == vpc' = [vpc EXCEPT ![v] = pc]

(* Asked for by a person, or by a sync that found every issue done while   *)
(* the project had no preview URL.                                         *)
PreviewStart(v) ==
    LET p == ProjectOf[v]
    IN  /\ v \in asked /\ vpc[v] = "idle"
        /\ v \in Automatic => url[p] = 0
        /\ VGoto(v, "sync")
        /\ vview' = [vview EXCEPT ![v].there = tree[p].there]
        /\ met' = IF Previewing(p) = {} THEN met ELSE met \cup Previewing(p) \cup {v}
        /\ UNCHANGED <<previewFrame, tree, container, url, raced, last>>

Exists(i) == i = Main \/ remote[i] # {}
AtRemote  == {i \in Branches : Exists(i)}

(* Mutant: an existing clone is used as it is.                             *)
SyncWithoutCheckout(v) ==
    LET p == ProjectOf[v]
    IN  /\ vpc[v] = "sync"
        /\ VGoto(v, IF Shows[v] = Main THEN "prepare" ELSE "merge")
        /\ tree' = [tree EXCEPT ![p].there = TRUE,
                                ![p].branch = IF tree[p].there THEN @ ELSE Shows[v]]
        /\ UNCHANGED <<previewFrame, container, url, vview, raced, last, met>>

(* Existing clone: a failed fetch is not noticed, only a branch that was   *)
(* never fetched is.  New clone: fails when the branch does not exist or   *)
(* another preview has made the directory since it was looked at.          *)
Sync(v) ==
    LET p == ProjectOf[v]
        b == Shows[v]
        known == tree[p].known
        CheckedOut(refs) ==
            /\ b \in refs
            /\ tree' = [tree EXCEPT ![p] = [there |-> TRUE, branch |-> b,
                                           known |-> refs]]
            /\ VGoto(v, IF b = Main THEN "prepare" ELSE "merge")
        Failed(refs) ==
            /\ tree' = [tree EXCEPT ![p].known = refs]
            /\ VGoto(v, "failed")
    IN  /\ vpc[v] = "sync"
        /\ \/ /\ vview[v].there
              /\ \E fetched \in {{}, {b} \cap AtRemote} :
                    \/ CheckedOut(known \cup fetched)
                    \/ Failed(known \cup fetched)
           \/ ~vview[v].there /\ ~tree[p].there /\ CheckedOut(AtRemote)
           \/ ~vview[v].there /\ Failed(known)
        /\ UNCHANGED <<previewFrame, container, url, vview, raced, last, met>>

(* The default branch is merged into what is checked out; a conflict is    *)
(* aborted and ends the preview.                                           *)
MergeDefault(v) ==
    /\ vpc[v] = "merge"
    /\ VGoto(v, "prepare") \/ VGoto(v, "failed")
    /\ UNCHANGED <<previewFrame, tree, container, url, vview, raced, last,
                    met>>

(* Mutant: the ports of other containers are not looked at.                *)
OwnHostPortsOnly == {0}

(* Host ports of running containers.                                       *)
UsedHostPorts == {container[p].address : p \in {q \in Projects : container[q].up}}

FreePorts(used) == {port \in Ports \ used :
                       \A lower \in Ports \ used : port <= lower}

Waiting(port) == {v \in Previews : vpc[v] = "build" /\ vview[v].address = port}

(* Project type, env files, Dockerfile and port; then the old container is *)
(* removed.  Fails on an unknown type, without a free port and without     *)
(* docker; docker listing nothing counts as no port in use.                *)
Prepare(v) ==
    LET p == ProjectOf[v]
    IN  /\ vpc[v] = "prepare"
        /\ \/ \E used \in {UsedHostPorts, {}} :
                \E port \in IF traefik THEN {HostName} ELSE FreePorts(used) :
                    /\ VGoto(v, "build")
                    /\ vview' = [vview EXCEPT ![v].address = port]
                    /\ container' = [container EXCEPT ![p] = NoContainer]
                    /\ last' = [last EXCEPT ![p] = "building"]
                    /\ raced' = IF Waiting(port) = {} /\ used = UsedHostPorts THEN raced
                                ELSE raced \cup Waiting(port) \cup {v}
           \/ VGoto(v, "failed") /\ UNCHANGED <<vview, container, last, raced>>
        /\ UNCHANGED <<previewFrame, tree, url, met>>

NameTaken(v) == container[ProjectOf[v]].up
PortTaken(v) ==
    ~traefik /\ \E p \in Projects :
        container[p].up /\ container[p].address = vview[v].address

(* Mutant: a container that did not start is reported as the preview.      *)
RunFailureIgnored(v) ==
    /\ vpc[v] = "build" /\ VGoto(v, "poll")
    /\ UNCHANGED <<previewFrame, tree, container, url, vview, raced, last,
                    met>>

(* images.build of what the directory holds now, then containers.run.      *)
BuildAndRun(v) ==
    LET p == ProjectOf[v]
    IN  /\ vpc[v] = "build"
        /\ \/ /\ ~NameTaken(v) /\ ~PortTaken(v)
              /\ container' = [container EXCEPT ![p] =
                    [up |-> TRUE, address |-> vview[v].address, by |-> {v},
                     shows |-> tree[p].branch]]
              /\ VGoto(v, "poll")
           \/ PortTaken(v) /\ VGoto(v, "clash") /\ UNCHANGED container
           \/ VGoto(v, "failed") /\ UNCHANGED container
        /\ UNCHANGED <<previewFrame, tree, url, vview, raced, last, met>>

(* Up to 20 polls; the URL is returned whether or not one was answered.    *)
Poll(v) ==
    /\ vpc[v] = "poll" /\ VGoto(v, "save")
    /\ UNCHANGED <<previewFrame, tree, container, url, vview, raced, last,
                    met>>

SavePreview(v) ==
    /\ vpc[v] = "save" /\ VGoto(v, "ok")
    /\ url' = [url EXCEPT ![ProjectOf[v]] = vview[v].address]
    /\ last' = [last EXCEPT ![ProjectOf[v]] = "ok"]
    /\ UNCHANGED <<previewFrame, tree, container, vview, raced, met>>

Preview(v) ==
    \/ PreviewStart(v) \/ Sync(v) \/ MergeDefault(v) \/ Prepare(v)
    \/ BuildAndRun(v) \/ Poll(v) \/ SavePreview(v)

-----------------------------------------------------------------------------
(* A person pushes to the branch of a pull request.                        *)
PersonPushes(i) ==
    /\ disturbed < MaxDisturbed /\ disturbed' = disturbed + 1
    /\ asked \cap Builders # {} /\ remote[i] # {}
    /\ remote' = [remote EXCEPT ![i] = @ \cup {Person}]
    /\ UNCHANGED <<asked, traefik, builderVars, previewVars, met>>

(* The process stops: every run ends where it is; clones, containers and   *)
(* rows stay.                                                              *)
Crash ==
    /\ disturbed < MaxDisturbed /\ disturbed' = disturbed + 1
    /\ \/ Building # {} \/ \E p \in Projects : Previewing(p) # {}
    /\ bpc' = [b \in Builders |-> IF b \in Building THEN "failed" ELSE bpc[b]]
    /\ vpc' = [v \in Previews |-> IF Held(v) THEN "failed" ELSE vpc[v]]
    /\ UNCHANGED <<asked, traefik, remote, clone, bview, base, pushed, refused,
                   tree, container, url, vview, raced, last, met>>

Next ==
    \/ \E b \in Builders : Builder(b)
    \/ \E v \in Previews : Preview(v)
    \/ \E i \in Issues : PersonPushes(i)
    \/ Crash

Spec == Init /\ [][Next]_vars

-----------------------------------------------------------------------------
BuilderPlaces == Ended \cup
    {"clone", "fetch", "list", "checkout", "reset", "main", "resetMain", "branch",
     "clean", "merge", "work", "status", "add", "commit", "push"}
PreviewPlaces == Ended \cup {"sync", "merge", "prepare", "build", "poll", "save"}
Addresses     == Ports \cup {0, HostName}
Clones        == [there : BOOLEAN, head : Branches, have : SUBSET Branches,
                  local : [Branches -> SUBSET Commits],
                  tracking : [Issues -> SUBSET Commits],
                  edited : SUBSET Builders, fresh : SUBSET Builders,
                  staged : SUBSET Builders, artifacts : SUBSET Artifacts]
BuilderViews  == [onRemote : BOOLEAN, wrote : BOOLEAN, turns : 0..MaxTurns,
                  paths : SUBSET Builders]
Pushes        == [over : SUBSET Commits, commits : SUBSET Commits]
Trees         == [there : BOOLEAN, branch : Branches, known : SUBSET Branches]
Containers    == [up : BOOLEAN, address : Addresses, by : SUBSET Previews,
                  shows : Branches]
PreviewViews  == [there : BOOLEAN, address : Addresses]

(* Every variable has its type.                                            *)
TypeOK ==
    /\ asked \in Mixes /\ traefik \in BOOLEAN
    /\ remote \in [Issues -> SUBSET Commits] /\ clone \in Clones
    /\ bpc \in [Builders -> BuilderPlaces] /\ bview \in [Builders -> BuilderViews]
    /\ base \in [Builders -> SUBSET Commits] /\ pushed \in [Builders -> Pushes]
    /\ met \subseteq Builders \cup Previews /\ refused \subseteq Reworks
    /\ tree \in [Projects -> Trees] /\ container \in [Projects -> Containers]
    /\ url \in [Projects -> Addresses]
    /\ vpc \in [Previews -> PreviewPlaces] /\ vview \in [Previews -> PreviewViews]
    /\ raced \subseteq Previews
    /\ last \in [Projects -> {"none", "building", "ok"}]
    /\ disturbed \in 0..MaxDisturbed

(* The run had the clone to itself, and git let it onto its branch.        *)
Undisturbed(b) == bpc[b] = "ok" /\ b \notin met \cup refused

(* What a run reports as pushed has its own work, nobody else's, and, for  *)
(* a rework, everything it was asked to repair, though the clone keeps     *)
(* what failed and killed runs left in it, unless another builder was in   *)
(* the clone or the checkout of its branch was refused                     *)
(* (agent_sdk.py:497-518, 713-752).                                        *)
OwnWorkPushed ==
    \A b \in Builders : Undisturbed(b) =>
        /\ b \in pushed[b].commits
        /\ pushed[b].commits \subseteq {b, Fix[b]} \cup base[b]
        /\ b \in Reworks /\ bview[b].onRemote => base[b] \subseteq pushed[b].commits

(* The branch a push replaced is the one its run fetched at the start: a   *)
(* commit that arrived since is not lost, unless another builder fetched   *)
(* it into the clone (agent_sdk.py:744-750).                               *)
LeaseKept ==
    \A b \in Builders : bpc[b] = "ok" /\ b \notin met => pushed[b].over = base[b]

(* A run that had the clone to itself and reports success has its work on  *)
(* the branch (agent_sdk.py:3-4, 726-731: a push without a commit used to  *)
(* report success; "Fail here, where we still know why").  It is not so:   *)
(* edits or lock files an earlier run left make git refuse the checkout of *)
(* line 499, the reset moves the branch that is checked out, the commit    *)
(* lands there, and the push sends the old branch.                         *)
SuccessMeansPushed ==
    \A b \in Builders :
        bpc[b] = "ok" /\ b \notin met => b \in pushed[b].commits

(* A container shows the branch its preview was asked for, unless another  *)
(* preview of the project ran meanwhile (preview.py:222-232, 403).         *)
ServesAsked ==
    \A p \in Projects : \A v \in container[p].by :
        container[p].up /\ v \notin met => container[p].shows = Shows[v]

(* When the latest preview that got as far as removing the container has   *)
(* saved its URL, the project's container is up at that URL, unless two    *)
(* previews of the project overlapped (preview.py:387-461,                 *)
(* routes.py:739-743).                                                     *)
UrlServed ==
    \A p \in Projects :
        last[p] = "ok" /\ (\A v \in met : v \in Builders \/ ProjectOf[v] # p) =>
            container[p].up /\ container[p].address = url[p]

(* docker refuses a port only to a preview that chose it while another one *)
(* held it but had no container yet, or while docker listed nothing        *)
(* (preview.py:20-44, 370, 453).                                           *)
PortClashOnlyFromRace == \A v \in Previews : vpc[v] = "clash" => v \in raced
=============================================================================
