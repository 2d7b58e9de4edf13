--------------------------- MODULE WorkspacesProofs ---------------------------
(***************************************************************************)
(* Proofs about Workspaces for any builder runs, previews, projects and    *)
(* ports, and any number of turns, pushes of a person and restarts.        *)
(***************************************************************************)
EXTENDS Workspaces, TLAPS

(* Runs that are at work beside another one in a clone are in met.         *)
BuildersMeet ==
    \A b, c \in Building : b # c => b \in met

PreviewsMeet ==
    \A u, v \in Previews :
        Held(u) /\ Held(v) /\ u # v /\ ProjectOf[u] = ProjectOf[v] => u \in met

(* The branch of the pull request is checked out by reworks that found it  *)
(* at GitHub, and the default branch by the others.                        *)
Onto(b) == b \in Reworks /\ bview[b].onRemote

OntoInv ==
    \A b \in Builders :
        /\ bpc[b] \in {"checkout", "reset", "merge"} => Onto(b)
        /\ bpc[b] \in {"main", "resetMain", "branch"} => ~Onto(b)

(* From its fetch to its push, a run alone in the clone finds there what   *)
(* it fetched.                                                             *)
Fetched == BuilderPlaces \ (Ended \cup {"clone", "fetch"})

FetchedInv ==
    \A b \in Builders : bpc[b] \in Fetched /\ b \notin met =>
        clone.tracking[Fix[b]] = base[b]

(* What a run starts its work from.                                        *)
Start(b) == IF Onto(b) THEN base[b] ELSE {}

(* The clone of a run that is alone in it, by the place the run is at.     *)
Prepared(b) ==
    /\ bpc[b] = "reset" =>
         clone.head = Fix[b] /\ clone.local[Fix[b]] = base[b] /\ base[b] # {}
    /\ bpc[b] = "branch" =>
         clone.local[clone.head] = {} /\ clone.edited = {} /\ clone.staged = {}
    /\ bpc[b] \in {"clean", "merge", "work", "status", "add", "commit"} =>
         clone.head = Fix[b] /\ clone.local[Fix[b]] = Start(b)

Worktree(b) ==
    /\ bpc[b] \in {"clean", "merge", "work", "status", "add"} => clone.staged = {}
    /\ bpc[b] = "clean" => clone.edited = {}
    /\ bpc[b] \in {"merge", "work", "status", "add"} =>
         clone.edited \cup clone.fresh \subseteq {b}
    /\ bpc[b] = "add" =>
         bview[b].paths = {b} /\ clone.edited \cup clone.fresh = {b}
    /\ bpc[b] = "commit" => clone.staged = {b}

Committed(b) ==
    /\ bpc[b] = "push" => clone.local[Fix[b]] = Start(b) \cup {b}
    /\ bpc[b] = "ok" => pushed[b].commits = Start(b) \cup {b}

AloneInv ==
    \A b \in Builders \ (met \cup refused) :
        Prepared(b) /\ Worktree(b) /\ Committed(b)

(* The directory of a preview alone in it, once it is checked out.         *)
TreeInv ==
    \A v \in Previews \ met : vpc[v] \in {"merge", "prepare", "build"} =>
        tree[ProjectOf[v]].branch = Shows[v]

(* A preview that has removed the old container, and not yet saved, in a   *)
(* project whose previews never overlapped.                                *)
Apart(p) == \A v \in met : v \in Builders \/ ProjectOf[v] # p

ReplacedInv ==
    \A v \in Previews : Apart(ProjectOf[v]) =>
        LET p == ProjectOf[v]
        IN  /\ vpc[v] \in {"build", "poll", "save"} => last[p] = "building"
            /\ vpc[v] \in {"poll", "save"} =>
                 container[p].up /\ container[p].address = vview[v].address

(* The port of a preview that still has to start its container.            *)
PortInv ==
    \A v \in Previews \ raced : vpc[v] = "build" /\ ~traefik =>
        /\ \A p \in Projects :
             container[p].up => container[p].address # vview[v].address
        /\ \A u \in Previews \ {v} :
             vpc[u] = "build" => vview[u].address # vview[v].address

BuilderInv ==
    BuildersMeet /\ OntoInv /\ FetchedInv /\ LeaseKept /\ AloneInv
PreviewInv ==
    /\ PreviewsMeet /\ TreeInv /\ ServesAsked /\ ReplacedInv /\ UrlServed
    /\ PortInv /\ PortClashOnlyFromRace

IInv == TypeOK /\ BuilderInv /\ PreviewInv

-----------------------------------------------------------------------------
(* Type correctness *)

LEMMA Names ==
  /\ BuilderPlaces = {"idle", "ok", "failed", "clash", "clone", "fetch", "list",
       "checkout", "reset", "main", "resetMain", "branch", "clean", "merge", "work",
       "status", "add", "commit", "push"}
  /\ PreviewPlaces = {"idle", "ok", "failed", "clash", "sync", "merge", "prepare",
       "build", "poll", "save"}
BY DEF BuilderPlaces, PreviewPlaces, Ended

LEMMA CloneParts ==
  ASSUME NEW c \in Clones
  PROVE  /\ c.there \in BOOLEAN /\ c.head \in Branches /\ c.have \subseteq Branches
         /\ c.local \in [Branches -> SUBSET Commits]
         /\ c.tracking \in [Issues -> SUBSET Commits]
         /\ c.edited \subseteq Builders /\ c.fresh \subseteq Builders
         /\ c.staged \subseteq Builders /\ c.artifacts \subseteq Artifacts
BY DEF Clones

LEMMA InitType == Init => TypeOK
<1> SUFFICES ASSUME Init PROVE TypeOK
  OBVIOUS
<1> USE WorkspacesAssumption
<1>1. remote \in [Issues -> SUBSET Commits]
  BY DEF Init, Commits
<1>2. clone \in Clones
  <2>1. NoClone \in Clones
    BY DEF NoClone, Clones, Branches
  <2>2. ASSUME NEW latest \in Issues, NEW left \in SUBSET Artifacts
        PROVE  EarlierClone(remote, latest, left) \in Clones
    BY <1>1, <2>1 DEF EarlierClone, NoClone, Clones, Branches
  <2>3. \/ clone = NoClone
        \/ \E latest \in Issues, left \in SUBSET Artifacts :
              clone = EarlierClone(remote, latest, left)
    BY Zenon DEF Init
  <2> QED BY <2>1, <2>2, <2>3
<1>3. bpc \in [Builders -> BuilderPlaces] /\ vpc \in [Previews -> PreviewPlaces]
  BY Names DEF Init
<1>4. bview \in [Builders -> BuilderViews] /\ pushed \in [Builders -> Pushes]
  BY DEF Init, BuilderViews, Pushes
<1>5. /\ tree \in [Projects -> Trees] /\ container \in [Projects -> Containers]
      /\ vview \in [Previews -> PreviewViews] /\ url \in [Projects -> Addresses]
  BY DEF Init, Trees, NoContainer, Containers, PreviewViews, Addresses, Branches
<1>6. /\ base \in [Builders -> SUBSET Commits] /\ raced = {} /\ met = {} /\ refused = {}
      /\ last \in [Projects -> {"none", "building", "ok"}]
  BY DEF Init
<1>7. asked \in Mixes /\ traefik \in BOOLEAN /\ disturbed \in 0..MaxDisturbed
  BY DEF Init
<1> QED BY <1>1, <1>2, <1>3, <1>4, <1>5, <1>6, <1>7 DEF TypeOK

(* What a step of a builder leaves alone.                                  *)
LEMMA BuilderFrame ==
  ASSUME TypeOK, NEW b \in Builders, Builder(b)
  PROVE  /\ UNCHANGED builderFrame /\ bpc' \in [Builders -> BuilderPlaces]
         /\ \A c \in Builders \ {b} :
              /\ bpc'[c] = bpc[c] /\ bview'[c] = bview[c] /\ base'[c] = base[c]
              /\ pushed'[c] = pushed[c] /\ (c \in refused' => c \in refused)
         /\ met \subseteq met' /\ refused \subseteq refused'
         /\ bpc[b] \notin {"ok", "failed", "clash"}
         /\ \/ BuilderStart(b)
            \/ bpc[b] # "idle" /\ met' = met /\ ~BuilderStart(b)
<1> USE DEF TypeOK
<1>1. CASE BuilderStart(b)
  BY <1>1, Names DEF BuilderStart, Goto
<1>2. CASE CloneRepo(b) \/ Fetch(b) \/ LsRemote(b)
  BY <1>2, Names DEF CloneRepo, Fetch, LsRemote, Goto, BuilderStart
<1>3. CASE Checkout(b) \/ Reset(b) \/ CheckoutMain(b) \/ ResetMain(b) \/ CutBranch(b)
  BY <1>3, Names DEF Checkout, Reset, CheckoutMain, ResetMain, CutBranch, CloneStep,
                     Goto, BuilderStart
<1>4. CASE Clean(b) \/ MergeMain(b) \/ Done(b) \/ GiveUp(b)
  BY <1>4, Names DEF Clean, MergeMain, Done, GiveUp, CloneStep, Goto, BuilderStart
<1>5. CASE Turn(b) \/ Status(b)
  BY <1>5, Names DEF Turn, Status, Goto, BuilderStart
<1>6. CASE Add(b) \/ Commit(b)
  BY <1>6, Names DEF Add, Commit, CloneStep, Goto, BuilderStart
<1>7. CASE Push(b)
  BY <1>7, Names DEF Push, Goto, BuilderStart
<1> QED BY <1>1, <1>2, <1>3, <1>4, <1>5, <1>6, <1>7 DEF Builder

(* What a step of a preview leaves alone.                                  *)
LEMMA PreviewFrame ==
  ASSUME TypeOK, NEW v \in Previews, Preview(v)
  PROVE  /\ UNCHANGED previewFrame /\ vpc' \in [Previews -> PreviewPlaces]
         /\ \A u \in Previews \ {v} : vpc'[u] = vpc[u] /\ vview'[u] = vview[u]
         /\ met \subseteq met' /\ raced \subseteq raced'
         /\ vpc[v] \notin {"ok", "failed", "clash"}
         /\ \A p \in Projects \ {ProjectOf[v]} :
              /\ tree'[p] = tree[p] /\ container'[p] = container[p]
              /\ url'[p] = url[p] /\ last'[p] = last[p]
         /\ \/ PreviewStart(v)
            \/ vpc[v] # "idle" /\ met' = met /\ ~PreviewStart(v)
<1> USE WorkspacesAssumption DEF TypeOK
<1>1. CASE PreviewStart(v)
  BY <1>1, Names DEF PreviewStart, VGoto
<1>2. CASE Sync(v)
  BY <1>2, Names DEF Sync, VGoto, PreviewStart
<1>3. CASE MergeDefault(v) \/ Poll(v) \/ SavePreview(v)
  BY <1>3, Names DEF MergeDefault, Poll, SavePreview, VGoto, PreviewStart
<1>4. CASE Prepare(v)
  BY <1>4, Names DEF Prepare, VGoto, PreviewStart
<1>5. CASE BuildAndRun(v)
  BY <1>5, Names DEF BuildAndRun, VGoto, PreviewStart
<1> QED BY <1>1, <1>2, <1>3, <1>4, <1>5 DEF Preview

(* What git commands do to the clone, field by field.                      *)
LEMMA CheckoutFields ==
  ASSUME NEW c \in Clones, NEW i \in Branches, NEW x \in SUBSET Commits
  PROVE  LET d == CheckoutB(c, i, x)
         IN  /\ d \in Clones /\ d.head = i /\ d.tracking = c.tracking
             /\ d.local[i] = x /\ d.edited = c.edited /\ d.staged = c.staged
BY DEF Clones, CheckoutB

LEMMA ResetFields ==
  ASSUME NEW c \in Clones, NEW x \in SUBSET Commits
  PROVE  LET d == ResetHard(c, x)
         IN  /\ d \in Clones /\ d.head = c.head /\ d.tracking = c.tracking
             /\ d.local[c.head] = x /\ d.edited = {} /\ d.staged = {}
BY DEF Clones, ResetHard

LEMMA WroteFields ==
  ASSUME NEW c \in Clones, NEW b \in Builders, NEW d \in Wrote(c, b)
  PROVE  /\ d \in Clones /\ d.head = c.head /\ d.local = c.local
         /\ d.tracking = c.tracking /\ d.staged = c.staged
         /\ d.edited \cup d.fresh \subseteq c.edited \cup c.fresh \cup {b}
BY DEF Clones, Wrote

LEMMA RanBuildFields ==
  ASSUME NEW c \in Clones, NEW d \in RanBuild(c)
  PROVE  /\ d \in Clones /\ d.head = c.head /\ d.local = c.local
         /\ d.tracking = c.tracking /\ d.staged = c.staged
         /\ d.edited = c.edited /\ d.fresh = c.fresh
<1>1. PICK left \in SUBSET Artifacts : d = [c EXCEPT !.artifacts = @ \cup left]
  BY DEF RanBuild
<1> QED BY <1>1 DEF Clones

LEMMA ToolFields ==
  ASSUME NEW b \in Builders, clone \in Clones, NEW wrote, NEW d \in ToolEffects(b, wrote)
  PROVE  /\ d \in Clones /\ d.head = clone.head /\ d.local = clone.local
         /\ d.tracking = clone.tracking /\ d.staged = clone.staged
         /\ d.edited \cup d.fresh \subseteq clone.edited \cup clone.fresh \cup {b}
<1>1. PICK c \in Wrote(clone, b) : d \in RanBuild(c)
  BY DEF ToolEffects, Wrote
<1>2. /\ c \in Clones /\ c.head = clone.head /\ c.local = clone.local
      /\ c.tracking = clone.tracking /\ c.staged = clone.staged
      /\ c.edited \cup c.fresh \subseteq clone.edited \cup clone.fresh \cup {b}
  BY WroteFields
<1> QED BY <1>1, <1>2, RanBuildFields

LEMMA CleanFields ==
  ASSUME NEW c \in Clones
  PROVE  LET d == [c EXCEPT !.fresh = {}, !.artifacts = @ \ {"new"}]
         IN  /\ d \in Clones /\ d.head = c.head /\ d.local = c.local
             /\ d.tracking = c.tracking /\ d.staged = c.staged
             /\ d.edited = c.edited /\ d.fresh = {}
BY DEF Clones

LEMMA CleanEffect ==
  ASSUME NEW b \in Builders, clone \in Clones, Clean(b)
  PROVE  /\ clone'.head = clone.head /\ clone'.local = clone.local
         /\ clone'.tracking = clone.tracking /\ clone'.staged = clone.staged
         /\ clone'.edited \cup clone'.fresh \subseteq clone.edited \cup {b}
<1> DEFINE cleaned == [clone EXCEPT !.fresh = {}, !.artifacts = @ \ {"new"}]
<1>1. clone' = cleaned \/ clone' \in Wrote(cleaned, b)
  BY DEF Clean, Ignoring
<1>2. /\ cleaned \in Clones /\ cleaned.head = clone.head
      /\ cleaned.local = clone.local /\ cleaned.tracking = clone.tracking
      /\ cleaned.staged = clone.staged
      /\ cleaned.edited = clone.edited /\ cleaned.fresh = {}
  BY CleanFields
<1> HIDE DEF cleaned
<1> QED BY <1>1, <1>2, WroteFields

LEMMA AddFields ==
  ASSUME NEW c \in Clones, NEW paths \in SUBSET Builders
  PROVE  LET d == Added(c, paths)
         IN  /\ d \in Clones /\ d.head = c.head /\ d.local = c.local
             /\ d.tracking = c.tracking
             /\ d.staged = c.staged \cup (paths \cap (c.edited \cup c.fresh \cup c.staged))
BY DEF Clones, Added

LEMMA RecordFields ==
  ASSUME NEW c \in Clones
  PROVE  LET d == Recorded(c)
         IN  /\ d \in Clones /\ d.tracking = c.tracking
             /\ d.local[c.head] = c.local[c.head] \cup c.staged
<1>1. c.staged \subseteq Commits
  BY CloneParts DEF Commits
<1> QED BY <1>1 DEF Clones, Recorded

LEMMA BuilderType ==
  ASSUME TypeOK, OntoInv, NEW b \in Builders, Builder(b)
  PROVE  TypeOK'
<1>1. UNCHANGED builderFrame /\ bpc' \in [Builders -> BuilderPlaces]
  BY BuilderFrame
<1> SUFFICES /\ remote' \in [Issues -> SUBSET Commits] /\ clone' \in Clones
             /\ bview' \in [Builders -> BuilderViews]
             /\ base' \in [Builders -> SUBSET Commits]
             /\ pushed' \in [Builders -> Pushes]
             /\ met' \subseteq Builders \cup Previews /\ refused' \subseteq Reworks
  BY <1>1 DEF TypeOK, builderFrame, previewVars
<1> USE WorkspacesAssumption, CloneParts
<1>2. /\ clone \in Clones /\ remote \in [Issues -> SUBSET Commits]
      /\ bview \in [Builders -> BuilderViews] /\ base \in [Builders -> SUBSET Commits]
      /\ pushed \in [Builders -> Pushes]
      /\ met \subseteq Builders \cup Previews /\ refused \subseteq Reworks
      /\ Fix[b] \in Issues /\ Fix[b] \in Branches
      /\ Issues \subseteq Branches /\ Main \in Branches
  BY DEF TypeOK, Branches
<1>3. CASE BuilderStart(b)
  BY <1>2, <1>3 DEF BuilderStart, Building
<1>4. CASE CloneRepo(b) \/ Fetch(b)
  <2>1. [clone EXCEPT !.there = TRUE, !.tracking = remote] \in Clones
        /\ [clone EXCEPT !.tracking = remote] \in Clones
    BY <1>2 DEF Clones
  <2>2. clone' \in Clones
    BY <1>2, <1>4, <2>1 DEF CloneRepo, Fetch
  <2>3. clone'.tracking[Fix[b]] \in SUBSET Commits
    BY <1>2, <2>2
  <2> QED BY <1>2, <1>4, <2>2, <2>3 DEF CloneRepo, Fetch
<1>5. CASE LsRemote(b) \/ Status(b)
  <2>1. Changed \subseteq Builders
    BY <1>2 DEF Changed
  <2>2. ASSUME NEW x \in BOOLEAN
        PROVE  [bview EXCEPT ![b].onRemote = x] \in [Builders -> BuilderViews]
    BY <1>2 DEF BuilderViews
  <2>3. [bview EXCEPT ![b].paths = Changed] \in [Builders -> BuilderViews]
    BY <1>2, <2>1 DEF BuilderViews
  <2>4. bview' \in [Builders -> BuilderViews]
    BY <1>5, <2>2, <2>3 DEF LsRemote, Status
  <2> QED BY <1>2, <1>5, <2>4 DEF LsRemote, Status
<1>6. CASE Checkout(b)
  <2>1. clone.tracking[Fix[b]] \in SUBSET Commits /\ b \in Reworks
    BY <1>2, <1>6 DEF Checkout, OntoInv, Onto
  <2>2. clone' \in Clones
    BY <1>2, <1>6, <2>1, CheckoutFields DEF Checkout
  <2> QED BY <1>2, <1>6, <2>1, <2>2 DEF Checkout
<1>7. CASE Reset(b) \/ ResetMain(b)
  <2>1. clone.tracking[Fix[b]] \in SUBSET Commits /\ {} \in SUBSET Commits
    BY <1>2
  <2>2. clone' \in Clones
    BY <1>2, <1>7, <2>1, ResetFields DEF Reset, ResetMain
  <2> QED BY <1>2, <1>7, <2>2 DEF Reset, ResetMain, CloneStep
<1>8. CASE CheckoutMain(b) \/ CutBranch(b)
  <2>1. [clone EXCEPT !.head = Main] \in Clones
    BY <1>2 DEF Clones
  <2>2. clone.local[clone.head] \in SUBSET Commits
    BY <1>2
  <2>3. clone' \in Clones
    BY <1>2, <1>8, <2>1, <2>2, CheckoutFields DEF CheckoutMain, CutBranch
  <2> QED BY <1>2, <1>8, <2>3 DEF CheckoutMain, CutBranch, CloneStep
<1>9. CASE Clean(b) \/ MergeMain(b)
  <2>1. [clone EXCEPT !.fresh = {}, !.artifacts = @ \ {"new"}] \in Clones
    BY <1>2, CleanFields
  <2>2. clone' \in Clones
    BY <1>2, <1>9, <2>1, WroteFields DEF Clean, MergeMain, Ignoring
  <2> QED BY <1>2, <1>9, <2>2 DEF Clean, MergeMain, CloneStep
<1>10. CASE Turn(b)
  <2>1. clone' \in Clones
    BY <1>2, <1>10, ToolFields DEF Turn
  <2>2. bview' \in [Builders -> BuilderViews]
    <3>1. PICK wrote \in BOOLEAN :
            bview' = [bview EXCEPT ![b].turns = @ + 1, ![b].wrote = @ \/ wrote]
      BY <1>10 DEF Turn
    <3> DEFINE w == bview[b].wrote \/ wrote
               n == bview[b].turns + 1
    <3>2. bview[b] \in BuilderViews /\ MaxTurns \in Nat
      BY <1>2
    <3>3. w \in BOOLEAN
      BY <3>2 DEF BuilderViews
    <3>4. n \in 0..MaxTurns
      BY <1>10, <3>2 DEF Turn, BuilderViews
    <3>5. [bview[b] EXCEPT !.turns = n, !.wrote = w] \in BuilderViews
      <4> HIDE DEF n, w
      <4> QED BY <3>2, <3>3, <3>4 DEF BuilderViews
    <3>6. bview' = [bview EXCEPT ![b] = [bview[b] EXCEPT !.turns = n, !.wrote = w]]
      BY <1>2, <3>1, <3>2 DEF BuilderViews
    <3> HIDE DEF n, w
    <3> QED BY <1>2, <3>5, <3>6
  <2> QED BY <1>2, <1>10, <2>1, <2>2 DEF Turn
<1>11. CASE Done(b) \/ GiveUp(b)
  BY <1>2, <1>11 DEF Done, GiveUp, CloneStep
<1>12. CASE Add(b)
  <2>1. bview[b].paths \in SUBSET Builders
    BY <1>2 DEF BuilderViews
  <2>2. clone' \in Clones
    BY <1>2, <1>12, <2>1, AddFields DEF Add
  <2> QED BY <1>2, <1>12, <2>2 DEF Add, CloneStep
<1>13. CASE Commit(b)
  <2>1. clone' \in Clones
    BY <1>2, <1>13, RecordFields DEF Commit
  <2> QED BY <1>2, <1>13, <2>1 DEF Commit, CloneStep
<1>14. CASE Push(b)
  <2>1. clone.local[Fix[b]] \in SUBSET Commits /\ remote[Fix[b]] \in SUBSET Commits
    BY <1>2
  <2> DEFINE c == clone.local[Fix[b]]
  <2>2. [clone EXCEPT !.tracking[Fix[b]] = c] \in Clones
    BY <1>2, <2>1 DEF Clones
  <2>3. [over |-> remote[Fix[b]], commits |-> c] \in Pushes
    BY <2>1 DEF Pushes
  <2> HIDE DEF c
  <2>4. remote' \in [Issues -> SUBSET Commits] /\ clone' \in Clones
    BY <1>2, <1>14, <2>1, <2>2 DEF Push, c
  <2>5. pushed' \in [Builders -> Pushes]
    BY <1>2, <1>14, <2>3 DEF Push, c
  <2> QED BY <1>2, <1>14, <2>4, <2>5 DEF Push
<1> QED BY <1>3, <1>4, <1>5, <1>6, <1>7, <1>8, <1>9, <1>10, <1>11, <1>12, <1>13,
           <1>14 DEF Builder

LEMMA PreviewType ==
  ASSUME TypeOK, NEW v \in Previews, Preview(v)
  PROVE  TypeOK'
<1>1. UNCHANGED previewFrame /\ vpc' \in [Previews -> PreviewPlaces]
  BY PreviewFrame
<1> SUFFICES /\ tree' \in [Projects -> Trees] /\ container' \in [Projects -> Containers]
             /\ url' \in [Projects -> Addresses]
             /\ vview' \in [Previews -> PreviewViews] /\ raced' \subseteq Previews
             /\ last' \in [Projects -> {"none", "building", "ok"}]
             /\ met' \subseteq Builders \cup Previews
  BY <1>1 DEF TypeOK, previewFrame, builderVars
<1> USE WorkspacesAssumption
<1> DEFINE p == ProjectOf[v]
<1>2. /\ tree \in [Projects -> Trees] /\ container \in [Projects -> Containers]
      /\ url \in [Projects -> Addresses] /\ vview \in [Previews -> PreviewViews]
      /\ raced \subseteq Previews /\ last \in [Projects -> {"none", "building", "ok"}]
      /\ met \subseteq Builders \cup Previews
  BY DEF TypeOK
<1>3. p \in Projects /\ Shows[v] \in Branches
  OBVIOUS
<1>4. tree[p] \in Trees /\ vview[v] \in PreviewViews
  BY <1>2, <1>3
<1>5. CASE PreviewStart(v)
  <2>1. [vview EXCEPT ![v].there = tree[p].there] \in [Previews -> PreviewViews]
    BY <1>2, <1>4 DEF PreviewViews, Trees
  <2> QED BY <1>2, <1>5, <2>1 DEF PreviewStart, Previewing
<1>6. CASE Sync(v)
  <2>1. ASSUME NEW k, k \subseteq Branches
        PROVE  /\ [there |-> TRUE, branch |-> Shows[v], known |-> k] \in Trees
               /\ [tree[p] EXCEPT !.known = k] \in Trees
    BY <1>3, <1>4, <2>1 DEF Trees
  <2>2. tree[p].known \subseteq Branches /\ AtRemote \subseteq Branches
    BY <1>4 DEF Trees, AtRemote
  <2>3. tree' \in [Projects -> Trees]
    <3>1. PICK k \in SUBSET Branches :
            \/ tree' = [tree EXCEPT ![p] = [there |-> TRUE, branch |-> Shows[v],
                                            known |-> k]]
            \/ tree' = [tree EXCEPT ![p].known = k]
      BY <1>6, <2>2 DEF Sync
    <3> DEFINE x == [there |-> TRUE, branch |-> Shows[v], known |-> k]
               y == [tree[p] EXCEPT !.known = k]
    <3>2. tree' = [tree EXCEPT ![p] = x] \/ tree' = [tree EXCEPT ![p] = y]
      BY <1>2, <1>3, <3>1
    <3>3. x \in Trees /\ y \in Trees
      BY <2>1
    <3> HIDE DEF x, y, p
    <3> QED BY <1>2, <1>3, <3>2, <3>3
  <2> QED BY <1>2, <1>6, <2>3 DEF Sync
<1>7. CASE MergeDefault(v) \/ Poll(v)
  BY <1>2, <1>7 DEF MergeDefault, Poll
<1>8. CASE Prepare(v)
  <2>1. NoContainer \in Containers
    BY DEF NoContainer, Containers, Addresses, Branches
  <2>2. ASSUME NEW a \in Addresses
        PROVE  [vview EXCEPT ![v].address = a] \in [Previews -> PreviewViews]
    <3>1. [vview[v] EXCEPT !.address = a] \in PreviewViews
      BY <1>4 DEF PreviewViews
    <3> QED BY <1>2, <3>1
  <2>3. HostName \in Addresses /\ \A used : FreePorts(used) \subseteq Addresses
    BY DEF Addresses, FreePorts
  <2>4. vview' \in [Previews -> PreviewViews]
    BY <1>2, <1>8, <2>2, <2>3 DEF Prepare
  <2>5. raced' \subseteq Previews
    BY <1>2, <1>8 DEF Prepare, Waiting
  <2>6. container' \in [Projects -> Containers]
    BY <1>2, <1>8, <2>1 DEF Prepare
  <2>7. last' \in [Projects -> {"none", "building", "ok"}]
    BY <1>2, <1>8 DEF Prepare
  <2>8. met' = met /\ tree' = tree /\ url' = url
    BY <1>8 DEF Prepare
  <2> QED BY <1>2, <2>4, <2>5, <2>6, <2>7, <2>8
<1>9. CASE BuildAndRun(v)
  <2> DEFINE c == [up |-> TRUE, address |-> vview[v].address, by |-> {v},
                   shows |-> tree[p].branch]
  <2>1. c \in Containers
    BY <1>4 DEF Containers, PreviewViews, Trees
  <2>2. container' \in {container, [container EXCEPT ![p] = c]}
    BY <1>9 DEF BuildAndRun
  <2>3. container' \in [Projects -> Containers]
    <3> HIDE DEF c
    <3> QED BY <1>2, <1>3, <2>1, <2>2
  <2> QED BY <1>2, <1>9, <2>3 DEF BuildAndRun
<1>10. CASE SavePreview(v)
  <2>1. vview[v].address \in Addresses
    BY <1>4 DEF PreviewViews
  <2> QED BY <1>2, <1>3, <1>10, <2>1 DEF SavePreview
<1> QED BY <1>5, <1>6, <1>7, <1>8, <1>9, <1>10 DEF Preview

(* What a push of a person and a restart leave alone.                      *)
LEMMA PersonType ==
  ASSUME TypeOK, NEW i \in Issues, PersonPushes(i)
  PROVE  TypeOK'
<1>1. [remote EXCEPT ![i] = @ \cup {Person}] \in [Issues -> SUBSET Commits]
  BY DEF TypeOK, Commits
<1>2. disturbed' \in 0..MaxDisturbed
  BY WorkspacesAssumption DEF PersonPushes, TypeOK
<1> QED BY <1>1, <1>2 DEF PersonPushes, TypeOK, builderVars, previewVars

LEMMA CrashType ==
  ASSUME TypeOK, Crash
  PROVE  TypeOK'
<1>1. disturbed' \in 0..MaxDisturbed
  BY WorkspacesAssumption DEF Crash, TypeOK
<1>2. bpc' \in [Builders -> BuilderPlaces] /\ vpc' \in [Previews -> PreviewPlaces]
  BY Names DEF Crash, TypeOK
<1> QED BY <1>1, <1>2 DEF Crash, TypeOK

LEMMA TypeStep == TypeOK /\ OntoInv /\ [Next]_vars => TypeOK'
<1> SUFFICES ASSUME TypeOK, OntoInv, [Next]_vars PROVE TypeOK'
  OBVIOUS
<1>1. CASE UNCHANGED vars
  BY <1>1 DEF vars, builderVars, previewVars, TypeOK
<1> QED BY <1>1, BuilderType, PreviewType, PersonType, CrashType DEF Next

-----------------------------------------------------------------------------
(* Builders *)

(* A run that is alone in the clone is the only one that takes steps.      *)
LEMMA StepsAlone ==
  ASSUME TypeOK, BuildersMeet, NEW b \in Builders, bpc[b] \notin Ended, b \notin met',
         NEW c \in Builders, Builder(c)
  PROVE  c = b
<1> SUFFICES ASSUME c # b PROVE FALSE
  OBVIOUS
<1>1. b \in Building
  BY DEF Building
<1>2. CASE BuilderStart(c)
  BY <1>1, <1>2 DEF BuilderStart
<1>3. CASE ~BuilderStart(c)
  <2>1. c \in Building /\ met' = met
    BY <1>3, BuilderFrame DEF Building, Ended
  <2> QED BY <1>1, <2>1 DEF BuildersMeet
<1> QED BY <1>2, <1>3

LEMMA MeetStep ==
  ASSUME TypeOK, BuildersMeet, NEW a \in Builders, Builder(a)
  PROVE  BuildersMeet'
<1> SUFFICES ASSUME NEW b \in Building', NEW c \in Building', b # c
             PROVE  b \in met'
  BY DEF BuildersMeet
<1>1. CASE BuilderStart(a)
  <2>1. Building' \subseteq Building \cup {a} /\ a \in Builders
    BY <1>1, BuilderFrame DEF Building
  <2> QED BY <1>1, <2>1 DEF BuildersMeet, BuilderStart
<1>2. CASE ~BuilderStart(a)
  <2>1. Building' \subseteq Building /\ met' = met
    BY <1>2, BuilderFrame DEF Building, Ended
  <2> QED BY <2>1 DEF BuildersMeet
<1> QED BY <1>1, <1>2

(* A run's own step, place by place.                                       *)
LEMMA OntoStep ==
  ASSUME TypeOK, OntoInv, NEW a \in Builders, Builder(a)
  PROVE  OntoInv'
<1> SUFFICES ASSUME NEW b \in Builders
             PROVE  /\ bpc'[b] \in {"checkout", "reset", "merge"} => Onto(b)'
                    /\ bpc'[b] \in {"main", "resetMain", "branch"} => ~Onto(b)'
  BY DEF OntoInv
<1>1. CASE b # a
  BY <1>1, BuilderFrame DEF OntoInv, Onto
<1>2. CASE b = a
  <2> USE <1>2 DEF TypeOK
  <2>1. CASE BuilderStart(b) \/ CloneRepo(b) \/ Fetch(b)
    BY <2>1, Names DEF BuilderStart, CloneRepo, Fetch, Goto
  <2>2. CASE LsRemote(b)
    <3>1. PICK there \in BOOLEAN :
            /\ bview' = [bview EXCEPT ![b].onRemote = there]
            /\ bpc' = [bpc EXCEPT ![b] = IF b \in Reworks /\ there THEN "checkout"
                                         ELSE "main"]
      BY <2>2 DEF LsRemote, Goto
    <3>2. bview'[b].onRemote = there
      BY <3>1 DEF BuilderViews
    <3> QED BY <3>1, <3>2 DEF Onto
  <2>3. CASE Checkout(b) \/ Reset(b) \/ CheckoutMain(b) \/ ResetMain(b) \/ CutBranch(b)
    BY <2>3, Names DEF Checkout, Reset, CheckoutMain, ResetMain, CutBranch, CloneStep,
                       Goto, OntoInv, Onto
  <2>4. CASE Clean(b) \/ MergeMain(b) \/ Done(b) \/ GiveUp(b) \/ Add(b) \/ Commit(b)
    BY <2>4, Names DEF Clean, MergeMain, Done, GiveUp, Add, Commit, CloneStep, Goto, Onto
  <2>5. CASE Turn(b) \/ Status(b) \/ Push(b)
    BY <2>5, Names DEF Turn, Status, Push, Goto
  <2> QED BY <2>1, <2>2, <2>3, <2>4, <2>5 DEF Builder
<1> QED BY <1>1, <1>2

LEMMA FetchedStep ==
  ASSUME TypeOK, BuildersMeet, FetchedInv, NEW a \in Builders, Builder(a)
  PROVE  FetchedInv'
<1> SUFFICES ASSUME NEW b \in Builders, bpc'[b] \in Fetched, b \notin met'
             PROVE  clone'.tracking[Fix[b]] = base'[b]
  BY DEF FetchedInv
<1>1. b \notin met
  BY BuilderFrame
<1>2. CASE b # a
  <2>1. bpc[b] \in Fetched /\ bpc[b] \notin Ended
    BY <1>2, BuilderFrame DEF Fetched
  <2> QED BY <1>2, <2>1, StepsAlone
<1>3. CASE b = a
  <2> USE <1>3, WorkspacesAssumption DEF TypeOK
  <2>1. bpc[b] \in Fetched => clone.tracking[Fix[b]] = base[b]
    BY <1>1 DEF FetchedInv
  <2>2. clone \in Clones
    OBVIOUS
  <2>3. CASE BuilderStart(b) \/ CloneRepo(b)
    BY <2>3, Names DEF BuilderStart, CloneRepo, Goto, Fetched, Ended
  <2>4. CASE Fetch(b)
    BY <2>4 DEF Fetch
  <2>5. CASE LsRemote(b) \/ Turn(b) \/ Status(b)
    <3>1. bpc[b] \in Fetched /\ base' = base
      BY <2>5, Names DEF LsRemote, Turn, Status, Fetched, Ended
    <3>2. clone'.tracking = clone.tracking
      BY <2>2, <2>5, ToolFields DEF LsRemote, Turn, Status
    <3> QED BY <2>1, <3>1, <3>2
  <2>6. CASE Checkout(b) \/ Reset(b) \/ CheckoutMain(b) \/ ResetMain(b) \/ CutBranch(b)
    <3>1. bpc[b] \in Fetched /\ base' = base
      BY <2>6, Names DEF Checkout, Reset, CheckoutMain, ResetMain, CutBranch, CloneStep,
                         Fetched, Ended
    <3>2. clone'.tracking = clone.tracking
      <4> HIDE DEF TypeOK
      <4>1. /\ Fix[b] \in Branches /\ {} \in SUBSET Commits
            /\ clone.local[clone.head] \in SUBSET Commits
            /\ clone.tracking[Fix[b]] \in SUBSET Commits
        BY <2>2, CloneParts DEF Branches
      <4>2. CASE Checkout(b) \/ CutBranch(b)
        BY <2>2, <4>1, <4>2, CheckoutFields DEF Checkout, CutBranch
      <4>3. CASE Reset(b) \/ ResetMain(b)
        BY <2>2, <4>1, <4>3, ResetFields DEF Reset, ResetMain
      <4>4. CASE CheckoutMain(b)
        BY <2>2, <4>4 DEF CheckoutMain, Clones
      <4> QED BY <2>6, <4>2, <4>3, <4>4
    <3> QED BY <2>1, <3>1, <3>2
  <2>7. CASE Clean(b) \/ MergeMain(b) \/ Done(b) \/ GiveUp(b) \/ Add(b) \/ Commit(b)
    <3>1. bpc[b] \in Fetched /\ base' = base
      BY <2>7, Names DEF Clean, MergeMain, Done, GiveUp, Add, Commit, CloneStep,
                         Fetched, Ended
    <3>2. clone'.tracking = clone.tracking
      <4>1. CASE Clean(b) \/ MergeMain(b)
        <5> HIDE DEF TypeOK
        <5>1. CASE Clean(b)
          BY <2>2, <5>1, CleanEffect
        <5>2. CASE MergeMain(b)
          BY <2>2, <5>2, WroteFields DEF MergeMain, Ignoring
        <5> QED BY <4>1, <5>1, <5>2
      <4>2. CASE Done(b) \/ GiveUp(b)
        BY <4>2 DEF Done, GiveUp
      <4>3. CASE Add(b)
        <5>1. bview[b].paths \in SUBSET Builders
          BY DEF TypeOK, BuilderViews
        <5> QED BY <2>2, <4>3, <5>1, AddFields DEF Add
      <4>4. CASE Commit(b)
        BY <2>2, <4>4, RecordFields DEF Commit
      <4> QED BY <2>7, <4>1, <4>2, <4>3, <4>4
    <3> QED BY <2>1, <3>1, <3>2
  <2>8. CASE Push(b)
    BY <2>8, Names DEF Push, Goto, Fetched, Ended
  <2> QED BY <2>3, <2>4, <2>5, <2>6, <2>7, <2>8 DEF Builder
<1> QED BY <1>2, <1>3

(* Once at work, a run goes on from what its own last command left.        *)
LEMMA PreparedStep ==
  ASSUME TypeOK, OntoInv, FetchedInv, NEW b \in Builders, Builder(b),
         b \notin met \cup refused', Prepared(b), Worktree(b)
  PROVE  Prepared(b)'
<1> USE WorkspacesAssumption
<1>1. /\ clone \in Clones /\ bpc \in [Builders -> BuilderPlaces]
      /\ clone.local[clone.head] \in SUBSET Commits
      /\ clone.tracking[Fix[b]] \in SUBSET Commits /\ {} \in SUBSET Commits
      /\ Fix[b] \in Branches
  BY CloneParts DEF TypeOK, Branches
<1>2. bpc[b] \in Fetched => clone.tracking[Fix[b]] = base[b]
  BY DEF FetchedInv
<1>3. CASE BuilderStart(b) \/ CloneRepo(b) \/ Fetch(b) \/ LsRemote(b)
  BY <1>1, <1>3, Names DEF BuilderStart, CloneRepo, Fetch, LsRemote, Goto, Prepared
<1>4. CASE Checkout(b)
  <2>1. bpc'[b] = "reset" /\ base' = base /\ bpc[b] \in Fetched
    BY <1>1, <1>4, Names DEF Checkout, Goto, Fetched, Ended
  <2>2. /\ clone.tracking[Fix[b]] # {}
        /\ clone' = CheckoutB(clone, Fix[b], clone.tracking[Fix[b]])
    BY <1>4 DEF Checkout
  <2> QED BY <1>1, <1>2, <2>1, <2>2, CheckoutFields DEF Prepared
<1>5. CASE Reset(b)
  <2>1. /\ bpc[b] = "reset" /\ bpc'[b] = "clean" /\ base' = base /\ bview' = bview
        /\ bpc[b] \in Fetched /\ Onto(b)
    BY <1>1, <1>5, Names DEF Reset, CloneStep, Goto, Fetched, Ended, OntoInv
  <2>2. clone' = ResetHard(clone, base[b])
    BY <1>2, <1>5, <2>1 DEF Reset, Prepared
  <2>3. Start(b)' = base[b]
    BY <2>1 DEF Start, Onto
  <2>4. clone'.head = Fix[b] /\ clone'.local[Fix[b]] = base[b]
    BY <1>1, <1>2, <2>1, <2>2, ResetFields DEF Prepared
  <2> QED BY <2>1, <2>3, <2>4 DEF Prepared
<1>6. CASE CheckoutMain(b)
  BY <1>1, <1>6, Names DEF CheckoutMain, CloneStep, Goto, Prepared
<1>7. CASE ResetMain(b)
  <2>1. bpc'[b] = "branch" /\ clone' = ResetHard(clone, {})
    BY <1>1, <1>7, Names DEF ResetMain, CloneStep, Goto
  <2> QED BY <1>1, <2>1, ResetFields DEF Prepared
<1>8. CASE CutBranch(b)
  <2>1. /\ bpc[b] = "branch" /\ bpc'[b] = "clean" /\ bview' = bview
        /\ clone' = CheckoutB(clone, Fix[b], {}) /\ ~Onto(b)
    BY <1>1, <1>8, Names DEF CutBranch, CloneStep, Goto, Prepared, OntoInv
  <2>2. Start(b)' = {}
    BY <2>1 DEF Start, Onto
  <2>3. clone'.head = Fix[b] /\ clone'.local[Fix[b]] = {}
    BY <1>1, <2>1, CheckoutFields
  <2> QED BY <2>1, <2>2, <2>3 DEF Prepared
<1>9. ASSUME bpc[b] \in {"clean", "merge", "work", "status", "add"},
             bpc'[b] \notin {"reset", "branch"}, base' = base, Onto(b)' = Onto(b),
             clone'.head = clone.head, clone'.local = clone.local
      PROVE  Prepared(b)'
  BY <1>9 DEF Prepared, Start
<1>10. CASE Clean(b) \/ MergeMain(b)
  <2>1. /\ bpc[b] \in {"clean", "merge"} /\ bpc'[b] \notin {"reset", "branch"}
        /\ base' = base /\ bview' = bview
    BY <1>1, <1>10, Names DEF Clean, MergeMain, CloneStep, Goto
  <2>2. clone'.head = clone.head /\ clone'.local = clone.local
    <3>1. CASE Clean(b)
      BY <1>1, <3>1, CleanEffect
    <3>2. CASE MergeMain(b)
      BY <1>1, <3>2, WroteFields DEF MergeMain, Ignoring
    <3> QED BY <1>10, <3>1, <3>2
  <2> QED BY <1>9, <2>1, <2>2 DEF Onto
<1>11. CASE Turn(b) \/ Done(b) \/ GiveUp(b) \/ Status(b)
  <2>1. /\ bpc[b] \in {"work", "status"} /\ bpc'[b] \notin {"reset", "branch"}
        /\ base' = base
    BY <1>1, <1>11, Names DEF Turn, Done, GiveUp, Status, CloneStep, Goto
  <2>2. bview'[b].onRemote = bview[b].onRemote
    BY <1>11 DEF Turn, Done, GiveUp, Status, CloneStep, TypeOK, BuilderViews
  <2>3. clone'.head = clone.head /\ clone'.local = clone.local
    BY <1>1, <1>11, ToolFields DEF Turn, Done, GiveUp, Status, CloneStep
  <2> QED BY <1>9, <2>1, <2>2, <2>3 DEF Onto
<1>12. CASE Add(b)
  <2>1. /\ bpc[b] = "add" /\ bpc'[b] \in {"commit", "failed"} /\ base' = base
        /\ bview' = bview
    BY <1>1, <1>12, Names DEF Add, CloneStep, Goto
  <2>2. bview[b].paths \in SUBSET Builders
    BY DEF TypeOK, BuilderViews
  <2>3. clone'.head = clone.head /\ clone'.local = clone.local
    BY <1>1, <1>12, <2>2, AddFields DEF Add
  <2> QED BY <1>9, <2>1, <2>3 DEF Onto
<1>13. CASE Commit(b) \/ Push(b)
  BY <1>1, <1>13, Names DEF Commit, Push, CloneStep, Goto, Prepared
<1> QED BY <1>3, <1>4, <1>5, <1>6, <1>7, <1>8, <1>10, <1>11, <1>12, <1>13 DEF Builder

LEMMA WorktreeStep ==
  ASSUME TypeOK, OntoInv, FetchedInv, NEW b \in Builders, Builder(b),
         b \notin met \cup refused', Prepared(b), Worktree(b)
  PROVE  Worktree(b)'
<1> USE WorkspacesAssumption
<1>1. /\ clone \in Clones /\ bpc \in [Builders -> BuilderPlaces]
      /\ bview \in [Builders -> BuilderViews]
      /\ clone.local[clone.head] \in SUBSET Commits
      /\ clone.tracking[Fix[b]] \in SUBSET Commits /\ {} \in SUBSET Commits
      /\ Fix[b] \in Branches
  BY CloneParts DEF TypeOK, Branches
<1>2. CASE BuilderStart(b) \/ CloneRepo(b) \/ Fetch(b) \/ LsRemote(b)
  BY <1>1, <1>2, Names DEF BuilderStart, CloneRepo, Fetch, LsRemote, Goto, Worktree
<1>3. CASE Checkout(b) \/ CheckoutMain(b) \/ ResetMain(b)
  BY <1>1, <1>3, Names DEF Checkout, CheckoutMain, ResetMain, CloneStep, Goto, Worktree
<1>4. CASE Reset(b)
  <2>1. bpc[b] = "reset" /\ bpc'[b] = "clean" /\ clone.tracking[Fix[b]] = base[b]
    BY <1>1, <1>4, Names DEF Reset, CloneStep, Goto, FetchedInv, Fetched, Ended
  <2>2. clone' = ResetHard(clone, clone.tracking[Fix[b]])
    BY <1>4, <2>1 DEF Reset, Prepared
  <2>3. clone'.edited = {} /\ clone'.staged = {}
    BY <1>1, <2>2, ResetFields
  <2> QED BY <2>1, <2>3 DEF Worktree
<1>5. CASE CutBranch(b)
  <2>1. /\ bpc[b] = "branch" /\ bpc'[b] = "clean"
        /\ clone' = CheckoutB(clone, Fix[b], clone.local[clone.head])
    BY <1>1, <1>5, Names DEF CutBranch, CloneStep, Goto
  <2>2. clone'.edited = {} /\ clone'.staged = {}
    BY <1>1, <2>1, CheckoutFields DEF Prepared
  <2> QED BY <2>1, <2>2 DEF Worktree
<1>6. CASE Clean(b)
  <2>1. bpc[b] = "clean" /\ bpc'[b] \in {"merge", "work"}
    BY <1>1, <1>6, Names DEF Clean, CloneStep, Goto
  <2>2. clone'.staged = {} /\ clone'.edited \cup clone'.fresh \subseteq {b}
    BY <1>1, <1>6, <2>1, CleanEffect DEF Worktree
  <2> QED BY <2>1, <2>2 DEF Worktree
<1>7. CASE MergeMain(b) \/ Turn(b)
  <2>1. bpc[b] \in {"merge", "work"} /\ bpc'[b] \in {"work", "failed"}
    BY <1>1, <1>7, Names DEF MergeMain, Turn, CloneStep, Goto
  <2>2. CASE Turn(b)
    <3>1. PICK wrote \in BOOLEAN : clone' \in ToolEffects(b, wrote)
      BY <2>2 DEF Turn
    <3> QED BY <1>1, <2>1, <3>1, ToolFields DEF Worktree
  <2>3. CASE MergeMain(b)
    <3>1. clone' = clone \/ clone' \in Wrote(clone, b)
      BY <2>3 DEF MergeMain, Ignoring, CloneStep
    <3> QED BY <1>1, <2>1, <3>1, WroteFields DEF Worktree
  <2> QED BY <1>7, <2>2, <2>3
<1>8. CASE Done(b) \/ GiveUp(b)
  BY <1>1, <1>8, Names DEF Done, GiveUp, CloneStep, Goto, Worktree
<1>9. CASE Status(b)
  <2>1. bpc[b] = "status" /\ clone' = clone /\ bview'[b].paths = Changed
    BY <1>1, <1>9 DEF Status, BuilderViews
  <2>2. bpc'[b] = (IF Changed = {} THEN "failed" ELSE "add")
    BY <1>1, <1>9 DEF Status, Goto
  <2> QED BY <2>1, <2>2 DEF Worktree, Changed
<1>10. CASE Add(b)
  <2>1. /\ bpc[b] = "add" /\ bpc'[b] \in {"commit", "failed"}
        /\ bpc'[b] = "commit" => clone' = Added(clone, bview[b].paths)
    BY <1>1, <1>10, Names DEF Add, CloneStep, Goto
  <2>2. bview[b].paths \in SUBSET Builders
    BY <1>1 DEF BuilderViews
  <2>3. bpc'[b] = "commit" => clone'.staged = {b}
    BY <1>1, <2>1, <2>2, AddFields DEF Worktree
  <2> QED BY <2>1, <2>3 DEF Worktree
<1>11. CASE Commit(b) \/ Push(b)
  BY <1>1, <1>11, Names DEF Commit, Push, CloneStep, Goto, Worktree
<1> QED BY <1>2, <1>3, <1>4, <1>5, <1>6, <1>7, <1>8, <1>9, <1>10, <1>11 DEF Builder

LEMMA CommittedStep ==
  ASSUME TypeOK, NEW b \in Builders, Builder(b), Prepared(b), Worktree(b), Committed(b)
  PROVE  Committed(b)'
<1> USE WorkspacesAssumption
<1>1. clone \in Clones /\ bpc \in [Builders -> BuilderPlaces] /\ Fix[b] \in Branches
  BY DEF TypeOK, Branches
<1>2. CASE Commit(b)
  <2>1. /\ bpc[b] = "commit" /\ bpc'[b] \in {"push", "failed"}
        /\ base' = base /\ bview' = bview
        /\ bpc'[b] = "push" => clone' = Recorded(clone)
    BY <1>1, <1>2, Names DEF Commit, CloneStep, Goto
  <2>2. Start(b)' = Start(b)
    BY <2>1 DEF Start, Onto
  <2>3. bpc'[b] = "push" => clone'.local[Fix[b]] = Start(b) \cup {b}
    BY <1>1, <2>1, RecordFields DEF Prepared, Worktree
  <2> QED BY <2>1, <2>2, <2>3 DEF Committed
<1>3. CASE Push(b)
  <2>1. /\ bpc[b] = "push" /\ bpc'[b] \in {"ok", "failed"}
        /\ base' = base /\ bview' = bview
    BY <1>1, <1>3, Names DEF Push, Goto
  <2>2. bpc'[b] = "ok" => pushed'[b].commits = clone.local[Fix[b]]
    BY <1>1, <1>3, Names DEF Push, Goto, TypeOK
  <2>3. Start(b)' = Start(b)
    BY <2>1 DEF Start, Onto
  <2> QED BY <2>1, <2>2, <2>3 DEF Committed
<1>4. CASE BuilderStart(b) \/ CloneRepo(b) \/ Fetch(b) \/ LsRemote(b) \/ Checkout(b)
  BY <1>1, <1>4, Names DEF BuilderStart, CloneRepo, Fetch, LsRemote, Checkout, Goto,
                           Committed
<1>5. CASE \/ Reset(b) \/ CheckoutMain(b) \/ ResetMain(b) \/ CutBranch(b) \/ Clean(b)
           \/ MergeMain(b)
  BY <1>1, <1>5, Names DEF Reset, CheckoutMain, ResetMain, CutBranch, Clean, MergeMain,
                           CloneStep, Goto, Committed
<1>6. CASE Turn(b) \/ Done(b) \/ GiveUp(b) \/ Status(b) \/ Add(b)
  BY <1>1, <1>6, Names DEF Turn, Done, GiveUp, Status, Add, CloneStep, Goto, Committed
<1> QED BY <1>2, <1>3, <1>4, <1>5, <1>6 DEF Builder

LEMMA AloneStep ==
  ASSUME TypeOK, BuildersMeet, OntoInv, FetchedInv, AloneInv,
         NEW a \in Builders, Builder(a)
  PROVE  AloneInv'
<1> SUFFICES ASSUME NEW b \in Builders \ (met' \cup refused')
             PROVE  (Prepared(b) /\ Worktree(b) /\ Committed(b))'
  BY DEF AloneInv
<1>1. b \notin met \cup refused /\ Prepared(b) /\ Worktree(b) /\ Committed(b)
  BY BuilderFrame DEF AloneInv
<1>2. CASE b = a
  BY <1>1, <1>2, PreparedStep, WorktreeStep, CommittedStep
<1>3. CASE b # a /\ bpc[b] \notin Ended
  BY <1>3, StepsAlone
<1>4. CASE b # a /\ bpc[b] \in Ended
  <2>1. /\ bpc'[b] \in Ended /\ base'[b] = base[b] /\ bview'[b] = bview[b]
        /\ bpc'[b] = bpc[b] /\ pushed'[b] = pushed[b]
    BY <1>4, BuilderFrame
  <2>2. Start(b)' = Start(b)
    BY <2>1 DEF Start, Onto
  <2> QED BY <1>1, <2>1, <2>2 DEF Ended, Prepared, Worktree, Committed
<1> QED BY <1>2, <1>3, <1>4

LEMMA LeaseStep ==
  ASSUME TypeOK, FetchedInv, LeaseKept, NEW a \in Builders, Builder(a)
  PROVE  LeaseKept'
<1> SUFFICES ASSUME NEW b \in Builders, bpc'[b] = "ok", b \notin met'
             PROVE  pushed'[b].over = base'[b]
  BY DEF LeaseKept
<1>1. b \notin met
  BY BuilderFrame
<1>2. CASE bpc[b] = "ok"
  <2>1. b # a
    BY <1>2, BuilderFrame
  <2> QED BY <1>1, <1>2, <2>1, BuilderFrame DEF LeaseKept
<1>3. CASE bpc[b] # "ok"
  <2>1. b = a
    BY <1>3, BuilderFrame
  <2>2. CASE Push(b)
    <3>1. bpc[b] = "push" /\ bpc[b] \in Fetched /\ base' = base
      BY <2>2, Names DEF Push, Fetched, Ended
    <3>2. Lease(b) /\ pushed'[b].over = remote[Fix[b]]
      BY <2>2, Names DEF Push, Goto, TypeOK
    <3> QED BY <1>1, <3>1, <3>2 DEF FetchedInv, Lease
  <2>3. CASE ~Push(b)
    <3> USE DEF TypeOK
    <3>1. CASE BuilderStart(b) \/ CloneRepo(b) \/ Fetch(b) \/ LsRemote(b) \/ Checkout(b)
      BY <3>1, Names DEF BuilderStart, CloneRepo, Fetch, LsRemote, Checkout, Goto
    <3>2. CASE \/ Reset(b) \/ CheckoutMain(b) \/ ResetMain(b) \/ CutBranch(b) \/ Clean(b)
               \/ MergeMain(b)
      BY <3>2, Names DEF Reset, CheckoutMain, ResetMain, CutBranch, Clean, MergeMain,
                         CloneStep, Goto
    <3>3. CASE Done(b) \/ GiveUp(b) \/ Status(b) \/ Add(b) \/ Commit(b) \/ Turn(b)
      BY <1>3, <3>3, Names DEF Turn, Done, GiveUp, Status, Add, Commit, CloneStep, Goto
    <3> QED BY <2>1, <2>3, <3>1, <3>2, <3>3 DEF Builder
  <2> QED BY <2>2, <2>3
<1> QED BY <1>2, <1>3

(* Everything else leaves the builders as they are, or ends them.          *)
LEMMA BuildersQuiet ==
  ASSUME BuilderInv, met \subseteq met',
         UNCHANGED <<clone, bview, base, pushed, refused>>,
         \A b \in Builders : bpc'[b] = bpc[b] \/ bpc'[b] = "failed"
  PROVE  BuilderInv'
<1>1. ASSUME NEW b \in Builders, bpc'[b] # "failed"
      PROVE  bpc'[b] = bpc[b]
  BY <1>1
<1>2. BuildersMeet'
  BY <1>1 DEF BuilderInv, BuildersMeet, Building, Ended
<1>3. OntoInv'
  BY <1>1 DEF BuilderInv, OntoInv, Onto
<1>4. FetchedInv'
  BY <1>1 DEF BuilderInv, FetchedInv, Fetched, Ended
<1>5. LeaseKept'
  BY <1>1 DEF BuilderInv, LeaseKept
<1>6. AloneInv'
  <2> SUFFICES ASSUME NEW b \in Builders \ (met' \cup refused')
               PROVE  (Prepared(b) /\ Worktree(b) /\ Committed(b))'
    BY DEF AloneInv
  <2>1. Prepared(b) /\ Worktree(b) /\ Committed(b)
    BY DEF BuilderInv, AloneInv
  <2>2. Start(b)' = Start(b)
    BY DEF Start, Onto
  <2>3. CASE bpc'[b] = "failed"
    BY <2>3 DEF Prepared, Worktree, Committed
  <2>4. CASE bpc'[b] = bpc[b]
    BY <2>1, <2>2, <2>4 DEF Prepared, Worktree, Committed
  <2> QED BY <2>3, <2>4
<1> QED BY <1>2, <1>3, <1>4, <1>5, <1>6 DEF BuilderInv

-----------------------------------------------------------------------------
(* Previews *)

LEMMA PreviewAlone ==
  ASSUME TypeOK, PreviewsMeet, NEW v \in Previews, Held(v), v \notin met',
         NEW a \in Previews, Preview(a), ProjectOf[a] = ProjectOf[v]
  PROVE  a = v
<1> SUFFICES ASSUME a # v PROVE FALSE
  OBVIOUS
<1>1. CASE PreviewStart(a)
  BY <1>1 DEF PreviewStart, Previewing
<1>2. CASE ~PreviewStart(a)
  <2>1. Held(a) /\ met' = met
    BY <1>2, PreviewFrame DEF Held, Ended
  <2> QED BY <2>1 DEF PreviewsMeet
<1> QED BY <1>1, <1>2

LEMMA PreviewsMeetStep ==
  ASSUME TypeOK, PreviewsMeet, NEW a \in Previews, Preview(a)
  PROVE  PreviewsMeet'
<1> SUFFICES ASSUME NEW u \in Previews, NEW v \in Previews, Held(u)', Held(v)', u # v,
                    ProjectOf[u] = ProjectOf[v]
             PROVE  u \in met'
  BY DEF PreviewsMeet
<1>1. /\ u # a => Held(u)
      /\ v # a => Held(v)
  BY PreviewFrame DEF Held
<1>2. CASE PreviewStart(a)
  <2>1. CASE u = a \/ v = a
    BY <1>1, <1>2, <2>1 DEF PreviewStart, Previewing
  <2>2. CASE u # a /\ v # a
    BY <1>1, <2>2, PreviewFrame DEF PreviewsMeet
  <2> QED BY <2>1, <2>2
<1>3. CASE ~PreviewStart(a)
  <2>1. Held(a)
    BY <1>3, PreviewFrame DEF Held, Ended
  <2> QED BY <1>1, <2>1, PreviewFrame DEF PreviewsMeet
<1> QED BY <1>2, <1>3

LEMMA TreeStep ==
  ASSUME TypeOK, PreviewsMeet, TreeInv, NEW a \in Previews, Preview(a)
  PROVE  TreeInv'
<1> SUFFICES ASSUME NEW v \in Previews \ met', vpc'[v] \in {"merge", "prepare", "build"}
             PROVE  tree'[ProjectOf[v]].branch = Shows[v]
  BY DEF TreeInv
<1> USE WorkspacesAssumption
<1>1. v \notin met
  BY PreviewFrame
<1>2. CASE v # a
  <2>1. vpc[v] = vpc'[v] /\ Held(v)
    BY <1>2, PreviewFrame DEF Held, Ended
  <2>2. ProjectOf[v] # ProjectOf[a]
    BY <1>2, <2>1, PreviewAlone
  <2>3. tree'[ProjectOf[v]] = tree[ProjectOf[v]]
    BY <2>2, PreviewFrame
  <2> QED BY <1>1, <2>1, <2>3 DEF TreeInv
<1>3. CASE v = a
  <2> USE <1>3 DEF TypeOK
  <2>1. CASE Sync(v)
    BY <2>1 DEF Sync, VGoto
  <2>2. CASE MergeDefault(v) \/ Prepare(v)
    <3>1. vpc[v] \in {"merge", "prepare"} /\ tree' = tree
      BY <2>2 DEF MergeDefault, Prepare
    <3> QED BY <1>1, <3>1 DEF TreeInv
  <2>3. CASE PreviewStart(v) \/ BuildAndRun(v) \/ Poll(v) \/ SavePreview(v)
    BY <2>3 DEF PreviewStart, BuildAndRun, Poll, SavePreview, VGoto
  <2> QED BY <2>1, <2>2, <2>3 DEF Preview
<1> QED BY <1>2, <1>3

LEMMA ServesStep ==
  ASSUME TypeOK, TreeInv, ServesAsked, NEW a \in Previews, Preview(a)
  PROVE  ServesAsked'
<1> SUFFICES ASSUME NEW p \in Projects, NEW v \in container'[p].by,
                    container'[p].up, v \notin met'
             PROVE  container'[p].shows = Shows[v]
  BY DEF ServesAsked
<1> USE WorkspacesAssumption
<1>1. v \notin met
  BY PreviewFrame
<1>2. CASE container'[p] = container[p]
  BY <1>1, <1>2 DEF ServesAsked
<1>3. CASE container'[p] # container[p]
  <2>1. p = ProjectOf[a]
    BY <1>3, PreviewFrame
  <2>2. CASE Prepare(a)
    BY <1>3, <2>1, <2>2 DEF Prepare, NoContainer, TypeOK
  <2>3. CASE BuildAndRun(a)
    <3>1. container'[p] = [up |-> TRUE, address |-> vview[a].address, by |-> {a},
                           shows |-> tree[p].branch]
      BY <1>3, <2>1, <2>3 DEF BuildAndRun, TypeOK
    <3>2. vpc[a] = "build" /\ v = a
      BY <2>3, <3>1 DEF BuildAndRun
    <3> QED BY <1>1, <2>1, <3>1, <3>2 DEF TreeInv
  <2>4. CASE \/ PreviewStart(a) \/ Sync(a) \/ MergeDefault(a) \/ Poll(a)
             \/ SavePreview(a)
    BY <1>3, <2>4 DEF PreviewStart, Sync, MergeDefault, Poll, SavePreview
  <2> QED BY <2>2, <2>3, <2>4 DEF Preview
<1> QED BY <1>2, <1>3

(* In a project whose previews never overlapped, one is at work at most.   *)
LEMMA ApartAlone ==
  ASSUME TypeOK, PreviewsMeet, NEW v \in Previews, Apart(ProjectOf[v])',
         NEW a \in Previews, Preview(a), ProjectOf[a] = ProjectOf[v], Held(v)
  PROVE  a = v /\ Apart(ProjectOf[v])
<1>1. v \notin met'
  BY WorkspacesAssumption DEF Apart
<1> QED BY <1>1, PreviewAlone, PreviewFrame DEF Apart

LEMMA ReplacedStep ==
  ASSUME TypeOK, PreviewsMeet, ReplacedInv, NEW a \in Previews, Preview(a)
  PROVE  ReplacedInv'
<1> SUFFICES
      ASSUME NEW v \in Previews, Apart(ProjectOf[v])'
      PROVE  /\ vpc'[v] \in {"build", "poll", "save"} => last'[ProjectOf[v]] = "building"
             /\ vpc'[v] \in {"poll", "save"} =>
                  /\ container'[ProjectOf[v]].up
                  /\ container'[ProjectOf[v]].address = vview'[v].address
  BY DEF ReplacedInv
<1> USE WorkspacesAssumption
<1>1. Apart(ProjectOf[v])
  BY PreviewFrame DEF Apart
<1>2. CASE v # a
  <2> SUFFICES ASSUME vpc'[v] \in {"build", "poll", "save"}
               PROVE  /\ last'[ProjectOf[v]] = "building"
                      /\ vpc'[v] \in {"poll", "save"} =>
                           /\ container'[ProjectOf[v]].up
                           /\ container'[ProjectOf[v]].address = vview'[v].address
    OBVIOUS
  <2>1. vpc[v] = vpc'[v] /\ vview'[v] = vview[v] /\ Held(v)
    BY <1>2, PreviewFrame DEF Held, Ended
  <2>2. ProjectOf[v] # ProjectOf[a]
    BY <1>2, <2>1, ApartAlone
  <2>3. last'[ProjectOf[v]] = last[ProjectOf[v]]
        /\ container'[ProjectOf[v]] = container[ProjectOf[v]]
    BY <2>2, PreviewFrame
  <2> QED BY <1>1, <2>1, <2>3 DEF ReplacedInv
<1>3. CASE v = a
  <2> USE <1>3 DEF TypeOK
  <2>1. CASE Prepare(v)
    BY <2>1 DEF Prepare, VGoto
  <2>2. CASE BuildAndRun(v)
    <3>1. vpc[v] = "build" /\ last' = last /\ vview' = vview
          /\ vpc'[v] \in {"poll", "clash", "failed"}
      BY <2>2 DEF BuildAndRun, VGoto
    <3>2. vpc'[v] = "poll" =>
            container'[ProjectOf[v]] =
              [up |-> TRUE, address |-> vview[v].address, by |-> {v},
               shows |-> tree[ProjectOf[v]].branch]
      BY <2>2 DEF BuildAndRun, VGoto
    <3> QED BY <1>1, <3>1, <3>2 DEF ReplacedInv
  <2>3. CASE Poll(v)
    <3>1. vpc[v] = "poll" /\ last' = last /\ vview' = vview /\ container' = container
      BY <2>3 DEF Poll
    <3> QED BY <1>1, <3>1 DEF ReplacedInv
  <2>4. CASE PreviewStart(v) \/ Sync(v) \/ MergeDefault(v) \/ SavePreview(v)
    BY <2>4 DEF PreviewStart, Sync, MergeDefault, SavePreview, VGoto
  <2> QED BY <2>1, <2>2, <2>3, <2>4 DEF Preview
<1> QED BY <1>2, <1>3

LEMMA UrlStep ==
  ASSUME TypeOK, PreviewsMeet, ReplacedInv, UrlServed, NEW a \in Previews, Preview(a)
  PROVE  UrlServed'
<1> SUFFICES ASSUME NEW p \in Projects, last'[p] = "ok", Apart(p)'
             PROVE  container'[p].up /\ container'[p].address = url'[p]
  BY DEF UrlServed, Apart
<1> USE WorkspacesAssumption
<1>1. Apart(p)
  BY PreviewFrame DEF Apart
<1>2. CASE p # ProjectOf[a]
  BY <1>1, <1>2, PreviewFrame DEF UrlServed, Apart
<1>3. CASE p = ProjectOf[a]
  <2> USE <1>3 DEF TypeOK
  <2>1. CASE PreviewStart(a) \/ Sync(a) \/ MergeDefault(a) \/ Poll(a)
    <3>1. UNCHANGED <<last, container, url>>
      BY <2>1 DEF PreviewStart, Sync, MergeDefault, Poll
    <3> QED BY <1>1, <3>1 DEF UrlServed, Apart
  <2>2. CASE Prepare(a)
    <3>1. UNCHANGED <<last, container, url>> \/ last'[p] = "building"
      BY <2>2 DEF Prepare
    <3> QED BY <1>1, <3>1 DEF UrlServed, Apart
  <2>3. CASE BuildAndRun(a)
    <3>1. vpc[a] = "build" /\ last' = last
      BY <2>3 DEF BuildAndRun
    <3> QED BY <1>1, <3>1 DEF ReplacedInv
  <2>4. CASE SavePreview(a)
    <3>1. vpc[a] = "save" /\ url'[p] = vview[a].address /\ container' = container
      BY <2>4 DEF SavePreview
    <3> QED BY <1>1, <3>1 DEF ReplacedInv
  <2> QED BY <2>1, <2>2, <2>3, <2>4 DEF Preview
<1> QED BY <1>2, <1>3

LEMMA PortStep ==
  ASSUME TypeOK, PortInv, NEW a \in Previews, Preview(a)
  PROVE  PortInv'
<1> SUFFICES
      ASSUME NEW v \in Previews \ raced', vpc'[v] = "build", ~traefik'
      PROVE  /\ \A p \in Projects :
                  container'[p].up => container'[p].address # vview'[v].address
             /\ \A u \in Previews \ {v} :
                  vpc'[u] = "build" => vview'[u].address # vview'[v].address
  BY DEF PortInv
<1> USE WorkspacesAssumption
<1>1. v \notin raced /\ ~traefik
  BY PreviewFrame DEF previewFrame
<1>2. /\ container \in [Projects -> Containers] /\ vview \in [Previews -> PreviewViews]
      /\ vpc \in [Previews -> PreviewPlaces] /\ ProjectOf[a] \in Projects
  BY DEF TypeOK
<1>3. CASE Prepare(a)
  <2>1. CASE vpc'[a] = "build"
    <3>1. PICK used \in {UsedHostPorts, {}} :
          \E port \in FreePorts(used) :
            /\ vpc' = [vpc EXCEPT ![a] = "build"]
            /\ vview' = [vview EXCEPT ![a].address = port]
            /\ container' = [container EXCEPT ![ProjectOf[a]] = NoContainer]
            /\ raced' = IF Waiting(port) = {} /\ used = UsedHostPorts THEN raced
                        ELSE raced \cup Waiting(port) \cup {a}
      BY <1>1, <1>2, <1>3, <2>1 DEF Prepare, VGoto
    <3>2. PICK port \in FreePorts(used) :
            /\ vpc' = [vpc EXCEPT ![a] = "build"]
            /\ vview' = [vview EXCEPT ![a].address = port]
            /\ container' = [container EXCEPT ![ProjectOf[a]] = NoContainer]
            /\ raced' = IF Waiting(port) = {} /\ used = UsedHostPorts THEN raced
                        ELSE raced \cup Waiting(port) \cup {a}
      BY <3>1
    <3>3. \A u \in Previews :
            vview'[u].address = IF u = a THEN port ELSE vview[u].address
      BY <1>2, <3>2 DEF PreviewViews
    <3>4. \A p \in Projects : container'[p].up =>
            container[p].up /\ container'[p].address = container[p].address
      BY <1>2, <3>2 DEF NoContainer
    <3>5. vpc[a] = "prepare"
      BY <1>3 DEF Prepare
    <3>6. CASE v = a
      <4>1. Waiting(port) = {} /\ used = UsedHostPorts
        BY <3>2, <3>6
      <4>2. \A p \in Projects : container[p].up => container[p].address # port
        BY <4>1 DEF FreePorts, UsedHostPorts
      <4>3. \A u \in Previews \ {v} :
              vpc'[u] = "build" => vpc[u] = "build" /\ vview[u].address # port
        BY <1>2, <3>2, <3>6, <4>1 DEF Waiting
      <4> QED BY <3>3, <3>4, <3>6, <4>2, <4>3
    <3>7. CASE v # a
      <4>1. vpc[v] = "build"
        BY <1>2, <3>2, <3>7
      <4>2. vview[v].address # port
        <5> SUFFICES ASSUME vview[v].address = port PROVE v \in raced'
          OBVIOUS
        <5>1. v \in Waiting(port)
          BY <4>1 DEF Waiting
        <5>2. raced' = raced \cup Waiting(port) \cup {a}
          BY <3>2, <5>1
        <5> QED BY <5>1, <5>2
      <4>3. \A u \in Previews \ {v} : vpc'[u] = "build" => u = a \/ vpc[u] = "build"
        BY <1>2, <3>2
      <4> QED BY <1>1, <3>3, <3>4, <3>7, <4>1, <4>2, <4>3 DEF PortInv
    <3> QED BY <3>6, <3>7
  <2>2. CASE vpc'[a] # "build"
    <3>1. vpc' = [vpc EXCEPT ![a] = "failed"] /\ UNCHANGED <<vview, container>>
      BY <1>2, <1>3, <2>2 DEF Prepare, VGoto
    <3> QED BY <1>1, <1>2, <3>1 DEF PortInv
  <2> QED BY <2>1, <2>2
<1>4. CASE BuildAndRun(a)
  <2>1. /\ vpc[a] = "build" /\ vpc'[a] # "build" /\ vview' = vview
        /\ \A u \in Previews \ {a} : vpc'[u] = vpc[u]
    BY <1>2, <1>4 DEF BuildAndRun, VGoto
  <2>2. v # a /\ vpc[v] = "build"
    BY <2>1
  <2>3. \A p \in Projects : container'[p].up =>
          \/ container'[p] = container[p]
          \/ container'[p].address = vview[a].address
    BY <1>2, <1>4 DEF BuildAndRun
  <2> QED BY <1>1, <2>1, <2>2, <2>3 DEF PortInv
<1>5. CASE \/ PreviewStart(a) \/ Sync(a) \/ MergeDefault(a) \/ Poll(a) \/ SavePreview(a)
  <2>1. /\ container' = container /\ vpc'[a] # "build"
        /\ \A u \in Previews : vview'[u].address = vview[u].address
    BY <1>2, <1>5 DEF PreviewStart, Sync, MergeDefault, Poll, SavePreview, VGoto,
                      PreviewViews
  <2>2. \A u \in Previews : vpc'[u] = "build" => vpc[u] = "build"
    BY <2>1, PreviewFrame
  <2> QED BY <1>1, <2>1, <2>2 DEF PortInv
<1> QED BY <1>3, <1>4, <1>5 DEF Preview

LEMMA ClashStep ==
  ASSUME TypeOK, PortInv, PortClashOnlyFromRace, NEW a \in Previews, Preview(a)
  PROVE  PortClashOnlyFromRace'
<1> SUFFICES ASSUME NEW v \in Previews, vpc'[v] = "clash" PROVE v \in raced'
  BY DEF PortClashOnlyFromRace
<1>1. CASE vpc[v] = "clash"
  BY <1>1, PreviewFrame DEF PortClashOnlyFromRace
<1>2. CASE vpc[v] # "clash"
  <2>1. v = a
    BY <1>2, PreviewFrame
  <2>2. CASE BuildAndRun(v)
    <3>1. vpc[v] = "build" /\ PortTaken(v)
      BY <2>2 DEF BuildAndRun, VGoto, TypeOK
    <3> QED BY <3>1, <2>1, PreviewFrame DEF PortInv, PortTaken
  <2>3. CASE \/ PreviewStart(v) \/ Sync(v) \/ MergeDefault(v) \/ Prepare(v) \/ Poll(v)
             \/ SavePreview(v)
    BY <2>3 DEF PreviewStart, Sync, MergeDefault, Prepare, Poll, SavePreview, VGoto,
                TypeOK
  <2> QED BY <2>1, <2>2, <2>3 DEF Preview
<1> QED BY <1>1, <1>2

(* Everything else leaves the previews as they are, or ends them.          *)
LEMMA PreviewsQuiet ==
  ASSUME PreviewInv, met \subseteq met',
         UNCHANGED <<traefik, tree, container, url, vview, raced, last>>,
         \A v \in Previews : vpc'[v] = vpc[v] \/ vpc'[v] = "failed"
  PROVE  PreviewInv'
<1>1. PreviewsMeet'
  BY DEF PreviewInv, PreviewsMeet, Held, Ended
<1>2. TreeInv' /\ ServesAsked'
  BY DEF PreviewInv, TreeInv, ServesAsked
<1>3. \A p : Apart(p)' => Apart(p)
  BY DEF Apart
<1>4. ReplacedInv'
  BY <1>3 DEF PreviewInv, ReplacedInv
<1>5. UrlServed'
  BY <1>3 DEF PreviewInv, UrlServed, Apart
<1>6. PortInv' /\ PortClashOnlyFromRace'
  BY DEF PreviewInv, PortInv, PortClashOnlyFromRace
<1> QED BY <1>1, <1>2, <1>4, <1>5, <1>6 DEF PreviewInv

-----------------------------------------------------------------------------
(* The invariant *)

LEMMA InitInv == Init => IInv
<1> SUFFICES ASSUME Init PROVE IInv
  OBVIOUS
<1> USE WorkspacesAssumption
<1>1. /\ \A b \in Builders : bpc[b] = "idle"
      /\ \A v \in Previews : vpc[v] = "idle"
      /\ \A p \in Projects : container[p] = NoContainer /\ last[p] = "none"
  BY DEF Init
<1>2. BuilderInv
  BY <1>1 DEF BuilderInv, BuildersMeet, Building, Ended, OntoInv, FetchedInv, Fetched,
              LeaseKept, AloneInv, Prepared, Worktree, Committed
<1>3. PreviewInv
  BY <1>1 DEF PreviewInv, PreviewsMeet, Held, Ended, TreeInv, ServesAsked, NoContainer,
              ReplacedInv, UrlServed, PortInv, PortClashOnlyFromRace
<1> QED BY <1>2, <1>3, InitType DEF IInv

LEMMA StepInv == IInv /\ [Next]_vars => IInv'
<1> SUFFICES ASSUME IInv, [Next]_vars PROVE IInv'
  OBVIOUS
<1>1. TypeOK /\ BuilderInv /\ PreviewInv /\ TypeOK'
  BY TypeStep DEF IInv, BuilderInv
<1>2. CASE UNCHANGED vars
  BY <1>1, <1>2, BuildersQuiet, PreviewsQuiet
     DEF IInv, vars, builderVars, previewVars
<1>3. ASSUME NEW b \in Builders, Builder(b)
      PROVE  IInv'
  <2>1. BuilderInv'
    BY <1>1, <1>3, MeetStep, OntoStep, FetchedStep, LeaseStep, AloneStep DEF BuilderInv
  <2>2. PreviewInv'
    BY <1>1, <1>3, BuilderFrame, PreviewsQuiet DEF builderFrame, previewVars
  <2> QED BY <1>1, <2>1, <2>2 DEF IInv
<1>4. ASSUME NEW v \in Previews, Preview(v)
      PROVE  IInv'
  <2>1. BuilderInv'
    BY <1>1, <1>4, PreviewFrame, BuildersQuiet DEF previewFrame, builderVars
  <2>2. PreviewInv'
    BY <1>1, <1>4, PreviewsMeetStep, TreeStep, ServesStep, ReplacedStep, UrlStep,
       PortStep, ClashStep DEF PreviewInv
  <2> QED BY <1>1, <2>1, <2>2 DEF IInv
<1>5. ASSUME NEW i \in Issues, PersonPushes(i)
      PROVE  IInv'
  <2>1. UNCHANGED <<traefik, builderVars, previewVars, met>>
    BY <1>5 DEF PersonPushes
  <2>2. BuilderInv'
    BY <1>1, <2>1, BuildersQuiet DEF builderVars
  <2>3. PreviewInv'
    BY <1>1, <2>1, PreviewsQuiet DEF previewVars
  <2> QED BY <1>1, <2>2, <2>3 DEF IInv
<1>6. CASE Crash
  <2>1. /\ UNCHANGED <<traefik, clone, bview, base, pushed, refused>>
        /\ UNCHANGED <<tree, container, url, vview, raced, last, met>>
        /\ \A b \in Builders : bpc'[b] = bpc[b] \/ bpc'[b] = "failed"
        /\ \A v \in Previews : vpc'[v] = vpc[v] \/ vpc'[v] = "failed"
    BY <1>6 DEF Crash
  <2> QED BY <1>1, <2>1, BuildersQuiet, PreviewsQuiet DEF IInv
<1> QED BY <1>2, <1>3, <1>4, <1>5, <1>6 DEF Next

LEMMA Invariance == Spec => []IInv
BY InitInv, StepInv, PTL DEF Spec

(* Every variable has its type, whatever the runs are and however they     *)
(* interleave: in particular a builder takes no more turns than            *)
(* max_iterations, and only a rework is refused its branch                 *)
(* (agent_sdk.py:498-499, 575).                                            *)
THEOREM TypeCorrect == Spec => []TypeOK
BY Invariance, PTL DEF IInv

(* A run that reports success pushed its own work, nobody else's, and all  *)
(* of what a rework was asked to repair, unless another builder was in the *)
(* clone or git refused the checkout of its branch                         *)
(* (agent_sdk.py:497-518, 713-752).                                        *)
THEOREM PushesOwnWork == Spec => []OwnWorkPushed
<1>1. IInv => OwnWorkPushed
  <2> SUFFICES ASSUME IInv, NEW b \in Builders, Undisturbed(b)
               PROVE  /\ b \in pushed[b].commits
                      /\ pushed[b].commits \subseteq {b, Fix[b]} \cup base[b]
                      /\ b \in Reworks /\ bview[b].onRemote =>
                           base[b] \subseteq pushed[b].commits
    BY DEF OwnWorkPushed
  <2>1. pushed[b].commits = Start(b) \cup {b}
    BY DEF IInv, BuilderInv, AloneInv, Committed, Undisturbed
  <2> QED BY <2>1 DEF Start, Onto
<1> QED BY <1>1, Invariance, PTL

(* The branch a push replaced is the one its run fetched, unless another   *)
(* builder was in the clone (agent_sdk.py:485-492, 744-750).               *)
THEOREM KeepsLease == Spec => []LeaseKept
BY Invariance, PTL DEF IInv, BuilderInv

(* A container shows the branch its preview was asked for, unless previews *)
(* of the project overlapped (preview.py:222-232, 403).                    *)
THEOREM ShowsAsked == Spec => []ServesAsked
BY Invariance, PTL DEF IInv, PreviewInv

(* A saved URL is where the project's container is up, unless previews of  *)
(* the project overlapped (preview.py:387-461, routes.py:739-743).         *)
THEOREM UrlIsServed == Spec => []UrlServed
BY Invariance, PTL DEF IInv, PreviewInv

(* docker refuses a port only to a preview that raced for it               *)
(* (preview.py:20-44, 370, 453).                                           *)
THEOREM ClashesRaced == Spec => []PortClashOnlyFromRace
BY Invariance, PTL DEF IInv, PreviewInv
=============================================================================
