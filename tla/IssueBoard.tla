----------------------------- MODULE IssueBoard -----------------------------
(***************************************************************************)
(* The issue rows of one project after they exist: everything that reads   *)
(* and writes table github_issues while GitHub moves on by itself.  The    *)
(* builder, the reviewer and the sync are BackgroundTasks of routes.py and *)
(* webhook_github.py with no handle, no lock and no limit; each is a       *)
(* process here and a step is what it does between two awaits that touch   *)
(* the table, GitHub or the deliveries seen.  A GitHub issue has at most   *)
(* one pull request opened for it, and the issue stands for its number;    *)
(* strays are pull requests opened for no issue.  A row may still name the *)
(* pull request of another issue, or a stray.  The versions pushed to a    *)
(* pull request are numbered from 1: a number stands for a head SHA and    *)
(* for the diff of that head.                                              *)
(***************************************************************************)
EXTENDS Naturals, Sequences, FiniteSets

CONSTANTS
    Issues, NoIssue,
    Strays,          \* the numbers in Issues that are no issue on GitHub
    Builders,        \* implement requests
    Reviewers,       \* reviews, of which
    Asked,           \* these are asked for by users, the others by webhooks
    Syncs, Creators, Checkers,
    Hooks,           \* requests GitHub makes to the webhook
    MaxHead, MaxDeliveries, MaxCrashes   \* bounds for TLC

ASSUME IssueBoardAssumption ==
    /\ NoIssue \notin Issues /\ Strays \subseteq Issues
    /\ Asked \subseteq Reviewers
    /\ MaxHead \in Nat /\ MaxDeliveries \in Nat /\ MaxCrashes \in Nat

VARIABLES
    board,      \* rows of each issue number, in insertion order
    preview,    \* projects.preview_url is set
    gh,         \* GitHub: state of the issue and of its pull request
    sent,       \* pull_request deliveries; the position is the delivery id
    recorded,   \* table webhook_deliveries
    builder, reviewer, sync, creator, checker, hook,   \* the processes
    quiet,      \* history: syncs since whose listing nothing else wrote
    crashes

taskVars == <<builder, reviewer, sync, creator, checker, hook>>
vars == <<board, preview, gh, sent, recorded, taskVars, quiet, crashes>>

-----------------------------------------------------------------------------
Statuses == {"open", "implementing", "pr_open", "pr_reviewed", "merged",
             "closed"}
Ended == {"merged", "closed"}
Heads == 0..MaxHead      \* 0: no head, or one that could not be read

(* A row.  pr is pr_number, as the issue that pull request was opened for; *)
(* reviewed, sha and seen are pr_review_json: whether it is set, its       *)
(* head_sha, and the head whose diff its summary is about.                 *)
Row == [status : Statuses, pr : Issues \cup {NoIssue},
        reviewed : BOOLEAN, sha : Heads, seen : Heads,
        build : {"none", "running", "passed", "failed"}]

FreshRow == [status |-> "open", pr |-> NoIssue, reviewed |-> FALSE,
             sha |-> 0, seen |-> 0, build |-> "none"]

IssueStates == {"none", "open", "closed"}
GitHubIssue == [issue : IssueStates,
                pr : {"none", "open", "closed", "merged"}, head : Heads]

BuilderPCs  == {"idle", "read", "working", "failed", "pushed", "opened",
                "done", "reverted", "unopened", "dead"}
ReviewerPCs == {"idle", "queued", "headed", "checked", "reviewing",
                "answered", "stored", "skipped", "dead"}
SyncPCs     == {"idle", "queued", "listed", "walking", "found", "previewing",
                "done", "dead"}
HookPCs     == {"idle", "accepted", "applied", "done", "duplicate", "lost",
                "cut", "collected"}

(* A sync: the issue states GitHub listed, the issues to insert, the       *)
(* statuses to write, the issues whose pull request is to be looked up,    *)
(* the one looked up and the pull request found; history: the issues whose *)
(* lookup came back empty.                                                 *)
SyncState == [pc : SyncPCs, listed : [Issues -> IssueStates],
              fresh : SUBSET Issues, settle : SUBSET (Issues \X Ended),
              probe : SUBSET Issues, at : Issues \cup {NoIssue},
              named : Issues \cup {NoIssue},
              imported : SUBSET Issues, missed : SUBSET Issues]

(* A sync with nothing left to do; what its locals hold is forgotten when  *)
(* it cannot read them again.                                              *)
Unlisted == [i \in Issues |-> "none"]
BareSync(pc) == [pc |-> pc, listed |-> Unlisted, fresh |-> {}, settle |-> {},
                 probe |-> {}, at |-> NoIssue, named |-> NoIssue,
                 imported |-> {}, missed |-> {}]

(* A build check runs after the syncs its response queued before it.       *)
CheckerState == [pc : {"idle", "queued", "running", "done", "dead"},
                 issue : Issues \cup {NoIssue}, after : SUBSET Syncs]

TypeOK ==
    /\ board \in [Issues -> Seq(Row)]
    /\ preview \in BOOLEAN
    /\ gh \in [Issues -> GitHubIssue]
    /\ sent \in Seq([issue : Issues, event : {"opened", "closed", "merged"}])
    /\ recorded \subseteq 1..Len(sent)
    /\ builder \in [Builders -> [pc : BuilderPCs, issue : Issues \cup {NoIssue},
                                 known : Issues \cup {NoIssue}]]
    /\ reviewer \in [Reviewers -> [pc : ReviewerPCs,
                                   issue : Issues \cup {NoIssue},
                                   of : Issues \cup {NoIssue},
                                   sha : Heads, seen : Heads]]
    /\ sync \in [Syncs -> SyncState]
    /\ creator \in [Creators -> [pc : {"idle", "created", "done", "dead"},
                                 issue : Issues \cup {NoIssue}]]
    /\ checker \in [Checkers -> CheckerState]
    /\ hook \in [Hooks -> [pc : HookPCs, id : 0..Len(sent)]]
    /\ quiet \subseteq Syncs
    /\ crashes \in Nat

Init ==
    /\ board = [i \in Issues |-> <<>>]
    /\ preview = FALSE
    /\ gh = [i \in Issues |-> [issue |-> "none", pr |-> "none", head |-> 0]]
    /\ sent = <<>> /\ recorded = {}
    /\ builder = [b \in Builders |->
                    [pc |-> "idle", issue |-> NoIssue, known |-> NoIssue]]
    /\ reviewer = [r \in Reviewers |->
                    [pc |-> "idle", issue |-> NoIssue, of |-> NoIssue,
                     sha |-> 0, seen |-> 0]]
    /\ sync = [s \in Syncs |-> BareSync("idle")]
    /\ creator = [c \in Creators |-> [pc |-> "idle", issue |-> NoIssue]]
    /\ checker = [c \in Checkers |->
                    [pc |-> "idle", issue |-> NoIssue, after |-> {}]]
    /\ hook = [h \in Hooks |-> [pc |-> "idle", id |-> 0]]
    /\ quiet = {} /\ crashes = 0

-----------------------------------------------------------------------------
(* The table *)

Tracked(i) == board[i] # <<>>
First(i)   == board[i][1]                 \* what a single-row read returns
Last(i)    == board[i][Len(board[i])]     \* what survives in a dict by number

WithStatus(row, st) == [row EXCEPT !.status = st]

WithPR(row, p, st, isReviewed, ofSha, ofDiff) ==
    [row EXCEPT !.status = st, !.pr = p,
                !.reviewed = isReviewed, !.sha = ofSha, !.seen = ofDiff]

WithBuild(row, st) == [row EXCEPT !.build = st]

(* An UPDATE names the issue number, so it changes every row of the issue. *)
SetStatus(i, st) ==
    board' = [board EXCEPT ![i] = [k \in 1..Len(board[i]) |->
                                     WithStatus(board[i][k], st)]]

SetPR(i, p, st, isReviewed, ofSha, ofDiff) ==
    board' = [board EXCEPT ![i] = [k \in 1..Len(board[i]) |->
                 WithPR(board[i][k], p, st, isReviewed, ofSha, ofDiff)]]

SetBuild(i, st) ==
    board' = [board EXCEPT ![i] = [k \in 1..Len(board[i]) |->
                                     WithBuild(board[i][k], st)]]

InsertRow(i) == board' = [board EXCEPT ![i] = Append(@, FreshRow)]

Changed == quiet' = {}

-----------------------------------------------------------------------------
(* GitHub, moved by people, Copilot and the builder.  Only pull requests   *)
(* that open, reopen or close are delivered to anything that listens, and  *)
(* those of a stray change nothing there.                                  *)

Deliver(i, event) ==
    \/ /\ i \notin Strays /\ Len(sent) < MaxDeliveries
       /\ sent' = Append(sent, [issue |-> i, event |-> event])
    \/ i \in Strays /\ UNCHANGED sent

GitHubPR(i, state, head) ==
    gh' = [gh EXCEPT ![i].pr = state, ![i].head = head]

FileIssue(i) ==
    /\ gh[i].issue = "none" /\ i \notin Strays
    /\ gh' = [gh EXCEPT ![i].issue = "open"]
    /\ UNCHANGED sent

CloseOrReopenIssue(i) ==
    /\ gh[i].issue # "none"
    /\ gh' = [gh EXCEPT ![i].issue = IF @ = "open" THEN "closed" ELSE "open"]
    /\ UNCHANGED sent

OpenPR(i) ==
    /\ gh[i].issue = "open" \/ i \in Strays
    /\ \/ /\ gh[i].pr = "none" /\ gh[i].head < MaxHead
          /\ GitHubPR(i, "open", gh[i].head + 1)
       \/ gh[i].pr = "closed" /\ GitHubPR(i, "open", gh[i].head)
    /\ Deliver(i, "opened")

Push(i) ==
    /\ gh[i].pr = "open" /\ gh[i].head < MaxHead
    /\ GitHubPR(i, "open", gh[i].head + 1)
    /\ UNCHANGED sent

ClosePR(i) ==
    /\ gh[i].pr = "open"
    /\ GitHubPR(i, "closed", gh[i].head)
    /\ Deliver(i, "closed")

MergePR(i) ==
    /\ gh[i].pr = "open"
    /\ gh' = [gh EXCEPT ![i].pr = "merged",
                        ![i].issue = IF @ = "none" THEN @ ELSE "closed"]
    /\ Deliver(i, "merged")

GitHubMoves ==
    /\ \E i \in Issues : \/ FileIssue(i) \/ CloseOrReopenIssue(i)
                         \/ OpenPR(i) \/ Push(i) \/ ClosePR(i) \/ MergePR(i)
    /\ Changed
    /\ UNCHANGED <<board, preview, recorded, taskVars, crashes>>

-----------------------------------------------------------------------------
(* Creating one issue: on GitHub first, then its row *)

CreatorStep(c, pc, i) == creator' = [creator EXCEPT ![c] = [pc |-> pc, issue |-> i]]

CreateIssue(c, i) ==
    /\ creator[c].pc = "idle" /\ gh[i].issue = "none" /\ i \notin Strays
    /\ gh' = [gh EXCEPT ![i].issue = "open"]
    /\ CreatorStep(c, "created", i)
    /\ Changed
    /\ UNCHANGED <<board, preview, sent, recorded, builder, reviewer, sync,
                   checker, hook, crashes>>

InsertIssue(c) ==
    /\ creator[c].pc = "created"
    /\ InsertRow(creator[c].issue)
    /\ CreatorStep(c, "done", creator[c].issue)
    /\ Changed
    /\ UNCHANGED <<preview, gh, sent, recorded, builder, reviewer, sync,
                   checker, hook, crashes>>

-----------------------------------------------------------------------------
(* The builder: implement_issue_with_builder *)

GoBuilder(b, pc) == builder' = [builder EXCEPT ![b].pc = pc]
BuilderEnds(b, pc) ==
    builder' = [builder EXCEPT ![b] =
                  [pc |-> pc, issue |-> NoIssue, known |-> NoIssue]]
NotBuilder == <<preview, recorded, reviewer, sync, creator, checker, hook, crashes>>

BuildRequest(b, i) ==
    /\ builder[b].pc = "idle" /\ gh[i].issue # "none"
    /\ builder' = [builder EXCEPT ![b] =
                     [pc |-> "read", issue |-> i,
                      known |-> IF Tracked(i) THEN First(i).pr ELSE NoIssue]]
    /\ UNCHANGED <<board, gh, sent, quiet, NotBuilder>>

BuildMark(b) ==
    /\ builder[b].pc = "read"
    /\ SetStatus(builder[b].issue, "implementing")
    /\ GoBuilder(b, "working")
    /\ Changed
    /\ UNCHANGED <<gh, sent, NotBuilder>>

(* The agent ran out of iterations, changed nothing or could not push.     *)
BuildAgentFails(b) ==
    /\ builder[b].pc = "working"
    /\ GoBuilder(b, "failed")
    /\ UNCHANGED <<board, gh, sent, quiet, NotBuilder>>

BuildAgentPushes(b) ==
    LET i == builder[b].issue
    IN /\ builder[b].pc = "working"
       /\ IF gh[i].pr = "open"
          THEN gh[i].head < MaxHead /\ GitHubPR(i, "open", gh[i].head + 1)
          ELSE UNCHANGED gh
       /\ GoBuilder(b, "pushed")
       /\ Changed
       /\ UNCHANGED <<board, sent, NotBuilder>>

(* Mutant: a failure always goes back to the review it was meant to answer. *)
BuildRevertToReview(b) ==
    /\ builder[b].pc = "failed"
    /\ SetStatus(builder[b].issue, "pr_reviewed")
    /\ BuilderEnds(b, "reverted")
    /\ Changed
    /\ UNCHANGED <<gh, sent, NotBuilder>>

(* Mutant: a failure is reported and the row is left as it is.             *)
BuildRevertForgotten(b) ==
    /\ builder[b].pc = "failed"
    /\ BuilderEnds(b, "reverted")
    /\ UNCHANGED <<board, gh, sent, quiet, NotBuilder>>

(* Mutant: a failure has a status of its own, which nothing else knows.    *)
BuildRevertToFailed(b) ==
    /\ builder[b].pc = "failed"
    /\ SetStatus(builder[b].issue, "failed")
    /\ BuilderEnds(b, "reverted")
    /\ Changed
    /\ UNCHANGED <<gh, sent, NotBuilder>>

BuildRevert(b) ==
    /\ builder[b].pc = "failed"
    /\ SetStatus(builder[b].issue,
                 IF builder[b].known = NoIssue THEN "open" ELSE "pr_reviewed")
    /\ BuilderEnds(b, "reverted")
    /\ Changed
    /\ UNCHANGED <<gh, sent, NotBuilder>>

(* The row knew a pull request: it is written again, its review reset.     *)
BuildUpdatePR(b) ==
    /\ builder[b].pc = "pushed" /\ builder[b].known # NoIssue
    /\ SetPR(builder[b].issue, builder[b].known, "pr_open", FALSE, 0, 0)
    /\ BuilderEnds(b, "done")
    /\ Changed
    /\ UNCHANGED <<gh, sent, NotBuilder>>

BuildOpenPR(b) ==
    LET i == builder[b].issue
    IN /\ builder[b].pc = "pushed" /\ builder[b].known = NoIssue
       /\ gh[i].pr # "open" /\ gh[i].head < MaxHead
       /\ GitHubPR(i, "open", gh[i].head + 1)
       /\ Deliver(i, "opened")
       /\ GoBuilder(b, "opened")
       /\ Changed
       /\ UNCHANGED <<board, NotBuilder>>

(* Any refusal or error of create_pull_request is only logged.             *)
BuildOpenPRFails(b) ==
    /\ builder[b].pc = "pushed" /\ builder[b].known = NoIssue
    /\ BuilderEnds(b, "unopened")
    /\ UNCHANGED <<board, gh, sent, quiet, NotBuilder>>

BuildRecordPR(b) ==
    /\ builder[b].pc = "opened"
    /\ SetPR(builder[b].issue, builder[b].issue, "pr_open", FALSE, 0, 0)
    /\ BuilderEnds(b, "done")
    /\ Changed
    /\ UNCHANGED <<gh, sent, NotBuilder>>

(* A tool of the agent or find_pr_for_issue raised: nothing catches it.    *)
BuildRaises(b) ==
    /\ \/ builder[b].pc = "working"
       \/ builder[b].pc = "pushed" /\ builder[b].known # NoIssue
    /\ BuilderEnds(b, "dead")
    /\ UNCHANGED <<board, gh, sent, quiet, NotBuilder>>

BuildEnds(b) ==
    \/ BuildMark(b) \/ BuildAgentFails(b) \/ BuildAgentPushes(b)
    \/ BuildRevert(b) \/ BuildUpdatePR(b) \/ BuildOpenPR(b)
    \/ BuildOpenPRFails(b) \/ BuildRecordPR(b) \/ BuildRaises(b)

-----------------------------------------------------------------------------
(* The reviewer: review_pr *)

ReviewerAt(r, pc, h, d) ==
    reviewer' = [reviewer EXCEPT ![r] = [pc |-> pc, issue |-> reviewer[r].issue,
                                         of |-> reviewer[r].of,
                                         sha |-> h, seen |-> d]]
GoReviewer(r, pc) == ReviewerAt(r, pc, reviewer[r].sha, reviewer[r].seen)
ReviewerEnds(r, pc) == ReviewerAt(r, pc, 0, 0)
NotReviewer == <<preview, gh, sent, recorded, builder, sync, creator, checker,
                 hook, crashes>>

QueueReview(r, i, p) ==
    /\ reviewer[r].pc = "idle"
    /\ reviewer' = [reviewer EXCEPT ![r] = [pc |-> "queued", issue |-> i, of |-> p,
                                            sha |-> 0, seen |-> 0]]

(* The request names the issue and the pull request; nothing relates them. *)
ReviewRequest(r, i, p) ==
    /\ r \in Asked /\ gh[p].pr # "none"
    /\ QueueReview(r, i, p)
    /\ UNCHANGED <<board, quiet, NotReviewer>>

(* get_pr_head_sha answers None when the request fails.                    *)
ReviewHead(r) ==
    /\ reviewer[r].pc = "queued"
    /\ \E h \in {0, gh[reviewer[r].of].head} : ReviewerAt(r, "headed", h, 0)
    /\ UNCHANGED <<board, quiet, NotReviewer>>

(* Mutant: any review on record will do.                                   *)
ReviewedAtAll(i, p, h) == h # 0 /\ Tracked(i) /\ First(i).reviewed

(* Equal SHAs are of one pull request.                                     *)
AlreadyReviewed(i, p, h) ==
    /\ h # 0 /\ Tracked(i)
    /\ First(i).reviewed /\ First(i).pr = p /\ First(i).sha = h

ReviewCheck(r) ==
    /\ reviewer[r].pc = "headed"
    /\ IF AlreadyReviewed(reviewer[r].issue, reviewer[r].of, reviewer[r].sha)
       THEN ReviewerEnds(r, "skipped") ELSE GoReviewer(r, "checked")
    /\ UNCHANGED <<board, quiet, NotReviewer>>

ReviewDiff(r) ==
    /\ reviewer[r].pc = "checked"
    /\ \/ ReviewerAt(r, "reviewing", reviewer[r].sha,
                      gh[reviewer[r].of].head)
       \/ ReviewerEnds(r, "dead")               \* the GitHub request raised
    /\ UNCHANGED <<board, quiet, NotReviewer>>

ReviewAnswer(r) ==
    /\ reviewer[r].pc = "reviewing"
    /\ GoReviewer(r, "answered")
    /\ UNCHANGED <<board, quiet, NotReviewer>>

(* Mutant: the model call has no timeout.                                  *)
ReviewNoTimeout(r) == FALSE /\ ReviewAnswer(r)

(* 180 seconds without an answer, or the model call raised.                *)
ReviewTimeout(r) ==
    /\ reviewer[r].pc = "reviewing"
    /\ ReviewerEnds(r, "dead")
    /\ UNCHANGED <<board, quiet, NotReviewer>>

(* Mutant: the head on record is the one of the moment it is stored.       *)
ReviewStoreNewHead(r) ==
    /\ reviewer[r].pc = "answered"
    /\ SetPR(reviewer[r].issue, reviewer[r].of, "pr_reviewed", TRUE,
             gh[reviewer[r].of].head, reviewer[r].seen)
    /\ ReviewerEnds(r, "stored")
    /\ Changed
    /\ UNCHANGED NotReviewer

ReviewStore(r) ==
    /\ reviewer[r].pc = "answered"
    /\ SetPR(reviewer[r].issue, reviewer[r].of, "pr_reviewed", TRUE,
             reviewer[r].sha, reviewer[r].seen)
    /\ ReviewerEnds(r, "stored")
    /\ Changed
    /\ UNCHANGED NotReviewer

-----------------------------------------------------------------------------
(* The webhook: github_webhook *)

Delivery(h) == sent[hook[h].id]
GoHook(h, pc) == hook' = [hook EXCEPT ![h].pc = pc]

(* Mutant: no delivery is ever taken for a duplicate.                      *)
HookReceiveAlways(h, d) ==
    /\ hook[h].pc = "idle" /\ d \in 1..Len(sent)
    /\ recorded' = recorded \cup {d}
    /\ hook' = [hook EXCEPT ![h] = [pc |-> "accepted", id |-> d]]
    /\ UNCHANGED <<board, preview, gh, sent, builder, reviewer, sync, creator,
                   checker, quiet, crashes>>

(* record_webhook_delivery, for a first delivery or a redelivery           *)
HookReceive(h, d) ==
    /\ hook[h].pc = "idle" /\ d \in 1..Len(sent)
    /\ recorded' = recorded \cup {d}
    /\ hook' = [hook EXCEPT ![h] =
                  [pc |-> IF d \in recorded THEN "duplicate" ELSE "accepted",
                   id |-> d]]
    /\ UNCHANGED <<board, preview, gh, sent, builder, reviewer, sync, creator,
                   checker, quiet, crashes>>

(* An issue without a row is passed over, and so is a pull request whose   *)
(* text names no issue when GitHub cannot be asked for the linked ones.    *)
HookApply(h) ==
    LET i == Delivery(h).issue
    IN /\ hook[h].pc = "accepted"
       /\ \/ /\ Tracked(i)
             /\ IF Delivery(h).event = "opened"
                THEN SetPR(i, i, "pr_open", FALSE, 0, 0)
                ELSE SetStatus(i, Delivery(h).event)
             /\ Changed
             /\ GoHook(h, "applied")
          \/ /\ GoHook(h, "done")
             /\ UNCHANGED <<board, quiet>>
       /\ UNCHANGED <<preview, gh, sent, recorded, builder, reviewer, sync,
                      creator, checker, crashes>>

(* The response is sent and the background tasks it queued run, one after  *)
(* the other: one that raises takes those behind it along.                 *)
HookRespond(h) ==
    LET i == Delivery(h).issue
    IN /\ hook[h].pc = "applied"
       /\ GoHook(h, "done")
       /\ CASE Delivery(h).event = "opened" ->
                 /\ \E r \in Reviewers \ Asked : QueueReview(r, i, i)
                 /\ UNCHANGED <<sync, checker>>
            [] Delivery(h).event = "merged" ->
                 /\ \E s \in Syncs, c \in Checkers :
                       /\ sync[s].pc = "idle" /\ checker[c].pc = "idle"
                       /\ sync' = [sync EXCEPT ![s] = [@ EXCEPT !.pc = "queued"]]
                       /\ checker' = [checker EXCEPT ![c] =
                            [pc |-> "queued", issue |-> i, after |-> {s}]]
                 /\ UNCHANGED reviewer
            [] Delivery(h).event = "closed" -> UNCHANGED <<reviewer, sync, checker>>
       /\ UNCHANGED <<board, preview, gh, sent, recorded, builder, creator,
                      quiet, crashes>>

(* run_build_check after a merge                                           *)
NotChecker == <<preview, gh, sent, recorded, builder, reviewer, sync, creator,
                hook, crashes>>

CheckStart(c) ==
    /\ checker[c].pc = "queued"
    /\ \A s \in checker[c].after : sync[s].pc = "done"
    /\ SetBuild(checker[c].issue, "running")
    /\ checker' = [checker EXCEPT ![c].pc = "running"]
    /\ Changed
    /\ UNCHANGED NotChecker

CheckEnd(c) ==
    /\ checker[c].pc = "running"
    /\ \E verdict \in {"passed", "failed"} : SetBuild(checker[c].issue, verdict)
    /\ checker' = [checker EXCEPT ![c].pc = "done"]
    /\ Changed
    /\ UNCHANGED NotChecker

-----------------------------------------------------------------------------
(* The sync: GitHubOrchestrator.sync_issues.  issue_map keeps, of each     *)
(* number, the row listed last, as it was when it was listed.              *)

SyncAt(s, state) == sync' = [sync EXCEPT ![s] = state]
GoSync(s, pc) == SyncAt(s, [sync[s] EXCEPT !.pc = pc])
SyncDies(s) == SyncAt(s, BareSync("dead")) /\ quiet' = quiet \ {s}
NotSync == <<gh, sent, recorded, builder, reviewer, creator, checker, hook,
             crashes>>

SyncList(s) ==
    /\ sync[s].pc \in {"idle", "queued"}
    /\ \/ /\ SyncAt(s, [sync[s] EXCEPT !.pc = "listed",
                             !.listed = [i \in Issues |-> gh[i].issue]])
          /\ quiet' = quiet \cup {s}
       \/ SyncDies(s)                           \* the GitHub request raised
    /\ UNCHANGED <<board, preview, NotSync>>

(* Mutant: an issue that closed unmerged keeps the status of its row.      *)
EndOfMerged(row) == IF row.pr # NoIssue THEN "merged" ELSE row.status

(* What a tracked row of a closed issue is to become.                      *)
EndOf(row) == IF row.pr = NoIssue THEN "closed" ELSE "merged"

SyncRead(s) ==
    LET on(state) == {i \in Issues : sync[s].listed[i] = state}
        new == {i \in Issues : sync[s].listed[i] # "none" /\ ~Tracked(i)}
        stillOpen(i) == Last(i).status = "open" /\ Last(i).pr = NoIssue
    IN /\ sync[s].pc = "listed"
       /\ SyncAt(s, [sync[s] EXCEPT
            !.pc = "walking", !.listed = Unlisted,
            !.fresh = new, !.imported = new,
            !.settle = {<<i, EndOf(Last(i))>> : i \in
                           {n \in on("closed") \ new :
                              Last(n).status # EndOf(Last(n))}},
            !.probe = {i \in on("open") : i \in new \/ stillOpen(i)}])
       /\ UNCHANGED <<board, preview, quiet, NotSync>>

(* A new row is open whatever the issue is; the entry added to issue_map   *)
(* has the state of the issue, so a closed one is not looked at again.     *)
SyncImport(s, i) ==
    /\ sync[s].pc = "walking" /\ i \in sync[s].fresh
    /\ InsertRow(i)
    /\ SyncAt(s, [sync[s] EXCEPT !.fresh = @ \ {i}])
    /\ quiet' = quiet \cap {s}
    /\ UNCHANGED <<preview, NotSync>>

SyncSettle(s, e) ==
    /\ sync[s].pc = "walking" /\ sync[s].fresh = {} /\ e \in sync[s].settle
    /\ SetStatus(e[1], e[2])
    /\ SyncAt(s, [sync[s] EXCEPT !.settle = @ \ {e}])
    /\ quiet' = quiet \cap {s}
    /\ UNCHANGED <<preview, NotSync>>

(* find_pr_for_issue: any pull request, open or not, that refers to the    *)
(* issue or has "#N" somewhere in its text, its own or one of another      *)
(* issue; or none, as answers other than 200 are passed over and a pull    *)
(* request may never name its issue; or it raises.                         *)
SyncProbe(s, i) ==
    /\ sync[s].pc = "walking" /\ sync[s].fresh = {} /\ i \in sync[s].probe
    /\ \/ /\ \E p \in {n \in Issues : gh[n].pr # "none"} :
                SyncAt(s, [sync[s] EXCEPT !.probe = @ \ {i}, !.pc = "found",
                                          !.at = i, !.named = p])
          /\ UNCHANGED quiet
       \/ /\ SyncAt(s, [sync[s] EXCEPT !.probe = @ \ {i},
                                       !.missed = @ \cup {i}])
          /\ UNCHANGED quiet
       \/ SyncDies(s)
    /\ UNCHANGED <<board, preview, NotSync>>

SyncRecordPR(s) ==
    /\ sync[s].pc = "found"
    /\ SetPR(sync[s].at, sync[s].named, "pr_open", FALSE, 0, 0)
    /\ SyncAt(s, [sync[s] EXCEPT !.pc = "walking",
                                 !.at = NoIssue, !.named = NoIssue])
    /\ quiet' = quiet \cap {s}
    /\ UNCHANGED <<preview, NotSync>>

AllEnded ==
    /\ \E i \in Issues : Tracked(i)
    /\ \A i \in Issues : \A k \in 1..Len(board[i]) : board[i][k].status \in Ended

SyncCount(s) ==
    /\ sync[s].pc = "walking"
    /\ sync[s].fresh = {} /\ sync[s].settle = {} /\ sync[s].probe = {}
    /\ GoSync(s, IF AllEnded /\ ~preview THEN "previewing" ELSE "done")
    /\ UNCHANGED <<board, preview, quiet, NotSync>>

SyncPreview(s) ==
    /\ sync[s].pc = "previewing"
    /\ preview' \in {preview, TRUE}
    /\ GoSync(s, "done")
    /\ UNCHANGED <<board, quiet, NotSync>>

SyncSteps(s) ==
    \/ SyncRead(s) \/ SyncRecordPR(s) \/ SyncCount(s) \/ SyncPreview(s)
    \/ \E i \in Issues : SyncImport(s, i) \/ SyncProbe(s, i)
    \/ \E e \in sync[s].settle : SyncSettle(s, e)

-----------------------------------------------------------------------------
(* Restarts *)

Swept(row) == IF row.status = "implementing" THEN [row EXCEPT !.status = "open"]
              ELSE row

(* Every task is gone; on the way up init_db gives back the rows marked    *)
(* implementing 30 minutes ago or earlier and deletes the deliveries       *)
(* recorded a day ago or earlier: any of them, after a stop of             *)
(* unknown length.  A request for one of those is remembered as collected. *)
Crash ==
    /\ crashes < MaxCrashes /\ crashes' = crashes + 1
    /\ \E old \in SUBSET Issues :
          board' = [i \in Issues |-> [k \in 1..Len(board[i]) |->
                       IF i \in old THEN Swept(board[i][k]) ELSE board[i][k]]]
    /\ builder' = [b \in Builders |->
          IF builder[b].pc \in {"read", "working", "failed", "pushed", "opened"}
          THEN [pc |-> "dead", issue |-> NoIssue, known |-> NoIssue]
          ELSE builder[b]]
    /\ reviewer' = [r \in Reviewers |->
          IF reviewer[r].pc \in {"queued", "headed", "checked", "reviewing", "answered"}
          THEN [reviewer[r] EXCEPT !.pc = "dead", !.sha = 0, !.seen = 0]
          ELSE reviewer[r]]
    /\ sync' = [s \in Syncs |->
          IF sync[s].pc \in {"idle", "done"} THEN sync[s]
          ELSE BareSync("dead")]
    /\ creator' = [c \in Creators |->
          IF creator[c].pc = "created" THEN [creator[c] EXCEPT !.pc = "dead"]
          ELSE creator[c]]
    /\ checker' = [c \in Checkers |->
          IF checker[c].pc \in {"queued", "running"}
          THEN [checker[c] EXCEPT !.pc = "dead"] ELSE checker[c]]
    /\ \E gone \in SUBSET recorded :
          /\ recorded' = recorded \ gone
          /\ hook' = [h \in Hooks |->
                [hook[h] EXCEPT !.pc =
                    IF hook[h].id \in gone THEN "collected"
                    ELSE IF @ = "accepted" THEN "lost"
                    ELSE IF @ = "applied" THEN "cut" ELSE @]]
    /\ Changed
    /\ UNCHANGED <<preview, gh, sent>>

-----------------------------------------------------------------------------
BuilderNext  == \E b \in Builders : BuildEnds(b) \/ \E i \in Issues : BuildRequest(b, i)
ReviewEnds(r) == \/ ReviewHead(r) \/ ReviewCheck(r) \/ ReviewDiff(r)
                 \/ ReviewTimeout(r) \/ ReviewStore(r)
ReviewerNext == \E r \in Reviewers : \/ ReviewEnds(r) \/ ReviewAnswer(r)
                                     \/ \E i, p \in Issues : ReviewRequest(r, i, p)
HookNext     == \E h \in Hooks : \/ \E d \in 1..Len(sent) : HookReceive(h, d)
                                 \/ HookApply(h) \/ HookRespond(h)
CheckerNext  == \E c \in Checkers : CheckStart(c) \/ CheckEnd(c)
CreatorNext  == \E c \in Creators : \/ InsertIssue(c)
                                    \/ \E i \in Issues : CreateIssue(c, i)
SyncNext     == \E s \in Syncs : SyncList(s) \/ SyncSteps(s)

Next ==
    \/ GitHubMoves \/ BuilderNext \/ ReviewerNext \/ HookNext \/ CheckerNext
    \/ CreatorNext \/ SyncNext \/ Crash

Spec == Init /\ [][Next]_vars

(* asyncio runs every ready task and each GitHub call has a timeout; the   *)
(* model's answer is not owed, its timeout is.                             *)
Fairness ==
    /\ \A b \in Builders : WF_vars(BuildEnds(b))
    /\ \A r \in Reviewers : WF_vars(ReviewEnds(r))
    /\ \A h \in Hooks : WF_vars(HookApply(h)) /\ WF_vars(HookRespond(h))

LiveSpec == Spec /\ Fairness
-----------------------------------------------------------------------------
(* Properties *)

(* The review on record is of a diff of the pull request the row names, at *)
(* least as new as the head SHA it is filed under, whatever was pushed     *)
(* while the reviewer ran, and one that was really pushed (review_pr reads *)
(* the SHA before the diff).                                               *)
ReviewOfItsDiff ==
    \A i \in Issues : \A k \in 1..Len(board[i]) :
        LET row == board[i][k]
        IN row.reviewed => /\ row.pr # NoIssue
                           /\ row.sha <= row.seen /\ row.seen <= gh[row.pr].head

(* A review is skipped only when the row holds a review of the same pull   *)
(* request whose diff is not older than the head this reviewer read (the   *)
(* head_sha short-circuit).                                                *)
SkipSound ==
    [][\A r \in Reviewers :
          reviewer[r].pc = "headed" /\ reviewer'[r].pc = "skipped" =>
             LET i == reviewer[r].issue
             IN /\ Tracked(i) /\ First(i).reviewed
                /\ First(i).pr = reviewer[r].of
                /\ First(i).seen >= reviewer[r].sha]_vars

(* A row that offers a pull request for review or merge names one that     *)
(* exists: no failed build, late answer, sync, restart or duplicate row    *)
(* shows otherwise in the row the orchestrator reads back.                 *)
OfferedPRExists ==
    \A i \in Issues :
        Tracked(i) /\ First(i).status \in {"pr_open", "pr_reviewed"} =>
            First(i).pr # NoIssue /\ gh[First(i).pr].pr # "none"

(* However often GitHub delivers it, and to however many requests at once, *)
(* a delivery is worked on by one of them (record_webhook_delivery), as    *)
(* long as its record is kept.                                             *)
WorkedOnce ==
    \A g, h \in Hooks :
        /\ g # h /\ hook[g].id = hook[h].id
        /\ hook[g].pc \notin {"idle", "duplicate", "collected"}
        => hook[h].pc \in {"idle", "duplicate", "collected"}

(* A sync during which nothing else wrote leaves every row of an issue     *)
(* that was tracked and is closed on GitHub ended, whatever stale status   *)
(* the races before it left there, and an open issue without a pull        *)
(* request only where its own lookup came back empty (sync_issues).        *)
SyncRepairs ==
    \A s \in quiet : sync[s].pc = "done" =>
        \A i \in Issues : Tracked(i) =>
            /\ gh[i].issue = "closed" /\ i \notin sync[s].imported =>
                  \A k \in 1..Len(board[i]) : board[i][k].status \in Ended
            /\ gh[i].issue = "open" /\ i \notin sync[s].missed =>
                  ~(Last(i).status = "open" /\ Last(i).pr = NoIssue)

(* A build that failed gives its issue back: the row does not stay         *)
(* "implementing" (implement_issue_with_builder).                          *)
FailureReleases ==
    \A b \in Builders, i \in Issues :
        (builder[b].pc = "failed" /\ builder[b].issue = i)
        ~> (Tracked(i) => First(i).status # "implementing")

(* A pull request whose opening was accepted is reviewed or its review     *)
(* given up: neither the model nor GitHub can hold a review for ever       *)
(* (the 180 second timeout of review_pr).                                  *)
OpenedIsReviewed ==
    \A h \in Hooks, i \in Issues :
        (hook[h].pc = "applied" /\ Delivery(h) = [issue |-> i, event |-> "opened"])
        ~> \E r \in Reviewers \ Asked :
                /\ reviewer[r].issue = i
                /\ reviewer[r].pc \in {"stored", "skipped", "dead"}

(* "GitHub is retrying after a timeout and we've already processed the     *)
(* work" (record_webhook_delivery): a delivery answered as a duplicate was *)
(* worked on, or is being worked on.                                       *)
DuplicateWasProcessed ==
    \A h \in Hooks : hook[h].pc = "duplicate" =>
        \E g \in Hooks : /\ hook[g].id = hook[h].id
                         /\ hook[g].pc \in {"accepted", "applied", "done", "cut"}
=============================================================================
