-------------------------- MODULE IssueBoardProofs --------------------------
(***************************************************************************)
(* Proofs about IssueBoard for any issues, any number of builds, reviews,  *)
(* syncs, deliveries and restarts.                                         *)
(***************************************************************************)
EXTENDS IssueBoard, TLAPS

Busy == {"read", "working", "failed", "pushed", "opened"}
Numbers == Issues \cup {NoIssue}

BuilderRec == [pc : BuilderPCs, issue : Numbers, known : Numbers]
ReviewerRec == [pc : ReviewerPCs, issue : Numbers, of : Numbers,
                sha : Heads, seen : Heads]

(* A process under way knows its issue, its pull request, its delivery.    *)
Placed ==
    /\ \A b \in Builders : builder[b].pc \in Busy => builder[b].issue \in Issues
    /\ \A r \in Reviewers : reviewer[r].pc # "idle" =>
                               /\ reviewer[r].issue \in Issues
                               /\ reviewer[r].of \in Issues
    /\ \A s \in Syncs : sync[s].pc = "found" =>
                            sync[s].at \in Issues /\ sync[s].named \in Issues
    /\ \A c \in Creators : creator[c].pc # "idle" => creator[c].issue \in Issues
    /\ \A c \in Checkers : checker[c].pc # "idle" => checker[c].issue \in Issues
    /\ \A h \in Hooks : hook[h].pc # "idle" => hook[h].id \in 1..Len(sent)

TypeInv == TypeOK /\ Placed

-----------------------------------------------------------------------------
(* The updates of the table *)

LEMMA WithStatusType ==
  ASSUME NEW row \in Row, NEW st \in Statuses
  PROVE  WithStatus(row, st) \in Row
  BY DEF Row, WithStatus

LEMMA WithPRType ==
  ASSUME NEW row \in Row, NEW p \in Issues, NEW st \in Statuses,
         NEW r \in BOOLEAN, NEW h \in Heads, NEW d \in Heads
  PROVE  WithPR(row, p, st, r, h, d) \in Row
  BY DEF Row, WithPR

LEMMA WithBuildType ==
  ASSUME NEW row \in Row, NEW st \in {"none", "running", "passed", "failed"}
  PROVE  WithBuild(row, st) \in Row
  BY DEF Row, WithBuild

LEMMA SweptType == ASSUME NEW row \in Row PROVE Swept(row) \in Row
  BY DEF Row, Swept, Statuses

LEMMA StatusType ==
  ASSUME TypeOK, NEW i \in Issues, NEW st \in Statuses, SetStatus(i, st)
  PROVE  board' \in [Issues -> Seq(Row)]
<1> DEFINE rows == [k \in 1..Len(board[i]) |-> WithStatus(board[i][k], st)]
<1>1. board[i] \in Seq(Row)  BY DEF TypeOK
<1>2. rows \in Seq(Row)  BY <1>1, WithStatusType
<1> QED BY <1>2 DEF SetStatus, TypeOK

LEMMA PRType ==
  ASSUME TypeOK, NEW i \in Issues, NEW p \in Issues, NEW st \in Statuses,
         NEW r \in BOOLEAN, NEW h \in Heads, NEW d \in Heads,
         SetPR(i, p, st, r, h, d)
  PROVE  board' \in [Issues -> Seq(Row)]
<1> DEFINE rows == [k \in 1..Len(board[i]) |-> WithPR(board[i][k], p, st, r, h, d)]
<1>1. board[i] \in Seq(Row)  BY DEF TypeOK
<1>2. rows \in Seq(Row)  BY <1>1, WithPRType
<1> QED BY <1>2 DEF SetPR, TypeOK

LEMMA BuildType ==
  ASSUME TypeOK, NEW i \in Issues,
         NEW st \in {"none", "running", "passed", "failed"}, SetBuild(i, st)
  PROVE  board' \in [Issues -> Seq(Row)]
<1> DEFINE rows == [k \in 1..Len(board[i]) |-> WithBuild(board[i][k], st)]
<1>1. board[i] \in Seq(Row)  BY DEF TypeOK
<1>2. rows \in Seq(Row)  BY <1>1, WithBuildType
<1> QED BY <1>2 DEF SetBuild, TypeOK

LEMMA FreshType == FreshRow \in Row
<1>1. MaxHead \in Nat  BY IssueBoardAssumption
<1> QED BY <1>1 DEF FreshRow, Row, Statuses, Heads

LEMMA InsertType ==
  ASSUME TypeOK, NEW i \in Issues, InsertRow(i)
  PROVE  board' \in [Issues -> Seq(Row)]
  BY FreshType DEF InsertRow, TypeOK

LEMMA BareType == ASSUME NEW pc \in SyncPCs PROVE BareSync(pc) \in SyncState
<1>1. Unlisted \in [Issues -> IssueStates]  BY DEF Unlisted, IssueStates
<1> QED BY <1>1 DEF BareSync, SyncState

(* The log of deliveries only grows, and with it the ids there may be.     *)
LEMMA DeliverType ==
  ASSUME TypeOK, NEW i \in Issues, NEW e \in {"opened", "closed", "merged"},
         Deliver(i, e)
  PROVE  /\ sent' \in Seq([issue : Issues, event : {"opened", "closed", "merged"}])
         /\ recorded \subseteq 1..Len(sent')
         /\ hook \in [Hooks -> [pc : HookPCs, id : 0..Len(sent')]]
         /\ 1..Len(sent) \subseteq 1..Len(sent')
<1>1. /\ sent' \in Seq([issue : Issues, event : {"opened", "closed", "merged"}])
      /\ Len(sent') >= Len(sent) /\ Len(sent) \in Nat /\ Len(sent') \in Nat
  <2>1. sent \in Seq([issue : Issues, event : {"opened", "closed", "merged"}])
    BY DEF TypeOK
  <2>2. CASE sent' = Append(sent, [issue |-> i, event |-> e])
    <3>1. [issue |-> i, event |-> e] \in
             [issue : Issues, event : {"opened", "closed", "merged"}]
      OBVIOUS
    <3> HIDE DEF Deliver
    <3> QED BY <2>1, <2>2, <3>1
  <2>3. CASE sent' = sent  BY <2>1, <2>3
  <2> QED BY <2>2, <2>3 DEF Deliver
<1>2. recorded \subseteq 1..Len(sent')
  BY <1>1 DEF TypeOK
<1>3. hook \in [Hooks -> [pc : HookPCs, id : 0..Len(sent')]]
  BY <1>1 DEF TypeOK
<1>4. 1..Len(sent) \subseteq 1..Len(sent')
  BY <1>1
<1> QED BY <1>1, <1>2, <1>3, <1>4

-----------------------------------------------------------------------------
(* Type correctness *)

LEMMA InitType == Init => TypeOK
<1> SUFFICES ASSUME Init PROVE TypeOK
  OBVIOUS
<1>1. 0 \in Heads  BY IssueBoardAssumption DEF Heads
<1>2. gh \in [Issues -> GitHubIssue]
  BY <1>1 DEF Init, GitHubIssue, IssueStates
<1>3. /\ builder \in [Builders -> BuilderRec]
      /\ reviewer \in [Reviewers -> ReviewerRec]
  BY <1>1 DEF Init, BuilderRec, ReviewerRec, Numbers, BuilderPCs, ReviewerPCs
<1>4. sync \in [Syncs -> SyncState]
  <2>1. "idle" \in SyncPCs  BY DEF SyncPCs
  <2> QED BY <2>1, BareType DEF Init
<1>5. board \in [Issues -> Seq(Row)]  BY DEF Init
<1>6. sent \in Seq([issue : Issues, event : {"opened", "closed", "merged"}])
  BY DEF Init
<1>7. hook \in [Hooks -> [pc : HookPCs, id : 0..Len(sent)]]
  <2>1. Len(sent) = 0 /\ 0 \in 0..0  BY DEF Init
  <2> QED BY <2>1 DEF Init, HookPCs
<1>8. checker \in [Checkers -> CheckerState]
  BY DEF Init, CheckerState
<1> QED BY <1>2, <1>3, <1>4, <1>5, <1>6, <1>7, <1>8
     DEF Init, TypeOK, BuilderRec, ReviewerRec, Numbers

LEMMA GitHubType ==
  ASSUME TypeInv, GitHubMoves
  PROVE  TypeInv'
<1> USE DEF TypeInv
<1> PICK i \in Issues : \/ FileIssue(i) \/ CloseOrReopenIssue(i)
                        \/ OpenPR(i) \/ Push(i) \/ ClosePR(i) \/ MergePR(i)
  BY DEF GitHubMoves
<1> DEFINE SentOK ==
       /\ sent' \in Seq([issue : Issues, event : {"opened", "closed", "merged"}])
       /\ recorded \subseteq 1..Len(sent')
       /\ hook \in [Hooks -> [pc : HookPCs, id : 0..Len(sent')]]
       /\ 1..Len(sent) \subseteq 1..Len(sent')
<1>1. ASSUME UNCHANGED sent PROVE SentOK
  BY <1>1 DEF TypeOK
<1>2. gh[i] \in GitHubIssue /\ MaxHead \in Nat /\ gh[i].head \in 0..MaxHead
  BY IssueBoardAssumption DEF TypeOK, GitHubIssue, Heads
<1>3. gh' \in [Issues -> GitHubIssue] /\ SentOK
  <2>1. CASE FileIssue(i)
    BY <2>1, <1>1, <1>2 DEF FileIssue, TypeOK, GitHubIssue, IssueStates
  <2>2. CASE CloseOrReopenIssue(i)
    BY <2>2, <1>1, <1>2 DEF CloseOrReopenIssue, TypeOK, GitHubIssue, IssueStates
  <2>3. CASE OpenPR(i)
    <3>1. SentOK  BY <2>3, DeliverType DEF OpenPR
    <3>2. PICK h \in Heads : GitHubPR(i, "open", h)
      BY <2>3, <1>2 DEF OpenPR, Heads
    <3> QED BY <3>1, <3>2, <1>2 DEF GitHubPR, TypeOK, GitHubIssue
  <2>4. CASE Push(i)
    <3>1. gh[i].head + 1 \in Heads  BY <2>4, <1>2 DEF Push, Heads
    <3> QED BY <2>4, <3>1, <1>1, <1>2 DEF Push, GitHubPR, TypeOK, GitHubIssue
  <2>5. CASE ClosePR(i)
    <3>1. SentOK  BY <2>5, DeliverType DEF ClosePR
    <3> QED BY <2>5, <3>1, <1>2 DEF ClosePR, GitHubPR, TypeOK, GitHubIssue
  <2>6. CASE MergePR(i)
    <3>1. SentOK  BY <2>6, DeliverType DEF MergePR
    <3> QED BY <2>6, <3>1, <1>2 DEF MergePR, TypeOK, GitHubIssue, IssueStates
  <2> QED BY <2>1, <2>2, <2>3, <2>4, <2>5, <2>6
<1>4. UNCHANGED <<board, preview, recorded, taskVars, crashes>> /\ quiet' = {}
  BY DEF GitHubMoves, Changed
<1>5. TypeOK'  BY <1>3, <1>4 DEF TypeOK, taskVars
<1>6. Placed'  BY <1>3, <1>4 DEF Placed, taskVars
<1> QED BY <1>5, <1>6

LEMMA CreatorType ==
  ASSUME TypeInv, CreatorNext
  PROVE  TypeInv'
<1> USE DEF TypeInv
<1>1. ASSUME NEW c \in Creators, NEW i \in Issues, CreateIssue(c, i)
      PROVE  TypeInv'
  <2>1. gh' \in [Issues -> GitHubIssue]
    <3>1. gh[i] \in GitHubIssue /\ "open" \in IssueStates
      BY DEF TypeOK, IssueStates
    <3>2. [gh[i] EXCEPT !.issue = "open"] \in GitHubIssue
      BY <3>1 DEF GitHubIssue
    <3> QED BY <1>1, <3>2 DEF CreateIssue, TypeOK
  <2>2. creator' \in [Creators -> [pc : {"idle", "created", "done", "dead"},
                                   issue : Issues \cup {NoIssue}]]
    BY <1>1 DEF CreateIssue, CreatorStep, TypeOK
  <2>3. TypeOK'  BY <1>1, <2>1, <2>2 DEF CreateIssue, Changed, TypeOK
  <2>4. Placed'
    BY <1>1 DEF CreateIssue, CreatorStep, Placed, TypeOK
  <2> QED BY <2>3, <2>4
<1>2. ASSUME NEW c \in Creators, InsertIssue(c)
      PROVE  TypeInv'
  <2>1. creator[c].issue \in Issues  BY <1>2 DEF InsertIssue, Placed
  <2>2. board' \in [Issues -> Seq(Row)]
    BY <1>2, <2>1, InsertType DEF InsertIssue
  <2>3. creator' \in [Creators -> [pc : {"idle", "created", "done", "dead"},
                                   issue : Issues \cup {NoIssue}]]
    BY <1>2, <2>1 DEF InsertIssue, CreatorStep, TypeOK
  <2>4. TypeOK'  BY <1>2, <2>2, <2>3 DEF InsertIssue, Changed, TypeOK
  <2>5. Placed'
    BY <1>2, <2>1 DEF InsertIssue, CreatorStep, Placed, TypeOK
  <2> QED BY <2>4, <2>5
<1> QED BY <1>1, <1>2 DEF CreatorNext

LEMMA CheckerType ==
  ASSUME TypeInv, CheckerNext
  PROVE  TypeInv'
<1> USE DEF TypeInv
<1> PICK c \in Checkers : CheckStart(c) \/ CheckEnd(c)
  BY DEF CheckerNext
<1>1. checker[c].issue \in Issues
  BY DEF CheckStart, CheckEnd, Placed
<1>2. board' \in [Issues -> Seq(Row)]
  BY <1>1, BuildType DEF CheckStart, CheckEnd
<1>3. PICK pc \in {"running", "done"} : checker' = [checker EXCEPT ![c].pc = pc]
  BY DEF CheckStart, CheckEnd
<1>4. UNCHANGED NotChecker /\ quiet' = {}
  BY DEF CheckStart, CheckEnd, Changed
<1>5. TypeOK'
  <2>1. checker' \in [Checkers -> CheckerState]
    <3>1. [checker[c] EXCEPT !.pc = pc] \in CheckerState
      <4>1. checker[c] \in CheckerState  BY DEF TypeOK
      <4> QED BY <4>1 DEF CheckerState
    <3> QED BY <1>3, <3>1 DEF TypeOK
  <2> QED BY <2>1, <1>2, <1>4 DEF NotChecker, TypeOK
<1>6. Placed'  BY <1>1, <1>3, <1>4 DEF NotChecker, TypeOK, Placed
<1> QED BY <1>5, <1>6

LEMMA BuilderType ==
  ASSUME TypeInv, BuilderNext
  PROVE  TypeInv'
<1> USE DEF TypeInv
<1>1. ASSUME NEW b \in Builders, NEW i \in Issues, BuildRequest(b, i)
      PROVE  TypeInv'
  <2>1. UNCHANGED <<board, gh, sent, quiet, NotBuilder>>
    BY <1>1 DEF BuildRequest
  <2>2. PICK a \in Numbers :
          builder' = [builder EXCEPT ![b] = [pc |-> "read", issue |-> i, known |-> a]]
    <3>1. Tracked(i) => First(i).pr \in Numbers
      <4> SUFFICES ASSUME Tracked(i) PROVE First(i).pr \in Numbers
        OBVIOUS
      <4>1. board[i] \in Seq(Row)  BY DEF TypeOK
      <4>2. First(i) \in Row  BY <4>1 DEF Tracked, First
      <4> QED BY <4>2 DEF Row, Numbers
    <3> QED BY <1>1, <3>1 DEF BuildRequest, Numbers
  <2>3. TypeOK'  BY <2>1, <2>2 DEF NotBuilder, TypeOK, BuilderPCs, Numbers
  <2>4. Placed'  BY <2>1, <2>2 DEF NotBuilder, TypeOK, Placed
  <2> QED BY <2>3, <2>4
<1>2. ASSUME NEW b \in Builders, BuildEnds(b)
      PROVE  TypeInv'
  <2> DEFINE i == builder[b].issue
  <2>1. i \in Issues  BY <1>2 DEF Placed, Busy, BuildEnds, BuildMark,
          BuildAgentFails, BuildAgentPushes, BuildRevert, BuildUpdatePR,
          BuildOpenPR, BuildOpenPRFails, BuildRecordPR, BuildRaises
  <2> HIDE DEF i
  <2>2. \/ \E pc \in Busy : GoBuilder(b, pc)
        \/ \E pc \in BuilderPCs \ Busy : BuilderEnds(b, pc)
    BY <1>2 DEF Busy, BuildEnds, BuilderPCs, BuildMark,
          BuildAgentFails, BuildAgentPushes, BuildRevert, BuildUpdatePR,
          BuildOpenPR, BuildOpenPRFails, BuildRecordPR, BuildRaises
  <2>3. UNCHANGED NotBuilder
    BY <1>2 DEF BuildEnds, BuildMark,
          BuildAgentFails, BuildAgentPushes, BuildRevert, BuildUpdatePR,
          BuildOpenPR, BuildOpenPRFails, BuildRecordPR, BuildRaises
  <2>4. quiet' \in {quiet, {}}
    BY <1>2 DEF Changed, BuildEnds, BuildMark,
          BuildAgentFails, BuildAgentPushes, BuildRevert, BuildUpdatePR,
          BuildOpenPR, BuildOpenPRFails, BuildRecordPR, BuildRaises
  <2>5. board' \in [Issues -> Seq(Row)]
    <3>1. 0 \in Heads /\ FALSE \in BOOLEAN  BY IssueBoardAssumption DEF Heads
    <3>2. CASE BuildMark(b)
      BY <3>2, <2>1, StatusType DEF BuildMark, Statuses, i
    <3>3. CASE BuildRevert(b)
      <4>1. PICK st \in Statuses : SetStatus(i, st)
        BY <3>3 DEF BuildRevert, Statuses, i
      <4> QED BY <4>1, <2>1, StatusType
    <3>4. CASE BuildUpdatePR(b) \/ BuildRecordPR(b)
      <4>1. PICK p \in Issues : SetPR(i, p, "pr_open", FALSE, 0, 0)
        BY <3>4, <2>1 DEF BuildUpdatePR, BuildRecordPR, i, TypeOK
      <4>2. "pr_open" \in Statuses  BY DEF Statuses
      <4> QED BY <3>1, <4>1, <4>2, <2>1, PRType
    <3>5. CASE UNCHANGED board
      BY <3>5 DEF TypeOK
    <3> QED BY <1>2, <3>2, <3>3, <3>4, <3>5 DEF BuildEnds, BuildAgentFails,
          BuildAgentPushes, BuildOpenPR, BuildOpenPRFails, BuildRaises
  <2>6. gh' \in [Issues -> GitHubIssue]
    <3>1. gh[i] \in GitHubIssue /\ MaxHead \in Nat /\ gh[i].head \in 0..MaxHead
      BY <2>1, IssueBoardAssumption DEF TypeOK, GitHubIssue, Heads
    <3>2. CASE gh' # gh
      <4>1. GitHubPR(i, "open", gh[i].head + 1) /\ gh[i].head < MaxHead
        BY <1>2, <3>2 DEF BuildEnds, BuildMark,
          BuildAgentFails, BuildAgentPushes, BuildRevert, BuildUpdatePR,
          BuildOpenPR, BuildOpenPRFails, BuildRecordPR, BuildRaises, i
      <4>2. gh[i].head + 1 \in Heads  BY <3>1, <4>1 DEF Heads
      <4> QED BY <3>1, <4>1, <4>2, <2>1 DEF GitHubPR, TypeOK, GitHubIssue
    <3>3. CASE gh' = gh
      BY <3>3 DEF TypeOK
    <3> QED BY <3>2, <3>3
  <2>7. UNCHANGED sent \/ Deliver(i, "opened")
    BY <1>2 DEF BuildEnds, BuildMark,
          BuildAgentFails, BuildAgentPushes, BuildRevert, BuildUpdatePR,
          BuildOpenPR, BuildOpenPRFails, BuildRecordPR, BuildRaises, i
  <2>8. /\ sent' \in Seq([issue : Issues, event : {"opened", "closed", "merged"}])
        /\ recorded \subseteq 1..Len(sent')
        /\ hook \in [Hooks -> [pc : HookPCs, id : 0..Len(sent')]]
        /\ 1..Len(sent) \subseteq 1..Len(sent')
    <3>1. CASE UNCHANGED sent
      BY <3>1 DEF TypeOK
    <3>2. CASE Deliver(i, "opened")
      BY <3>2, <2>1, DeliverType
    <3> QED BY <2>7, <3>1, <3>2
  <2>9. builder' \in [Builders -> BuilderRec]
    <3>1. builder \in [Builders -> BuilderRec]
      BY DEF TypeOK, BuilderRec, Numbers
    <3>2. ASSUME NEW pc \in Busy, GoBuilder(b, pc)
          PROVE  builder' \in [Builders -> BuilderRec]
      <4>1. pc \in BuilderPCs  BY DEF Busy, BuilderPCs
      <4>2. builder[b] \in BuilderRec  BY <3>1
      <4>3. [builder[b] EXCEPT !.pc = pc] \in BuilderRec  BY <4>1, <4>2 DEF BuilderRec
      <4> QED BY <3>1, <3>2, <4>3 DEF GoBuilder
    <3>3. ASSUME NEW pc \in BuilderPCs \ Busy, BuilderEnds(b, pc)
          PROVE  builder' \in [Builders -> BuilderRec]
      <4>1. [pc |-> pc, issue |-> NoIssue, known |-> NoIssue] \in BuilderRec
        BY DEF BuilderRec, Numbers
      <4> QED BY <3>1, <3>3, <4>1 DEF BuilderEnds
    <3> QED BY <2>2, <3>2, <3>3
  <2>10. TypeOK'
    BY <2>3, <2>4, <2>5, <2>6, <2>8, <2>9 DEF NotBuilder, TypeOK, BuilderRec, Numbers
  <2>11. Placed'
    <3>1. \A x \in Builders : builder'[x].pc \in Busy => builder'[x].issue \in Issues
      <4>1. \A x \in Builders : builder[x].pc \in Busy => builder[x].issue \in Issues
        BY DEF Placed
      <4>2. ASSUME NEW pc \in Busy, GoBuilder(b, pc) PROVE <3>1
        BY <4>1, <4>2, <2>1 DEF GoBuilder, TypeOK, i
      <4>3. ASSUME NEW pc \in BuilderPCs \ Busy, BuilderEnds(b, pc) PROVE <3>1
        BY <4>1, <4>3 DEF BuilderEnds, TypeOK
      <4> QED BY <2>2, <4>2, <4>3
    <3>2. \A h \in Hooks : hook'[h].pc # "idle" => hook'[h].id \in 1..Len(sent')
      BY <2>3, <2>8 DEF NotBuilder, Placed, TypeOK
    <3> QED BY <3>1, <3>2, <2>3 DEF NotBuilder, Placed
  <2> QED BY <2>10, <2>11
<1> QED BY <1>1, <1>2 DEF BuilderNext

LEMMA ReviewerTypeOf ==
  ASSUME TypeInv, NEW r \in Reviewers, NEW pc \in ReviewerPCs,
         NEW i \in Issues, NEW p \in Issues, NEW h \in Heads, NEW d \in Heads,
         reviewer' = [reviewer EXCEPT ![r] = [pc |-> pc, issue |-> i, of |-> p,
                                              sha |-> h, seen |-> d]]
  PROVE  /\ reviewer' \in [Reviewers -> ReviewerRec]
         /\ \A q \in Reviewers : reviewer'[q].pc # "idle" =>
               reviewer'[q].issue \in Issues /\ reviewer'[q].of \in Issues
  BY DEF TypeInv, TypeOK, Placed, ReviewerRec, Numbers

LEMMA ReviewerType ==
  ASSUME TypeInv, ReviewerNext
  PROVE  TypeInv'
<1> USE DEF TypeInv
<1> PICK r \in Reviewers : \/ ReviewEnds(r) \/ ReviewAnswer(r)
                           \/ \E i, p \in Issues : ReviewRequest(r, i, p)
  BY DEF ReviewerNext
<1>0. 0 \in Heads  BY IssueBoardAssumption DEF Heads
<1>1. UNCHANGED NotReviewer
  BY DEF ReviewEnds, ReviewHead, ReviewCheck, ReviewDiff, ReviewTimeout,
         ReviewStore, ReviewAnswer, ReviewRequest
<1>2. quiet' \in {quiet, {}}
  BY DEF ReviewEnds, ReviewHead, ReviewCheck, ReviewDiff, ReviewTimeout,
         ReviewStore, ReviewAnswer, ReviewRequest, Changed
<1> DEFINE Moved == \E pc \in ReviewerPCs, i, p \in Issues, h, d \in Heads :
              reviewer' = [reviewer EXCEPT ![r] = [pc |-> pc, issue |-> i, of |-> p,
                                                   sha |-> h, seen |-> d]]
<1>3. board' \in [Issues -> Seq(Row)] /\ Moved
  <2>1. ASSUME NEW i \in Issues, NEW p \in Issues, ReviewRequest(r, i, p)
        PROVE  board' = board /\ Moved
    <3>1. "queued" \in ReviewerPCs  BY DEF ReviewerPCs
    <3> QED BY <2>1, <3>1, <1>0 DEF ReviewRequest, QueueReview
  <2> DEFINE i == reviewer[r].issue
             p == reviewer[r].of
             h == reviewer[r].sha
             d == reviewer[r].seen
  <2>2. ASSUME ReviewEnds(r) \/ ReviewAnswer(r)
        PROVE  i \in Issues /\ p \in Issues /\ gh[p].head \in Heads /\ h \in Heads /\ d \in Heads
    <3>1. i \in Issues /\ p \in Issues
      BY <2>2 DEF ReviewEnds, ReviewHead, ReviewCheck, ReviewDiff, ReviewTimeout,
         ReviewStore, ReviewAnswer, Placed
    <3> QED BY <3>1 DEF TypeOK, GitHubIssue
  <2> HIDE DEF i, p, h, d
  <2>4. ASSUME NEW pc \in ReviewerPCs, GoReviewer(r, pc) \/ ReviewerEnds(r, pc),
               i \in Issues, p \in Issues, h \in Heads, d \in Heads
        PROVE  Moved
    BY <2>4, <1>0 DEF GoReviewer, ReviewerEnds, ReviewerAt, i, p, h, d
  <2>5. CASE ReviewHead(r)
    <3>1. PICK g \in {0, gh[p].head} : ReviewerAt(r, "headed", g, 0)
      BY <2>5 DEF ReviewHead, p
    <3>3. g \in Heads /\ i \in Issues /\ p \in Issues /\ "headed" \in ReviewerPCs
      BY <2>2, <2>5, <3>1, <1>0 DEF ReviewEnds, ReviewerPCs
    <3> QED BY <2>5, <3>1, <3>3, <1>0 DEF ReviewHead, ReviewerAt, TypeOK, i, p
  <2>6. CASE ReviewCheck(r)
    <3>1. PICK pc \in ReviewerPCs : GoReviewer(r, pc) \/ ReviewerEnds(r, pc)
      BY <2>6 DEF ReviewCheck, ReviewerPCs
    <3> QED BY <2>6, <3>1, <2>2, <2>4 DEF ReviewCheck, TypeOK, ReviewEnds
  <2>7. CASE ReviewDiff(r)
    <3>1. "reviewing" \in ReviewerPCs /\ "dead" \in ReviewerPCs  BY DEF ReviewerPCs
    <3>2. CASE ReviewerEnds(r, "dead")
      BY <2>7, <3>1, <3>2, <2>2, <2>4 DEF ReviewDiff, TypeOK, ReviewEnds
    <3>3. CASE ReviewerAt(r, "reviewing", h, gh[p].head)
      BY <2>7, <3>1, <3>3, <2>2 DEF ReviewDiff, ReviewerAt, TypeOK, ReviewEnds, i, p
    <3> QED BY <2>7, <3>2, <3>3 DEF ReviewDiff, p, h
  <2>8. CASE ReviewTimeout(r) \/ ReviewAnswer(r)
    <3>1. PICK pc \in ReviewerPCs : GoReviewer(r, pc) \/ ReviewerEnds(r, pc)
      BY <2>8 DEF ReviewTimeout, ReviewAnswer, ReviewerPCs
    <3> QED BY <2>8, <3>1, <2>2, <2>4 DEF ReviewTimeout, ReviewAnswer, TypeOK, ReviewEnds
  <2>9. CASE ReviewStore(r)
    <3>1. "stored" \in ReviewerPCs /\ "pr_reviewed" \in Statuses /\ TRUE \in BOOLEAN
      BY DEF ReviewerPCs, Statuses
    <3>2. SetPR(i, p, "pr_reviewed", TRUE, h, d) /\ ReviewerEnds(r, "stored")
      BY <2>9 DEF ReviewStore, i, p, h, d
    <3>3. i \in Issues /\ p \in Issues /\ h \in Heads /\ d \in Heads
      BY <2>2, <2>9 DEF ReviewEnds
    <3>4. board' \in [Issues -> Seq(Row)]
      BY <3>1, <3>2, <3>3, PRType
    <3> QED BY <3>1, <3>2, <3>3, <3>4, <2>4
  <2> QED BY <2>1, <2>5, <2>6, <2>7, <2>8, <2>9 DEF ReviewEnds, TypeOK
<1>4. /\ reviewer' \in [Reviewers -> ReviewerRec]
      /\ \A q \in Reviewers : reviewer'[q].pc # "idle" =>
            reviewer'[q].issue \in Issues /\ reviewer'[q].of \in Issues
  <2> PICK pc \in ReviewerPCs, i, p \in Issues, h, d \in Heads :
         reviewer' = [reviewer EXCEPT ![r] = [pc |-> pc, issue |-> i, of |-> p,
                                              sha |-> h, seen |-> d]]
    BY <1>3
  <2> QED BY ReviewerTypeOf
<1>5. TypeOK'  BY <1>1, <1>2, <1>3, <1>4 DEF NotReviewer, TypeOK, ReviewerRec, Numbers
<1>6. Placed'  BY <1>1, <1>4 DEF NotReviewer, Placed
<1> QED BY <1>5, <1>6

LEMMA SyncAtType ==
  ASSUME TypeInv, NEW s \in Syncs, NEW x \in SyncState, SyncAt(s, x),
         x.pc = "found" => x.at \in Issues /\ x.named \in Issues
  PROVE  /\ sync' \in [Syncs -> SyncState]
         /\ \A t \in Syncs : sync'[t].pc = "found" =>
               sync'[t].at \in Issues /\ sync'[t].named \in Issues
  BY DEF TypeInv, TypeOK, Placed, SyncAt

LEMMA SyncType ==
  ASSUME TypeInv, SyncNext
  PROVE  TypeInv'
<1> USE DEF TypeInv
<1> PICK s \in Syncs : SyncList(s) \/ SyncSteps(s)
  BY DEF SyncNext
<1> DEFINE x == sync[s]
           Moved == /\ sync' \in [Syncs -> SyncState]
                    /\ \A t \in Syncs : sync'[t].pc = "found" =>
                          sync'[t].at \in Issues /\ sync'[t].named \in Issues
<1>x. x \in SyncState /\ x.fresh \in SUBSET Issues
      /\ x.settle \in SUBSET (Issues \X Ended) /\ x.probe \in SUBSET Issues
      /\ x.missed \in SUBSET Issues
  <2>1. x \in SyncState  BY DEF TypeOK
  <2> QED BY <2>1 DEF SyncState
<1>p. /\ "listed" \in SyncPCs /\ "walking" \in SyncPCs /\ "found" \in SyncPCs
      /\ "previewing" \in SyncPCs /\ "done" \in SyncPCs /\ "dead" \in SyncPCs
  BY DEF SyncPCs
<1>g. \A pc \in SyncPCs : GoSync(s, pc) /\ pc # "found" => Moved
  <2> SUFFICES ASSUME NEW pc \in SyncPCs, GoSync(s, pc), pc # "found" PROVE Moved
    OBVIOUS
  <2>1. [x EXCEPT !.pc = pc] \in SyncState /\ [x EXCEPT !.pc = pc].pc = pc
    BY <1>x DEF SyncState
  <2>2. SyncAt(s, [x EXCEPT !.pc = pc])  BY DEF GoSync
  <2> HIDE DEF x
  <2> QED BY <2>1, <2>2, SyncAtType
<1>d. SyncDies(s) => Moved
  <2>1. BareSync("dead") \in SyncState /\ BareSync("dead").pc = "dead"
    BY <1>p, BareType DEF BareSync
  <2> QED BY <2>1, SyncAtType DEF SyncDies
<1> HIDE DEF x, Moved
<1>1. CASE SyncList(s)
  <2> DEFINE l == [i \in Issues |-> gh[i].issue]
             y == [x EXCEPT !.pc = "listed", !.listed = l]
  <2>1. l \in [Issues -> IssueStates]  BY DEF TypeOK, GitHubIssue
  <2>2. y \in SyncState /\ y.pc = "listed"
    <3> HIDE DEF l
    <3> QED BY <2>1, <1>x, <1>p DEF SyncState
  <2>3. SyncAt(s, y) \/ SyncDies(s)  BY <1>1 DEF SyncList, x
  <2> HIDE DEF y
  <2>4. Moved
    <3>1. CASE SyncAt(s, y)  BY <2>2, <3>1, SyncAtType DEF Moved
    <3>2. CASE SyncDies(s)  BY <3>2, <1>d
    <3> QED BY <2>3, <3>1, <3>2
  <2>5. UNCHANGED <<board, preview, NotSync>> /\ quiet' \subseteq Syncs
    BY <1>1 DEF SyncList, SyncDies, TypeOK
  <2>6. TypeOK'  BY <2>4, <2>5 DEF Moved, NotSync, TypeOK
  <2>7. Placed'  BY <2>4, <2>5 DEF Moved, NotSync, Placed
  <2> QED BY <2>6, <2>7
<1>2. CASE SyncRead(s)
  <2> DEFINE new == {i \in Issues : sync[s].listed[i] # "none" /\ ~Tracked(i)}
             E == {<<i, EndOf(Last(i))>> : i \in
                     {n \in {i \in Issues : sync[s].listed[i] = "closed"} \ new :
                        Last(n).status # EndOf(Last(n))}}
             P == {i \in {i \in Issues : sync[s].listed[i] = "open"} :
                     i \in new \/ (Last(i).status = "open" /\ Last(i).pr = NoIssue)}
             y == [x EXCEPT !.pc = "walking", !.listed = Unlisted, !.fresh = new, !.imported = new,
                            !.settle = E, !.probe = P]
  <2>1. new \in SUBSET Issues /\ P \in SUBSET Issues /\ E \in SUBSET (Issues \X Ended)
    BY DEF EndOf, Ended
  <2>2. SyncAt(s, y)  BY <1>2 DEF SyncRead, x
  <2> HIDE DEF new, E, P
  <2>3. y \in SyncState /\ y.pc = "walking"
    <3>1. Unlisted \in [Issues -> IssueStates]  BY DEF Unlisted, IssueStates
    <3> QED BY <2>1, <3>1, <1>x, <1>p DEF SyncState
  <2> HIDE DEF y
  <2>4. Moved  BY <2>2, <2>3, SyncAtType DEF Moved
  <2>5. UNCHANGED <<board, preview, quiet, NotSync>>
    BY <1>2 DEF SyncRead
  <2>6. TypeOK'  BY <2>4, <2>5 DEF Moved, NotSync, TypeOK
  <2>7. Placed'  BY <2>4, <2>5 DEF Moved, NotSync, Placed
  <2> QED BY <2>6, <2>7
<1>3. ASSUME NEW i \in Issues, SyncImport(s, i)
      PROVE  TypeInv'
  <2> DEFINE y == [x EXCEPT !.fresh = @ \ {i}]
  <2>1. y \in SyncState /\ y.pc = "walking"
    BY <1>3, <1>x DEF SyncState, SyncImport, x
  <2>2. SyncAt(s, y)  BY <1>3 DEF SyncImport, x
  <2> HIDE DEF y
  <2>3. Moved  BY <2>1, <2>2, SyncAtType DEF Moved
  <2>4. board' \in [Issues -> Seq(Row)]  BY <1>3, InsertType DEF SyncImport
  <2>5. UNCHANGED <<preview, NotSync>> /\ quiet' \subseteq Syncs
    BY <1>3 DEF SyncImport, TypeOK
  <2>6. TypeOK'  BY <2>3, <2>4, <2>5 DEF Moved, NotSync, TypeOK
  <2>7. Placed'  BY <2>3, <2>5 DEF Moved, NotSync, Placed
  <2> QED BY <2>6, <2>7
<1>4. ASSUME NEW e \in sync[s].settle, SyncSettle(s, e)
      PROVE  TypeInv'
  <2> DEFINE y == [x EXCEPT !.settle = @ \ {e}]
  <2>1. y \in SyncState /\ y.pc = "walking"
    BY <1>4, <1>x DEF SyncState, SyncSettle, x
  <2>2. SyncAt(s, y)  BY <1>4 DEF SyncSettle, x
  <2> HIDE DEF y
  <2>3. Moved  BY <2>1, <2>2, SyncAtType DEF Moved
  <2>4. board' \in [Issues -> Seq(Row)]
    <3>1. e[1] \in Issues /\ e[2] \in Statuses
      BY <1>x DEF x, Ended, Statuses
    <3> QED BY <1>4, <3>1, StatusType DEF SyncSettle
  <2>5. UNCHANGED <<preview, NotSync>> /\ quiet' \subseteq Syncs
    BY <1>4 DEF SyncSettle, TypeOK
  <2>6. TypeOK'  BY <2>3, <2>4, <2>5 DEF Moved, NotSync, TypeOK
  <2>7. Placed'  BY <2>3, <2>5 DEF Moved, NotSync, Placed
  <2> QED BY <2>6, <2>7
<1>5. ASSUME NEW i \in Issues, SyncProbe(s, i)
      PROVE  TypeInv'
  <2> DEFINE y == [x EXCEPT !.probe = @ \ {i}, !.missed = @ \cup {i}]
             z(p) == [x EXCEPT !.probe = @ \ {i}, !.pc = "found",
                               !.at = i, !.named = p]
  <2>1. y \in SyncState /\ y.pc = "walking"
    BY <1>5, <1>x DEF SyncState, SyncProbe, x
  <2>2. ASSUME NEW p \in Issues
        PROVE  z(p) \in SyncState /\ z(p).at \in Issues /\ z(p).named \in Issues
    BY <1>x, <1>p DEF SyncState
  <2>3. SyncAt(s, y) \/ (\E p \in Issues : SyncAt(s, z(p))) \/ SyncDies(s)
    BY <1>5 DEF SyncProbe, x
  <2> HIDE DEF y, z
  <2>4. Moved
    <3>1. CASE SyncAt(s, y)  BY <2>1, <3>1, SyncAtType DEF Moved
    <3>2. ASSUME NEW p \in Issues, SyncAt(s, z(p)) PROVE Moved
      BY <2>2, <3>2, SyncAtType DEF Moved
    <3>3. CASE SyncDies(s)  BY <3>3, <1>d
    <3> QED BY <2>3, <3>1, <3>2, <3>3
  <2>5. UNCHANGED <<board, preview, NotSync>> /\ quiet' \subseteq Syncs
    BY <1>5 DEF SyncProbe, SyncDies, TypeOK
  <2>6. TypeOK'  BY <2>4, <2>5 DEF Moved, NotSync, TypeOK
  <2>7. Placed'  BY <2>4, <2>5 DEF Moved, NotSync, Placed
  <2> QED BY <2>6, <2>7
<1>6. CASE SyncRecordPR(s)
  <2> DEFINE y == [x EXCEPT !.pc = "walking", !.at = NoIssue, !.named = NoIssue]
  <2>1. y \in SyncState /\ y.pc = "walking"
    BY <1>x, <1>p DEF SyncState
  <2>2. SyncAt(s, y)  BY <1>6 DEF SyncRecordPR, x
  <2> HIDE DEF y
  <2>3. Moved  BY <2>1, <2>2, SyncAtType DEF Moved
  <2>4. board' \in [Issues -> Seq(Row)]
    <3>1. /\ sync[s].at \in Issues /\ sync[s].named \in Issues /\ "pr_open" \in Statuses /\ FALSE \in BOOLEAN
          /\ 0 \in Heads
      BY <1>6, IssueBoardAssumption DEF SyncRecordPR, Placed, Statuses, Heads
    <3> QED BY <1>6, <3>1, PRType DEF SyncRecordPR
  <2>5. UNCHANGED <<preview, NotSync>> /\ quiet' \subseteq Syncs
    BY <1>6 DEF SyncRecordPR, TypeOK
  <2>6. TypeOK'  BY <2>3, <2>4, <2>5 DEF Moved, NotSync, TypeOK
  <2>7. Placed'  BY <2>3, <2>5 DEF Moved, NotSync, Placed
  <2> QED BY <2>6, <2>7
<1>7. CASE SyncCount(s) \/ SyncPreview(s)
  <2>1. Moved
    <3>1. PICK pc \in {"previewing", "done"} : GoSync(s, pc)
      BY <1>7 DEF SyncCount, SyncPreview
    <3> QED BY <3>1, <1>g, <1>p
  <2>2. UNCHANGED <<board, quiet, NotSync>> /\ preview' \in BOOLEAN
    BY <1>7 DEF SyncCount, SyncPreview, TypeOK
  <2>3. TypeOK'  BY <2>1, <2>2 DEF Moved, NotSync, TypeOK
  <2>4. Placed'  BY <2>1, <2>2 DEF Moved, NotSync, Placed
  <2> QED BY <2>3, <2>4
<1> QED BY <1>1, <1>2, <1>3, <1>4, <1>5, <1>6, <1>7 DEF SyncSteps

LEMMA ElementOf ==
  ASSUME NEW S, NEW q \in Seq(S), NEW n \in 1..Len(q)
  PROVE  q[n] \in S
  OBVIOUS

(* A request under way holds a delivery that was sent.                     *)
LEMMA DeliveryIn ==
  ASSUME TypeInv, NEW h \in Hooks, hook[h].pc # "idle"
  PROVE  /\ hook[h].id \in 1..Len(sent)
         /\ Delivery(h).issue \in Issues
         /\ Delivery(h).event \in {"opened", "closed", "merged"}
<1>1. sent \in Seq([issue : Issues, event : {"opened", "closed", "merged"}])
  BY DEF TypeInv, TypeOK
<1>2. hook[h].id \in 1..Len(sent)  BY DEF TypeInv, Placed
<1>3. Delivery(h) \in [issue : Issues, event : {"opened", "closed", "merged"}]
  BY <1>1, <1>2, ElementOf DEF Delivery
<1> QED BY <1>2, <1>3

LEMMA HookType ==
  ASSUME TypeInv, HookNext
  PROVE  TypeInv'
<1> USE DEF TypeInv
<1> PICK h \in Hooks : \/ \E d \in 1..Len(sent) : HookReceive(h, d)
                       \/ HookApply(h) \/ HookRespond(h)
  BY DEF HookNext
<1>1. ASSUME NEW d \in 1..Len(sent), HookReceive(h, d)
      PROVE  TypeInv'
  <2>1. PICK pc \in {"duplicate", "accepted"} :
          hook' = [hook EXCEPT ![h] = [pc |-> pc, id |-> d]]
    BY <1>1 DEF HookReceive
  <2>2. d \in 0..Len(sent) /\ pc \in HookPCs  BY DEF TypeOK, HookPCs
  <2>3. UNCHANGED <<board, preview, gh, sent, builder, reviewer, sync, creator,
                   checker, quiet, crashes>> /\ recorded' = recorded \cup {d}
    BY <1>1 DEF HookReceive
  <2>4. TypeOK'  BY <2>1, <2>2, <2>3 DEF TypeOK
  <2>5. Placed'  BY <2>1, <2>3 DEF TypeOK, Placed
  <2> QED BY <2>4, <2>5
<1>2. ASSUME HookApply(h) \/ HookRespond(h)
      PROVE  /\ hook[h].id \in 1..Len(sent) /\ Delivery(h).issue \in Issues
             /\ Delivery(h).event \in {"opened", "closed", "merged"}
  BY <1>2, DeliveryIn DEF HookApply, HookRespond
<1>3. ASSUME NEW pc \in HookPCs, GoHook(h, pc), UNCHANGED sent,
             hook[h].id \in 1..Len(sent)
      PROVE  /\ hook' \in [Hooks -> [pc : HookPCs, id : 0..Len(sent')]]
             /\ \A g \in Hooks : hook'[g].pc # "idle" => hook'[g].id \in 1..Len(sent')
  <2>1. [hook[h] EXCEPT !.pc = pc] \in [pc : HookPCs, id : 0..Len(sent)]
    <3>1. hook[h] \in [pc : HookPCs, id : 0..Len(sent)]  BY DEF TypeOK
    <3> QED BY <3>1
  <2>2. hook' \in [Hooks -> [pc : HookPCs, id : 0..Len(sent)]]
    BY <1>3, <2>1 DEF GoHook, TypeOK
  <2>3. \A g \in Hooks : hook'[g].pc # "idle" => hook'[g].id \in 1..Len(sent)
    BY <1>3 DEF GoHook, TypeOK, Placed
  <2> QED BY <1>3, <2>2, <2>3
<1>4. CASE HookApply(h)
  <2> DEFINE i == Delivery(h).issue
  <2>1. i \in Issues /\ hook[h].id \in 1..Len(sent)
        /\ Delivery(h).event \in {"opened", "closed", "merged"}
    BY <1>2, <1>4
  <2>2. PICK pc \in {"applied", "done"} : GoHook(h, pc)
    BY <1>4 DEF HookApply
  <2>3. /\ UNCHANGED <<preview, gh, sent, recorded, builder, reviewer, sync,
                      creator, checker, crashes>>
        /\ quiet' \in {quiet, {}}
    BY <1>4 DEF HookApply, Changed
  <2>4. board' \in [Issues -> Seq(Row)]
    <3>1. \/ SetPR(i, i, "pr_open", FALSE, 0, 0)
          \/ SetStatus(i, Delivery(h).event) /\ Delivery(h).event # "opened"
          \/ UNCHANGED board
      BY <1>4 DEF HookApply
    <3> HIDE DEF i
    <3>2. 0 \in Heads /\ FALSE \in BOOLEAN /\ "pr_open" \in Statuses
      BY IssueBoardAssumption DEF Heads, Statuses
    <3>3. CASE SetPR(i, i, "pr_open", FALSE, 0, 0)
      BY <3>2, <3>3, <2>1, PRType
    <3>4. CASE SetStatus(i, Delivery(h).event) /\ Delivery(h).event # "opened"
      <4>1. Delivery(h).event \in Statuses  BY <2>1, <3>4 DEF Statuses
      <4> QED BY <4>1, <3>4, <2>1, StatusType
    <3>5. CASE UNCHANGED board  BY <3>5 DEF TypeOK
    <3> QED BY <3>1, <3>3, <3>4, <3>5
  <2>5. /\ hook' \in [Hooks -> [pc : HookPCs, id : 0..Len(sent')]]
        /\ \A g \in Hooks : hook'[g].pc # "idle" => hook'[g].id \in 1..Len(sent')
    <3>1. pc \in HookPCs  BY DEF HookPCs
    <3> QED BY <3>1, <2>1, <2>2, <2>3, <1>3
  <2>6. TypeOK'  BY <2>3, <2>4, <2>5 DEF TypeOK
  <2>7. Placed'  BY <2>3, <2>5 DEF Placed
  <2> QED BY <2>6, <2>7
<1>5. CASE HookRespond(h)
  <2> DEFINE i == Delivery(h).issue
  <2>1. i \in Issues /\ hook[h].id \in 1..Len(sent)
        /\ Delivery(h).event \in {"opened", "closed", "merged"}
    BY <1>2, <1>5
  <2>2. GoHook(h, "done") /\ "done" \in HookPCs
    BY <1>5 DEF HookRespond, HookPCs
  <2>3. UNCHANGED <<board, preview, gh, sent, recorded, builder, creator,
                    quiet, crashes>>
    BY <1>5 DEF HookRespond
  <2>4. /\ \/ UNCHANGED reviewer
           \/ \E r \in Reviewers : QueueReview(r, i, i)
        /\ \/ UNCHANGED sync
           \/ \E s \in Syncs : sync' = [sync EXCEPT ![s] = [@ EXCEPT !.pc = "queued"]]
        /\ \/ UNCHANGED checker
           \/ \E c \in Checkers, s \in Syncs :
                checker' = [checker EXCEPT ![c] =
                              [pc |-> "queued", issue |-> i, after |-> {s}]]
    <3>1. CASE Delivery(h).event = "opened"  BY <3>1, <1>5 DEF HookRespond
    <3>2. CASE Delivery(h).event = "merged"  BY <3>2, <1>5 DEF HookRespond
    <3>3. CASE Delivery(h).event = "closed"  BY <3>3, <1>5 DEF HookRespond
    <3> QED BY <2>1, <3>1, <3>2, <3>3
  <2> HIDE DEF i
  <2>5. /\ reviewer' \in [Reviewers -> ReviewerRec]
        /\ \A r \in Reviewers : reviewer'[r].pc # "idle" =>
              reviewer'[r].issue \in Issues /\ reviewer'[r].of \in Issues
    <3>1. CASE UNCHANGED reviewer
      BY <3>1 DEF TypeOK, Placed, ReviewerRec, Numbers
    <3>2. ASSUME NEW r \in Reviewers, QueueReview(r, i, i)
          PROVE  <2>5!1 /\ <2>5!2
      <4>1. 0 \in Heads /\ "queued" \in ReviewerPCs
        BY IssueBoardAssumption DEF Heads, ReviewerPCs
      <4> QED BY <3>2, <4>1, <2>1, ReviewerTypeOf DEF QueueReview
    <3> QED BY <2>4, <3>1, <3>2
  <2>6. /\ sync' \in [Syncs -> SyncState]
        /\ \A t \in Syncs : sync'[t].pc = "found" =>
              sync'[t].at \in Issues /\ sync'[t].named \in Issues
    <3>1. CASE UNCHANGED sync  BY <3>1 DEF TypeOK, Placed
    <3>2. ASSUME NEW s \in Syncs,
                 sync' = [sync EXCEPT ![s] = [@ EXCEPT !.pc = "queued"]]
          PROVE  <2>6!1 /\ <2>6!2
      <4> DEFINE x == [sync[s] EXCEPT !.pc = "queued"]
      <4>1. x \in SyncState /\ x.pc = "queued"
        <5>1. sync[s] \in SyncState /\ "queued" \in SyncPCs
          BY DEF TypeOK, SyncPCs
        <5> QED BY <5>1 DEF SyncState
      <4>2. SyncAt(s, x)  BY <3>2 DEF SyncAt
      <4> HIDE DEF x
      <4> QED BY <4>1, <4>2, SyncAtType
    <3> QED BY <2>4, <3>1, <3>2
  <2>7. /\ checker' \in [Checkers -> CheckerState]
        /\ \A c \in Checkers : checker'[c].pc # "idle" => checker'[c].issue \in Issues
    <3>1. CASE UNCHANGED checker  BY <3>1 DEF TypeOK, Placed
    <3>2. ASSUME NEW c \in Checkers, NEW s \in Syncs,
                 checker' = [checker EXCEPT ![c] =
                               [pc |-> "queued", issue |-> i, after |-> {s}]]
          PROVE  <2>7!1 /\ <2>7!2
      <4>1. [pc |-> "queued", issue |-> i, after |-> {s}] \in CheckerState
        BY <2>1 DEF CheckerState
      <4> QED BY <3>2, <4>1, <2>1 DEF TypeOK, Placed
    <3> QED BY <2>4, <3>1, <3>2
  <2>8. /\ hook' \in [Hooks -> [pc : HookPCs, id : 0..Len(sent')]]
        /\ \A g \in Hooks : hook'[g].pc # "idle" => hook'[g].id \in 1..Len(sent')
    BY <2>1, <2>2, <2>3, <1>3
  <2>9. TypeOK'  BY <2>3, <2>5, <2>6, <2>7, <2>8 DEF TypeOK, ReviewerRec, Numbers
  <2>10. Placed'  BY <2>3, <2>5, <2>6, <2>7, <2>8 DEF Placed
  <2> QED BY <2>9, <2>10
<1> QED BY <1>1, <1>4, <1>5

LEMMA CrashType ==
  ASSUME TypeInv, Crash
  PROVE  TypeInv'
<1> USE DEF TypeInv
<1>1. board' \in [Issues -> Seq(Row)]
  <2> DEFINE rows(i, old) == [k \in 1..Len(board[i]) |->
                 IF i \in old THEN Swept(board[i][k]) ELSE board[i][k]]
  <2>1. PICK old \in SUBSET Issues : board' = [i \in Issues |-> rows(i, old)]
    BY DEF Crash
  <2>2. ASSUME NEW i \in Issues PROVE rows(i, old) \in Seq(Row)
    <3>1. board[i] \in Seq(Row)  BY DEF TypeOK
    <3> QED BY <3>1, SweptType
  <2> QED BY <2>1, <2>2
<1>2. builder' \in [Builders -> BuilderRec]
  <2>1. builder \in [Builders -> BuilderRec]
    BY DEF TypeOK, BuilderRec, Numbers
  <2>2. [pc |-> "dead", issue |-> NoIssue, known |-> NoIssue] \in BuilderRec
    BY DEF BuilderRec, BuilderPCs, Numbers
  <2> QED BY <2>1, <2>2 DEF Crash
<1>3. reviewer' \in [Reviewers -> ReviewerRec]
  <2>1. reviewer \in [Reviewers -> ReviewerRec] /\ 0 \in Heads
    BY IssueBoardAssumption DEF TypeOK, ReviewerRec, Numbers, Heads
  <2>2. ASSUME NEW r \in Reviewers
        PROVE  [reviewer[r] EXCEPT !.pc = "dead", !.sha = 0, !.seen = 0] \in ReviewerRec
    <3>1. reviewer[r] \in ReviewerRec /\ "dead" \in ReviewerPCs
      BY <2>1 DEF ReviewerPCs
    <3> QED BY <2>1, <3>1 DEF ReviewerRec
  <2> QED BY <2>1, <2>2 DEF Crash
<1>4. sync' \in [Syncs -> SyncState]
  <2>1. BareSync("dead") \in SyncState
    <3>1. "dead" \in SyncPCs  BY DEF SyncPCs
    <3> QED BY <3>1, BareType
  <2>2. sync \in [Syncs -> SyncState]  BY DEF TypeOK
  <2> QED BY <2>1, <2>2 DEF Crash
<1>5. creator' \in [Creators -> [pc : {"idle", "created", "done", "dead"},
                                 issue : Issues \cup {NoIssue}]]
  BY DEF Crash, TypeOK
<1>6. checker' \in [Checkers -> CheckerState]
  <2>1. ASSUME NEW c \in Checkers
        PROVE  checker[c] \in CheckerState
               /\ [checker[c] EXCEPT !.pc = "dead"] \in CheckerState
    <3>1. checker[c] \in CheckerState  BY DEF TypeOK
    <3> QED BY <3>1 DEF CheckerState
  <2> QED BY <2>1 DEF Crash
<1>7. hook' \in [Hooks -> [pc : HookPCs, id : 0..Len(sent)]]
  <2>1. ASSUME NEW h \in Hooks, NEW pc \in HookPCs
        PROVE  [hook[h] EXCEPT !.pc = pc] \in [pc : HookPCs, id : 0..Len(sent)]
    <3>1. hook[h] \in [pc : HookPCs, id : 0..Len(sent)]  BY DEF TypeOK
    <3> QED BY <3>1
  <2>2. \A h \in Hooks : \E pc \in HookPCs : hook'[h] = [hook[h] EXCEPT !.pc = pc]
    <3>1. PICK gone \in SUBSET recorded :
            hook' = [h \in Hooks |->
                      [hook[h] EXCEPT !.pc =
                          IF hook[h].id \in gone THEN "collected"
                          ELSE IF @ = "accepted" THEN "lost"
                          ELSE IF @ = "applied" THEN "cut" ELSE @]]
      BY DEF Crash
    <3> QED BY <3>1 DEF TypeOK, HookPCs
  <2>3. hook' = [h \in Hooks |-> hook'[h]]  BY DEF Crash
  <2> QED BY <2>1, <2>2, <2>3
<1>r. /\ UNCHANGED <<preview, gh, sent>> /\ quiet' = {}
      /\ crashes' = crashes + 1 /\ recorded' \subseteq recorded
  BY DEF Crash, Changed
<1>c. /\ reviewer' = [r \in Reviewers |->
          IF reviewer[r].pc \in {"queued", "headed", "checked", "reviewing", "answered"}
          THEN [reviewer[r] EXCEPT !.pc = "dead", !.sha = 0, !.seen = 0]
          ELSE reviewer[r]]
      /\ checker' = [c \in Checkers |->
          IF checker[c].pc \in {"queued", "running"}
          THEN [checker[c] EXCEPT !.pc = "dead"] ELSE checker[c]]
  BY DEF Crash
<1>8. TypeOK'
  <2>1. /\ recorded' \subseteq 1..Len(sent') /\ gh' \in [Issues -> GitHubIssue]
        /\ sent' \in Seq([issue : Issues, event : {"opened", "closed", "merged"}])
        /\ preview' \in BOOLEAN /\ quiet' \subseteq Syncs /\ crashes' \in Nat
    BY <1>r DEF TypeOK
  <2>2. sent' = sent  BY <1>r
  <2> QED
    BY <1>1, <1>2, <1>3, <1>4, <1>5, <1>6, <1>7, <2>1, <2>2
       DEF TypeOK, BuilderRec, ReviewerRec, Numbers
<1>9. Placed'
  <2>1. \A b \in Builders : builder'[b].pc \notin Busy
    BY DEF Crash, TypeOK, Busy
  <2>2. ASSUME NEW r \in Reviewers, reviewer'[r].pc # "idle"
        PROVE  reviewer'[r].issue \in Issues /\ reviewer'[r].of \in Issues
    <3>1. /\ reviewer'[r].issue = reviewer[r].issue /\ reviewer[r].pc # "idle"
          /\ reviewer'[r].of = reviewer[r].of
      BY <2>2, <1>c DEF TypeOK
    <3> QED BY <3>1 DEF Placed
  <2>3. \A s \in Syncs : sync'[s].pc # "found"
    BY DEF Crash, TypeOK, BareSync
  <2>4. \A c \in Creators : creator'[c].pc # "idle" => creator'[c].issue \in Issues
    BY DEF Crash, Placed, TypeOK
  <2>5. ASSUME NEW c \in Checkers, checker'[c].pc # "idle"
        PROVE  checker'[c].issue \in Issues
    <3>1. checker[c] \in CheckerState  BY DEF TypeOK
    <3>2. checker'[c].issue = checker[c].issue /\ checker[c].pc # "idle"
      BY <2>5, <3>1, <1>c DEF CheckerState
    <3> QED BY <3>2 DEF Placed
  <2>6. ASSUME NEW h \in Hooks, hook'[h].pc # "idle"
        PROVE  hook'[h].id \in 1..Len(sent')
    <3>1. /\ hook'[h].id = hook[h].id
          /\ hook[h].pc # "idle" \/ hook[h].id \in recorded
      <4>1. PICK gone \in SUBSET recorded :
              hook' = [x \in Hooks |->
                        [hook[x] EXCEPT !.pc =
                            IF hook[x].id \in gone THEN "collected"
                            ELSE IF @ = "accepted" THEN "lost"
                            ELSE IF @ = "applied" THEN "cut" ELSE @]]
        BY DEF Crash
      <4> QED BY <2>6, <4>1 DEF TypeOK
    <3>2. recorded \subseteq 1..Len(sent) /\ sent' = sent  BY <1>r DEF TypeOK
    <3> QED BY <3>1, <3>2 DEF Placed
  <2> QED BY <2>1, <2>2, <2>3, <2>4, <2>5, <2>6 DEF Placed
<1> QED BY <1>8, <1>9

LEMMA NextType == ASSUME TypeInv, [Next]_vars PROVE TypeInv'
<1>1. CASE Next
  BY <1>1, GitHubType, CreatorType, CheckerType, BuilderType, ReviewerType,
     SyncType, HookType, CrashType DEF Next
<1>2. CASE UNCHANGED vars
  <2>1. TypeOK'  BY <1>2 DEF vars, taskVars, TypeInv, TypeOK
  <2>2. Placed'  BY <1>2 DEF vars, taskVars, TypeInv, Placed
  <2> QED BY <2>1, <2>2 DEF TypeInv
<1> QED BY <1>1, <1>2

LEMMA TypeInvariant == Spec => []TypeInv
<1>1. Init => TypeInv
  <2> SUFFICES ASSUME Init PROVE TypeInv
    OBVIOUS
  <2>1. TypeOK  BY InitType
  <2>2. Placed  BY DEF Init, Placed, Busy, BareSync
  <2> QED BY <2>1, <2>2 DEF TypeInv
<1> QED BY <1>1, NextType, PTL DEF Spec

(* The rows, the deliveries and every task of the board keep their types,  *)
(* and a task under way names a real issue or delivery (tables             *)
(* github_issues and webhook_deliveries).                                  *)
THEOREM TypeCorrect == Spec => []TypeOK
  BY TypeInvariant, PTL DEF TypeInv

-----------------------------------------------------------------------------
(* The inductive invariant of the safety properties.  A row is only as     *)
(* good as the task that wrote it, and that task read GitHub some steps    *)
(* ago: what a task under way holds has to stay true while GitHub moves.   *)

Offered == {"pr_open", "pr_reviewed"}
Opened(i) == gh[i].pr # "none"

BuilderInv ==
    \A b \in Builders : LET i == builder[b].issue
                            p == builder[b].known IN
        /\ builder[b].pc \in Busy /\ p # NoIssue =>
              Tracked(i) /\ First(i).pr # NoIssue /\ Opened(p)
        /\ builder[b].pc = "opened" => Opened(i)

ReviewerInv ==
    \A r \in Reviewers : LET p == reviewer[r].of IN
        /\ reviewer[r].pc # "idle" => Opened(p) /\ reviewer[r].sha <= gh[p].head
        /\ reviewer[r].pc \in {"reviewing", "answered"} =>
              reviewer[r].sha <= reviewer[r].seen /\ reviewer[r].seen <= gh[p].head

HeldInv ==
    /\ \A s \in Syncs : sync[s].pc = "found" => Opened(sync[s].named)
    /\ \A n \in 1..Len(sent) : Opened(sent[n].issue)

RowInv ==
    /\ \A i \in Issues : \A k \in 1..Len(board[i]) :
          board[i][k].pr # NoIssue => Opened(board[i][k].pr)
    /\ ReviewOfItsDiff
    /\ \A i \in Issues :
          Tracked(i) /\ First(i).status \in Offered => First(i).pr # NoIssue

OnceInv ==
    /\ \A h \in Hooks :
          hook[h].pc \notin {"idle", "collected"} => hook[h].id \in recorded
    /\ WorkedOnce

IInv == BuilderInv /\ ReviewerInv /\ HeldInv /\ RowInv /\ OnceInv

LEMMA InitInv == Init => IInv
<1> SUFFICES ASSUME Init PROVE IInv
  OBVIOUS
<1>1. BuilderInv /\ ReviewerInv  BY DEF Init, BuilderInv, ReviewerInv, Busy
<1>2. HeldInv  BY DEF Init, HeldInv, BareSync
<1>3. \A i \in Issues : board[i] = <<>> /\ Len(board[i]) = 0  BY DEF Init
<1>4. RowInv
  BY <1>3 DEF RowInv, ReviewOfItsDiff, Tracked
<1>5. OnceInv  BY DEF Init, OnceInv, WorkedOnce
<1> QED BY <1>1, <1>2, <1>4, <1>5 DEF IInv

(* GitHub forgets no pull request and takes no push back.                  *)
HeadsGrow ==
    \A i \in Issues : /\ gh[i].head <= gh'[i].head
                      /\ Opened(i) => Opened(i)'

LEMMA GitHubPRGrows ==
  ASSUME TypeOK, NEW i \in Issues, NEW st \in {"open", "closed"}, NEW h \in Heads,
         gh[i].head <= h, GitHubPR(i, st, h)
  PROVE  HeadsGrow /\ Opened(i)'
<1>1. gh \in [Issues -> GitHubIssue] /\ MaxHead \in Nat
  BY IssueBoardAssumption DEF TypeOK
<1>2. gh' = [gh EXCEPT ![i] = [gh[i] EXCEPT !.pr = st, !.head = h]]
  BY <1>1 DEF GitHubPR
<1>3. \A j \in Issues : gh[j] \in GitHubIssue  BY <1>1
<1> QED BY <1>1, <1>2, <1>3 DEF HeadsGrow, Opened, GitHubIssue, Heads

LEMMA Grows ==
  ASSUME TypeInv, [Next]_vars
  PROVE  HeadsGrow
<1> USE DEF TypeInv
<1>1. \A i \in Issues : gh[i] \in GitHubIssue /\ gh[i].head \in Nat
  BY IssueBoardAssumption DEF TypeOK, GitHubIssue, Heads
<1>2. CASE UNCHANGED gh  BY <1>1, <1>2 DEF HeadsGrow, Opened
<1>3. ASSUME NEW i \in Issues,
             \/ \E st \in {"open", "closed"} : GitHubPR(i, st, gh[i].head)
             \/ gh[i].head < MaxHead /\ GitHubPR(i, "open", gh[i].head + 1)
      PROVE  HeadsGrow
  <2>1. gh[i].head \in Heads /\ MaxHead \in Nat
    BY IssueBoardAssumption DEF TypeOK, GitHubIssue
  <2>2. CASE \E st \in {"open", "closed"} : GitHubPR(i, st, gh[i].head)
    BY <2>1, <2>2, <1>1, GitHubPRGrows
  <2>3. CASE gh[i].head < MaxHead /\ GitHubPR(i, "open", gh[i].head + 1)
    <3>1. gh[i].head + 1 \in Heads /\ gh[i].head <= gh[i].head + 1
      BY <2>1, <2>3 DEF Heads
    <3> QED BY <3>1, <2>3, GitHubPRGrows
  <2> QED BY <1>3, <2>2, <2>3
<1>4. ASSUME NEW i \in Issues, NEW st,
             gh' = [gh EXCEPT ![i].issue = st]
      PROVE  HeadsGrow
  <2>1. \A j \in Issues : gh'[j].head = gh[j].head /\ gh'[j].pr = gh[j].pr
    BY <1>1, <1>4 DEF TypeOK, GitHubIssue
  <2> QED BY <2>1, <1>1 DEF HeadsGrow, Opened
<1>5. CASE GitHubMoves
  <2> PICK i \in Issues : \/ FileIssue(i) \/ CloseOrReopenIssue(i)
                          \/ OpenPR(i) \/ Push(i) \/ ClosePR(i) \/ MergePR(i)
    BY <1>5 DEF GitHubMoves
  <2>1. CASE FileIssue(i)  BY <2>1, <1>4 DEF FileIssue
  <2>2. CASE CloseOrReopenIssue(i)
    <3>1. PICK st : gh' = [gh EXCEPT ![i].issue = st]
      <4>1. gh' = [gh EXCEPT ![i].issue = IF gh[i].issue = "open" THEN "closed" ELSE "open"]
        BY <2>2 DEF CloseOrReopenIssue, TypeOK
      <4> QED BY <4>1
    <3> QED BY <3>1, <1>4
  <2>3. CASE OpenPR(i)  BY <2>3, <1>3 DEF OpenPR
  <2>4. CASE Push(i)  BY <2>4, <1>3 DEF Push
  <2>5. CASE ClosePR(i)  BY <2>5, <1>3 DEF ClosePR
  <2>6. CASE MergePR(i)
    <3>1. \A j \in Issues : /\ gh'[j].head = gh[j].head
                            /\ gh'[j].pr = IF j = i THEN "merged" ELSE gh[j].pr
      BY <2>6, <1>1 DEF MergePR, TypeOK, GitHubIssue
    <3> QED BY <3>1, <1>1 DEF HeadsGrow, Opened
  <2> QED BY <2>1, <2>2, <2>3, <2>4, <2>5, <2>6
<1>6. CASE CreatorNext
  BY <1>6, <1>2, <1>4 DEF CreatorNext, CreateIssue, InsertIssue
<1>7. CASE BuilderNext
  <2> PICK b \in Builders : BuildEnds(b) \/ \E i \in Issues : BuildRequest(b, i)
    BY <1>7 DEF BuilderNext
  <2>1. ASSUME gh' # gh
        PROVE  /\ builder[b].pc \in {"working", "pushed"}
               /\ gh[builder[b].issue].head < MaxHead
               /\ GitHubPR(builder[b].issue, "open", gh[builder[b].issue].head + 1)
    BY <2>1 DEF BuildRequest, BuildEnds, BuildMark,
          BuildAgentFails, BuildAgentPushes, BuildRevert, BuildUpdatePR,
          BuildOpenPR, BuildOpenPRFails, BuildRecordPR, BuildRaises
  <2>2. CASE gh' # gh
    <3>1. builder[b].issue \in Issues  BY <2>1, <2>2 DEF Placed, Busy
    <3> QED BY <2>1, <2>2, <3>1, <1>3
  <2> QED BY <2>2, <1>2
<1>8. CASE ReviewerNext
  <2>1. UNCHANGED gh
    BY <1>8 DEF ReviewerNext, ReviewEnds, ReviewHead, ReviewCheck, ReviewDiff,
      ReviewTimeout, ReviewStore, ReviewAnswer, ReviewRequest, NotReviewer
  <2> QED BY <2>1, <1>2
<1>9. CASE SyncNext
  <2>1. UNCHANGED gh
    BY <1>9 DEF SyncNext, SyncSteps, SyncList, SyncRead, SyncImport, SyncSettle,
      SyncProbe, SyncRecordPR, SyncCount, SyncPreview, NotSync
  <2> QED BY <2>1, <1>2
<1>10. CASE HookNext \/ CheckerNext \/ Crash
  <2>1. UNCHANGED gh
    BY <1>10 DEF HookNext, HookReceive, HookApply, HookRespond, CheckerNext,
      CheckStart, CheckEnd, NotChecker, Crash
  <2> QED BY <2>1, <1>2
<1>11. CASE UNCHANGED vars  BY <1>11, <1>2 DEF vars
<1> QED BY <1>5, <1>6, <1>7, <1>8, <1>9, <1>10, <1>11 DEF Next

-----------------------------------------------------------------------------
(* What a step may do to the rows of an issue: nothing; insert one; leave  *)
(* their pull request and review alone; or record a pull request there is, *)
(* with a review that is not older than its head SHA.                      *)

SameReview(old, new) ==
    /\ new.pr = old.pr /\ new.reviewed = old.reviewed
    /\ new.sha = old.sha /\ new.seen = old.seen

Kept(i) ==
    /\ Len(board'[i]) = Len(board[i])
    /\ \A k \in 1..Len(board[i]) :
          /\ SameReview(board[i][k], board'[i][k])
          /\ \/ board'[i][k].status = board[i][k].status
             \/ board'[i][k].status \notin Offered
             \/ First(i).pr # NoIssue

Recorded(i) ==
    \E p \in Issues :
        /\ Opened(p)
        /\ Len(board'[i]) = Len(board[i])
        /\ \A k \in 1..Len(board[i]) : LET row == board'[i][k] IN
              /\ row.pr = p
              /\ row.reviewed => row.sha <= row.seen /\ row.seen <= gh[p].head

RowStep(i) ==
    \/ board'[i] = board[i]
    \/ board'[i] = Append(board[i], FreshRow)
    \/ Kept(i)
    \/ Recorded(i)

BoardStep == \A i \in Issues : RowStep(i)

LEMMA RowIn ==
  ASSUME TypeOK, NEW i \in Issues, NEW k \in 1..Len(board[i])
  PROVE  board[i][k] \in Row
<1>1. board[i] \in Seq(Row)  BY DEF TypeOK
<1> QED BY <1>1, ElementOf

LEMMA WithStatusKeeps ==
  ASSUME NEW row \in Row, NEW st
  PROVE  SameReview(row, WithStatus(row, st)) /\ WithStatus(row, st).status = st
  BY DEF Row, WithStatus, SameReview

LEMMA WithPRRecords ==
  ASSUME NEW row \in Row, NEW p, NEW st, NEW r, NEW h, NEW d
  PROVE  /\ WithPR(row, p, st, r, h, d).pr = p
         /\ WithPR(row, p, st, r, h, d).reviewed = r
         /\ WithPR(row, p, st, r, h, d).sha = h
         /\ WithPR(row, p, st, r, h, d).seen = d
  BY DEF Row, WithPR

LEMMA OthersKeep ==
  ASSUME NEW row \in Row
  PROVE  /\ \A st : /\ SameReview(row, WithBuild(row, st))
                   /\ WithBuild(row, st).status = row.status
         /\ SameReview(row, Swept(row))
         /\ Swept(row).status \in {row.status, "open"}
<1>1. \A st : /\ SameReview(row, WithBuild(row, st))
             /\ WithBuild(row, st).status = row.status
  BY DEF Row, WithBuild, SameReview
<1>2. SameReview(row, Swept(row)) /\ Swept(row).status \in {row.status, "open"}
  BY DEF Row, Swept, SameReview
<1> QED BY <1>1, <1>2

LEMMA StatusStep ==
  ASSUME TypeOK, NEW i \in Issues, NEW st, SetStatus(i, st),
         st \in Offered => First(i).pr # NoIssue
  PROVE  BoardStep
<1>1. \A j \in Issues \ {i} : board'[j] = board[j]
  BY DEF SetStatus, TypeOK
<1>2. board'[i] = [k \in 1..Len(board[i]) |-> WithStatus(board[i][k], st)]
  BY DEF SetStatus, TypeOK
<1>3. Len(board'[i]) = Len(board[i])
  <2>1. Len(board[i]) \in Nat  BY DEF TypeOK
  <2> QED BY <1>2, <2>1
<1>4. ASSUME NEW k \in 1..Len(board[i])
      PROVE  SameReview(board[i][k], board'[i][k]) /\ board'[i][k].status = st
  BY <1>2, RowIn, WithStatusKeeps
<1> QED BY <1>1, <1>3, <1>4 DEF BoardStep, RowStep, Kept

LEMMA PRStep ==
  ASSUME TypeOK, NEW i \in Issues, NEW p \in Issues, NEW st, NEW r \in BOOLEAN,
         NEW h \in Heads, NEW d \in Heads, SetPR(i, p, st, r, h, d),
         Opened(p), r => h <= d /\ d <= gh[p].head
  PROVE  BoardStep
<1>1. \A j \in Issues \ {i} : board'[j] = board[j]
  BY DEF SetPR, TypeOK
<1>2. board'[i] = [k \in 1..Len(board[i]) |-> WithPR(board[i][k], p, st, r, h, d)]
  BY DEF SetPR, TypeOK
<1>3. Len(board'[i]) = Len(board[i])
  <2>1. Len(board[i]) \in Nat  BY DEF TypeOK
  <2> QED BY <1>2, <2>1
<1>4. ASSUME NEW k \in 1..Len(board[i])
      PROVE  /\ board'[i][k].pr = p
             /\ board'[i][k].reviewed = r
             /\ board'[i][k].sha = h /\ board'[i][k].seen = d
  <2>1. board'[i][k] = WithPR(board[i][k], p, st, r, h, d)  BY <1>2
  <2> QED BY <2>1, RowIn, WithPRRecords
<1> QED BY <1>1, <1>3, <1>4 DEF BoardStep, RowStep, Recorded

LEMMA BuildStep ==
  ASSUME TypeOK, NEW i \in Issues, NEW st, SetBuild(i, st)
  PROVE  BoardStep
<1>1. \A j \in Issues \ {i} : board'[j] = board[j]
  BY DEF SetBuild, TypeOK
<1>2. board'[i] = [k \in 1..Len(board[i]) |-> WithBuild(board[i][k], st)]
  BY DEF SetBuild, TypeOK
<1>3. Len(board'[i]) = Len(board[i])
  <2>1. Len(board[i]) \in Nat  BY DEF TypeOK
  <2> QED BY <1>2, <2>1
<1>4. ASSUME NEW k \in 1..Len(board[i])
      PROVE  /\ SameReview(board[i][k], board'[i][k])
             /\ board'[i][k].status = board[i][k].status
  BY <1>2, RowIn, OthersKeep
<1> QED BY <1>1, <1>3, <1>4 DEF BoardStep, RowStep, Kept

LEMMA InsertStep ==
  ASSUME TypeOK, NEW i \in Issues, InsertRow(i)
  PROVE  BoardStep
  BY DEF InsertRow, TypeOK, BoardStep, RowStep

LEMMA CrashStep ==
  ASSUME TypeOK, Crash
  PROVE  BoardStep
<1> SUFFICES ASSUME NEW i \in Issues PROVE Kept(i)
  BY DEF BoardStep, RowStep
<1>1. PICK old \in SUBSET Issues :
         board' = [j \in Issues |-> [k \in 1..Len(board[j]) |->
                     IF j \in old THEN Swept(board[j][k]) ELSE board[j][k]]]
  BY DEF Crash
<1>2. board'[i] = [k \in 1..Len(board[i]) |->
                     IF i \in old THEN Swept(board[i][k]) ELSE board[i][k]]
  BY <1>1
<1>3. Len(board'[i]) = Len(board[i])
  <2>1. Len(board[i]) \in Nat  BY DEF TypeOK
  <2> QED BY <1>2, <2>1
<1>4. ASSUME NEW k \in 1..Len(board[i])
      PROVE  /\ SameReview(board[i][k], board'[i][k])
             /\ board'[i][k].status \in {board[i][k].status, "open"}
  <2>1. board[i][k] \in Row  BY RowIn
  <2>2. board'[i][k] \in {Swept(board[i][k]), board[i][k]}  BY <1>2
  <2> QED BY <2>1, <2>2, OthersKeep DEF SameReview
<1> QED BY <1>3, <1>4 DEF Kept, Offered

(* Every writer of the table makes such a step.                            *)
LEMMA Steps ==
  ASSUME TypeInv, BuilderInv, ReviewerInv, HeldInv, RowInv, [Next]_vars
  PROVE  BoardStep
<1> USE DEF TypeInv
<1>0. /\ 0 \in Heads /\ FALSE \in BOOLEAN /\ TRUE \in BOOLEAN
  BY IssueBoardAssumption DEF Heads
<1>1. CASE UNCHANGED board  BY <1>1 DEF BoardStep, RowStep
<1>2. CASE CreatorNext
  <2>1. ASSUME NEW c \in Creators, InsertIssue(c) PROVE BoardStep
    <3>1. creator[c].issue \in Issues  BY <2>1 DEF InsertIssue, Placed
    <3> QED BY <2>1, <3>1, InsertStep DEF InsertIssue
  <2> QED BY <1>2, <1>1, <2>1 DEF CreatorNext, CreateIssue
<1>3. CASE BuilderNext
  <2> PICK b \in Builders : BuildEnds(b) \/ \E i \in Issues : BuildRequest(b, i)
    BY <1>3 DEF BuilderNext
  <2> DEFINE i == builder[b].issue
  <2>1. builder[b].pc \in Busy => i \in Issues  BY DEF Placed
  <2>2. CASE BuildMark(b)
    <3>1. SetStatus(i, "implementing") /\ i \in Issues
      BY <2>1, <2>2 DEF BuildMark, Busy
    <3> QED BY <3>1, StatusStep DEF Offered
  <2>3. CASE BuildRevert(b)
    <3>1. /\ SetStatus(i, IF builder[b].known = NoIssue THEN "open" ELSE "pr_reviewed")
          /\ i \in Issues
      BY <2>1, <2>3 DEF BuildRevert, Busy
    <3>2. builder[b].known # NoIssue => First(i).pr # NoIssue
      BY <2>3 DEF BuildRevert, BuilderInv, Busy
    <3>3. CASE builder[b].known # NoIssue
      BY <3>1, <3>2, <3>3, StatusStep
    <3>4. CASE builder[b].known = NoIssue
      BY <3>1, <3>4, StatusStep DEF Offered
    <3> QED BY <3>3, <3>4
  <2>4. CASE BuildUpdatePR(b)
    <3>1. SetPR(i, builder[b].known, "pr_open", FALSE, 0, 0) /\ i \in Issues
      BY <2>1, <2>4 DEF BuildUpdatePR, Busy
    <3>2. builder[b].known \in Issues /\ Opened(builder[b].known)
      BY <2>4 DEF BuildUpdatePR, BuilderInv, Busy, TypeOK
    <3> QED BY <3>1, <3>2, <1>0, PRStep
  <2>5. CASE BuildRecordPR(b)
    <3>1. SetPR(i, i, "pr_open", FALSE, 0, 0) /\ i \in Issues /\ Opened(i)
      BY <2>1, <2>5 DEF BuildRecordPR, BuilderInv, Busy
    <3> QED BY <3>1, <1>0, PRStep
  <2>6. CASE BuildAgentFails(b) \/ BuildAgentPushes(b) \/ BuildOpenPR(b)
              \/ BuildOpenPRFails(b) \/ BuildRaises(b)
              \/ (\E j \in Issues : BuildRequest(b, j))
    BY <2>6, <1>1 DEF BuildAgentFails, BuildAgentPushes, BuildOpenPR,
       BuildOpenPRFails, BuildRaises, BuildRequest
  <2> QED BY <2>2, <2>3, <2>4, <2>5, <2>6 DEF BuildEnds
<1>4. CASE ReviewerNext
  <2> PICK r \in Reviewers : \/ ReviewEnds(r) \/ ReviewAnswer(r)
                             \/ \E i, p \in Issues : ReviewRequest(r, i, p)
    BY <1>4 DEF ReviewerNext
  <2>1. CASE ReviewStore(r)
    <3> DEFINE i == reviewer[r].issue
               p == reviewer[r].of
               h == reviewer[r].sha
               d == reviewer[r].seen
    <3>1. SetPR(i, p, "pr_reviewed", TRUE, h, d) /\ reviewer[r].pc = "answered"
      BY <2>1 DEF ReviewStore
    <3>2. i \in Issues /\ p \in Issues /\ h \in Heads /\ d \in Heads
      BY <3>1 DEF Placed, TypeOK
    <3>3. Opened(p) /\ h <= d /\ d <= gh[p].head
      BY <3>1 DEF ReviewerInv
    <3> QED BY <3>1, <3>2, <3>3, <1>0, PRStep
  <2>2. CASE ~ReviewStore(r)
    <3>1. UNCHANGED board
      BY <2>2 DEF ReviewEnds, ReviewHead, ReviewCheck, ReviewDiff,
         ReviewTimeout, ReviewAnswer, ReviewRequest
    <3> QED BY <3>1, <1>1
  <2> QED BY <2>1, <2>2
<1>5. CASE HookNext
  <2> PICK h \in Hooks : \/ \E d \in 1..Len(sent) : HookReceive(h, d)
                         \/ HookApply(h) \/ HookRespond(h)
    BY <1>5 DEF HookNext
  <2>1. CASE HookApply(h)
    <3> DEFINE i == Delivery(h).issue
    <3>1. hook[h].pc # "idle"  BY <2>1 DEF HookApply
    <3>2. /\ i \in Issues /\ Opened(i)
          /\ Delivery(h).event \in {"opened", "closed", "merged"}
      BY <3>1, DeliveryIn DEF Delivery, HeldInv
    <3>3. \/ SetPR(i, i, "pr_open", FALSE, 0, 0)
          \/ SetStatus(i, Delivery(h).event) /\ Delivery(h).event # "opened"
          \/ UNCHANGED board
      BY <2>1 DEF HookApply
    <3> HIDE DEF i
    <3>4. CASE SetPR(i, i, "pr_open", FALSE, 0, 0)
      BY <3>2, <3>4, <1>0, PRStep
    <3>5. CASE SetStatus(i, Delivery(h).event) /\ Delivery(h).event # "opened"
      <4>1. Delivery(h).event \notin Offered  BY <3>2, <3>5 DEF Offered
      <4> QED BY <3>2, <3>5, <4>1, StatusStep
    <3> QED BY <3>3, <3>4, <3>5, <1>1
  <2>2. CASE ~HookApply(h)
    <3>1. UNCHANGED board  BY <2>2 DEF HookReceive, HookRespond
    <3> QED BY <3>1, <1>1
  <2> QED BY <2>1, <2>2
<1>6. CASE CheckerNext
  <2> PICK c \in Checkers : CheckStart(c) \/ CheckEnd(c)
    BY <1>6 DEF CheckerNext
  <2>1. checker[c].issue \in Issues  BY DEF CheckStart, CheckEnd, Placed
  <2>2. PICK st : SetBuild(checker[c].issue, st)  BY DEF CheckStart, CheckEnd
  <2> QED BY <2>1, <2>2, BuildStep
<1>7. CASE SyncNext
  <2> PICK s \in Syncs : SyncList(s) \/ SyncSteps(s)
    BY <1>7 DEF SyncNext
  <2>1. ASSUME NEW i \in Issues, SyncImport(s, i) PROVE BoardStep
    BY <2>1, InsertStep DEF SyncImport
  <2>2. ASSUME NEW e \in sync[s].settle, SyncSettle(s, e) PROVE BoardStep
    <3>1. e[1] \in Issues /\ e[2] \in Ended
      <4>1. sync[s] \in SyncState  BY DEF TypeOK
      <4>2. sync[s].settle \subseteq Issues \X Ended  BY <4>1 DEF SyncState
      <4> QED BY <4>2
    <3>2. e[2] \notin Offered  BY <3>1 DEF Ended, Offered
    <3> QED BY <2>2, <3>1, <3>2, StatusStep DEF SyncSettle
  <2>3. CASE SyncRecordPR(s)
    <3>1. sync[s].at \in Issues /\ sync[s].named \in Issues /\ Opened(sync[s].named)
      BY <2>3 DEF SyncRecordPR, Placed, HeldInv
    <3> QED BY <2>3, <3>1, <1>0, PRStep DEF SyncRecordPR
  <2>4. CASE \/ SyncList(s) \/ SyncRead(s) \/ SyncCount(s) \/ SyncPreview(s)
             \/ \E i \in Issues : SyncProbe(s, i)
    BY <2>4, <1>1 DEF SyncList, SyncRead, SyncCount, SyncPreview, SyncProbe
  <2> QED BY <2>1, <2>2, <2>3, <2>4 DEF SyncSteps
<1>8. CASE GitHubMoves \/ UNCHANGED vars
  BY <1>8, <1>1 DEF GitHubMoves, vars
<1> QED BY <1>2, <1>3, <1>4, <1>5, <1>6, <1>7, <1>8, CrashStep DEF Next

-----------------------------------------------------------------------------
(* The invariant is preserved *)

LEMMA FreshIs ==
  FreshRow.pr = NoIssue /\ ~FreshRow.reviewed /\ FreshRow.status \notin Offered
  BY DEF FreshRow, Offered

(* A row that knows a pull request keeps knowing it.                       *)
LEMMA FirstStays ==
  ASSUME TypeInv, BoardStep, NEW i \in Issues,
         Tracked(i), First(i).pr # NoIssue
  PROVE  (Tracked(i) /\ First(i).pr # NoIssue)'
<1>1. board[i] \in Seq(Row) /\ Len(board[i]) > 0 /\ 1 \in 1..Len(board[i])
  BY DEF TypeInv, TypeOK, Tracked
<1>2. RowStep(i)  BY DEF BoardStep
<1>3. CASE board'[i] = board[i]  BY <1>3 DEF Tracked, First
<1>4. CASE board'[i] = Append(board[i], FreshRow)
  <2>1. board'[i][1] = board[i][1] /\ Len(board'[i]) > 0
    BY <1>1, <1>4, FreshType
  <2> QED BY <2>1 DEF Tracked, First
<1>5. CASE Kept(i)
  <2>1. board'[i][1].pr = board[i][1].pr /\ Len(board'[i]) > 0
    BY <1>1, <1>5 DEF Kept, SameReview
  <2> QED BY <2>1 DEF Tracked, First
<1>6. CASE Recorded(i)
  <2>1. board'[i][1].pr # NoIssue /\ Len(board'[i]) > 0
    BY <1>1, <1>6, IssueBoardAssumption DEF Recorded
  <2> QED BY <2>1 DEF Tracked, First
<1> QED BY <1>2, <1>3, <1>4, <1>5, <1>6 DEF RowStep

LEMMA RowPreserved ==
  ASSUME TypeInv, TypeInv', RowInv, BoardStep, HeadsGrow
  PROVE  RowInv'
<1>0. /\ \A p \in Issues : /\ gh[p].head \in Nat /\ gh'[p].head \in Nat
                           /\ gh[p].head <= gh'[p].head
                           /\ Opened(p) => Opened(p)'
      /\ NoIssue \notin Issues
  BY IssueBoardAssumption DEF TypeInv, TypeOK, GitHubIssue, Heads, HeadsGrow
<1>1. ASSUME NEW i \in Issues, NEW k \in 1..Len(board'[i])
      PROVE  LET row == board'[i][k] IN
             /\ row.pr # NoIssue => gh'[row.pr].pr # "none"
             /\ row.reviewed => /\ row.pr # NoIssue
                                /\ row.sha <= row.seen
                                /\ row.seen <= gh'[row.pr].head
             /\ k = 1 /\ row.status \in Offered => row.pr # NoIssue
  <2> DEFINE row == board'[i][k]
             Good(x) == /\ x.pr # NoIssue => Opened(x.pr)
                        /\ x.reviewed => /\ x.pr # NoIssue
                                         /\ x.sha <= x.seen
                                         /\ x.seen <= gh[x.pr].head
  <2>1. row \in Row /\ row.pr \in Numbers /\ row.seen \in Nat /\ row.sha \in Nat
    <3>1. board'[i] \in Seq(Row)  BY DEF TypeInv, TypeOK
    <3>2. row \in Row  BY <3>1, ElementOf
    <3> QED BY <3>2, IssueBoardAssumption DEF Row, Heads, Numbers
  <2>2. ASSUME k \in 1..Len(board[i])
        PROVE  LET old == board[i][k] IN
               Good(old) /\ (k = 1 /\ old.status \in Offered => old.pr # NoIssue)
    <3>1. k = 1 => Tracked(i) /\ First(i) = board[i][1]
      BY <2>2 DEF Tracked, First, TypeInv, TypeOK
    <3> QED BY <2>2, <3>1 DEF RowInv, ReviewOfItsDiff
  <2>g. ASSUME Good(row), k = 1 /\ row.status \in Offered => row.pr # NoIssue
        PROVE  /\ row.pr # NoIssue => gh'[row.pr].pr # "none"
               /\ row.reviewed => /\ row.pr # NoIssue
                                  /\ row.sha <= row.seen
                                  /\ row.seen <= gh'[row.pr].head
               /\ k = 1 /\ row.status \in Offered => row.pr # NoIssue
    <3>1. ASSUME row.pr # NoIssue
          PROVE  /\ row.pr \in Issues /\ gh'[row.pr].pr # "none"
                 /\ gh[row.pr].head <= gh'[row.pr].head
                 /\ gh[row.pr].head \in Nat /\ gh'[row.pr].head \in Nat
      <4>1. row.pr \in Issues  BY <2>1, <3>1 DEF Numbers
      <4>2. Opened(row.pr)  BY <2>g, <3>1
      <4> QED BY <4>1, <4>2, <1>0 DEF Opened
    <3> QED BY <3>1, <2>g, <2>1
  <2>3. CASE board'[i] = board[i]  BY <2>2, <2>3, <2>g
  <2>4. CASE board'[i] = Append(board[i], FreshRow)
    <3>1. board[i] \in Seq(Row)  BY DEF TypeInv, TypeOK
    <3>2. CASE k \in 1..Len(board[i])
      <4>1. row = board[i][k]  BY <3>1, <3>2, <2>4
      <4> QED BY <4>1, <3>2, <2>2, <2>g
    <3>3. CASE k \notin 1..Len(board[i])
      <4>1. row = FreshRow  BY <3>1, <3>3, <2>4
      <4> QED BY <4>1, FreshIs
    <3> QED BY <3>2, <3>3
  <2>5. CASE Kept(i)
    <3>1. k \in 1..Len(board[i])  BY <2>5 DEF Kept
    <3>2. SameReview(board[i][k], row)  BY <2>5, <3>1 DEF Kept
    <3>3. k = 1 => First(i) = board[i][k]  BY DEF First
    <3>4. k = 1 /\ row.status \in Offered => row.pr # NoIssue
      BY <2>5, <2>2, <3>1, <3>2, <3>3 DEF Kept, SameReview
    <3>5. Good(row)  BY <2>2, <3>1, <3>2 DEF SameReview
    <3> QED BY <3>4, <3>5, <2>g
  <2>6. CASE Recorded(i)
    <3>1. PICK p \in Issues :
            /\ Opened(p) /\ Len(board'[i]) = Len(board[i])
            /\ \A n \in 1..Len(board[i]) :
                  /\ board'[i][n].pr = p
                  /\ board'[i][n].reviewed =>
                       /\ board'[i][n].sha <= board'[i][n].seen
                       /\ board'[i][n].seen <= gh[p].head
      BY <2>6 DEF Recorded
    <3>2. row.pr = p /\ Good(row)  BY <3>1, <1>0
    <3>3. row.pr # NoIssue  BY <3>2, <1>0
    <3> QED BY <3>2, <3>3, <2>g
  <2> QED BY <2>3, <2>4, <2>5, <2>6 DEF BoardStep, RowStep
<1>2. (\A i \in Issues : \A k \in 1..Len(board[i]) :
          board[i][k].pr # NoIssue => Opened(board[i][k].pr))'
  BY <1>1 DEF Opened
<1>3. ReviewOfItsDiff'  BY <1>1 DEF ReviewOfItsDiff
<1>4. ASSUME NEW i \in Issues, (Tracked(i) /\ First(i).status \in Offered)'
      PROVE  First(i)'.pr # NoIssue
  <2>1. board'[i] \in Seq(Row)  BY DEF TypeInv, TypeOK
  <2>2. 1 \in 1..Len(board'[i])  BY <1>4, <2>1 DEF Tracked
  <2> QED BY <1>1, <1>4, <2>2 DEF First
<1> QED BY <1>2, <1>3, <1>4 DEF RowInv

(* A sync holds an issue only because it found its pull request.           *)
LEMMA FoundIsOpened ==
  ASSUME TypeInv, [Next]_vars, NEW s \in Syncs, sync'[s].pc = "found"
  PROVE  sync'[s] = sync[s] \/ Opened(sync'[s].named)
<1> USE DEF TypeInv
<1>1. CASE UNCHANGED sync  BY <1>1
<1>0. ASSUME NEW t \in Syncs, NEW x, SyncAt(t, x)
      PROVE  sync'[t] = x /\ (s # t => sync'[s] = sync[s])
  BY <1>0 DEF SyncAt, TypeOK
<1>2. CASE SyncNext
  <2> PICK t \in Syncs : SyncList(t) \/ SyncSteps(t)
    BY <1>2 DEF SyncNext
  <2>1. CASE s # t
    <3>1. PICK x : SyncAt(t, x)
      BY DEF SyncSteps, SyncList, SyncRead, SyncImport, SyncSettle,
        SyncProbe, SyncRecordPR, SyncCount, SyncPreview, GoSync, SyncDies
    <3> QED BY <2>1, <3>1, <1>0
  <2>2. CASE s = t
    <3>1. sync[s] \in SyncState  BY DEF TypeOK
    <3>2. ASSUME SyncDies(s) PROVE FALSE
      <4>1. sync'[s] = BareSync("dead")  BY <3>2, <1>0 DEF SyncDies
      <4> QED BY <2>2, <4>1 DEF BareSync
    <3>3. CASE SyncList(s)
      <4>1. CASE SyncDies(s)  BY <4>1, <3>2
      <4>2. CASE ~SyncDies(s)
        <5> DEFINE y == [sync[s] EXCEPT !.pc = "listed",
                                 !.listed = [i \in Issues |-> gh[i].issue]]
        <5>1. SyncAt(s, y)  BY <3>3, <4>2 DEF SyncList
        <5>2. y.pc = "listed"  BY <3>1 DEF SyncState
        <5> HIDE DEF y
        <5> QED BY <2>2, <5>1, <5>2, <1>0
      <4> QED BY <4>1, <4>2
    <3>4. CASE SyncRead(s)
      <4>1. sync'[s].pc = "walking"
        BY <3>4, <3>1 DEF SyncRead, SyncAt, TypeOK, SyncState
      <4> QED BY <4>1
    <3>5. ASSUME NEW i \in Issues, SyncImport(s, i) PROVE FALSE
      BY <3>5, <3>1 DEF SyncImport, SyncAt, TypeOK, SyncState
    <3>6. ASSUME NEW e \in sync[s].settle, SyncSettle(s, e) PROVE FALSE
      BY <3>6, <3>1 DEF SyncSettle, SyncAt, TypeOK, SyncState
    <3>7. ASSUME NEW i \in Issues, SyncProbe(s, i) PROVE Opened(sync'[s].named)
      <4>1. ASSUME NEW p \in Issues, gh[p].pr # "none",
                   SyncAt(s, [sync[s] EXCEPT !.probe = @ \ {i}, !.pc = "found",
                                             !.at = i, !.named = p])
            PROVE  Opened(sync'[s].named)
        <5>1. sync'[s].named = p
          BY <4>1, <3>1 DEF SyncAt, TypeOK, SyncState
        <5> QED BY <4>1, <5>1 DEF Opened
      <4>2. CASE SyncAt(s, [sync[s] EXCEPT !.probe = @ \ {i},
                                           !.missed = @ \cup {i}])
        <5>1. sync'[s].pc = sync[s].pc
          BY <4>2, <3>1 DEF SyncAt, TypeOK, SyncState
        <5> QED BY <2>2, <3>7, <5>1 DEF SyncProbe
      <4>3. CASE SyncDies(s)  BY <4>3, <3>2
      <4> QED BY <3>7, <4>1, <4>2, <4>3 DEF SyncProbe
    <3>8. CASE SyncRecordPR(s)
      BY <3>8, <3>1 DEF SyncRecordPR, SyncAt, TypeOK, SyncState
    <3>9. CASE SyncCount(s) \/ SyncPreview(s)
      <4>1. PICK pc \in {"previewing", "done"} : GoSync(s, pc)
        BY <3>9 DEF SyncCount, SyncPreview
      <4>2. sync'[s].pc = pc
        BY <4>1, <3>1 DEF GoSync, SyncAt, TypeOK, SyncState
      <4> QED BY <4>1, <4>2
    <3> QED BY <2>2, <3>3, <3>4, <3>5, <3>6, <3>7, <3>8, <3>9 DEF SyncSteps
  <2> QED BY <2>1, <2>2
<1>3. CASE HookNext
  <2>1. \/ UNCHANGED sync
        \/ \E t \in Syncs : SyncAt(t, [sync[t] EXCEPT !.pc = "queued"])
    <3> PICK h \in Hooks : \/ \E d \in 1..Len(sent) : HookReceive(h, d)
                           \/ HookApply(h) \/ HookRespond(h)
      BY <1>3 DEF HookNext
    <3>1. CASE HookRespond(h)
      <4>1. Delivery(h).event \in {"opened", "closed", "merged"}
        BY <3>1, DeliveryIn DEF HookRespond
      <4>2. CASE Delivery(h).event = "merged"
        BY <3>1, <4>2 DEF HookRespond, SyncAt
      <4>3. CASE Delivery(h).event \in {"opened", "closed"}
        BY <3>1, <4>3 DEF HookRespond
      <4> QED BY <4>1, <4>2, <4>3
    <3>2. CASE ~HookRespond(h)
      BY <3>2 DEF HookReceive, HookApply
    <3> QED BY <3>1, <3>2
  <2>2. ASSUME NEW t \in Syncs, SyncAt(t, [sync[t] EXCEPT !.pc = "queued"])
        PROVE  sync'[s] = sync[s] \/ sync'[s].pc = "queued"
    <3>1. [sync[t] EXCEPT !.pc = "queued"].pc = "queued"
      BY DEF TypeOK, SyncState
    <3> QED BY <2>2, <3>1, <1>0
  <2> QED BY <2>1, <2>2, <1>1
<1>4. CASE Crash
  <2>1. sync'[s] = sync[s] \/ sync'[s] = BareSync("dead")
    BY <1>4 DEF Crash
  <2>2. BareSync("dead").pc = "dead"
    BY DEF BareSync
  <2> QED BY <2>1, <2>2
<1>5. CASE \/ GitHubMoves \/ BuilderNext \/ ReviewerNext \/ CheckerNext
           \/ CreatorNext \/ UNCHANGED vars
  <2>1. CASE BuilderNext
    BY <2>1, <1>1 DEF BuilderNext, BuildRequest, BuildEnds, BuildMark,
      BuildAgentFails, BuildAgentPushes, BuildRevert, BuildUpdatePR, BuildOpenPR,
      BuildOpenPRFails, BuildRecordPR, BuildRaises, NotBuilder
  <2>2. CASE ReviewerNext
    BY <2>2, <1>1 DEF ReviewerNext, ReviewEnds, ReviewHead, ReviewCheck, ReviewDiff,
      ReviewTimeout, ReviewStore, ReviewAnswer, ReviewRequest, NotReviewer
  <2>3. CASE \/ GitHubMoves \/ CheckerNext \/ CreatorNext \/ UNCHANGED vars
    BY <2>3, <1>1 DEF GitHubMoves, CheckerNext, CheckStart, CheckEnd, NotChecker,
      CreatorNext, CreateIssue, InsertIssue, vars, taskVars
  <2> QED BY <1>5, <2>1, <2>2, <2>3
<1> QED BY <1>2, <1>3, <1>4, <1>5 DEF Next

(* Only a pull request that exists is delivered.                           *)
LEMMA SentIsOpened ==
  ASSUME TypeInv, [Next]_vars
  PROVE  \/ UNCHANGED sent
         \/ \E i \in Issues, e \in {"opened", "closed", "merged"} :
               Opened(i)' /\ Deliver(i, e)
<1> USE DEF TypeInv
<1>1. \A i \in Issues : gh[i] \in GitHubIssue  BY DEF TypeOK
<1>2. ASSUME NEW i \in Issues, NEW st \in {"open", "closed"}, NEW n,
             GitHubPR(i, st, n)
      PROVE  Opened(i)'
  BY <1>1, <1>2 DEF GitHubPR, TypeOK, GitHubIssue, Opened
<1>3. CASE GitHubMoves
  <2> PICK i \in Issues : \/ FileIssue(i) \/ CloseOrReopenIssue(i)
                          \/ OpenPR(i) \/ Push(i) \/ ClosePR(i) \/ MergePR(i)
    BY <1>3 DEF GitHubMoves
  <2>1. CASE OpenPR(i)  BY <2>1, <1>2 DEF OpenPR
  <2>2. CASE ClosePR(i)  BY <2>2, <1>2 DEF ClosePR
  <2>3. CASE MergePR(i)
    <3>1. Opened(i)'  BY <2>3, <1>1 DEF MergePR, TypeOK, GitHubIssue, Opened
    <3> QED BY <2>3, <3>1 DEF MergePR
  <2> QED BY <2>1, <2>2, <2>3 DEF FileIssue, CloseOrReopenIssue, Push
<1>4. CASE BuilderNext
  <2> PICK b \in Builders : BuildEnds(b) \/ \E i \in Issues : BuildRequest(b, i)
    BY <1>4 DEF BuilderNext
  <2>1. CASE BuildOpenPR(b)
    <3>1. builder[b].issue \in Issues  BY <2>1 DEF BuildOpenPR, Placed, Busy
    <3> QED BY <2>1, <3>1, <1>2 DEF BuildOpenPR
  <2> QED BY <2>1 DEF BuildRequest, BuildEnds, BuildMark,
      BuildAgentFails, BuildAgentPushes, BuildRevert, BuildUpdatePR,
      BuildOpenPRFails, BuildRecordPR, BuildRaises
<1>5. CASE ReviewerNext
  BY <1>5 DEF ReviewerNext, ReviewEnds, ReviewHead, ReviewCheck, ReviewDiff,
     ReviewTimeout, ReviewStore, ReviewAnswer, ReviewRequest, NotReviewer
<1>6. CASE SyncNext
  BY <1>6 DEF SyncNext, SyncSteps, SyncList, SyncRead, SyncImport, SyncSettle,
     SyncProbe, SyncRecordPR, SyncCount, SyncPreview, NotSync
<1>7. CASE \/ HookNext \/ CheckerNext \/ CreatorNext \/ Crash \/ UNCHANGED vars
  BY <1>7 DEF HookNext, HookReceive, HookApply, HookRespond, CheckerNext,
     CheckStart, CheckEnd, NotChecker, CreatorNext, CreateIssue, InsertIssue,
     Crash, vars
<1> QED BY <1>3, <1>4, <1>5, <1>6, <1>7 DEF Next

LEMMA HeldPreserved ==
  ASSUME TypeInv, TypeInv', HeldInv, HeadsGrow, [Next]_vars
  PROVE  HeldInv'
<1>1. ASSUME NEW s \in Syncs, sync'[s].pc = "found"
      PROVE  Opened(sync[s].named)'
  <2>1. sync'[s].named \in Issues  BY <1>1 DEF TypeInv, Placed
  <2>2. Opened(sync'[s].named)
    BY <1>1, FoundIsOpened DEF HeldInv
  <2> QED BY <2>1, <2>2 DEF HeadsGrow, Opened
<1>2. ASSUME NEW n \in 1..Len(sent')
      PROVE  Opened(sent[n].issue)'
  <2>1. sent \in Seq([issue : Issues, event : {"opened", "closed", "merged"}])
    BY DEF TypeInv, TypeOK
  <2>2. ASSUME n \in 1..Len(sent), sent'[n] = sent[n]
        PROVE  Opened(sent[n].issue)'
    <3>1. sent[n] \in [issue : Issues, event : {"opened", "closed", "merged"}]
      BY <2>1, <2>2, ElementOf
    <3>2. Opened(sent[n].issue)  BY <2>2 DEF HeldInv
    <3> QED BY <2>2, <3>1, <3>2 DEF HeadsGrow, Opened
  <2>3. CASE UNCHANGED sent  BY <2>2, <2>3
  <2>4. ASSUME NEW i \in Issues, NEW e \in {"opened", "closed", "merged"},
               Opened(i)', Deliver(i, e)
        PROVE  Opened(sent[n].issue)'
    <3>1. sent' = Append(sent, [issue |-> i, event |-> e]) \/ UNCHANGED sent
      BY <2>4 DEF Deliver
    <3> SUFFICES ASSUME sent' = Append(sent, [issue |-> i, event |-> e])
                 PROVE  Opened(sent[n].issue)'
      BY <3>1, <2>3
    <3>2. CASE n \in 1..Len(sent)
      <4>1. sent'[n] = sent[n]  BY <2>1, <3>2
      <4> QED BY <4>1, <3>2, <2>2
    <3>3. CASE n \notin 1..Len(sent)
      <4>1. sent'[n] = [issue |-> i, event |-> e]  BY <2>1, <3>3
      <4>2. sent'[n].issue = i  BY <4>1
      <4> QED BY <4>2, <2>4 DEF Opened
    <3> QED BY <3>2, <3>3
  <2> QED BY <2>3, <2>4, SentIsOpened
<1> QED BY <1>1, <1>2 DEF HeldInv

(* A build knows of a pull request at its start, or has opened one.        *)
LEMMA BuilderPreserved ==
  ASSUME TypeInv, TypeInv', BuilderInv, RowInv, BoardStep, HeadsGrow, [Next]_vars
  PROVE  BuilderInv'
<1> USE DEF TypeInv
<1> SUFFICES ASSUME NEW b \in Builders, NEW i, builder'[b].issue = i,
                    NEW p, builder'[b].known = p
             PROVE  /\ builder'[b].pc \in Busy /\ p # NoIssue =>
                          /\ (Tracked(i) /\ First(i).pr # NoIssue)'
                          /\ gh'[p].pr # "none"
                    /\ builder'[b].pc = "opened" => Opened(i)'
  BY DEF BuilderInv, Tracked, First, Opened
<1> DEFINE Goal == /\ builder'[b].pc \in Busy /\ p # NoIssue =>
                          /\ (Tracked(i) /\ First(i).pr # NoIssue)'
                          /\ gh'[p].pr # "none"
                   /\ builder'[b].pc = "opened" => Opened(i)'
<1>1. ASSUME i = builder[b].issue, p = builder[b].known,
             builder[b].pc \in Busy,
             \/ builder'[b].pc = builder[b].pc
             \/ builder'[b].pc # "opened"
             \/ Opened(i)'
      PROVE  Goal
  <2>1. i \in Issues  BY <1>1 DEF Placed
  <2>2. p # NoIssue => (Tracked(i) /\ First(i).pr # NoIssue)'
    BY <1>1, <2>1, FirstStays DEF BuilderInv
  <2>3. builder[b].pc = "opened" => Opened(i)'
    BY <1>1, <2>1 DEF BuilderInv, HeadsGrow
  <2>4. p # NoIssue => p \in Issues /\ Opened(p)
    BY <1>1 DEF BuilderInv, TypeOK
  <2>5. p # NoIssue => gh'[p].pr # "none"
    BY <2>4 DEF HeadsGrow, Opened
  <2> QED BY <1>1, <2>2, <2>3, <2>5
<1> SUFFICES Goal
  OBVIOUS
<1>e. ASSUME builder'[b].pc \notin Busy PROVE Goal
  BY <1>e DEF Busy
<1> HIDE DEF Goal
<1>2. CASE builder'[b] = builder[b]
  BY <1>1, <1>2, <1>e
<1>3. ASSUME NEW j \in Issues, BuildRequest(b, j)
      PROVE  Goal
  <2>1. /\ i = j /\ builder'[b].pc = "read"
        /\ p = IF Tracked(j) THEN First(j).pr ELSE NoIssue
        /\ UNCHANGED <<board, gh>>
    BY <1>3 DEF BuildRequest, TypeOK
  <2>2. Tracked(j) /\ First(j).pr # NoIssue => gh[First(j).pr].pr # "none"
    <3> SUFFICES ASSUME Tracked(j), First(j).pr # NoIssue
                 PROVE  gh[First(j).pr].pr # "none"
      OBVIOUS
    <3>1. board[j] \in Seq(Row)  BY DEF TypeOK
    <3>2. 1 \in 1..Len(board[j])  BY <3>1 DEF Tracked
    <3> QED BY <3>2 DEF RowInv, First, Opened
  <2> QED BY <2>1, <2>2 DEF Goal, Tracked, First
<1>4. ASSUME NEW pc, GoBuilder(b, pc)
      PROVE  /\ builder'[b].issue = builder[b].issue
             /\ builder'[b].known = builder[b].known
             /\ builder'[b].pc = pc
  BY <1>4 DEF GoBuilder, TypeOK
<1>5. CASE BuildOpenPR(b)
  <2>1. i = builder[b].issue /\ i \in Issues
    BY <1>5, <1>4 DEF BuildOpenPR, Placed, Busy
  <2>2. Opened(i)'
    <3>1. GitHubPR(i, "open", gh[i].head + 1)  BY <1>5, <2>1 DEF BuildOpenPR
    <3>2. gh[i] \in GitHubIssue  BY <2>1 DEF TypeOK
    <3> QED BY <2>1, <3>1, <3>2 DEF GitHubPR, TypeOK, GitHubIssue, Opened
  <2> QED BY <1>5, <2>2, <1>4, <1>1 DEF BuildOpenPR, Busy
<1>6. CASE BuildMark(b) \/ BuildAgentFails(b) \/ BuildAgentPushes(b)
  <2>1. PICK pc \in {"working", "failed", "pushed"} : GoBuilder(b, pc)
    BY <1>6 DEF BuildMark, BuildAgentFails, BuildAgentPushes
  <2>2. builder[b].pc \in Busy
    BY <1>6 DEF BuildMark, BuildAgentFails, BuildAgentPushes, Busy
  <2>3. /\ builder'[b].pc = pc /\ i = builder[b].issue
        /\ p = builder[b].known
    BY <2>1, <1>4
  <2> QED BY <2>2, <2>3, <1>1
<1>f. CASE \/ BuildRevert(b) \/ BuildUpdatePR(b) \/ BuildOpenPRFails(b)
           \/ BuildRecordPR(b) \/ BuildRaises(b)
  <2>1. PICK pc \in {"reverted", "done", "unopened", "dead"} : BuilderEnds(b, pc)
    BY <1>f DEF BuildRevert, BuildUpdatePR, BuildOpenPRFails, BuildRecordPR,
       BuildRaises
  <2>2. builder'[b].pc = pc  BY <2>1 DEF BuilderEnds, TypeOK
  <2> QED BY <2>2, <1>e DEF Busy
<1>7. CASE BuilderNext
  <2> PICK c \in Builders : BuildEnds(c) \/ \E j \in Issues : BuildRequest(c, j)
    BY <1>7 DEF BuilderNext
  <2>1. CASE b = c
    BY <2>1, <1>3, <1>5, <1>6, <1>f DEF BuildEnds
  <2>2. CASE b # c
    <3>1. builder'[b] = builder[b]
      <4>1. \/ \E pc : GoBuilder(c, pc)
            \/ \E x : builder' = [builder EXCEPT ![c] = x]
        BY DEF BuildRequest, BuildEnds, BuildMark, BuildAgentFails,
           BuildAgentPushes, BuildRevert, BuildUpdatePR, BuildOpenPR,
           BuildOpenPRFails, BuildRecordPR, BuildRaises, BuilderEnds
      <4> QED BY <4>1, <2>2 DEF GoBuilder, TypeOK
    <3> QED BY <3>1, <1>2
  <2> QED BY <2>1, <2>2
<1>8. CASE Crash
  <2>1. \/ builder'[b] = builder[b]
        \/ builder'[b] = [pc |-> "dead", issue |-> NoIssue, known |-> NoIssue]
    BY <1>8 DEF Crash
  <2> QED BY <2>1, <1>2, <1>e DEF Busy
<1>9. CASE UNCHANGED builder
  BY <1>9, <1>2
<1>10. CASE ReviewerNext
  <2>1. UNCHANGED builder
    BY <1>10 DEF ReviewerNext, ReviewEnds, ReviewHead, ReviewCheck, ReviewDiff,
       ReviewTimeout, ReviewStore, ReviewAnswer, ReviewRequest, NotReviewer
  <2> QED BY <2>1, <1>9
<1>11. CASE SyncNext
  <2>1. UNCHANGED builder
    BY <1>11 DEF SyncNext, SyncSteps, SyncList, SyncRead, SyncImport, SyncSettle,
       SyncProbe, SyncRecordPR, SyncCount, SyncPreview, NotSync
  <2> QED BY <2>1, <1>9
<1>12. CASE \/ GitHubMoves \/ HookNext \/ CheckerNext \/ CreatorNext
            \/ UNCHANGED vars
  <2>1. UNCHANGED builder
    BY <1>12 DEF GitHubMoves, HookNext, HookReceive, HookApply, HookRespond,
       CheckerNext, CheckStart, CheckEnd, NotChecker, CreatorNext, CreateIssue,
       InsertIssue, vars, taskVars
  <2> QED BY <2>1, <1>9
<1> QED BY <1>7, <1>8, <1>10, <1>11, <1>12 DEF Next

(* What a review holds of GitHub is never newer than GitHub, and its diff  *)
(* is never older than its head: it reads the head first.                  *)
LEMMA ReviewerPreserved ==
  ASSUME TypeInv, TypeInv', ReviewerInv, HeldInv, HeadsGrow, [Next]_vars
  PROVE  ReviewerInv'
<1> USE DEF TypeInv
<1> SUFFICES ASSUME NEW r \in Reviewers, NEW p, reviewer'[r].of = p
             PROVE  /\ reviewer'[r].pc # "idle" =>
                          Opened(p)' /\ reviewer'[r].sha <= gh'[p].head
                    /\ reviewer'[r].pc \in {"reviewing", "answered"} =>
                          /\ reviewer'[r].sha <= reviewer'[r].seen
                          /\ reviewer'[r].seen <= gh'[p].head
  BY DEF ReviewerInv, Opened
<1> DEFINE Goal == /\ reviewer'[r].pc # "idle" =>
                         Opened(p)' /\ reviewer'[r].sha <= gh'[p].head
                   /\ reviewer'[r].pc \in {"reviewing", "answered"} =>
                         /\ reviewer'[r].sha <= reviewer'[r].seen
                         /\ reviewer'[r].seen <= gh'[p].head
<1> SUFFICES Goal
  OBVIOUS
<1>0. /\ reviewer[r].sha \in Nat /\ reviewer[r].seen \in Nat
      /\ reviewer'[r].sha \in Nat /\ reviewer'[r].seen \in Nat
      /\ \A j \in Issues : gh[j].head \in Nat /\ gh'[j].head \in Nat
  <2>1. Heads \subseteq Nat  BY IssueBoardAssumption DEF Heads
  <2>2. /\ reviewer[r].sha \in Heads /\ reviewer[r].seen \in Heads
        /\ reviewer'[r].sha \in Heads /\ reviewer'[r].seen \in Heads
    BY DEF TypeOK
  <2>3. \A j \in Issues : gh[j].head \in Heads /\ gh'[j].head \in Heads
    BY DEF TypeOK, GitHubIssue
  <2> QED BY <2>1, <2>2, <2>3
(* The task keeps what it read while GitHub may move.                      *)
<1>1. ASSUME p = reviewer[r].of, reviewer[r].pc # "idle",
             reviewer'[r].sha = reviewer[r].sha,
             \/ /\ reviewer'[r].seen = reviewer[r].seen
                /\ reviewer'[r].pc = "answered" => reviewer[r].pc = "reviewing"
                /\ reviewer'[r].pc # "reviewing"
             \/ reviewer'[r] = reviewer[r]
      PROVE  Goal
  <2>1. p \in Issues  BY <1>1 DEF Placed
  <2>2. Opened(p) /\ reviewer[r].sha <= gh[p].head  BY <1>1 DEF ReviewerInv
  <2>3. gh[p].head <= gh'[p].head /\ Opened(p)'  BY <2>1, <2>2 DEF HeadsGrow
  <2>4. reviewer'[r].sha <= gh'[p].head  BY <1>0, <1>1, <2>1, <2>2, <2>3
  <2>5. ASSUME reviewer'[r].pc \in {"reviewing", "answered"}
        PROVE  /\ reviewer'[r].sha <= reviewer'[r].seen
               /\ reviewer'[r].seen <= gh'[p].head
    <3>1. /\ reviewer[r].sha <= reviewer[r].seen /\ reviewer[r].seen <= gh[p].head
          /\ reviewer'[r].seen = reviewer[r].seen
      BY <1>1, <2>5 DEF ReviewerInv
    <3> QED BY <3>1, <1>0, <1>1, <2>1, <2>3
  <2> QED BY <2>3, <2>4, <2>5
(* It starts, reads the head first, or is over and forgets both.           *)
<1>2. ASSUME NEW pc \in ReviewerPCs \ {"reviewing", "answered"},
             NEW i, NEW j \in Issues,
             NEW h \in Heads, NEW d \in Heads, Opened(j), h <= gh[j].head,
             reviewer' = [reviewer EXCEPT ![r] = [pc |-> pc, issue |-> i, of |-> j,
                                                  sha |-> h, seen |-> d]]
      PROVE  Goal
  <2>1. p = j /\ reviewer'[r].sha = h /\ reviewer'[r].pc = pc
    BY <1>2 DEF TypeOK
  <2>2. gh[j].head <= gh'[j].head /\ Opened(j)'  BY <1>2 DEF HeadsGrow
  <2>3. h <= gh'[j].head  BY <1>0, <1>2, <2>1, <2>2
  <2> QED BY <1>2, <2>1, <2>2, <2>3
<1> HIDE DEF Goal
<1>3. CASE reviewer'[r] = reviewer[r]
  <2>1. CASE reviewer[r].pc = "idle"  BY <1>3, <2>1 DEF Goal
  <2>2. CASE reviewer[r].pc # "idle"  BY <1>1, <1>3, <2>2
  <2> QED BY <2>1, <2>2
<1>4. ASSUME NEW i, NEW j \in Issues, QueueReview(r, i, j), Opened(j)
      PROVE  Goal
  <2>1. 0 \in Heads /\ 0 <= gh[j].head  BY <1>0, IssueBoardAssumption DEF Heads
  <2>2. "queued" \in ReviewerPCs \ {"reviewing", "answered"}  BY DEF ReviewerPCs
  <2> QED BY <1>2, <1>4, <2>1, <2>2 DEF QueueReview
<1>5. ASSUME NEW pc, GoReviewer(r, pc)
      PROVE  /\ reviewer'[r].pc = pc /\ p = reviewer[r].of
             /\ reviewer'[r].sha = reviewer[r].sha
             /\ reviewer'[r].seen = reviewer[r].seen
  BY <1>5 DEF GoReviewer, ReviewerAt, TypeOK
<1>e. ASSUME NEW pc \in {"skipped", "stored", "dead"}, reviewer[r].pc # "idle",
             ReviewerEnds(r, pc)
      PROVE  Goal
  <2>1. reviewer[r].of \in Issues /\ Opened(reviewer[r].of)
    BY <1>e DEF Placed, ReviewerInv
  <2>2. 0 \in Heads /\ 0 <= gh[reviewer[r].of].head
    BY <1>0, <2>1, IssueBoardAssumption DEF Heads
  <2>3. pc \in ReviewerPCs \ {"reviewing", "answered"}  BY DEF ReviewerPCs
  <2> QED BY <1>2, <1>e, <2>1, <2>2, <2>3 DEF ReviewerEnds, ReviewerAt
<1>6. CASE ReviewerNext
  <2> PICK q \in Reviewers : \/ ReviewEnds(q) \/ ReviewAnswer(q)
                             \/ \E i, j \in Issues : ReviewRequest(q, i, j)
    BY <1>6 DEF ReviewerNext
  <2>1. CASE q # r
    <3>1. PICK x : reviewer' = [reviewer EXCEPT ![q] = x]
      BY DEF ReviewEnds, ReviewHead, ReviewCheck, ReviewDiff, ReviewTimeout,
         ReviewStore, ReviewAnswer, ReviewRequest, QueueReview, GoReviewer,
         ReviewerEnds, ReviewerAt
    <3>2. reviewer'[r] = reviewer[r]  BY <2>1, <3>1 DEF TypeOK
    <3> QED BY <3>2, <1>3
  <2>2. ASSUME NEW i \in Issues, NEW j \in Issues, ReviewRequest(r, i, j)
        PROVE  Goal
    BY <2>2, <1>4 DEF ReviewRequest, Opened
  <2>3. CASE ReviewHead(r)
    <3> DEFINE j == reviewer[r].of
    <3>1. PICK h \in {0, gh[j].head} : ReviewerAt(r, "headed", h, 0)
      BY <2>3 DEF ReviewHead
    <3>2. j \in Issues /\ Opened(j)  BY <2>3 DEF ReviewHead, Placed, ReviewerInv
    <3>3. h \in Heads /\ 0 \in Heads /\ h <= gh[j].head
      <4>1. gh[j].head \in Heads  BY <3>2 DEF TypeOK, GitHubIssue
      <4>2. 0 \in Heads  BY IssueBoardAssumption DEF Heads
      <4> QED BY <4>1, <4>2, <3>2, <1>0
    <3>4. "headed" \in ReviewerPCs \ {"reviewing", "answered"}  BY DEF ReviewerPCs
    <3> QED BY <3>1, <3>2, <3>3, <3>4, <1>2 DEF ReviewerAt
  <2>4. CASE ReviewCheck(r)
    <3>1. reviewer[r].pc # "idle"  BY <2>4 DEF ReviewCheck
    <3>2. CASE ReviewerEnds(r, "skipped")  BY <3>1, <3>2, <1>e
    <3>3. CASE GoReviewer(r, "checked")  BY <3>1, <3>3, <1>5, <1>1
    <3> QED BY <2>4, <3>2, <3>3 DEF ReviewCheck
  <2>5. CASE ReviewDiff(r)
    <3>1. reviewer[r].pc = "checked"  BY <2>5 DEF ReviewDiff
    <3>2. CASE ReviewerEnds(r, "dead")  BY <3>1, <3>2, <1>e
    <3>3. CASE ReviewerAt(r, "reviewing", reviewer[r].sha,
                          gh[reviewer[r].of].head)
      <4>1. /\ p = reviewer[r].of /\ reviewer'[r].sha = reviewer[r].sha
            /\ reviewer'[r].seen = gh[p].head
        BY <3>3 DEF ReviewerAt, TypeOK
      <4>2. p \in Issues /\ Opened(p) /\ reviewer[r].sha <= gh[p].head
        BY <3>1, <4>1 DEF Placed, ReviewerInv
      <4>3. gh' = gh  BY <2>5 DEF ReviewDiff, NotReviewer
      <4>4. gh[p].head <= gh[p].head  BY <4>2, <1>0
      <4> QED BY <4>1, <4>2, <4>3, <4>4 DEF Goal, Opened
    <3> QED BY <2>5, <3>2, <3>3 DEF ReviewDiff
  <2>6. CASE ReviewAnswer(r)
    <3>1. reviewer[r].pc = "reviewing" /\ GoReviewer(r, "answered")
      BY <2>6 DEF ReviewAnswer
    <3> QED BY <3>1, <1>5, <1>1
  <2>7. CASE ReviewTimeout(r)  BY <2>7, <1>e DEF ReviewTimeout
  <2>8. CASE ReviewStore(r)  BY <2>8, <1>e DEF ReviewStore
  <2> QED BY <2>1, <2>2, <2>3, <2>4, <2>5, <2>6, <2>7, <2>8 DEF ReviewEnds
<1>7. CASE HookNext
  <2> PICK h \in Hooks : \/ \E d \in 1..Len(sent) : HookReceive(h, d)
                         \/ HookApply(h) \/ HookRespond(h)
    BY <1>7 DEF HookNext
  <2>1. CASE HookRespond(h)
    <3> DEFINE j == Delivery(h).issue
    <3>1. hook[h].pc # "idle"  BY <2>1 DEF HookRespond
    <3>2. /\ j \in Issues /\ Opened(j)
          /\ Delivery(h).event \in {"opened", "closed", "merged"}
      BY <3>1, DeliveryIn DEF Delivery, HeldInv
    <3>3. CASE Delivery(h).event = "opened"
      <4>1. PICK q \in Reviewers : QueueReview(q, j, j)
        BY <2>1, <3>3 DEF HookRespond
      <4>2. CASE q = r  BY <4>1, <4>2, <3>2, <1>4
      <4>3. CASE q # r
        <5>1. reviewer'[r] = reviewer[r]  BY <4>1, <4>3 DEF QueueReview, TypeOK
        <5> QED BY <5>1, <1>3
      <4> QED BY <4>2, <4>3
    <3>4. CASE Delivery(h).event \in {"closed", "merged"}
      BY <2>1, <3>4, <1>3 DEF HookRespond
    <3> QED BY <3>2, <3>3, <3>4
  <2>2. CASE ~HookRespond(h)
    BY <2>2, <1>3 DEF HookReceive, HookApply
  <2> QED BY <2>1, <2>2
<1>8. CASE Crash
  <2>1. \/ reviewer'[r] = reviewer[r]
        \/ /\ reviewer'[r] = [reviewer[r] EXCEPT !.pc = "dead", !.sha = 0, !.seen = 0]
           /\ reviewer[r].pc # "idle"
    <3>1. reviewer' = [q \in Reviewers |->
            IF reviewer[q].pc \in {"queued", "headed", "checked", "reviewing", "answered"}
            THEN [reviewer[q] EXCEPT !.pc = "dead", !.sha = 0, !.seen = 0]
            ELSE reviewer[q]]
      BY <1>8 DEF Crash
    <3> QED BY <3>1
  <2>2. CASE /\ reviewer'[r] = [reviewer[r] EXCEPT !.pc = "dead", !.sha = 0, !.seen = 0]
             /\ reviewer[r].pc # "idle"
    <3>1. /\ p = reviewer[r].of /\ reviewer'[r].sha = 0
          /\ reviewer'[r].pc = "dead"
      BY <2>2 DEF TypeOK
    <3>2. p \in Issues /\ Opened(p)  BY <2>2, <3>1 DEF Placed, ReviewerInv
    <3>3. Opened(p)' /\ 0 <= gh'[p].head  BY <3>2, <1>0 DEF HeadsGrow
    <3> QED BY <3>1, <3>3 DEF Goal
  <2> QED BY <2>1, <2>2, <1>3
<1>9. CASE UNCHANGED reviewer
  BY <1>9, <1>3
<1>10. CASE BuilderNext
  <2>1. UNCHANGED reviewer
    BY <1>10 DEF BuilderNext, BuildRequest, BuildEnds, BuildMark,
      BuildAgentFails, BuildAgentPushes, BuildRevert, BuildUpdatePR, BuildOpenPR,
      BuildOpenPRFails, BuildRecordPR, BuildRaises, NotBuilder
  <2> QED BY <2>1, <1>9
<1>11. CASE SyncNext
  <2>1. UNCHANGED reviewer
    BY <1>11 DEF SyncNext, SyncSteps, SyncList, SyncRead, SyncImport, SyncSettle,
       SyncProbe, SyncRecordPR, SyncCount, SyncPreview, NotSync
  <2> QED BY <2>1, <1>9
<1>12. CASE \/ GitHubMoves \/ CheckerNext \/ CreatorNext \/ UNCHANGED vars
  <2>1. UNCHANGED reviewer
    BY <1>12 DEF GitHubMoves, CheckerNext, CheckStart, CheckEnd, NotChecker,
       CreatorNext, CreateIssue, InsertIssue, vars, taskVars
  <2> QED BY <2>1, <1>9
<1> QED BY <1>6, <1>7, <1>8, <1>10, <1>11, <1>12 DEF Next

LEMMA OncePreserved ==
  ASSUME TypeInv, TypeInv', OnceInv, [Next]_vars
  PROVE  OnceInv'
<1> USE DEF TypeInv
<1>1. ASSUME NEW h \in Hooks, NEW d \in 1..Len(sent), HookReceive(h, d)
      PROVE  OnceInv'
  <2>1. /\ recorded' = recorded \cup {d}
        /\ hook[h].pc = "idle" /\ hook'[h].id = d
        /\ hook'[h].pc = IF d \in recorded THEN "duplicate" ELSE "accepted"
        /\ \A g \in Hooks \ {h} : hook'[g] = hook[g]
    BY <1>1 DEF HookReceive, TypeOK
  <2>2. \A g \in Hooks : hook'[g].pc \notin {"idle", "collected"}
                            => hook'[g].id \in recorded'
    BY <2>1 DEF OnceInv
  <2>3. \A g \in Hooks \ {h} :
           hook[g].pc \notin {"idle", "collected"} /\ hook'[h].pc = "accepted"
           => hook[g].id # d
    BY <2>1 DEF OnceInv
  <2>4. WorkedOnce'
    BY <2>1, <2>3 DEF OnceInv, WorkedOnce
  <2> QED BY <2>2, <2>4 DEF OnceInv
<1>2. ASSUME UNCHANGED recorded,
             \A h \in Hooks : /\ hook'[h].id = hook[h].id
                              /\ hook'[h].pc = "idle" <=> hook[h].pc = "idle"
                              /\ hook'[h].pc = "duplicate" <=> hook[h].pc = "duplicate"
                              /\ hook'[h].pc = "collected" <=> hook[h].pc = "collected"
      PROVE  OnceInv'
  BY <1>2 DEF OnceInv, WorkedOnce
<1>3. ASSUME NEW h \in Hooks, HookApply(h) \/ HookRespond(h)
      PROVE  OnceInv'
  <2>1. PICK pc \in {"applied", "done"} : GoHook(h, pc)
    BY <1>3 DEF HookApply, HookRespond
  <2>2. hook[h].pc \in {"accepted", "applied"} /\ UNCHANGED recorded
    BY <1>3 DEF HookApply, HookRespond
  <2>3. /\ hook'[h].id = hook[h].id /\ hook'[h].pc = pc
        /\ \A g \in Hooks \ {h} : hook'[g] = hook[g]
    BY <2>1 DEF GoHook, TypeOK
  <2> QED BY <2>2, <2>3, <1>2
<1>4. CASE Crash
  <2>1. PICK gone \in SUBSET recorded :
          /\ recorded' = recorded \ gone
          /\ hook' = [h \in Hooks |->
                [hook[h] EXCEPT !.pc =
                    IF hook[h].id \in gone THEN "collected"
                    ELSE IF @ = "accepted" THEN "lost"
                    ELSE IF @ = "applied" THEN "cut" ELSE @]]
    BY <1>4 DEF Crash
  <2>2. \A h \in Hooks :
          /\ hook'[h].id = hook[h].id
          /\ hook[h].id \in gone => hook'[h].pc = "collected"
          /\ hook[h].id \notin gone =>
                /\ hook'[h].pc = IF hook[h].pc = "accepted" THEN "lost"
                                 ELSE IF hook[h].pc = "applied" THEN "cut"
                                 ELSE hook[h].pc
    BY <2>1 DEF TypeOK
  <2>3. \A h \in Hooks :
          hook'[h].pc \notin {"idle", "collected"} =>
             hook[h].pc \notin {"idle", "collected"} /\ hook[h].id \notin gone
    BY <2>2
  <2>4. \A h \in Hooks : hook'[h].pc \notin {"idle", "collected"}
                            => hook'[h].id \in recorded'
    BY <2>1, <2>2, <2>3 DEF OnceInv
  <2>5. \A h \in Hooks :
          hook'[h].pc \notin {"idle", "duplicate", "collected"} =>
             hook[h].pc \notin {"idle", "duplicate", "collected"}
    BY <2>2, <2>3
  <2>6. WorkedOnce'  BY <2>2, <2>5 DEF OnceInv, WorkedOnce
  <2> QED BY <2>4, <2>6 DEF OnceInv
<1>5. CASE UNCHANGED <<hook, recorded>>
  BY <1>5, <1>2
<1>6. CASE BuilderNext
  <2>1. UNCHANGED <<hook, recorded>>
    BY <1>6 DEF BuilderNext, BuildRequest, BuildEnds, BuildMark,
      BuildAgentFails, BuildAgentPushes, BuildRevert, BuildUpdatePR, BuildOpenPR,
      BuildOpenPRFails, BuildRecordPR, BuildRaises, NotBuilder
  <2> QED BY <2>1, <1>5
<1>7. CASE ReviewerNext
  <2>1. UNCHANGED <<hook, recorded>>
    BY <1>7 DEF ReviewerNext, ReviewEnds, ReviewHead, ReviewCheck, ReviewDiff,
      ReviewTimeout, ReviewStore, ReviewAnswer, ReviewRequest, NotReviewer
  <2> QED BY <2>1, <1>5
<1>8. CASE SyncNext
  <2>1. UNCHANGED <<hook, recorded>>
    BY <1>8 DEF SyncNext, SyncSteps, SyncList, SyncRead, SyncImport, SyncSettle,
       SyncProbe, SyncRecordPR, SyncCount, SyncPreview, NotSync
  <2> QED BY <2>1, <1>5
<1>9. CASE \/ GitHubMoves \/ CheckerNext \/ CreatorNext \/ UNCHANGED vars
  <2>1. UNCHANGED <<hook, recorded>>
    BY <1>9 DEF GitHubMoves, CheckerNext, CheckStart, CheckEnd, NotChecker,
       CreatorNext, CreateIssue, InsertIssue, vars, taskVars
  <2> QED BY <2>1, <1>5
<1> QED BY <1>1, <1>3, <1>4, <1>6, <1>7, <1>8, <1>9 DEF Next, HookNext

LEMMA NextInv ==
  ASSUME TypeInv, TypeInv', IInv, [Next]_vars
  PROVE  IInv'
<1>1. HeadsGrow  BY Grows
<1>2. BoardStep  BY Steps DEF IInv
<1>3. BuilderInv'  BY <1>1, <1>2, BuilderPreserved DEF IInv
<1>4. ReviewerInv'  BY <1>1, ReviewerPreserved DEF IInv
<1>5. HeldInv'  BY <1>1, HeldPreserved DEF IInv
<1>6. RowInv'  BY <1>1, <1>2, RowPreserved DEF IInv
<1>7. OnceInv'  BY OncePreserved DEF IInv
<1> QED BY <1>3, <1>4, <1>5, <1>6, <1>7 DEF IInv

LEMMA Invariant == Spec => []IInv
<1>1. TypeInv /\ TypeInv' /\ IInv /\ [Next]_vars => IInv'  BY NextInv
<1> QED BY <1>1, InitInv, TypeInvariant, PTL DEF Spec

-----------------------------------------------------------------------------
(* Safety *)

(* Whatever is pushed while any number of reviews run, and whenever the    *)
(* program restarts, a review on record is of a diff of the pull request   *)
(* the row names, one that was pushed and is not older than the head SHA   *)
(* it is filed under (review_pr).                                          *)
THEOREM ReviewsTrue == Spec => []ReviewOfItsDiff
<1>1. IInv => ReviewOfItsDiff  BY DEF IInv, RowInv
<1> QED BY <1>1, Invariant, PTL

(* No interleaving of builds, reviews, syncs and webhooks leaves a row     *)
(* offering a pull request it does not name or that does not exist         *)
(* (columns status and pr_number of github_issues).                        *)
THEOREM OffersTrue == Spec => []OfferedPRExists
<1>1. TypeInv /\ IInv => OfferedPRExists
  <2> SUFFICES ASSUME TypeInv, IInv, NEW i \in Issues,
                      Tracked(i) /\ First(i).status \in Offered
               PROVE  First(i).pr # NoIssue /\ Opened(First(i).pr)
    BY DEF OfferedPRExists, Offered, Opened
  <2>1. board[i] \in Seq(Row)  BY DEF TypeInv, TypeOK
  <2>2. 1 \in 1..Len(board[i])  BY <2>1 DEF Tracked
  <2>3. First(i).pr # NoIssue  BY DEF IInv, RowInv
  <2> QED BY <2>2, <2>3 DEF IInv, RowInv, First
<1> QED BY <1>1, Invariant, TypeInvariant, PTL

(* A delivery is worked on by one request, however many requests GitHub    *)
(* makes with it and however often the program restarts                    *)
(* (record_webhook_delivery).                                              *)
THEOREM DeliveriesWorkedOnce == Spec => []WorkedOnce
<1>1. IInv => WorkedOnce  BY DEF IInv, OnceInv
<1> QED BY <1>1, Invariant, PTL

(* A review is skipped by ReviewCheck alone.                               *)
LEMMA SkipIsCheck ==
  ASSUME TypeInv, Next, NEW r \in Reviewers,
         reviewer[r].pc = "headed", reviewer'[r].pc = "skipped"
  PROVE  AlreadyReviewed(reviewer[r].issue, reviewer[r].of, reviewer[r].sha)
<1> USE DEF TypeInv
<1>1. reviewer'[r] # reviewer[r]  OBVIOUS
<1>2. ASSUME NEW pc, NEW h, NEW d, ReviewerAt(r, pc, h, d), pc # "skipped"
      PROVE  FALSE
  BY <1>2 DEF ReviewerAt, TypeOK
<1>3. CASE ReviewerNext
  <2> PICK q \in Reviewers : \/ ReviewEnds(q) \/ ReviewAnswer(q)
                             \/ \E j, p \in Issues : ReviewRequest(q, j, p)
    BY <1>3 DEF ReviewerNext
  <2>1. q = r
    <3>1. PICK x : reviewer' = [reviewer EXCEPT ![q] = x]
      BY DEF ReviewEnds, ReviewHead, ReviewCheck, ReviewDiff, ReviewTimeout,
         ReviewStore, ReviewAnswer, ReviewRequest, QueueReview, GoReviewer,
         ReviewerEnds, ReviewerAt
    <3> QED BY <1>1, <3>1 DEF TypeOK
  <2>2. ReviewCheck(r)
    BY <2>1 DEF ReviewEnds, ReviewHead, ReviewDiff, ReviewTimeout,
       ReviewStore, ReviewAnswer, ReviewRequest, QueueReview
  <2>3. CASE ~AlreadyReviewed(reviewer[r].issue, reviewer[r].of, reviewer[r].sha)
    BY <2>2, <2>3, <1>2 DEF ReviewCheck, GoReviewer
  <2> QED BY <2>3
<1>4. CASE HookNext
  <2>1. \/ UNCHANGED reviewer
        \/ \E q \in Reviewers : \E j : QueueReview(q, j, j)
    <3> PICK h \in Hooks : \/ \E d \in 1..Len(sent) : HookReceive(h, d)
                           \/ HookApply(h) \/ HookRespond(h)
      BY <1>4 DEF HookNext
    <3>1. CASE HookRespond(h)
      <4>1. Delivery(h).event \in {"opened", "closed", "merged"}
        BY <3>1, DeliveryIn DEF HookRespond
      <4>2. CASE Delivery(h).event = "opened"
        BY <3>1, <4>2 DEF HookRespond
      <4>3. CASE Delivery(h).event \in {"merged", "closed"}
        BY <3>1, <4>3 DEF HookRespond
      <4> QED BY <4>1, <4>2, <4>3
    <3>2. CASE ~HookRespond(h)
      BY <3>2 DEF HookReceive, HookApply
    <3> QED BY <3>1, <3>2
  <2> QED BY <2>1, <1>1 DEF QueueReview, TypeOK
<1>5. CASE Crash
  <2>1. reviewer' = [q \in Reviewers |->
          IF reviewer[q].pc \in {"queued", "headed", "checked", "reviewing", "answered"}
          THEN [reviewer[q] EXCEPT !.pc = "dead", !.sha = 0, !.seen = 0]
          ELSE reviewer[q]]
    BY <1>5 DEF Crash
  <2> QED BY <2>1 DEF TypeOK
<1>6. UNCHANGED reviewer => FALSE  BY <1>1
<1>7. CASE BuilderNext
  BY <1>7, <1>6 DEF BuilderNext, BuildRequest, BuildEnds, BuildMark,
      BuildAgentFails, BuildAgentPushes, BuildRevert, BuildUpdatePR, BuildOpenPR,
      BuildOpenPRFails, BuildRecordPR, BuildRaises, NotBuilder
<1>8. CASE SyncNext
  BY <1>8, <1>6 DEF SyncNext, SyncSteps, SyncList, SyncRead, SyncImport, SyncSettle,
       SyncProbe, SyncRecordPR, SyncCount, SyncPreview, NotSync
<1>9. CASE GitHubMoves \/ CheckerNext \/ CreatorNext
  BY <1>9, <1>6 DEF GitHubMoves, CheckerNext, CheckStart, CheckEnd, NotChecker,
       CreatorNext, CreateIssue, InsertIssue, taskVars
<1> QED BY <1>3, <1>4, <1>5, <1>7, <1>8, <1>9 DEF Next

(* No review is skipped for one of an older diff (the head_sha             *)
(* short-circuit of review_pr).                                            *)
THEOREM SkipsSound == Spec => SkipSound
<1> DEFINE Sound ==
      \A r \in Reviewers :
          reviewer[r].pc = "headed" /\ reviewer'[r].pc = "skipped" =>
             LET i == reviewer[r].issue
             IN /\ Tracked(i) /\ First(i).reviewed
                /\ First(i).pr = reviewer[r].of
                /\ First(i).seen >= reviewer[r].sha
<1>1. ASSUME TypeInv, IInv, [Next]_vars
      PROVE  [Sound]_vars
  <2> SUFFICES ASSUME Next, NEW r \in Reviewers,
                      reviewer[r].pc = "headed", reviewer'[r].pc = "skipped"
               PROVE  LET i == reviewer[r].issue
                      IN /\ Tracked(i) /\ First(i).reviewed
                         /\ First(i).pr = reviewer[r].of
                         /\ First(i).seen >= reviewer[r].sha
    BY <1>1
  <2> DEFINE i == reviewer[r].issue
  <2>1. AlreadyReviewed(i, reviewer[r].of, reviewer[r].sha)  BY <1>1, SkipIsCheck
  <2>2. i \in Issues  BY <1>1 DEF TypeInv, Placed
  <2>3. /\ Tracked(i) /\ First(i).reviewed
        /\ First(i).pr = reviewer[r].of /\ First(i).sha = reviewer[r].sha
    BY <2>1 DEF AlreadyReviewed
  <2>4. board[i] \in Seq(Row)  BY <2>2, <1>1 DEF TypeInv, TypeOK
  <2>5. 1 \in 1..Len(board[i])  BY <2>3, <2>4 DEF Tracked
  <2>6. First(i).sha <= First(i).seen
    BY <2>2, <2>3, <2>5, <1>1 DEF IInv, RowInv, ReviewOfItsDiff, First
  <2>7. First(i).seen \in Nat /\ First(i).sha \in Nat
    <3>1. board[i][1] \in Row  BY <2>4, <2>5, ElementOf
    <3> QED BY <3>1, IssueBoardAssumption DEF First, Row, Heads
  <2> QED BY <2>3, <2>6, <2>7
<1> QED BY <1>1, Invariant, TypeInvariant, PTL DEF Spec, SkipSound

-----------------------------------------------------------------------------
(* What a sync repairs.  The rows of an issue end together: only an insert *)
(* tells them apart, and it appends the row the sync will look at.         *)

EndedRows(i) == \A k \in 1..Len(board[i]) : board[i][k].status \in Ended
Waiting(i) == Last(i).status = "open" /\ Last(i).pr = NoIssue

EndedInv ==
    \A i \in Issues : Tracked(i) /\ Last(i).status \in Ended => EndedRows(i)

(* What a sync that nobody has written beside still has on its lists.      *)
Owed(x, i) ==
    /\ i \in x.fresh => i \in x.imported /\ (gh[i].issue = "open" => i \in x.probe)
    /\ i \in x.probe \/ (x.pc = "found" /\ x.at = i) => gh[i].issue = "open"
    /\ Tracked(i) /\ gh[i].issue = "closed" /\ i \notin x.imported =>
          EndedRows(i) \/ \E e \in x.settle : e[1] = i
    /\ Tracked(i) /\ gh[i].issue = "open" /\ i \notin x.missed =>
          ~Waiting(i) \/ i \in x.probe \/ (x.pc = "found" /\ x.at = i)

QuietSync(s) ==
    /\ sync[s].pc \in {"listed", "walking", "found", "previewing", "done"}
    /\ sync[s].pc = "listed" =>
          \A i \in Issues : sync[s].listed[i] = gh[i].issue
    /\ sync[s].pc # "listed" => \A i \in Issues : Owed(sync[s], i)
    /\ sync[s].pc \in {"previewing", "done"} =>
          sync[s].settle = {} /\ sync[s].probe = {}

QuietInv == \A s \in quiet : QuietSync(s)

-----------------------------------------------------------------------------
(* Steps of the rows, by what they do to statuses                          *)

(* Neither the statuses nor the pull requests of the rows change.          *)
AlikeRows(i) ==
    /\ Len(board'[i]) = Len(board[i])
    /\ \A k \in 1..Len(board[i]) : /\ board'[i][k].status = board[i][k].status
                                   /\ board'[i][k].pr = board[i][k].pr

(* All rows get one status, and with it perhaps a pull request.            *)
SetRows(i, st) ==
    /\ Len(board'[i]) = Len(board[i])
    /\ \A k \in 1..Len(board[i]) : board'[i][k].status = st

(* No row ends or stops having ended.                                      *)
EndKept(i) ==
    /\ Len(board'[i]) = Len(board[i])
    /\ \A k \in 1..Len(board[i]) :
          \/ board'[i][k].status = board[i][k].status
          \/ board[i][k].status \notin Ended /\ board'[i][k].status \notin Ended

Appended(i) == board'[i] = Append(board[i], FreshRow)

LEMMA StatusSets ==
  ASSUME TypeOK, NEW i \in Issues, NEW st, SetStatus(i, st)
  PROVE  SetRows(i, st) /\ \A j \in Issues \ {i} : board'[j] = board[j]
<1>1. \A j \in Issues \ {i} : board'[j] = board[j]
  BY DEF SetStatus, TypeOK
<1>2. board'[i] = [k \in 1..Len(board[i]) |-> WithStatus(board[i][k], st)]
  BY DEF SetStatus, TypeOK
<1>3. Len(board'[i]) = Len(board[i])
  <2>1. Len(board[i]) \in Nat  BY DEF TypeOK
  <2> QED BY <1>2, <2>1
<1>4. ASSUME NEW k \in 1..Len(board[i]) PROVE board'[i][k].status = st
  BY <1>2, RowIn, WithStatusKeeps
<1> QED BY <1>1, <1>3, <1>4 DEF SetRows

LEMMA PRSets ==
  ASSUME TypeOK, NEW i \in Issues, NEW p, NEW st, NEW r, NEW h, NEW d,
         SetPR(i, p, st, r, h, d)
  PROVE  SetRows(i, st) /\ \A j \in Issues \ {i} : board'[j] = board[j]
<1>1. \A j \in Issues \ {i} : board'[j] = board[j]
  BY DEF SetPR, TypeOK
<1>2. board'[i] = [k \in 1..Len(board[i]) |-> WithPR(board[i][k], p, st, r, h, d)]
  BY DEF SetPR, TypeOK
<1>3. Len(board'[i]) = Len(board[i])
  <2>1. Len(board[i]) \in Nat  BY DEF TypeOK
  <2> QED BY <1>2, <2>1
<1>4. ASSUME NEW k \in 1..Len(board[i]) PROVE board'[i][k].status = st
  <2>1. board[i][k] \in Row  BY RowIn
  <2>2. board'[i][k] = WithPR(board[i][k], p, st, r, h, d)  BY <1>2
  <2> QED BY <2>1, <2>2 DEF WithPR, Row
<1> QED BY <1>1, <1>3, <1>4 DEF SetRows

LEMMA BuildKeepsEnds ==
  ASSUME TypeOK, NEW i \in Issues, NEW st, SetBuild(i, st)
  PROVE  \A j \in Issues : board'[j] = board[j] \/ EndKept(j)
<1>1. \A j \in Issues \ {i} : board'[j] = board[j]
  BY DEF SetBuild, TypeOK
<1>2. board'[i] = [k \in 1..Len(board[i]) |-> WithBuild(board[i][k], st)]
  BY DEF SetBuild, TypeOK
<1>3. Len(board'[i]) = Len(board[i])
  <2>1. Len(board[i]) \in Nat  BY DEF TypeOK
  <2> QED BY <1>2, <2>1
<1>4. ASSUME NEW k \in 1..Len(board[i])
      PROVE  board'[i][k].status = board[i][k].status
  BY <1>2, RowIn, OthersKeep
<1> QED BY <1>1, <1>3, <1>4 DEF EndKept

LEMMA CrashKeepsEnds ==
  ASSUME TypeOK, Crash
  PROVE  \A j \in Issues : EndKept(j)
<1> SUFFICES ASSUME NEW i \in Issues PROVE EndKept(i)
  OBVIOUS
<1>1. PICK old \in SUBSET Issues :
         board' = [j \in Issues |-> [k \in 1..Len(board[j]) |->
                     IF j \in old THEN Swept(board[j][k]) ELSE board[j][k]]]
  BY DEF Crash
<1>2. board'[i] = [k \in 1..Len(board[i]) |->
                     IF i \in old THEN Swept(board[i][k]) ELSE board[i][k]]
  BY <1>1
<1>3. Len(board'[i]) = Len(board[i])
  <2>1. Len(board[i]) \in Nat  BY DEF TypeOK
  <2> QED BY <1>2, <2>1
<1>4. ASSUME NEW k \in 1..Len(board[i])
      PROVE  \/ board'[i][k].status = board[i][k].status
             \/ board[i][k].status \notin Ended /\ board'[i][k].status \notin Ended
  <2>1. board[i][k] \in Row  BY RowIn
  <2>2. board'[i][k] \in {Swept(board[i][k]), board[i][k]}  BY <1>2
  <2>3. CASE board[i][k].status = "implementing"
    BY <2>1, <2>2, <2>3 DEF Swept, Row, Ended
  <2>4. CASE board[i][k].status # "implementing"
    BY <2>2, <2>4 DEF Swept
  <2> QED BY <2>3, <2>4
<1> QED BY <1>3, <1>4 DEF EndKept

(* Every step writes the rows in one of these ways.                        *)
Writing ==
    \/ UNCHANGED board
    \/ \E i \in Issues : \E st : SetStatus(i, st)
    \/ \E i \in Issues : \E p, st, r, h, d : SetPR(i, p, st, r, h, d)
    \/ \E i \in Issues : \E st : SetBuild(i, st)
    \/ \E i \in Issues : InsertRow(i)
    \/ Crash

LEMMA Writers ==
  ASSUME TypeInv, [Next]_vars
  PROVE  Writing
<1> USE DEF TypeInv
<1>1. CASE UNCHANGED board  BY <1>1 DEF Writing
<1>2. CASE CreatorNext
  <2>1. ASSUME NEW c \in Creators, InsertIssue(c) PROVE Writing
    <3>1. creator[c].issue \in Issues  BY <2>1 DEF InsertIssue, Placed
    <3> QED BY <2>1, <3>1 DEF InsertIssue, Writing
  <2> QED BY <1>2, <1>1, <2>1 DEF CreatorNext, CreateIssue
<1>3. CASE BuilderNext
  <2> PICK b \in Builders : BuildEnds(b) \/ \E i \in Issues : BuildRequest(b, i)
    BY <1>3 DEF BuilderNext
  <2> DEFINE i == builder[b].issue
  <2>1. builder[b].pc \in Busy => i \in Issues  BY DEF Placed
  <2>2. CASE BuildMark(b) \/ BuildRevert(b)
    <3>1. i \in Issues /\ \E st : SetStatus(i, st)
      BY <2>1, <2>2 DEF BuildMark, BuildRevert, Busy
    <3> QED BY <3>1 DEF Writing
  <2>3. CASE BuildUpdatePR(b) \/ BuildRecordPR(b)
    <3>1. i \in Issues /\ \E p : SetPR(i, p, "pr_open", FALSE, 0, 0)
      BY <2>1, <2>3 DEF BuildUpdatePR, BuildRecordPR, Busy
    <3> QED BY <3>1 DEF Writing
  <2>4. CASE BuildAgentFails(b) \/ BuildAgentPushes(b) \/ BuildOpenPR(b)
              \/ BuildOpenPRFails(b) \/ BuildRaises(b)
              \/ (\E j \in Issues : BuildRequest(b, j))
    BY <2>4, <1>1 DEF BuildAgentFails, BuildAgentPushes, BuildOpenPR,
       BuildOpenPRFails, BuildRaises, BuildRequest
  <2> QED BY <2>2, <2>3, <2>4 DEF BuildEnds
<1>4. CASE ReviewerNext
  <2> PICK r \in Reviewers : \/ ReviewEnds(r) \/ ReviewAnswer(r)
                             \/ \E i, p \in Issues : ReviewRequest(r, i, p)
    BY <1>4 DEF ReviewerNext
  <2>1. CASE ReviewStore(r)
    <3>1. /\ SetPR(reviewer[r].issue, reviewer[r].of, "pr_reviewed", TRUE, reviewer[r].sha,
                   reviewer[r].seen)
          /\ reviewer[r].issue \in Issues
      BY <2>1 DEF ReviewStore, Placed
    <3> QED BY <3>1 DEF Writing
  <2>2. CASE ~ReviewStore(r)
    <3>1. UNCHANGED board
      BY <2>2 DEF ReviewEnds, ReviewHead, ReviewCheck, ReviewDiff,
         ReviewTimeout, ReviewAnswer, ReviewRequest
    <3> QED BY <3>1, <1>1
  <2> QED BY <2>1, <2>2
<1>5. CASE HookNext
  <2> PICK h \in Hooks : \/ \E d \in 1..Len(sent) : HookReceive(h, d)
                         \/ HookApply(h) \/ HookRespond(h)
    BY <1>5 DEF HookNext
  <2>1. CASE HookApply(h)
    <3>1. Delivery(h).issue \in Issues
      BY <2>1, DeliveryIn DEF HookApply, Delivery
    <3>2. \/ SetPR(Delivery(h).issue, Delivery(h).issue, "pr_open", FALSE, 0, 0)
          \/ SetStatus(Delivery(h).issue, Delivery(h).event)
          \/ UNCHANGED board
      BY <2>1 DEF HookApply
    <3> QED BY <3>1, <3>2 DEF Writing
  <2>2. CASE ~HookApply(h)
    <3>1. UNCHANGED board  BY <2>2 DEF HookReceive, HookRespond
    <3> QED BY <3>1, <1>1
  <2> QED BY <2>1, <2>2
<1>6. CASE CheckerNext
  <2> PICK c \in Checkers : CheckStart(c) \/ CheckEnd(c)
    BY <1>6 DEF CheckerNext
  <2>1. checker[c].issue \in Issues  BY DEF CheckStart, CheckEnd, Placed
  <2>2. \E st : SetBuild(checker[c].issue, st)  BY DEF CheckStart, CheckEnd
  <2> QED BY <2>1, <2>2 DEF Writing
<1>7. CASE SyncNext
  <2> PICK s \in Syncs : SyncList(s) \/ SyncSteps(s)
    BY <1>7 DEF SyncNext
  <2>1. ASSUME NEW i \in Issues, SyncImport(s, i) PROVE Writing
    BY <2>1 DEF SyncImport, Writing
  <2>2. ASSUME NEW e \in sync[s].settle, SyncSettle(s, e) PROVE Writing
    <3>1. e[1] \in Issues
      <4>1. sync[s] \in SyncState  BY DEF TypeOK
      <4>2. sync[s].settle \subseteq Issues \X Ended  BY <4>1 DEF SyncState
      <4> QED BY <4>2
    <3> QED BY <2>2, <3>1 DEF SyncSettle, Writing
  <2>3. CASE SyncRecordPR(s)
    <3>1. sync[s].at \in Issues  BY <2>3 DEF SyncRecordPR, Placed
    <3> QED BY <2>3, <3>1 DEF SyncRecordPR, Writing
  <2>4. CASE \/ SyncList(s) \/ SyncRead(s) \/ SyncCount(s) \/ SyncPreview(s)
             \/ \E i \in Issues : SyncProbe(s, i)
    BY <2>4, <1>1 DEF SyncList, SyncRead, SyncCount, SyncPreview, SyncProbe
  <2> QED BY <2>1, <2>2, <2>3, <2>4 DEF SyncSteps
<1>8. CASE GitHubMoves \/ UNCHANGED vars
  BY <1>8, <1>1 DEF GitHubMoves, vars
<1> QED BY <1>2, <1>3, <1>4, <1>5, <1>6, <1>7, <1>8 DEF Next, Writing

(* The rows of one issue go on ending together.                            *)
LEMMA EndedOf ==
  ASSUME TypeOK, TypeOK', EndedInv, NEW i \in Issues,
         \/ board'[i] = board[i]
         \/ (\E st : SetRows(i, st))
         \/ EndKept(i)
         \/ Appended(i),
         Tracked(i)', Last(i)'.status \in Ended
  PROVE  EndedRows(i)'
<1>1. board[i] \in Seq(Row) /\ board'[i] \in Seq(Row)  BY DEF TypeOK
<1>2. Len(board[i]) \in Nat /\ Len(board'[i]) \in Nat  BY <1>1
<1>3. Len(board'[i]) \in 1..Len(board'[i]) /\ Len(board'[i]) > 0
  BY <1>1, <1>2 DEF Tracked
<1>4. CASE board'[i] = board[i]
  BY <1>4 DEF EndedInv, EndedRows, Tracked, Last
<1>5. CASE \E st : SetRows(i, st)
  BY <1>5, <1>2, <1>3 DEF SetRows, EndedRows, Last
<1>6. CASE EndKept(i)
  <2>1. Tracked(i)  BY <1>6, <1>1, <1>3 DEF EndKept, Tracked
  <2>2. Last(i).status \in Ended  BY <1>6, <1>2, <1>3 DEF EndKept, Last
  <2>3. EndedRows(i)  BY <2>1, <2>2 DEF EndedInv
  <2> QED BY <2>3, <1>6 DEF EndedRows, EndKept
<1>7. CASE Appended(i)
  <2>1. /\ Len(board'[i]) = Len(board[i]) + 1
        /\ board'[i][Len(board[i]) + 1] = FreshRow
    BY <1>7, <1>1, FreshType DEF Appended
  <2>2. Last(i)'.status = "open"  BY <2>1 DEF Last, FreshRow
  <2> QED BY <2>2 DEF Ended
<1> QED BY <1>4, <1>5, <1>6, <1>7

LEMMA EndedPreserved ==
  ASSUME TypeInv, TypeInv', EndedInv, [Next]_vars
  PROVE  EndedInv'
<1> SUFFICES ASSUME NEW i \in Issues, Tracked(i)', Last(i)'.status \in Ended
             PROVE  EndedRows(i)'
  BY DEF EndedInv
<1> USE DEF TypeInv
<1>1. \/ board'[i] = board[i]
      \/ (\E st : SetRows(i, st))
      \/ EndKept(i)
      \/ Appended(i)
  <2>1. CASE UNCHANGED board  BY <2>1
  <2>2. ASSUME NEW j \in Issues, NEW st, SetStatus(j, st)
        PROVE  board'[i] = board[i] \/ SetRows(i, st)
    BY <2>2, StatusSets
  <2>3. ASSUME NEW j \in Issues, NEW p, NEW st, NEW r, NEW h, NEW d,
               SetPR(j, p, st, r, h, d)
        PROVE  board'[i] = board[i] \/ SetRows(i, st)
    BY <2>3, PRSets
  <2>4. ASSUME NEW j \in Issues, NEW st, SetBuild(j, st)
        PROVE  board'[i] = board[i] \/ EndKept(i)
    BY <2>4, BuildKeepsEnds
  <2>5. ASSUME NEW j \in Issues, InsertRow(j)
        PROVE  board'[i] = board[i] \/ Appended(i)
    BY <2>5 DEF InsertRow, Appended, TypeOK
  <2>7. CASE Crash  BY <2>7, CrashKeepsEnds
  <2>8. Writing  BY Writers
  <2> QED BY <2>1, <2>2, <2>3, <2>4, <2>5, <2>7, <2>8 DEF Writing
<1> QED BY <1>1, EndedOf

-----------------------------------------------------------------------------
(* Steps beside a quiet sync, and its own                                  *)

LEMMA AlikeKeeps ==
  ASSUME TypeOK, TypeOK', NEW i \in Issues, AlikeRows(i)
  PROVE  /\ Tracked(i)' <=> Tracked(i)
         /\ Tracked(i) => (Waiting(i)' <=> Waiting(i))
         /\ EndedRows(i)' <=> EndedRows(i)
<1>1. board[i] \in Seq(Row) /\ board'[i] \in Seq(Row)  BY DEF TypeOK
<1>2. Len(board'[i]) = Len(board[i]) /\ Len(board[i]) \in Nat
  BY <1>1 DEF AlikeRows
<1>3. Tracked(i)' <=> Tracked(i)  BY <1>1, <1>2 DEF Tracked
<1>4. ASSUME Tracked(i) PROVE Waiting(i)' <=> Waiting(i)
  <2>1. Len(board[i]) \in 1..Len(board[i])  BY <1>1, <1>2, <1>4 DEF Tracked
  <2> QED BY <2>1, <1>2 DEF AlikeRows, Waiting, Last
<1>5. EndedRows(i)' <=> EndedRows(i)  BY <1>2 DEF AlikeRows, EndedRows
<1> QED BY <1>3, <1>4, <1>5

LEMMA SameAlike ==
  ASSUME UNCHANGED board, NEW i \in Issues PROVE AlikeRows(i)
  BY DEF AlikeRows

LEMMA QuietFrame ==
  ASSUME TypeOK, TypeOK', NEW s \in Syncs, QuietSync(s),
         sync'[s] = sync[s], UNCHANGED gh, \A i \in Issues : AlikeRows(i)
  PROVE  QuietSync(s)'
<1>1. ASSUME NEW i \in Issues, Owed(sync[s], i) PROVE Owed(sync[s], i)'
  BY <1>1, AlikeKeeps DEF Owed
<1> QED BY <1>1 DEF QuietSync

(* Whoever writes the table or moves GitHub ends the quiet of the others.  *)
LEMMA QuietOrOwn ==
  ASSUME TypeInv, Next, NEW s \in Syncs, s \in quiet'
  PROVE  \/ SyncList(s) \/ SyncSteps(s)
         \/ /\ s \in quiet /\ UNCHANGED gh
            /\ sync'[s] = sync[s] \/ sync[s].pc = "idle"
            /\ \A i \in Issues : AlikeRows(i)
<1> USE DEF TypeInv
<1>1. quiet' # {}  OBVIOUS
<1>2. ~Changed  BY <1>1 DEF Changed
<1> DEFINE Beside == /\ s \in quiet /\ UNCHANGED gh
                     /\ sync'[s] = sync[s] \/ sync[s].pc = "idle"
                     /\ \A i \in Issues : AlikeRows(i)
<1>3. ASSUME UNCHANGED <<board, gh, quiet>>,
             sync'[s] = sync[s] \/ sync[s].pc = "idle"
      PROVE  Beside
  BY <1>3, SameAlike
<1>4. CASE GitHubMoves \/ CheckerNext \/ CreatorNext \/ Crash
  BY <1>4, <1>2 DEF GitHubMoves, CheckerNext, CheckStart, CheckEnd, CreatorNext,
     CreateIssue, InsertIssue, Crash
<1>5. CASE BuilderNext
  <2> PICK b \in Builders : BuildEnds(b) \/ \E i \in Issues : BuildRequest(b, i)
    BY <1>5 DEF BuilderNext
  <2>1. UNCHANGED <<board, gh, quiet, sync>>
    BY <1>2 DEF BuildRequest, BuildEnds, BuildMark, BuildAgentFails,
       BuildAgentPushes, BuildRevert, BuildUpdatePR, BuildOpenPR,
       BuildOpenPRFails, BuildRecordPR, BuildRaises, NotBuilder
  <2> QED BY <2>1, <1>3
<1>6. CASE ReviewerNext
  <2> PICK r \in Reviewers : \/ ReviewEnds(r) \/ ReviewAnswer(r)
                             \/ \E i, p \in Issues : ReviewRequest(r, i, p)
    BY <1>6 DEF ReviewerNext
  <2>1. UNCHANGED <<board, gh, quiet, sync>>
    BY <1>2 DEF ReviewEnds, ReviewHead, ReviewCheck, ReviewDiff, ReviewTimeout,
       ReviewStore, ReviewAnswer, ReviewRequest, NotReviewer
  <2> QED BY <2>1, <1>3
<1>7. CASE HookNext
  <2> PICK h \in Hooks : \/ \E d \in 1..Len(sent) : HookReceive(h, d)
                         \/ HookApply(h) \/ HookRespond(h)
    BY <1>7 DEF HookNext
  <2>1. UNCHANGED <<board, gh, quiet>>
    BY <1>2 DEF HookReceive, HookApply, HookRespond
  <2>2. sync'[s] = sync[s] \/ sync[s].pc = "idle"
    <3>1. CASE HookRespond(h)
      <4>1. Delivery(h).event \in {"opened", "closed", "merged"}
        BY <3>1, DeliveryIn DEF HookRespond
      <4>2. CASE Delivery(h).event \in {"opened", "closed"}
        BY <3>1, <4>2 DEF HookRespond
      <4>3. CASE Delivery(h).event = "merged"
        <5>1. PICK t \in Syncs :
                 /\ sync[t].pc = "idle"
                 /\ sync' = [sync EXCEPT ![t] = [@ EXCEPT !.pc = "queued"]]
          BY <3>1, <4>3 DEF HookRespond
        <5> QED BY <5>1 DEF TypeOK
      <4> QED BY <4>1, <4>2, <4>3
    <3>2. CASE ~HookRespond(h)  BY <3>2 DEF HookReceive, HookApply
    <3> QED BY <3>1, <3>2
  <2> QED BY <2>1, <2>2, <1>3
<1>8. CASE SyncNext
  <2> PICK t \in Syncs : SyncList(t) \/ SyncSteps(t)
    BY <1>8 DEF SyncNext
  <2>1. CASE t # s
    <3>1. sync'[s] = sync[s]
      <4>1. \E y : SyncAt(t, y)
        BY DEF SyncList, SyncSteps, SyncRead, SyncImport, SyncSettle, SyncProbe,
           SyncRecordPR, SyncCount, SyncPreview, GoSync, SyncDies
      <4> QED BY <2>1, <4>1 DEF SyncAt, TypeOK
    <3>2. UNCHANGED gh
      BY DEF SyncList, SyncSteps, SyncRead, SyncImport, SyncSettle, SyncProbe,
         SyncRecordPR, SyncCount, SyncPreview, NotSync
    <3>3. /\ quiet' \in {quiet, quiet \cup {t}, quiet \cap {t}, quiet \ {t}}
          /\ quiet' = quiet \cap {t} \/ UNCHANGED board
      BY DEF SyncList, SyncSteps, SyncRead, SyncImport, SyncSettle, SyncProbe,
         SyncRecordPR, SyncCount, SyncPreview, SyncDies
    <3>4. s \in quiet /\ UNCHANGED board  BY <2>1, <3>3
    <3> QED BY <3>1, <3>2, <3>3, <3>4, SameAlike
  <2> QED BY <2>1
<1> QED BY <1>4, <1>5, <1>6, <1>7, <1>8 DEF Next

LEMMA QuietListed ==
  ASSUME TypeInv, NEW s \in Syncs, s \in quiet', QuietInv, SyncList(s)
  PROVE  QuietSync(s)'
<1> USE DEF TypeInv
<1> DEFINE l == [i \in Issues |-> gh[i].issue]
           y == [sync[s] EXCEPT !.pc = "listed", !.listed = l]
<1>1. SyncAt(s, y) /\ UNCHANGED gh
  BY DEF SyncList, SyncDies, NotSync
<1>2. y.pc = "listed" /\ y.listed = l
  <2>1. sync[s] \in SyncState  BY DEF TypeOK
  <2> HIDE DEF l
  <2> QED BY <2>1 DEF SyncState
<1>3. sync'[s] = y
  <2> HIDE DEF y
  <2> QED BY <1>1 DEF SyncAt, TypeOK
<1> HIDE DEF y
<1> QED BY <1>1, <1>2, <1>3 DEF QuietSync

LEMMA SyncAtIs ==
  ASSUME TypeOK, NEW s \in Syncs, NEW y, SyncAt(s, y)
  PROVE  sync'[s] = y
  BY DEF SyncAt, TypeOK

(* What is owed moves from the rows to the lists when the sync reads them. *)
LEMMA QuietRead ==
  ASSUME TypeInv, TypeInv', EndedInv, NEW s \in Syncs, QuietSync(s), SyncRead(s)
  PROVE  QuietSync(s)'
<1> USE DEF TypeInv
<1> DEFINE x == sync[s]
           new == {i \in Issues : sync[s].listed[i] # "none" /\ ~Tracked(i)}
           E == {<<i, EndOf(Last(i))>> : i \in
                   {n \in {i \in Issues : sync[s].listed[i] = "closed"} \ new :
                      Last(n).status # EndOf(Last(n))}}
           P == {i \in {i \in Issues : sync[s].listed[i] = "open"} :
                   i \in new \/ (Last(i).status = "open" /\ Last(i).pr = NoIssue)}
           y == [x EXCEPT !.pc = "walking", !.listed = Unlisted, !.fresh = new,
                          !.imported = new, !.settle = E, !.probe = P]
<1>1. x \in SyncState  BY DEF TypeOK
<1>2. SyncAt(s, y)  BY DEF SyncRead
<1>3. UNCHANGED <<board, gh>>  BY DEF SyncRead, NotSync
<1>4. \A i \in Issues : x.listed[i] = gh[i].issue
  BY DEF QuietSync, SyncRead
<1>5. ASSUME NEW i \in Issues
      PROVE  /\ i \in new <=> gh[i].issue # "none" /\ ~Tracked(i)
             /\ i \in P <=> gh[i].issue = "open" /\ (i \in new \/ Waiting(i))
  BY <1>4 DEF Waiting
<1>6. ASSUME NEW i \in Issues, Tracked(i), gh[i].issue = "closed"
      PROVE  EndedRows(i) \/ \E e \in E : e[1] = i
  <2>1. CASE Last(i).status = EndOf(Last(i))
    BY <1>6, <2>1 DEF EndOf, Ended, EndedInv
  <2>2. CASE Last(i).status # EndOf(Last(i))
    <3>1. <<i, EndOf(Last(i))>> \in E  BY <1>4, <1>6, <2>2
    <3> QED BY <3>1
  <2> QED BY <2>1, <2>2
<1> HIDE DEF new, E, P
<1>7. /\ y.pc = "walking" /\ y.fresh = new
      /\ y.imported = new /\ y.settle = E /\ y.probe = P
  BY <1>1 DEF SyncState
<1>8. sync'[s] = y
  <2> HIDE DEF y
  <2> QED BY <1>2, SyncAtIs
<1> HIDE DEF x, y
<1>9. ASSUME NEW i \in Issues PROVE Owed(y, i)
  BY <1>5, <1>6, <1>7 DEF Owed
<1>10. \A i \in Issues : Owed(sync[s], i)'
  BY <1>3, <1>8, <1>9 DEF Owed, Tracked, EndedRows, Waiting, Last
<1> QED BY <1>7, <1>8, <1>10 DEF QuietSync

LEMMA QuietImport ==
  ASSUME TypeInv, TypeInv', NEW s \in Syncs, QuietSync(s),
         NEW i \in Issues, SyncImport(s, i)
  PROVE  QuietSync(s)'
<1> USE DEF TypeInv
<1> DEFINE x == sync[s]
           F == x.fresh \ {i}
           y == [x EXCEPT !.fresh = F]
<1>1. x \in SyncState /\ x.pc = "walking" /\ i \in x.fresh
  BY DEF TypeOK, SyncImport
<1>2. SyncAt(s, y) /\ UNCHANGED gh  BY DEF SyncImport, NotSync
<1> HIDE DEF F
<1>3. /\ y.pc = "walking" /\ y.missed = x.missed /\ y.fresh = F
      /\ y.imported = x.imported /\ y.settle = x.settle /\ y.probe = x.probe
  BY <1>1 DEF SyncState
<1>4. sync'[s] = y
  <2> HIDE DEF y
  <2> QED BY <1>2, SyncAtIs
<1>5. \A j \in Issues \ {i} : AlikeRows(j)
  BY DEF SyncImport, InsertRow, TypeOK, AlikeRows
<1>6. \A j \in Issues : Owed(x, j)  BY <1>1 DEF QuietSync
<1> HIDE DEF x, y
<1>7. ASSUME NEW j \in Issues PROVE Owed(sync[s], j)'
  <2>1. CASE j = i
    BY <1>1, <1>2, <1>3, <1>4, <1>6, <2>1 DEF Owed, F
  <2>2. CASE j # i
    <3>1. /\ Tracked(j)' <=> Tracked(j)
          /\ Tracked(j) => (Waiting(j)' <=> Waiting(j))
          /\ EndedRows(j)' <=> EndedRows(j)
      BY <1>5, <2>2, AlikeKeeps
    <3> QED BY <1>1, <1>2, <1>3, <1>4, <1>6, <3>1 DEF Owed, F
  <2> QED BY <2>1, <2>2
<1>8. QuietSync(s) /\ x = sync[s]  BY DEF x
<1> QED BY <1>2, <1>3, <1>4, <1>7, <1>8 DEF QuietSync

LEMMA QuietSettle ==
  ASSUME TypeInv, TypeInv', NEW s \in Syncs, QuietSync(s),
         NEW e \in sync[s].settle, SyncSettle(s, e)
  PROVE  QuietSync(s)'
<1> USE DEF TypeInv
<1> DEFINE x == sync[s]
           i == e[1]
           E == x.settle \ {e}
           y == [x EXCEPT !.settle = E]
<1>1. x \in SyncState /\ x.pc = "walking" /\ i \in Issues /\ e[2] \in Ended
  <2>1. x \in SyncState  BY DEF TypeOK
  <2>2. x.settle \subseteq Issues \X Ended  BY <2>1 DEF SyncState
  <2> QED BY <2>1, <2>2 DEF SyncSettle
<1>2. SyncAt(s, y) /\ UNCHANGED gh  BY DEF SyncSettle, NotSync
<1>3. /\ y.pc = "walking" /\ y.missed = x.missed /\ y.fresh = x.fresh
      /\ y.imported = x.imported /\ y.settle = E /\ y.probe = x.probe
  <2> HIDE DEF E
  <2> QED BY <1>1 DEF SyncState
<1>4. sync'[s] = y
  <2> HIDE DEF y
  <2> QED BY <1>2, SyncAtIs
<1>5. SetRows(i, e[2]) /\ \A j \in Issues \ {i} : board'[j] = board[j]
  BY <1>1, StatusSets DEF SyncSettle
<1>6. \A j \in Issues : Owed(x, j)  BY <1>1 DEF QuietSync
<1>e. \A f \in x.settle : f[1] # i => f \in E  OBVIOUS
<1> HIDE DEF x, y, E
<1>7. ASSUME NEW j \in Issues PROVE Owed(sync[s], j)'
  <2>1. CASE j = i
    <3>1. EndedRows(j)'  BY <1>1, <1>5, <2>1 DEF SetRows, EndedRows
    <3>2. ASSUME Tracked(j)' PROVE ~Waiting(j)'
      <4>1. board'[j] \in Seq(Row)  BY DEF TypeOK
      <4>2. Len(board'[j]) \in 1..Len(board'[j])  BY <3>2, <4>1 DEF Tracked
      <4>3. Last(j)'.status \in Ended  BY <3>1, <4>2 DEF EndedRows, Last
      <4> QED BY <4>3 DEF Waiting, Ended
    <3> QED BY <1>1, <1>2, <1>3, <1>4, <1>6, <3>1, <3>2 DEF Owed
  <2>2. CASE j # i
    <3>1. AlikeRows(j)  BY <1>5, <2>2 DEF AlikeRows
    <3>2. /\ Tracked(j)' <=> Tracked(j)
          /\ Tracked(j) => (Waiting(j)' <=> Waiting(j))
          /\ EndedRows(j)' <=> EndedRows(j)
      BY <3>1, AlikeKeeps
    <3> QED BY <1>1, <1>2, <1>3, <1>4, <1>6, <1>e, <2>2, <3>2 DEF Owed
  <2> QED BY <2>1, <2>2
<1>8. QuietSync(s) /\ x = sync[s]  BY DEF x
<1> QED BY <1>2, <1>3, <1>4, <1>7, <1>8 DEF QuietSync

LEMMA QuietProbe ==
  ASSUME TypeInv, TypeInv', NEW s \in Syncs, s \in quiet', QuietSync(s),
         NEW i \in Issues, SyncProbe(s, i)
  PROVE  QuietSync(s)'
<1> USE DEF TypeInv
<1> DEFINE x == sync[s]
           P == x.probe \ {i}
           M == x.missed \cup {i}
           y == [x EXCEPT !.probe = P, !.missed = M]
           z(p) == [x EXCEPT !.probe = P, !.pc = "found", !.at = i, !.named = p]
<1>1. x \in SyncState /\ x.pc = "walking" /\ x.fresh = {} /\ i \in x.probe
  BY DEF TypeOK, SyncProbe
<1>2. UNCHANGED <<board, gh>>  BY DEF SyncProbe, NotSync
<1>3. SyncAt(s, y) \/ \E p : SyncAt(s, z(p))
  BY DEF SyncProbe, SyncDies
<1>6. \A j \in Issues : Owed(x, j)  BY <1>1 DEF QuietSync
<1>8. QuietSync(s) /\ x = sync[s]  OBVIOUS
<1>9. \A j \in x.probe : j # i => j \in P  OBVIOUS
<1>10. P \subseteq x.probe  OBVIOUS
<1> HIDE DEF P, M
<1>11. /\ y.pc = "walking" /\ y.missed = M /\ y.fresh = x.fresh
       /\ y.imported = x.imported /\ y.settle = x.settle /\ y.probe = P
  BY <1>1 DEF SyncState
<1>12. ASSUME NEW p
       PROVE  /\ z(p).pc = "found" /\ z(p).missed = x.missed /\ z(p).at = i
              /\ z(p).fresh = x.fresh /\ z(p).imported = x.imported
              /\ z(p).settle = x.settle /\ z(p).probe = P
  BY <1>1 DEF SyncState
<1>13. \A j \in Issues : j \notin M => j \notin x.missed /\ j # i
  BY DEF M
<1> HIDE DEF x, y, z
<1>14. ASSUME NEW w, \A j \in Issues : Owed(w, j), sync'[s] = w
       PROVE  \A j \in Issues : Owed(sync[s], j)'
  BY <1>2, <1>14 DEF Owed, Tracked, EndedRows, Waiting, Last
<1>15. CASE SyncAt(s, y)
  <2>1. sync'[s] = y  BY <1>15, SyncAtIs
  <2>2. \A j \in Issues : Owed(y, j)
    BY <1>1, <1>6, <1>9, <1>10, <1>11, <1>13 DEF Owed
  <2>3. \A j \in Issues : Owed(sync[s], j)'  BY <2>1, <2>2, <1>14
  <2> QED BY <1>11, <2>1, <2>3 DEF QuietSync
<1>16. ASSUME NEW p, SyncAt(s, z(p)) PROVE QuietSync(s)'
  <2>1. sync'[s] = z(p)  BY <1>16, SyncAtIs
  <2>2. \A j \in Issues : Owed(z(p), j)
    BY <1>1, <1>6, <1>9, <1>10, <1>12 DEF Owed
  <2>3. \A j \in Issues : Owed(sync[s], j)'  BY <2>1, <2>2, <1>14
  <2> QED BY <1>12, <2>1, <2>3 DEF QuietSync
<1> QED BY <1>3, <1>15, <1>16

LEMMA QuietRecord ==
  ASSUME TypeInv, TypeInv', NEW s \in Syncs, QuietSync(s), SyncRecordPR(s)
  PROVE  QuietSync(s)'
<1> USE DEF TypeInv
<1> DEFINE x == sync[s]
           i == x.at
           y == [x EXCEPT !.pc = "walking", !.at = NoIssue, !.named = NoIssue]
<1>1. x \in SyncState /\ x.pc = "found" /\ i \in Issues
  BY DEF TypeOK, SyncRecordPR, Placed
<1>2. SyncAt(s, y) /\ UNCHANGED gh  BY DEF SyncRecordPR, NotSync
<1>3. /\ y.pc = "walking" /\ y.missed = x.missed /\ y.fresh = x.fresh
      /\ y.imported = x.imported /\ y.settle = x.settle /\ y.probe = x.probe
  BY <1>1 DEF SyncState
<1>4. sync'[s] = y
  <2> HIDE DEF y
  <2> QED BY <1>2, SyncAtIs
<1>5. SetRows(i, "pr_open") /\ \A j \in Issues \ {i} : board'[j] = board[j]
  BY <1>1, PRSets DEF SyncRecordPR
<1>6. \A j \in Issues : Owed(x, j)  BY <1>1 DEF QuietSync
<1>8. QuietSync(s) /\ x = sync[s]  OBVIOUS
<1>9. gh[i].issue = "open"  BY <1>1, <1>6 DEF Owed
<1> HIDE DEF y
<1>7. ASSUME NEW j \in Issues PROVE Owed(sync[s], j)'
  <2>1. CASE j = i
    <3>1. ASSUME Tracked(j)' PROVE ~Waiting(j)'
      <4>1. board'[j] \in Seq(Row)  BY DEF TypeOK
      <4>2. Len(board'[j]) \in 1..Len(board'[j])  BY <3>1, <4>1 DEF Tracked
      <4>3. Last(j)'.status = "pr_open"  BY <1>5, <2>1, <4>2 DEF SetRows, Last
      <4> QED BY <4>3 DEF Waiting
    <3>2. Owed(x, i)  BY <1>1, <1>6
    <3> HIDE DEF i
    <3> QED BY <1>1, <1>2, <1>3, <1>4, <1>9, <2>1, <3>1, <3>2 DEF Owed
  <2>2. CASE j # i
    <3>1. AlikeRows(j)  BY <1>5, <2>2 DEF AlikeRows
    <3>2. /\ Tracked(j)' <=> Tracked(j)
          /\ Tracked(j) => (Waiting(j)' <=> Waiting(j))
          /\ EndedRows(j)' <=> EndedRows(j)
      BY <3>1, AlikeKeeps
    <3>3. Owed(x, j)  BY <1>6
    <3> HIDE DEF x
    <3> QED BY <1>1, <1>2, <1>3, <1>4, <2>2, <3>2, <3>3 DEF Owed
  <2> QED BY <2>1, <2>2
<1> HIDE DEF x
<1> QED BY <1>2, <1>3, <1>4, <1>7, <1>8 DEF QuietSync

LEMMA QuietEnd ==
  ASSUME TypeInv, TypeInv', NEW s \in Syncs, QuietSync(s),
         SyncCount(s) \/ SyncPreview(s)
  PROVE  QuietSync(s)'
<1> USE DEF TypeInv
<1> DEFINE x == sync[s]
<1>1. PICK pc \in {"previewing", "done"} : GoSync(s, pc)
  BY DEF SyncCount, SyncPreview
<1> DEFINE y == [x EXCEPT !.pc = pc]
<1>2. SyncAt(s, y) /\ UNCHANGED <<board, gh>>
  BY <1>1 DEF GoSync, SyncCount, SyncPreview, NotSync
<1>3. /\ x \in SyncState /\ x.pc \in {"walking", "previewing"}
      /\ x.settle = {} /\ x.probe = {}
  BY DEF TypeOK, SyncCount, SyncPreview, QuietSync
<1>4. /\ y.pc = pc /\ y.missed = x.missed /\ y.fresh = x.fresh
      /\ y.imported = x.imported /\ y.settle = x.settle /\ y.probe = x.probe
  BY <1>3 DEF SyncState
<1>5. sync'[s] = y
  <2> HIDE DEF y
  <2> QED BY <1>2, SyncAtIs
<1>6. \A j \in Issues : Owed(x, j)  BY <1>3 DEF QuietSync
<1>8. QuietSync(s) /\ x = sync[s]  OBVIOUS
<1> HIDE DEF x, y
<1>7. ASSUME NEW j \in Issues PROVE Owed(sync[s], j)'
  <2>1. Owed(x, j)  BY <1>6
  <2>2. Owed(y, j)  BY <1>1, <1>3, <1>4, <2>1 DEF Owed
  <2> QED BY <1>2, <1>5, <2>2 DEF Owed, Tracked, EndedRows, Waiting, Last
<1> QED BY <1>1, <1>2, <1>3, <1>4, <1>5, <1>7, <1>8 DEF QuietSync

LEMMA QuietPreserved ==
  ASSUME TypeInv, TypeInv', EndedInv, QuietInv, [Next]_vars
  PROVE  QuietInv'
<1> SUFFICES ASSUME NEW s \in quiet' PROVE QuietSync(s)'
  BY DEF QuietInv
<1> s \in Syncs  BY DEF TypeInv, TypeOK
<1>1. CASE UNCHANGED vars
  <2>1. s \in quiet /\ UNCHANGED <<board, gh, sync>>
    BY <1>1 DEF vars, taskVars
  <2>2. QuietSync(s)  BY <2>1 DEF QuietInv
  <2> QED BY <2>1, <2>2, SameAlike, QuietFrame DEF TypeInv
<1>2. CASE Next
  <2>1. CASE SyncList(s)  BY <2>1, QuietListed
  <2>2. CASE ~SyncList(s) /\ s \in quiet
    <3>1. QuietSync(s)  BY <2>2 DEF QuietInv
    <3>2. sync[s].pc # "idle"  BY <3>1 DEF QuietSync
    <3>3. CASE SyncSteps(s)
      BY <3>1, <3>3, QuietRead, QuietImport, QuietSettle, QuietProbe,
         QuietRecord, QuietEnd DEF SyncSteps
    <3>4. CASE ~SyncSteps(s)
      <4>1. /\ UNCHANGED gh /\ sync'[s] = sync[s]
            /\ \A i \in Issues : AlikeRows(i)
        BY <1>2, <2>2, <3>2, <3>4, QuietOrOwn
      <4> QED BY <3>1, <4>1, QuietFrame DEF TypeInv
    <3> QED BY <3>3, <3>4
  <2>3. SyncSteps(s) => s \in quiet
    BY DEF SyncSteps, SyncRead, SyncImport, SyncSettle, SyncProbe, SyncRecordPR,
       SyncCount, SyncPreview, SyncDies
  <2> QED BY <1>2, <2>1, <2>2, <2>3, QuietOrOwn
<1> QED BY <1>1, <1>2

(* What a sync repairs, for any number of syncs and of writers beside      *)
(* them, and whatever its lookups find, miss or take for the pull request  *)
(* of the issue (sync_issues, find_pr_for_issue).                          *)
THEOREM SyncsRepair == Spec => []SyncRepairs
<1>1. Init => EndedInv /\ QuietInv
  BY DEF Init, EndedInv, QuietInv, Tracked
<1>2. ASSUME TypeInv, TypeInv', EndedInv /\ QuietInv, [Next]_vars
      PROVE  (EndedInv /\ QuietInv)'
  BY <1>2, EndedPreserved, QuietPreserved
<1>3. ASSUME TypeInv, QuietInv PROVE SyncRepairs
  <2> SUFFICES ASSUME NEW s \in quiet, sync[s].pc = "done",
                      NEW i \in Issues, Tracked(i)
               PROVE  /\ gh[i].issue = "closed" /\ i \notin sync[s].imported =>
                            EndedRows(i)
                      /\ gh[i].issue = "open" /\ i \notin sync[s].missed =>
                            ~Waiting(i)
    BY DEF SyncRepairs, EndedRows, Waiting
  <2>1. Owed(sync[s], i) /\ sync[s].settle = {} /\ sync[s].probe = {}
    BY <1>3 DEF QuietInv, QuietSync
  <2> QED BY <2>1 DEF Owed
<1> QED BY <1>1, <1>2, <1>3, TypeInvariant, PTL DEF Spec
=============================================================================
