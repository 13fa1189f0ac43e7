----------------------- MODULE UpdateTransactionProofs -----------------------
(***************************************************************************)
(* Theorems about UpdateTransaction for every set of enabled repositories, *)
(* every set of files and every number of transactions, faults and foreign *)
(* commits.                                                                *)
(***************************************************************************)
EXTENDS UpdateTransaction, TLAPS

-----------------------------------------------------------------------------
(***************************************************************************)
(* The inductive invariant: TypeOK and JournalWellFormed with what they    *)
(* need to be kept by every step.                                          *)
(***************************************************************************)

CommitSteps == {"target", "cas", "index", "mark"}
PushSteps   == {"probe", "push", "confirm", "pushed"}

\* No branch is ever empty, and a journal names a base for every repository.
NoEmptyBranch ==
  /\ \A r \in Repo : head[r] # NoSha /\ remote[r] # NoSha
  /\ journal.phase # "absent" => \A r \in Enabled : journal.base[r] # NoSha

\* The step of the cycle and the phase of the journal agree.
PhaseOfStep ==
  /\ pc \in {"gate", "prepare", "generate", "snapshot"} => journal.phase = "absent"
  /\ pc \in {"publish", "checkpoint", "committing"} => journal.phase = "publishing"
  /\ pc \in {"commit", "pushing"} \cup CommitSteps
       => journal.phase \in {"committing", "pushing"}
  /\ pc \in PushSteps => journal.phase = "pushing"
  /\ pc \in {"cleanup", "delete"} => journal.phase = "completed"

\* The repositories still to do.
TodoOfStep ==
  /\ todo \subseteq Enabled
  /\ pc \in CommitSteps \cup {"push", "confirm", "pushed"} => todo # {}

\* A target is recorded once, while committing, and before the branch moves.
TargetOfStep ==
  /\ pc \in {"commit", "pushing"} \cup CommitSteps /\ mode = "fresh"
       => journal.phase = "committing"
  /\ pc = "commit" /\ mode = "fresh" => \A r \in todo : journal.target[r] = NoSha
  /\ pc \in CommitSteps /\ mode = "fresh"
       => \A r \in todo \ {CommitRepo} : journal.target[r] = NoSha
  /\ pc = "target" => /\ journal.phase = "committing"
                      /\ journal.target[CommitRepo] = NoSha
  /\ pc \in {"cas", "index", "mark"} => journal.target[CommitRepo] # NoSha

\* While pushing every repository stands at its committed target.
AllCommitted ==
  pc \in {"pushing"} \cup PushSteps =>
    \A r \in Enabled : /\ journal.commit[r] = "committed"
                       /\ head[r] = journal.target[r]

\* The repositories already done with are recorded as pushed.
PushedPrefix ==
  pc \in PushSteps => \A r \in Enabled \ todo : journal.push[r] = "pushed"

Control == /\ JournalWellFormed
           /\ PhaseOfStep /\ TodoOfStep /\ TargetOfStep
           /\ AllCommitted /\ PushedPrefix

IInv == TypeOK /\ NoEmptyBranch /\ Control


-----------------------------------------------------------------------------
(***************************************************************************)
(* Lemmas about the values.                                                *)
(***************************************************************************)

\* A non-empty history ends in a tree.
LEMMA TreeOfType ==
  ASSUME NEW sha \in Sha, sha # NoSha
  PROVE  TreeOf(sha) \in Tree
<1>1. Len(sha) \in 1..Len(sha)
  BY DEF Sha, NoSha
<1>2. sha[Len(sha)] \in Commit
  BY <1>1 DEF Sha
<1> QED
  BY <1>2 DEF TreeOf, Commit

\* A commit on top of a history is a non-empty history.
LEMMA AppendType ==
  ASSUME NEW sha \in Sha, NEW by \in Int, NEW tree \in Tree
  PROVE  /\ Append(sha, [by |-> by, tree |-> tree]) \in Sha
         /\ Append(sha, [by |-> by, tree |-> tree]) # NoSha
BY DEF Sha, Commit, NoSha

\* The file that is absent everywhere is a tree, and the empty journal a journal.
LEMMA EmptyTypes == Nothing \in Tree /\ NoJournal \in Journal
BY DEF Nothing, NoJournal, Journal, Tree, Content, Absent, Sha, NoSha,
       TxnPhase, RepoCommitState, RepoPushState

-----------------------------------------------------------------------------

\* TypeOK and NoEmptyBranch by the part of the state they are about.
JournalTyped == /\ journal \in Journal
                /\ journal.phase # "absent" =>
                     \A r \in Enabled : journal.base[r] # NoSha
TreesTyped   == /\ staged \in [Repo -> Tree] /\ work \in [Repo -> Tree]
                /\ index \in [Repo -> Tree]
BranchTyped  == /\ head \in [Repo -> Sha] /\ remote \in [Repo -> Sha]
                /\ \A r \in Repo : head[r] # NoSha /\ remote[r] # NoSha
CycleTyped   == /\ pc \in Step /\ mode \in {"fresh", "recovery"}
                /\ rest \subseteq Item /\ cur \in Item /\ todo \subseteq Repo
                /\ failed \in BOOLEAN
                /\ candidate \in Content
PlanTyped    == plan \in Seq([base : [Repo -> Sha], tree : [Repo -> Tree]])
BoundsTyped  == faults \in 0..MaxFaults /\ foreign \in 0..MaxForeign

Typed == /\ JournalTyped /\ TreesTyped /\ BranchTyped /\ CycleTyped
         /\ version_info \in Content /\ PlanTyped /\ BoundsTyped

LEMMA TypedParts == Typed <=> TypeOK /\ NoEmptyBranch
BY DEF Typed, TypeOK, NoEmptyBranch, JournalTyped, TreesTyped, BranchTyped,
       CycleTyped, PlanTyped, BoundsTyped

LEMMA InitTyped == Init => Typed
<1> SUFFICES ASSUME Init PROVE Typed
  OBVIOUS
<1> USE DEF Init
<1>1. FirstTree \in Tree
  BY FilesAssumption DEF FirstTree, Tree, Content, Absent
<1>2. FirstCommit \in Sha /\ FirstCommit # NoSha
  BY <1>1 DEF FirstCommit, Sha, Commit, NoSha
<1>3. TypeOK
  <2>1. journal \in Journal /\ staged \in [Repo -> Tree]
    BY EmptyTypes
  <2>2. /\ work \in [Repo -> Tree] /\ index \in [Repo -> Tree]
        /\ head \in [Repo -> Sha] /\ remote \in [Repo -> Sha]
    BY <1>1, <1>2
  <2>3. /\ pc \in Step /\ mode \in {"fresh", "recovery"}
        /\ rest \subseteq Item /\ todo \subseteq Repo /\ failed \in BOOLEAN
    BY DEF Step
  <2>4. cur \in Item
    BY FilesAssumption DEF Item, Repo, VersionsItem
  <2>5. candidate \in Content /\ version_info \in Content
    BY DEF Content, Absent
  <2>6. /\ plan \in Seq([base : [Repo -> Sha], tree : [Repo -> Tree]])
        /\ faults \in 0..MaxFaults /\ foreign \in 0..MaxForeign
    BY BoundsAssumption
  <2> QED
    BY <2>1, <2>2, <2>3, <2>4, <2>5, <2>6 DEF TypeOK
<1>4. NoEmptyBranch
  BY <1>2 DEF NoEmptyBranch, NoJournal
<1> QED
  BY <1>3, <1>4, TypedParts

\* Whoever is next is a repository.
LEMMA TurnType ==
  ASSUME NEW S
  PROVE  PublishTurn(S) \in Repo /\ PushTurn(S) \in Repo
BY DEF PublishTurn, PushTurn, Repo

LEMMA ItemType == VersionsItem \in Item /\ Absent \in Content
BY FilesAssumption DEF VersionsItem, Item, Repo, Content, Absent

\* The journal updates the steps write keep the type of the journal.
LEMMA PhaseType ==
  ASSUME NEW j \in Journal, NEW p \in TxnPhase
  PROVE  [j EXCEPT !.phase = p] \in Journal
BY DEF Journal

LEMMA DestType ==
  ASSUME NEW j \in Journal, NEW i \in Item, NEW content \in Content
  PROVE  [j EXCEPT !.dest[i[1]][i[2]] = content] \in Journal
BY DEF Journal, Item, Tree

LEMMA CommitType ==
  ASSUME NEW j \in Journal, NEW r \in Repo, NEW c \in RepoCommitState
  PROVE  [j EXCEPT !.commit[r] = c] \in Journal
BY DEF Journal

LEMMA TargetType ==
  ASSUME NEW j \in Journal, NEW r \in Repo, NEW sha \in Sha,
         NEW c \in RepoCommitState
  PROVE  [j EXCEPT !.target[r] = sha, !.commit[r] = c] \in Journal
BY DEF Journal

LEMMA PushType ==
  ASSUME NEW j \in Journal, NEW r \in Repo, NEW c \in RepoPushState
  PROVE  [j EXCEPT !.push[r] = c] \in Journal
BY DEF Journal

\* A cycle that returns leaves its memory typed.
LEMMA ReturnTyped ==
  ASSUME Return
  PROVE  CycleTyped'
BY ItemType DEF Return, CycleTyped, Step

\* The parts of the state an action leaves alone stay typed.
LEMMA Frames ==
  /\ JournalTyped /\ UNCHANGED journal => JournalTyped'
  /\ TreesTyped /\ UNCHANGED <<staged, work, index>> => TreesTyped'
  /\ BranchTyped /\ UNCHANGED <<head, remote>> => BranchTyped'
  /\ CycleTyped /\ UNCHANGED <<pc, mode, cursor, candidate>> => CycleTyped'
  /\ PlanTyped /\ UNCHANGED plan => PlanTyped'
  /\ BoundsTyped /\ UNCHANGED bounds => BoundsTyped'
BY DEF JournalTyped, TreesTyped, BranchTyped, CycleTyped, PlanTyped, BoundsTyped,
       cursor, bounds

\* The same for the small changes several actions share.
LEMMA NoJournalTyped == journal' = NoJournal => JournalTyped'
BY EmptyTypes DEF JournalTyped, NoJournal

LEMMA NothingTyped ==
  TreesTyped /\ staged' = [r \in Repo |-> Nothing] /\ UNCHANGED <<work, index>>
    => TreesTyped'
BY EmptyTypes DEF TreesTyped

LEMMA PhaseTyped ==
  ASSUME JournalTyped, NEW p \in TxnPhase, journal.phase # "absent",
         journal' = [journal EXCEPT !.phase = p]
  PROVE  JournalTyped'
BY PhaseType DEF JournalTyped, Journal

LEMMA VersionsTyped ==
  Typed /\ "master" \in Repo => work["master"][Versions] \in Content
BY FilesAssumption DEF Typed, TreesTyped, Tree

LEMMA FaultTyped == BoundsTyped /\ Fault /\ UNCHANGED foreign => BoundsTyped'
BY BoundsAssumption DEF BoundsTyped, Fault

LEMMA ReplaceTyped ==
  ASSUME Typed, NEW i \in rest, Replace(i)
  PROVE  /\ JournalTyped' /\ TreesTyped' /\ UNCHANGED <<head, rest>>
         /\ cur' \in Item /\ pc' = "checkpoint"
<1>1. i \in Item /\ i[1] \in Repo /\ i[2] \in Files
  BY DEF Typed, CycleTyped, Item
<1>2. staged[i[1]][i[2]] \in Content
  BY <1>1 DEF Typed, TreesTyped, Tree
<1>3. TreesTyped'
  BY <1>1, <1>2, ItemType DEF Replace, Typed, TreesTyped, Tree
<1> QED
  BY <1>1, <1>3, Frames DEF Replace, Typed, Goto

LEMMA CheckpointTyped ==
  ASSUME Typed, NEW i \in Item, NEW content \in Content, CheckpointAs(i, content),
         journal.phase # "absent"
  PROVE  /\ JournalTyped' /\ TreesTyped' /\ UNCHANGED head
         /\ rest' \subseteq rest /\ cur' \in Item /\ pc' = "publish"
<1>1. JournalTyped'
  BY DestType DEF CheckpointAs, Typed, JournalTyped, Journal
<1> QED
  BY <1>1, Frames, ItemType DEF CheckpointAs, Typed, Goto

\* Where the cycle commits, there is a repository to commit.
LEMMA CommitRepoEnabled ==
  ASSUME IInv, pc \in CommitSteps
  PROVE  /\ CommitRepo \in todo /\ CommitRepo \in Enabled /\ CommitRepo \in Repo
         /\ journal.phase # "absent"
BY OptionsAssumption
DEF IInv, Control, TodoOfStep, PhaseOfStep, CommitSteps, CommitRepo,
    PublishTurn, Repo

\* Every step keeps the types.
LEMMA TypedStep == IInv /\ [Next]_vars => Typed'
<1> SUFFICES ASSUME IInv, [Next]_vars PROVE Typed'
  OBVIOUS
<1>T. Typed
  BY TypedParts DEF IInv
<1> USE <1>T, Frames DEF Typed, CycleTyped, Step, Goto, Continue, durable, cursor,
        bounds
<1>1. CASE BeginCycle
  BY <1>1 DEF BeginCycle
<1>2. CASE NothingToRecover
  BY <1>2 DEF NothingToRecover
<1>3. CASE RecoverCompleted
  BY <1>3, NoJournalTyped, ReturnTyped DEF RecoverCompleted
<1>4. CASE RecoverPublishing
  BY <1>4, OptionsAssumption DEF RecoverPublishing, Item
<1>5. CASE RecoverCommitting
  BY <1>5, ReturnTyped, OptionsAssumption, VersionsTyped
  DEF RecoverCommitting, SyncVersionInfo, VersionsStaged, Repo
<1>6. CASE SkipCycle
  BY <1>6, ReturnTyped DEF SkipCycle
<1>7. CASE PrepareRepo
  <2> DEFINE r == PublishTurn(todo)
  <2>1. r \in Repo /\ TreeOf(remote[r]) \in Tree
    BY TurnType, TreeOfType DEF BranchTyped
  <2> HIDE DEF r
  <2>2. TreesTyped' /\ BranchTyped'
    BY <1>7, <2>1 DEF PrepareRepo, TreesTyped, BranchTyped, r
  <2> QED
    BY <2>2, <1>7, ReturnTyped DEF PrepareRepo
<1>8. CASE Generate
  <2>1. staged' \in [Repo -> Tree]
    <3>1. ASSUME NEW r \in Repo PROVE Stageable(r) \subseteq Tree
      <4>1. Len(plan) + 1 \in Content
        BY DEF PlanTyped, Content
      <4>2. \A f \in Files : work[r][f] \in Content
        BY DEF TreesTyped, Tree
      <4>3. {Absent, candidate, Len(plan) + 1} \cup {work[r][f] : f \in Files}
              \subseteq Content
        BY <4>1, <4>2, ItemType
      <4> QED
        BY <4>3, EmptyTypes DEF Stageable, Tree
    <3>2. "master" \in Repo /\ "i18n" \in Repo
      BY DEF Repo
    <3>3. PICK m \in Stageable("master"), t \in Stageable("i18n") :
            staged' = [r \in Repo |-> IF r = "master" THEN m ELSE t]
      BY <1>8 DEF Generate
    <3> QED
      BY <3>1, <3>2, <3>3
  <2>2. TreesTyped'
    BY <2>1, <1>8 DEF Generate, TreesTyped, Typed
  <2> QED
    BY <2>2, <1>8 DEF Generate
<1>9. CASE GenerationFails
  BY <1>9, ReturnTyped, NothingTyped DEF GenerationFails
<1>10. CASE DeadlineExceeded
  BY <1>10, ReturnTyped, NothingTyped DEF DeadlineExceeded
<1>11. CASE WritePublishingJournal
  <2>1. journal' \in Journal
    <3> DEFINE bases == [r \in Repo |-> IF r \in Enabled THEN head[r] ELSE NoSha]
    <3>1. bases \in [Repo -> Sha]
      BY DEF Typed, BranchTyped, Sha, NoSha
    <3>2. /\ journal' = [NoJournal EXCEPT !.phase = "publishing",
                                          !.source = staged, !.base = bases]
          /\ staged \in [Repo -> Tree]
      BY <1>11 DEF WritePublishingJournal, Typed, TreesTyped
    <3> HIDE DEF bases
    <3> QED
      BY <3>1, <3>2, EmptyTypes DEF Journal, TxnPhase
  <2>2. JournalTyped'
    BY <1>11, <2>1, OptionsAssumption
    DEF WritePublishingJournal, JournalTyped, NoJournal, Typed, BranchTyped
  <2>3. PlanTyped'
    <3> DEFINE bases == [r \in Repo |-> IF r \in Enabled THEN head[r] ELSE NoSha]
               trees == [r \in Repo |-> Overlay(staged[r], work[r])]
    <3>1. bases \in [Repo -> Sha]
      BY DEF Typed, BranchTyped, Sha, NoSha
    <3>2. trees \in [Repo -> Tree]
      BY DEF Typed, TreesTyped, Overlay, Tree
    <3>3. plan' = Append(plan, [base |-> bases, tree |-> trees])
      BY <1>11 DEF WritePublishingJournal
    <3> HIDE DEF bases, trees
    <3> QED
      BY <3>1, <3>2, <3>3 DEF Typed, PlanTyped
  <2> QED
    BY <2>2, <2>3, <1>11, OptionsAssumption DEF WritePublishingJournal, Item
<1>12. CASE RemoteSnapshotFails
  BY <1>12, ReturnTyped DEF RemoteSnapshotFails
<1>13. CASE Checkpoint
  <2>1. work[cur[1]][cur[2]] \in Content
    BY DEF Typed, TreesTyped, CycleTyped, Item, Tree
  <2> QED
    BY <1>13, <2>1, CheckpointTyped
    DEF Checkpoint, Typed, IInv, Control, PhaseOfStep
<1>14. CASE PublicationDone
  BY <1>14, VersionsTyped, OptionsAssumption
  DEF PublicationDone, SyncVersionInfo, VersionsStaged, Repo
<1>15. CASE EnterCommitting
  <2>1. JournalTyped'
    BY <1>15, PhaseTyped
    DEF EnterCommitting, TxnPhase, IInv, Control, PhaseOfStep, PushSteps
  <2> QED
    BY <2>1, <1>15, OptionsAssumption DEF EnterCommitting
<1>16. CASE StartCommit
  BY <1>16 DEF StartCommit
<1>17. CASE RecoverCommitRepo
  <2>1. CASE journal' = journal
    BY <2>1, <1>17, ReturnTyped DEF RecoverCommitRepo
  <2>2. ASSUME journal' # journal PROVE JournalTyped'
    <3>1. CommitRepo \in Repo
      BY TurnType DEF CommitRepo
    <3>2. /\ head[CommitRepo] \in Sha
          /\ journal' = [journal EXCEPT !.target[CommitRepo] = head[CommitRepo],
                                        !.commit[CommitRepo] = "committed"]
      BY <2>2, <1>17, <3>1 DEF RecoverCommitRepo, BranchTyped
    <3> QED
      BY <3>1, <3>2, TargetType DEF JournalTyped, RepoCommitState, Journal
  <2> QED
    BY <2>1, <2>2, <1>17, ReturnTyped DEF RecoverCommitRepo
<1>18. CASE PrepareTarget
  <2> DEFINE r    == CommitRepo
             base == journal.base[r]
             tree == [f \in Files |-> IF f \in Manifest(journal, r) THEN work[r][f]
                                      ELSE TreeOf(base)[f]]
             sha  == IF tree = TreeOf(base) THEN base
                     ELSE Append(base, [by |-> Len(plan), tree |-> tree])
  <2>1. r \in Enabled /\ r \in Repo /\ journal.phase # "absent"
    BY <1>18, CommitRepoEnabled DEF PrepareTarget, CommitSteps
  <2>2. base \in Sha /\ base # NoSha
    BY <2>1 DEF Typed, JournalTyped, Journal
  <2>3. tree \in Tree
    BY <2>1, <2>2, TreeOfType DEF Typed, TreesTyped, Tree
  <2>4. sha \in Sha
    BY <2>2, <2>3, AppendType DEF Typed, PlanTyped
  <2>5. journal' = [journal EXCEPT !.target[r] = sha, !.commit[r] = "prepared"]
    BY <1>18 DEF PrepareTarget
  <2>6. JournalTyped'
    <3> HIDE DEF r, sha
    <3> QED
      BY <2>1, <2>4, <2>5, TargetType
      DEF Typed, JournalTyped, RepoCommitState, Journal
  <2> QED
    BY <2>6, <1>18 DEF PrepareTarget
<1>19. CASE UpdateBranch
  <2>1. /\ CommitRepo \in Repo /\ journal.target[CommitRepo] \in Sha
        /\ journal.target[CommitRepo] # NoSha
    BY <1>19, TurnType DEF UpdateBranch, CommitRepo, Typed, JournalTyped, Journal,
                          IInv, Control, TargetOfStep
  <2>2. BranchTyped'
    BY <2>1, <1>19 DEF UpdateBranch, Typed, BranchTyped
  <2> QED
    BY <2>2, <1>19 DEF UpdateBranch
<1>20. CASE InstallIndex
  <2>1. /\ CommitRepo \in Repo /\ journal.target[CommitRepo] \in Sha
        /\ journal.target[CommitRepo] # NoSha
    BY <1>20, TurnType DEF InstallIndex, CommitRepo, Typed, JournalTyped, Journal,
                          IInv, Control, TargetOfStep
  <2>2. TreesTyped'
    BY <2>1, <1>20, TreeOfType DEF InstallIndex, Typed, TreesTyped
  <2> QED
    BY <2>2, <1>20 DEF InstallIndex
<1>21. CASE MarkCommitted
  <2>1. CommitRepo \in Repo
    BY TurnType DEF CommitRepo
  <2>2. JournalTyped'
    BY <2>1, <1>21, CommitType
    DEF MarkCommitted, Typed, JournalTyped, RepoCommitState, Journal
  <2> QED
    BY <2>2, <1>21 DEF MarkCommitted
<1>22. CASE CommitDone
  BY <1>22, ReturnTyped DEF CommitDone
<1>23. CASE EnterPushing
  <2>1. JournalTyped'
    BY <1>23, PhaseTyped
    DEF EnterPushing, TxnPhase, IInv, Control, PhaseOfStep, PushSteps
  <2> QED
    BY <2>1, <1>23, OptionsAssumption DEF EnterPushing
<1>24. CASE ProbeRemote
  BY <1>24, ReturnTyped DEF ProbeRemote
<1>25. CASE PushHead
  <2>1. PushRepo \in Repo
    BY TurnType DEF PushRepo
  <2>2. BranchTyped'
    BY <2>1, <1>25 DEF PushHead, Typed, BranchTyped
  <2> QED
    BY <2>2, <1>25 DEF PushHead
<1>26. CASE ConfirmPush
  BY <1>26, ReturnTyped DEF ConfirmPush
<1>27. CASE MarkPushed
  <2>1. PushRepo \in Repo
    BY TurnType DEF PushRepo
  <2>2. JournalTyped'
    BY <2>1, <1>27, PushType
    DEF MarkPushed, Typed, JournalTyped, RepoPushState, Journal
  <2> QED
    BY <2>2, <1>27 DEF MarkPushed
<1>28. CASE PushDone
  <2>1. JournalTyped'
    BY <1>28, PhaseTyped
    DEF PushDone, TxnPhase, IInv, Control, PhaseOfStep, PushSteps
  <2> QED
    BY <2>1, <1>28, OptionsAssumption DEF PushDone
<1>29. CASE ClearStaging
  BY <1>29, NothingTyped DEF ClearStaging
<1>30. CASE DeleteJournal
  BY <1>30, NoJournalTyped, ReturnTyped DEF DeleteJournal
<1>31. CASE Crash
  BY <1>31, ItemType, FaultTyped DEF Crash
<1>32. CASE StepFails
  BY <1>32, ReturnTyped, FaultTyped DEF StepFails
<1>33. CASE CommitFails
  BY <1>33, FaultTyped DEF CommitFails
<1>34. CASE PushLost
  BY <1>34, FaultTyped DEF PushLost
<1>35. CASE UNCHANGED vars
  BY <1>35 DEF vars
<1>36. ASSUME NEW daily \in BOOLEAN,
             NEW observed \in {work["master"][Versions], Len(plan) + 1} \ {Absent},
             Gate(daily, observed)
      PROVE  Typed'
  <2>1. observed \in Content
    BY <1>36, FilesAssumption DEF Typed, TreesTyped, PlanTyped, Tree, Repo, Content
  <2> QED
    BY <2>1, <1>36, OptionsAssumption DEF Gate
<1>37. ASSUME NEW i \in rest, PublishFile(i) PROVE Typed'
  BY <1>37, ReplaceTyped DEF PublishFile
<1>38. ASSUME NEW i \in rest, RecoverPublishFile(i) PROVE Typed'
  <2>1. i \in Item /\ journal.source[i[1]][i[2]] \in Content
    BY <1>38 DEF Typed, CycleTyped, JournalTyped, Journal, Item, Tree
  <2> QED
    BY <2>1, <1>38, ReplaceTyped, CheckpointTyped, ReturnTyped
    DEF RecoverPublishFile, IInv, Control, PhaseOfStep
<1>39. ASSUME NEW r \in Repo, ForeignPush(r) PROVE Typed'
  <2>1. TreeOf(remote[r]) \in Tree
    BY TreeOfType DEF Typed, BranchTyped
  <2>2. -(foreign + 1) \in Int
    BY BoundsAssumption DEF Typed, BoundsTyped
  <2>3. BranchTyped'
    BY <1>39, <2>1, <2>2, AppendType DEF ForeignPush, Typed, BranchTyped
  <2>4. BoundsTyped'
    BY <1>39, BoundsAssumption DEF ForeignPush, Typed, BoundsTyped
  <2> QED
    BY <2>3, <2>4, <1>39 DEF ForeignPush
<1> QED
  BY <1>1, <1>2, <1>3, <1>4, <1>5, <1>6, <1>7, <1>8, <1>9, <1>10, <1>11, <1>12,
      <1>13, <1>14, <1>15, <1>16, <1>17, <1>18, <1>19, <1>20, <1>21, <1>22,
      <1>23, <1>24, <1>25, <1>26, <1>27, <1>28, <1>29, <1>30, <1>31, <1>32,
      <1>33, <1>34, <1>35, <1>36, <1>37, <1>38, <1>39
  DEF Next, Cycle, Recovery, Fresh, Publication, Commits, Pushes

\* What PrepareTarget records is never the empty history.
LEMMA PreparedTarget ==
  ASSUME IInv, PrepareTarget
  PROVE  \E sha : /\ sha # NoSha
                  /\ journal' = [journal EXCEPT !.target[CommitRepo] = sha,
                                                !.commit[CommitRepo] = "prepared"]
<1>1. /\ journal.base[CommitRepo] # NoSha
      /\ \A x : Append(journal.base[CommitRepo], x) # NoSha
  <2>1. CommitRepo \in Enabled /\ CommitRepo \in Repo /\ journal.phase # "absent"
    BY CommitRepoEnabled DEF PrepareTarget, CommitSteps
  <2>2. journal.base[CommitRepo] \in Sha /\ journal.base[CommitRepo] # NoSha
    BY <2>1 DEF IInv, NoEmptyBranch, TypeOK, Journal
  <2> QED
    BY <2>2 DEF Sha, NoSha
<1> QED
  BY <1>1 DEF PrepareTarget

\* Every journal a step writes is well formed.
LEMMA WellFormedStep == IInv /\ [Next]_vars => JournalWellFormed'
<1> SUFFICES ASSUME IInv, [Next]_vars PROVE JournalWellFormed'
  OBVIOUS
<1>T. Typed
  BY TypedParts DEF IInv
<1>K. journal \in Journal /\ Control
  BY <1>T DEF IInv, Typed, JournalTyped
<1>U. ASSUME UNCHANGED journal PROVE JournalWellFormed'
  BY <1>K, <1>U DEF Control, JournalWellFormed, ValidJournal, ValidRepoPhaseState,
                    ValidPushPrefix
<1>N. ASSUME journal' = NoJournal PROVE JournalWellFormed'
  BY <1>N DEF NoJournal, JournalWellFormed, ValidJournal
<1>C. ASSUME NEW i, NEW content, CheckpointAs(i, content) PROVE JournalWellFormed'
  BY <1>K, <1>C
  DEF CheckpointAs, Control, JournalWellFormed, ValidJournal,
      ValidRepoPhaseState, ValidPushPrefix, Journal
<1>1. CASE BeginCycle
  BY <1>1, <1>U DEF BeginCycle, durable
<1>2. CASE NothingToRecover
  BY <1>2, <1>U DEF NothingToRecover, durable
<1>3. CASE RecoverCompleted
  BY <1>3, <1>N, <1>U DEF RecoverCompleted, Return
<1>4. CASE RecoverPublishing
  BY <1>4, <1>U DEF RecoverPublishing, durable
<1>5. CASE RecoverCommitting
  BY <1>5, <1>U DEF RecoverCommitting, durable
<1>6. CASE SkipCycle
  BY <1>6, <1>U DEF SkipCycle, durable
<1>7. CASE PrepareRepo
  BY <1>7, <1>U DEF PrepareRepo, durable
<1>8. CASE Generate
  BY <1>8, <1>U DEF Generate, durable
<1>9. CASE GenerationFails
  BY <1>9, <1>U DEF GenerationFails, durable
<1>10. CASE DeadlineExceeded
  BY <1>10, <1>U DEF DeadlineExceeded, durable
<1>11. CASE WritePublishingJournal
  BY <1>11, OptionsAssumption
  DEF WritePublishingJournal, NoJournal, JournalWellFormed, ValidJournal,
              ValidRepoPhaseState, ValidPushPrefix, NoSha
<1>12. CASE RemoteSnapshotFails
  BY <1>12, <1>U DEF RemoteSnapshotFails, durable
<1>13. CASE Checkpoint
  BY <1>13, <1>C DEF Checkpoint
<1>14. CASE PublicationDone
  BY <1>14, <1>U DEF PublicationDone, durable
<1>15. CASE EnterCommitting
  BY <1>15, <1>K
  DEF EnterCommitting, PhaseOfStep, Control, JournalWellFormed, ValidJournal,
      ValidRepoPhaseState, ValidPushPrefix, Journal
<1>16. CASE StartCommit
  BY <1>16, <1>U DEF StartCommit, durable
<1>17. CASE RecoverCommitRepo
  <2>1. CASE journal' = journal
    BY <2>1, <1>U
  <2>2. ASSUME journal' # journal PROVE JournalWellFormed'
    <3>1. CommitRepo \in Repo
      BY TurnType DEF CommitRepo
    <3>2. /\ head[CommitRepo] # NoSha
          /\ journal.target[CommitRepo] = NoSha
          /\ journal' = [journal EXCEPT !.target[CommitRepo] = head[CommitRepo],
                                        !.commit[CommitRepo] = "committed"]
          /\ journal.phase \in {"committing", "pushing"}
          /\ CommitRepo \in Enabled
      BY <2>2, <1>17, <1>K, <3>1, OptionsAssumption
      DEF RecoverCommitRepo, NoEmptyBranch, IInv, Control, PhaseOfStep, TodoOfStep,
          CommitRepo, PublishTurn, Repo
    <3> HIDE DEF CommitRepo
    <3> QED
      BY <3>1, <3>2, <1>K, OptionsAssumption
      DEF Control, JournalWellFormed, ValidJournal, ValidRepoPhaseState,
          ValidPushPrefix, Journal
  <2> QED
    BY <2>1, <2>2
<1>18. CASE PrepareTarget
  <2>1. PICK sha : /\ sha # NoSha
                   /\ journal' = [journal EXCEPT !.target[CommitRepo] = sha,
                                                 !.commit[CommitRepo] = "prepared"]
    BY <1>18, PreparedTarget
  <2>2. CommitRepo \in Repo /\ journal.phase = "committing"
    BY <1>18, <1>K, TurnType DEF PrepareTarget, Control, TargetOfStep, CommitRepo
  <2> QED
    BY <2>1, <2>2, <1>K, OptionsAssumption
    DEF Control, JournalWellFormed, ValidJournal, ValidRepoPhaseState,
        ValidPushPrefix, Journal
<1>19. CASE UpdateBranch
  BY <1>19, <1>U DEF UpdateBranch, durable
<1>20. CASE InstallIndex
  BY <1>20, <1>U DEF InstallIndex, durable
<1>21. CASE MarkCommitted
  BY <1>21, <1>K, CommitRepoEnabled
  DEF MarkCommitted, CommitSteps, PhaseOfStep, TargetOfStep, Control,
      JournalWellFormed, ValidJournal, ValidRepoPhaseState, ValidPushPrefix,
      Journal
<1>22. CASE CommitDone
  BY <1>22, <1>U DEF CommitDone, durable
<1>23. CASE EnterPushing
  BY <1>23, <1>K
  DEF EnterPushing, PhaseOfStep, AllCommitted, Control, JournalWellFormed,
      ValidJournal, ValidRepoPhaseState, ValidPushPrefix, Journal
<1>24. CASE ProbeRemote
  BY <1>24, <1>U DEF ProbeRemote, durable
<1>25. CASE PushHead
  BY <1>25, <1>U DEF PushHead, durable
<1>26. CASE ConfirmPush
  BY <1>26, <1>U DEF ConfirmPush, durable
<1>27. CASE MarkPushed
  BY <1>27, <1>K, TurnType
  DEF MarkPushed, PushSteps, PhaseOfStep, AllCommitted, PushedPrefix, PushRepo,
      PushTurn, TodoOfStep, Control, JournalWellFormed, ValidJournal,
      ValidRepoPhaseState, ValidPushPrefix, Journal
<1>28. CASE PushDone
  BY <1>28, <1>K
  DEF PushDone, PhaseOfStep, PushedPrefix, PushSteps, Control,
      JournalWellFormed, ValidJournal, ValidRepoPhaseState, ValidPushPrefix,
      Journal
<1>29. CASE ClearStaging
  BY <1>29, <1>U DEF ClearStaging, durable
<1>30. CASE DeleteJournal
  BY <1>30, <1>N DEF DeleteJournal
<1>31. CASE Crash
  BY <1>31, <1>U DEF Crash, durable
<1>32. CASE StepFails
  BY <1>32, <1>U DEF StepFails, durable
<1>33. CASE CommitFails
  BY <1>33, <1>U DEF CommitFails, durable
<1>34. CASE PushLost
  BY <1>34, <1>U DEF PushLost, durable
<1>35. CASE \E daily \in BOOLEAN :
           \E observed \in {work["master"][Versions], Len(plan) + 1} \ {Absent} :
             Gate(daily, observed)
  BY <1>35, <1>U DEF Gate, durable
<1>36. CASE \E i \in rest : PublishFile(i)
  BY <1>36, <1>U DEF PublishFile, Replace, durable
<1>37. CASE \E i \in rest : RecoverPublishFile(i)
  BY <1>37, <1>U, <1>C DEF RecoverPublishFile, Replace, durable
<1>38. CASE \E r \in Repo : ForeignPush(r)
  BY <1>38, <1>U DEF ForeignPush, durable
<1>39. CASE UNCHANGED vars
  BY <1>39, <1>U DEF vars, durable
<1> QED
  BY <1>1, <1>2, <1>3, <1>4, <1>5, <1>6, <1>7, <1>8, <1>9, <1>10, <1>11, <1>12,
      <1>13, <1>14, <1>15, <1>16, <1>17, <1>18, <1>19, <1>20, <1>21, <1>22,
      <1>23, <1>24, <1>25, <1>26, <1>27, <1>28, <1>29, <1>30, <1>31, <1>32,
      <1>33, <1>34, <1>35, <1>36, <1>37, <1>38, <1>39
  DEF Next, Cycle, Recovery, Fresh, Publication, Commits, Pushes

\* The other parts of the invariant.
CycleControl == PhaseOfStep /\ TodoOfStep /\ TargetOfStep /\ AllCommitted /\ PushedPrefix

LEMMA ControlStep == IInv /\ [Next]_vars => CycleControl'
<1> SUFFICES ASSUME IInv, [Next]_vars PROVE CycleControl'
  OBVIOUS
<1>K. /\ journal \in Journal /\ JournalWellFormed /\ CycleControl /\ todo \subseteq Repo
      /\ Enabled \subseteq Repo
  BY OptionsAssumption DEF IInv, TypeOK, Control, CycleControl
<1>R. ASSUME Return, UNCHANGED <<journal, head>>
      PROVE  CycleControl'
  BY <1>R DEF Return, CycleControl, PhaseOfStep, TodoOfStep, TargetOfStep,
              AllCommitted, PushedPrefix, CommitSteps, PushSteps
<1> USE <1>K DEF CycleControl, PhaseOfStep, TodoOfStep, TargetOfStep, AllCommitted,
             PushedPrefix, CommitSteps, PushSteps, CommitRepo, PublishTurn,
             Goto, durable, cursor
<1>1. CASE BeginCycle
  BY <1>1, <1>R DEF BeginCycle
<1>2. CASE NothingToRecover
  BY <1>2, <1>R DEF NothingToRecover
<1>3. CASE RecoverCompleted
  BY <1>3, <1>R DEF RecoverCompleted, NoJournal, Return
<1>4. CASE RecoverPublishing
  BY <1>4, <1>R DEF RecoverPublishing
<1>5. CASE RecoverCommitting
  BY <1>5, <1>R DEF RecoverCommitting
<1>6. CASE SkipCycle
  BY <1>6, <1>R DEF SkipCycle
<1>7. CASE PrepareRepo
  BY <1>7, <1>R DEF PrepareRepo
<1>8. CASE Generate
  BY <1>8, <1>R DEF Generate
<1>9. CASE GenerationFails
  BY <1>9, <1>R DEF GenerationFails
<1>10. CASE DeadlineExceeded
  BY <1>10, <1>R DEF DeadlineExceeded
<1>11. CASE WritePublishingJournal
  BY <1>11, <1>R DEF WritePublishingJournal, NoJournal
<1>12. CASE RemoteSnapshotFails
  BY <1>12, <1>R DEF RemoteSnapshotFails
<1>13. CASE Checkpoint
  BY <1>13, <1>R DEF Checkpoint, CheckpointAs, Journal
<1>14. CASE PublicationDone
  BY <1>14, <1>R DEF PublicationDone
<1>15. CASE EnterCommitting
  BY <1>15, <1>R
  DEF EnterCommitting, Journal, JournalWellFormed, ValidJournal,
      ValidRepoPhaseState
<1>16. CASE StartCommit
  <2>0. todo # {}
    BY <1>16 DEF StartCommit
  <2>1. CommitRepo \in todo
    BY <2>0 DEF Repo
  <2>2. CASE head[CommitRepo] = journal.base[CommitRepo]
    <3>1. pc = "commit" /\ mode = "fresh" /\ pc' = "target"
          /\ UNCHANGED <<journal, head, mode, todo>>
      BY <1>16, <2>2 DEF StartCommit
    <3> QED
      BY <2>1, <3>1
  <2>3. CASE head[CommitRepo] # journal.base[CommitRepo]
    <3>1. pc = "commit" /\ mode = "fresh" /\ pc' = "commit"
          /\ UNCHANGED <<journal, head, mode>> /\ todo' \subseteq todo
      BY <1>16, <2>3 DEF StartCommit
    <3> QED
      BY <3>1
  <2> QED
    BY <2>2, <2>3
<1>17. CASE RecoverCommitRepo
  <2>1. /\ pc = "commit" /\ mode = "recovery" /\ CommitRepo \in todo
        /\ CommitRepo \in Enabled
    BY <1>17 DEF RecoverCommitRepo, Repo
  <2>2. ASSUME pc' \in {"target", "index", "cas"}, UNCHANGED <<journal, head, mode, todo>>,
               pc' = "target" <=> journal.target[CommitRepo] = NoSha
        PROVE  CycleControl'
    BY <2>1, <2>2 DEF JournalWellFormed, ValidJournal, ValidRepoPhaseState
  <2>3. ASSUME journal' = [journal EXCEPT !.target[CommitRepo] = head[CommitRepo],
                                          !.commit[CommitRepo] = "committed"],
               pc' = "commit", todo' = todo \ {CommitRepo}, UNCHANGED mode
        PROVE  CycleControl'
    BY <2>1, <2>3 DEF Journal
  <2> QED
    BY <1>17, <2>1, <2>2, <2>3, <1>R DEF RecoverCommitRepo
<1>18. CASE PrepareTarget
  <2>1. PICK sha : /\ sha # NoSha
                   /\ journal' = [journal EXCEPT !.target[CommitRepo] = sha,
                                                 !.commit[CommitRepo] = "prepared"]
    BY <1>18, PreparedTarget
  <2>2. /\ pc = "target" /\ pc' = "cas" /\ UNCHANGED <<mode, todo>>
        /\ CommitRepo \in Repo /\ CommitRepo' = CommitRepo
    BY <1>18 DEF PrepareTarget, Repo
  <2>3. /\ journal'.phase = journal.phase /\ journal'.target[CommitRepo] = sha
        /\ \A r \in Repo \ {CommitRepo} : journal'.target[r] = journal.target[r]
    BY <2>1, <2>2 DEF Journal
  <2> HIDE DEF CommitRepo
  <2> QED
    BY <2>1, <2>2, <2>3
<1>19. CASE UpdateBranch
  BY <1>19, <1>R DEF UpdateBranch
<1>20. CASE InstallIndex
  BY <1>20, <1>R DEF InstallIndex
<1>21. CASE MarkCommitted
  BY <1>21, <1>R
  DEF MarkCommitted, Journal, JournalWellFormed, ValidJournal,
      ValidRepoPhaseState
<1>22. CASE CommitDone
  BY <1>22, <1>R DEF CommitDone
<1>23. CASE EnterPushing
  BY <1>23, <1>R DEF EnterPushing, Journal
<1>24. CASE ProbeRemote
  BY <1>24, <1>R DEF ProbeRemote
<1>25. CASE PushHead
  BY <1>25, <1>R DEF PushHead
<1>26. CASE ConfirmPush
  BY <1>26, <1>R DEF ConfirmPush
<1>27. CASE MarkPushed
  BY <1>27, <1>R DEF MarkPushed, Journal
<1>28. CASE PushDone
  BY <1>28, <1>R DEF PushDone, Journal
<1>29. CASE ClearStaging
  BY <1>29, <1>R DEF ClearStaging
<1>30. CASE DeleteJournal
  BY <1>30, <1>R DEF DeleteJournal, NoJournal, Return
<1>31. CASE Crash
  BY <1>31, <1>R DEF Crash, Return
<1>32. CASE StepFails
  BY <1>32, <1>R DEF StepFails
<1>33. CASE CommitFails
  BY <1>33, <1>R DEF CommitFails
<1>34. CASE PushLost
  BY <1>34, <1>R DEF PushLost
<1>35. CASE \E daily \in BOOLEAN :
           \E observed \in {work["master"][Versions], Len(plan) + 1} \ {Absent} :
             Gate(daily, observed)
  BY <1>35, <1>R DEF Gate
<1>36. CASE \E i \in rest : PublishFile(i)
  BY <1>36, <1>R DEF PublishFile, Replace
<1>37. CASE \E i \in rest : RecoverPublishFile(i)
  BY <1>37, <1>R DEF RecoverPublishFile, Replace, CheckpointAs, Journal
<1>38. CASE \E r \in Repo : ForeignPush(r)
  BY <1>38, <1>R DEF ForeignPush
<1>39. CASE UNCHANGED vars
  BY <1>39, <1>R DEF vars
<1> QED
  BY <1>1, <1>2, <1>3, <1>4, <1>5, <1>6, <1>7, <1>8, <1>9, <1>10, <1>11, <1>12,
      <1>13, <1>14, <1>15, <1>16, <1>17, <1>18, <1>19, <1>20, <1>21, <1>22,
      <1>23, <1>24, <1>25, <1>26, <1>27, <1>28, <1>29, <1>30, <1>31, <1>32,
      <1>33, <1>34, <1>35, <1>36, <1>37, <1>38, <1>39
  DEF Next, Cycle, Recovery, Fresh, Publication, Commits, Pushes

\* No action of the process but the push changes a remote.
LEMMA OnlyPushHead ==
  ASSUME Next, NEW r \in Repo, ProcessPushes(r), foreign \in 0..MaxForeign
  PROVE  PushHead
<1>1. foreign' = foreign /\ remote' # remote
  BY DEF ProcessPushes
<1>2. ASSUME NEW x \in Repo, ForeignPush(x) PROVE FALSE
  <2>1. foreign' = foreign + 1
    BY <1>2 DEF ForeignPush
  <2> QED
    BY <1>1, <2>1, BoundsAssumption
<1>3. ~Recovery /\ ~Publication
  BY <1>1 DEF Recovery, Publication, NothingToRecover, RecoverCompleted,
    RecoverPublishing, RecoverCommitting, PublishFile, RecoverPublishFile,
    Checkpoint, PublicationDone, EnterCommitting
<1>4. ~Fresh
  BY <1>1 DEF Fresh, Gate, SkipCycle, PrepareRepo, Generate, GenerationFails,
    DeadlineExceeded, WritePublishingJournal, RemoteSnapshotFails
<1>5. ~Commits
  BY <1>1 DEF Commits, StartCommit, RecoverCommitRepo, PrepareTarget, UpdateBranch,
    InstallIndex, MarkCommitted, CommitDone
<1>6. Pushes => PushHead
  BY <1>1 DEF Pushes, EnterPushing, ProbeRemote, ConfirmPush, MarkPushed, PushDone,
    ClearStaging, DeleteJournal
<1>7. ~BeginCycle /\ ~Crash /\ ~StepFails /\ ~CommitFails /\ ~PushLost
  BY <1>1 DEF BeginCycle, Crash, StepFails, CommitFails, PushLost
<1> QED
  BY <1>2, <1>3, <1>4, <1>5, <1>6, <1>7 DEF Next, Cycle

-----------------------------------------------------------------------------
(***************************************************************************)
(* The theorems.                                                           *)
(***************************************************************************)

LEMMA InitInv == Init => IInv
<1> SUFFICES ASSUME Init PROVE IInv
  OBVIOUS
<1>1. TypeOK /\ NoEmptyBranch
  BY InitTyped, TypedParts
<1>2. Control
  BY DEF Init, NoJournal, Control, JournalWellFormed, ValidJournal, PhaseOfStep,
         TodoOfStep, TargetOfStep, AllCommitted, PushedPrefix, CommitSteps, PushSteps
<1> QED
  BY <1>1, <1>2 DEF IInv

LEMMA NextInv == IInv /\ [Next]_vars => IInv'
BY TypedStep, TypedParts, WellFormedStep, ControlStep
DEF IInv, Typed, TypeOK, NoEmptyBranch, JournalTyped, TreesTyped, BranchTyped,
    CycleTyped, PlanTyped, BoundsTyped, Control, CycleControl

\* The inductive invariant holds throughout.
THEOREM Invariance == Spec => []IInv
<1>1. Init => IInv
  BY InitInv
<1>2. IInv /\ [Next]_vars => IInv'
  BY NextInv
<1> QED
  BY <1>1, <1>2, PTL DEF Spec

\* Every variable keeps its type in every reachable state.
THEOREM TypeCorrect == Spec => []TypeOK
<1>1. IInv => TypeOK
  BY DEF IInv
<1> QED
  BY <1>1, Invariance, PTL

\* Every journal the updater ever has on disk obeys the schema that the next
\* process checks when it loads it: no crash leaves an unreadable transaction.
THEOREM JournalsWellFormed == Spec => []JournalWellFormed
<1>1. IInv => JournalWellFormed
  BY DEF IInv, Control
<1> QED
  BY <1>1, Invariance, PTL

\* The updater touches a remote only when every enabled repository has been
\* committed at its recorded target.
THEOREM PushesOnlyCommitted == Spec => PushOnlyCommitted
<1> DEFINE A == \A r \in Repo : ProcessPushes(r) =>
                  \A e \in Enabled : /\ journal.commit[e] = "committed"
                                     /\ head[e] = journal.target[e]
<1>1. IInv /\ [Next]_vars => [A]_vars
  <2> SUFFICES ASSUME IInv, Next, NEW r \in Repo, ProcessPushes(r)
               PROVE  \A e \in Enabled : /\ journal.commit[e] = "committed"
                                         /\ head[e] = journal.target[e]
    OBVIOUS
  <2>1. PushHead
    BY OnlyPushHead DEF IInv, TypeOK
  <2> QED
    BY <2>1 DEF PushHead, IInv, Control, AllCommitted, PushSteps
<1> QED
  BY <1>1, Invariance, PTL DEF Spec, PushOnlyCommitted

==============================================================================
