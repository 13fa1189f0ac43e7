-------------------------- MODULE RepoSharingProofs --------------------------
(***************************************************************************)
(* Theorems about RepoSharing: the update cycle keeps its promises on a    *)
(* repository it shares with the user information updater, and a marked    *)
(* date is one the remotes show.  For every set of enabled repositories,   *)
(* of files and of pages and for every bound.                              *)
(*                                                                         *)
(* The second updater works only between two cycles, so CycleInv           *)
(* (UpdateTransactionSafety), which is what a cycle needs, is inductive    *)
(* here too.  What the repositories look like between two cycles is the    *)
(* subject of this module.                                                 *)
(***************************************************************************)
EXTENDS RepoSharing, UpdateTransactionSafety

-----------------------------------------------------------------------------
(***************************************************************************)
(* The inductive invariant.                                                *)
(***************************************************************************)

\* The lock: the second updater runs only between two cycles.
Locked == ustep # "idle" => pc = "idle"

\* The files of r that belong to the updates alone.
Kept(r) == IF r = "master" THEN Files \ Pages ELSE Files

Like(r, t, u) == \A f \in Kept(r) : t[f] = u[f]

\* b continues a with commits of no transaction that change only pages.
Continues(r, a, b) ==
  /\ Ancestor(a, b)
  /\ \A k \in (Len(a) + 1)..Len(b) : b[k].by < 0 /\ Like(r, b[k].tree, TreeOf(a))

\* A branch of the pending transaction continues its base or its target.
OnBranch(r, sha) ==
  \/ Continues(r, journal.base[r], sha)
  \/ journal.target[r] # NoSha /\ Continues(r, journal.target[r], sha)

Branches == Open => \A r \in Enabled : OnBranch(r, head[r]) /\ OnBranch(r, remote[r])

\* No transaction has a page among its files.
PagesApart ==
  \A r \in Enabled : \A f \in Pages :
    /\ Open => journal.source[r][f] = Absent
    /\ pc = "snapshot" => staged[r][f] = Absent

\* Outside the manifest and the pages the working tree is that of the base.
WorkOffPages ==
  Open => \A r \in Enabled : \A f \in Kept(r) :
            journal.source[r][f] = Absent => work[r][f] = TreeOf(journal.base[r])[f]

\* The branch of a recorded commit holds it, and its index all but the pages.
CommittedKept ==
  Open => \A r \in Enabled : journal.commit[r] = "committed" =>
            /\ Ancestor(journal.target[r], head[r])
            /\ Like(r, index[r], TreeOf(journal.target[r]))

\* A cycle that has pushed ends with its branches at their targets.
AtTargets ==
  pc \in {"cleanup", "delete"} => \A r \in Enabled : head[r] = journal.target[r]

\* The working tree and the index differ from the branch in pages only.
OffPages ==
  /\ Like("master", work["master"], TreeOf(head["master"]))
  /\ Like("master", index["master"], TreeOf(head["master"]))

\* What the remote does not have yet are commits of the second updater.
OnTopOf(sha, published) ==
  \E k \in 0..Len(sha) :
    Ancestor(SubSeq(sha, 1, k), published) /\ UserCommits(sha, k + 1)

OnTop == OnTopOf(head["master"], remote["master"])

\* Between two transactions only the second updater is in the way of the next one.
Resting ==
  /\ ~Open \/ "master" \notin Enabled => OffPages /\ OnTop
  /\ ~Open /\ "i18n" \in Enabled =>
       Clean("i18n") /\ Ancestor(head["i18n"], remote["i18n"])

\* The same holds at its own steps, whatever transaction is pending.
UserPlace ==
  /\ ustep \in {"pages", "stage", "commit", "push"} => OffPages
  /\ ustep \in {"retained", "pages", "stage", "commit", "push"} => OnTop

\* A repository the second updater has soiled holds a page with new content.
EditsCounted ==
  /\ ustep \in {"pages", "stage"} => edits > 0 \/ Clean("master")
  /\ ustep = "commit" => edits > 0

\* The remotes show a transaction of this date.
DateShown(d) ==
  \E n \in 1..Len(plan) : due_of[n] = d /\ \A r \in Repo : Settled(r, n)

TxnSteps == {"publish", "checkpoint", "committing", "commit", "pushing", "cleanup",
             "delete"} \cup CommitSteps \cup PushSteps

\* The date of a cycle from its beginning to its mark.
Dates ==
  /\ pc = "idle" => ~daily
  /\ marking => pc = "idle" /\ due # NoDay /\ DateShown(due)
  /\ daily => due # NoDay
  /\ pc \in TxnSteps /\ mode = "fresh" => due_of[Len(plan)] = due
  /\ MarkedDateShown

Sharing == /\ Locked /\ Branches /\ PagesApart /\ WorkOffPages /\ CommittedKept
           /\ AtTargets /\ Resting /\ UserPlace /\ EditsCounted /\ Dates

SharedInv == SharingTypeOK /\ CycleInv /\ Sharing

-----------------------------------------------------------------------------
(***************************************************************************)
(* Who moves.                                                              *)
(***************************************************************************)

\* A step of the cycle, of its process or of the world; none of a running cycle
\* while the second updater holds the lock.
CycleStep == /\ [Next]_vars /\ UNCHANGED user
             /\ ustep # "idle" => pc = "idle" /\ pc' = "idle"

\* A step that leaves the repositories, the journal and the cycle alone.
OtherStep ==
  /\ UNCHANGED <<durable, remote, pc, mode, cursor, candidate, version_info, plan,
                 foreign>>
  /\ faults' = faults \/ Fault
  /\ UNCHANGED user \/ UserBegin \/ UserEnds

LEMMA SharedSteps ==
  ASSUME SharingTypeOK, Locked, [SharedNext]_shared
  PROVE  CycleStep \/ OtherStep \/ UserRuns
<1>1. CASE SharedBegin
  BY <1>1 DEF SharedBegin, CycleStep, BeginCycle, Next, Cycle
<1>2. CASE SharedSkip \/ MarkDaily \/ DayPasses \/ UserBegin
  BY <1>2 DEF SharedSkip, MarkDaily, DayPasses, UserBegin, OtherStep, vars, bounds
<1>3. CASE SharedGate
  <2>1. pc # "idle" /\ UNCHANGED user
    BY <1>3 DEF SharedGate, Gate, CycleDate
  <2>2. Next
    BY <1>3 DEF SharedGate, Next, Cycle, Fresh, SharingTypeOK
  <2> QED
    BY <2>1, <2>2 DEF CycleStep, Locked
<1>4. CASE SharedGeneration
  <2>1. pc # "idle" /\ UNCHANGED user
    BY <1>4 DEF SharedGeneration, SkipCycle, PrepareRepo, Generate, GenerationFails,
      WritePublishingJournal, RemoteSnapshotFails, DeadlineExceeded, CycleDate
  <2>2. Next
    BY <1>4 DEF SharedGeneration, Next, Cycle, Fresh
  <2> QED
    BY <2>1, <2>2 DEF CycleStep, Locked
<1>5. CASE SharedCycle
  <2>1. UNCHANGED user /\ Next
    BY <1>5 DEF SharedCycle, CycleDate, Next, Cycle
  <2>2. CASE Recovery \/ Publication
    BY <2>1, <2>2
    DEF Recovery, NothingToRecover, RecoverCompleted, RecoverPublishing,
      RecoverCommitting, Publication, PublishFile, RecoverPublishFile, Checkpoint,
      PublicationDone, EnterCommitting, CycleStep, Locked
  <2>3. CASE Commits \/ Pushes
    BY <2>1, <2>3
    DEF Commits, StartCommit, RecoverCommitRepo, PrepareTarget, UpdateBranch,
      InstallIndex, MarkCommitted, CommitDone, Pushes, EnterPushing, ProbeRemote,
      PushHead, ConfirmPush, MarkPushed, PushDone, ClearStaging, DeleteJournal,
      CycleStep, Locked
  <2> QED
    BY <1>5, <2>2, <2>3 DEF SharedCycle
<1>6. CASE SharedCrash
  BY <1>6 DEF SharedCrash, Crash, CycleStep, Next, Locked
<1>7. CASE SharedFailure
  <2>1. pc # "idle" /\ UNCHANGED user
    BY <1>7 DEF SharedFailure, StepFails, CommitFails, PushLost, CycleDate
  <2>2. Next
    BY <1>7 DEF SharedFailure, Next
  <2> QED
    BY <2>1, <2>2 DEF CycleStep, Locked
<1>8. CASE SharedForeignPush
  <2>1. ForeignPush("master") /\ UNCHANGED user /\ pc' = pc
    BY <1>8 DEF SharedForeignPush, ForeignPush
  <2>2. Next
    BY <2>1 DEF Next, Repo
  <2> QED
    BY <2>1, <2>2 DEF CycleStep, Locked
<1>9. CASE MarkDailyFails \/ UserStops
  BY <1>9 DEF MarkDailyFails, UserStops, OtherStep
<1>10. CASE UNCHANGED shared
  BY <1>10 DEF shared, CycleStep, Locked, vars
<1> QED
  BY <1>1, <1>2, <1>3, <1>4, <1>5, <1>6, <1>7, <1>8, <1>9, <1>10
  DEF SharedNext, CycleRuns

-----------------------------------------------------------------------------
\* What a step of the second updater does to the master repository.
Fetches ==
  /\ Clean("master") /\ Ancestor(head["master"], remote["master"])
  /\ head'["master"] = remote["master"] /\ UNCHANGED remote
  /\ work'["master"] = TreeOf(remote["master"])
  /\ index'["master"] = TreeOf(remote["master"])
  /\ ustep' = "pages"

Edits ==
  /\ ustep \in {"pages", "stage"} /\ ustep' \in {"idle", "pages", "stage", "commit"}
  /\ UNCHANGED <<head, remote>>
  /\ Like("master", work'["master"], work["master"])
  /\ Like("master", index'["master"], index["master"])

CommitsPages(c) ==
  /\ ustep = "commit" /\ ustep' = "push"
  /\ c.by < -MaxForeign /\ c.tree = index["master"]
  /\ head'["master"] = Append(head["master"], c)
  /\ UNCHANGED <<work, index, remote>>

PushesPages ==
  /\ ustep \in {"retained", "push"} /\ ustep' \in {"idle", "again"}
  /\ Ancestor(remote["master"], head["master"])
  /\ remote'["master"] = head["master"]
  /\ UNCHANGED <<head, work, index>>

Looks ==
  /\ UNCHANGED <<head, work, index, remote>>
  /\ \/ ustep' \in {"idle", "again"}
     \/ /\ ustep' = "retained" /\ Ancestor(remote["master"], head["master"])
        /\ AheadOwned(head["master"], remote["master"])

UserTyped == /\ ustep \in UserStep /\ pages \subseteq Pages /\ edits \in 0..MaxEdits
             /\ ustep # "pages" => pages = {}

LEMMA MasterTypes ==
  ASSUME SharingTypeOK, NoEmptyBranch
  PROVE  /\ head["master"] \in Sha /\ remote["master"] \in Sha
         /\ head["master"] # NoSha /\ remote["master"] # NoSha
         /\ TreeOf(head["master"]) \in Tree /\ TreeOf(remote["master"]) \in Tree
         /\ work["master"] \in Tree /\ index["master"] \in Tree
         /\ "master" \in Repo
BY TreeOfType DEF SharingTypeOK, TypeOK, NoEmptyBranch, Repo

\* They are all it does, and keep the types.
LEMMA UserEffects ==
  ASSUME SharingTypeOK, NoEmptyBranch, Locked, EditsCounted, UserRuns
  PROVE  /\ pc = "idle" /\ ustep # "idle" /\ CycleUntouched
         /\ UNCHANGED <<journal, staged, days>>
         /\ \A r \in Repo \ {"master"} :
              /\ head'[r] = head[r] /\ remote'[r] = remote[r]
              /\ work'[r] = work[r] /\ index'[r] = index[r]
         /\ TreesTyped' /\ BranchTyped' /\ UserTyped' /\ EditsCounted'
         /\ \/ Fetches \/ Edits \/ PushesPages \/ Looks
            \/ \E c \in Commit : CommitsPages(c)
<1> USE DEF durable
<1>P. /\ head \in [Repo -> Sha] /\ remote \in [Repo -> Sha]
      /\ work \in [Repo -> Tree] /\ index \in [Repo -> Tree] /\ staged \in [Repo -> Tree]
      /\ TreesTyped /\ BranchTyped /\ UserTyped
  BY DEF SharingTypeOK, TypeOK, NoEmptyBranch, TreesTyped, BranchTyped, UserTyped
<1>1. CASE UserFastForward
  <2>1. /\ head' = [head EXCEPT !["master"] = remote["master"]]
        /\ work' = [work EXCEPT !["master"] = TreeOf(remote["master"])]
        /\ index' = [index EXCEPT !["master"] = TreeOf(remote["master"])]
        /\ ustep \in {"prepare", "again"} /\ ustep' = "pages" /\ pages' = Pages
        /\ UNCHANGED <<journal, staged, remote, days, edits>> /\ CycleUntouched
        /\ Clean("master") /\ Ancestor(head["master"], remote["master"])
    BY <1>1 DEF UserFastForward, Prepares
  <2>2. TreesTyped' /\ BranchTyped'
    BY <1>P, <2>1, MasterTypes DEF TreesTyped, BranchTyped
  <2>3. UserTyped'
    BY <1>P, <2>1 DEF UserTyped, UserStep
  <2>4. Fetches
    BY <1>P, <2>1, MasterTypes DEF Fetches
  <2>5. pc = "idle" /\ ustep # "idle"
    BY <2>1 DEF Locked
  <2>6. EditsCounted'
    BY <2>4 DEF Fetches, EditsCounted, Clean
  <2> QED
    BY <1>P, <2>1, <2>2, <2>3, <2>4, <2>5, <2>6
<1>2. CASE UserAhead \/ UserBlocked
  <2>1. /\ ustep \in {"prepare", "again"}
        /\ UNCHANGED <<journal, staged, head, work, index, remote, days, edits>>
        /\ CycleUntouched /\ pages' \in {pages, {}} /\ ustep' \in {"retained", "idle"}
        /\ ustep' = "retained" =>
             /\ pages' = pages /\ Ancestor(remote["master"], head["master"])
             /\ AheadOwned(head["master"], remote["master"])
    BY <1>2 DEF UserAhead, UserBlocked, Prepares, UserGoto, UserEnds, Ahead
  <2>2. TreesTyped' /\ BranchTyped'
    BY <1>P, <2>1 DEF TreesTyped, BranchTyped
  <2>3. UserTyped'
    BY <1>P, <2>1 DEF UserTyped, UserStep
  <2>4. Looks /\ pc = "idle" /\ ustep # "idle" /\ EditsCounted'
    BY <2>1 DEF Looks, Locked, EditsCounted
  <2> QED
    BY <2>1, <2>2, <2>3, <2>4
<1>3. CASE UserPushRetained \/ UserPush
  <2>1. /\ ustep \in {"retained", "push"} /\ ustep' \in {"idle", "again"}
        /\ UNCHANGED <<journal, staged, work, index, head, days, edits>>
        /\ CycleUntouched /\ pages' \in {pages, {}}
        /\ remote' = [remote EXCEPT !["master"] = Pushed(head["master"], remote["master"])]
    BY <1>3 DEF UserPushRetained, UserPush, PushMaster, UserGoto, UserEnds
  <2>2. Pushed(head["master"], remote["master"]) \in Sha \ {NoSha}
    BY MasterTypes DEF Pushed
  <2>3. /\ remote' \in [Repo -> Sha]
        /\ remote'["master"] = Pushed(head["master"], remote["master"])
        /\ \A r \in Repo \ {"master"} : remote'[r] = remote[r]
    BY <1>P, <2>1, <2>2, MasterTypes
  <2>4. TreesTyped' /\ BranchTyped'
    BY <1>P, <2>1, <2>2, <2>3 DEF TreesTyped, BranchTyped
  <2>5. UserTyped'
    BY <1>P, <2>1 DEF UserTyped, UserStep
  <2>6. PushesPages \/ Looks
    <3>1. CASE Ancestor(remote["master"], head["master"])
      BY <2>1, <2>3, <3>1 DEF PushesPages, Pushed
    <3>2. CASE ~Ancestor(remote["master"], head["master"])
      <4>1. remote' = remote
        BY <1>P, <2>1, <3>2 DEF Pushed
      <4> QED
        BY <2>1, <4>1 DEF Looks
    <3> QED
      BY <3>1, <3>2
  <2>7. pc = "idle" /\ ustep # "idle" /\ EditsCounted'
    BY <2>1 DEF Locked, EditsCounted
  <2> QED
    BY <2>1, <2>3, <2>4, <2>5, <2>6, <2>7
<1>4. ASSUME NEW f \in pages, UserWrite(f)
      PROVE  /\ pc = "idle" /\ ustep # "idle" /\ CycleUntouched
             /\ UNCHANGED <<journal, staged, days>>
             /\ \A r \in Repo \ {"master"} :
                  /\ head'[r] = head[r] /\ remote'[r] = remote[r]
                  /\ work'[r] = work[r] /\ index'[r] = index[r]
             /\ TreesTyped' /\ BranchTyped' /\ UserTyped' /\ EditsCounted'
             /\ Edits
  <2>1. /\ ustep = "pages" /\ f \in Pages /\ f \in Files
        /\ UNCHANGED <<journal, staged, index, head, remote, days>> /\ CycleUntouched
        /\ pages' = pages \ {f} /\ ustep' = IF pages' = {} THEN "stage" ELSE "pages"
        /\ \/ UNCHANGED <<work, edits>>
           \/ /\ edits < MaxEdits /\ edits' = edits + 1
              /\ work' = [work EXCEPT !["master"][f] = edits']
    BY <1>P, <1>4, FilesAssumption DEF UserWrite, UserTyped, Pages
  <2>2. /\ edits' \in 0..MaxEdits /\ work' \in [Repo -> Tree]
        /\ \A r \in Repo \ {"master"} : work'[r] = work[r]
        /\ \A g \in Files \ {f} : work'["master"][g] = work["master"][g]
    <3>1. CASE UNCHANGED <<work, edits>>
      BY <1>P, <3>1 DEF UserTyped
    <3>2. CASE /\ edits < MaxEdits /\ edits' = edits + 1
               /\ work' = [work EXCEPT !["master"][f] = edits']
      <4>1. edits' \in 0..MaxEdits /\ edits' \in Content
        BY <1>P, <3>2, SharingBounds DEF UserTyped, Content
      <4>2. [work["master"] EXCEPT ![f] = edits'] \in Tree
        BY <4>1, MasterTypes DEF Tree
      <4> QED
        BY <1>P, <2>1, <3>2, <4>1, <4>2, MasterTypes DEF Tree
    <3> QED
      BY <2>1, <3>1, <3>2
  <2>3. TreesTyped' /\ BranchTyped'
    BY <1>P, <2>1, <2>2 DEF TreesTyped, BranchTyped
  <2>4. UserTyped'
    BY <1>P, <2>1, <2>2 DEF UserTyped, UserStep
  <2>5. Edits
    BY <2>1, <2>2 DEF Edits, Like, Kept
  <2>6. pc = "idle" /\ EditsCounted'
    <3>1. ustep' \in {"pages", "stage"} /\ edits \in Nat
      BY <1>P, <2>1 DEF UserTyped
    <3>2. edits' > 0 \/ UNCHANGED <<work, edits, index, head>>
      BY <2>1, <3>1
    <3> QED
      BY <2>1, <3>1, <3>2 DEF Locked, EditsCounted, Clean
  <2> QED
    BY <2>1, <2>2, <2>3, <2>4, <2>5, <2>6
<1>5. CASE UserStage
  <2> DEFINE staging == [f \in Files |-> IF f \in Pages THEN work["master"][f]
                                         ELSE index["master"][f]]
  <2>1. /\ ustep = "stage" /\ ustep' \in {"idle", "commit"} /\ pages' \in {pages, {}}
        /\ UNCHANGED <<journal, staged, work, head, remote, days, edits>>
        /\ CycleUntouched
        /\ UNCHANGED index \/ index' = [index EXCEPT !["master"] = staging]
    BY <1>5 DEF UserStage, UserEnds, UserGoto
  <2>2. /\ staging \in Tree
        /\ \A f \in Files \ Pages : staging[f] = index["master"][f]
    BY MasterTypes DEF Tree
  <2> HIDE DEF staging
  <2>3. /\ index' \in [Repo -> Tree]
        /\ \A r \in Repo \ {"master"} : index'[r] = index[r]
        /\ index'["master"] \in {index["master"], staging}
    BY <1>P, <2>1, <2>2, MasterTypes
  <2>4. TreesTyped' /\ BranchTyped'
    BY <1>P, <2>1, <2>3 DEF TreesTyped, BranchTyped
  <2>5. UserTyped'
    BY <1>P, <2>1 DEF UserTyped, UserStep
  <2>6. Edits
    BY <2>1, <2>2, <2>3 DEF Edits, Like, Kept
  <2>7. pc = "idle" /\ EditsCounted'
    <3>1. edits > 0 \/ ustep' = "idle"
      BY <1>5 DEF UserStage, UserEnds, EditsCounted
    <3> QED
      BY <2>1, <3>1 DEF Locked, EditsCounted
  <2> QED
    BY <2>1, <2>3, <2>4, <2>5, <2>6, <2>7
<1>6. CASE UserCommit
  <2> DEFINE c == [by |-> -(MaxForeign + edits), tree |-> index["master"]]
  <2>1. /\ ustep = "commit" /\ ustep' = "push" /\ UNCHANGED <<pages, edits>>
        /\ UNCHANGED <<journal, staged, work, index, remote, days>> /\ CycleUntouched
        /\ head' = [head EXCEPT !["master"] = Append(head["master"], c)]
    BY <1>6 DEF UserCommit, UserGoto
  <2>2. c \in Commit
    BY <1>P, MasterTypes, BoundsAssumption, SharingBounds DEF Commit, UserTyped
  <2>3. Append(head["master"], c) \in Sha /\ Append(head["master"], c) # NoSha
    <3> HIDE DEF c
    <3> QED
      BY <2>2, MasterTypes DEF Sha, NoSha
  <2>4. /\ head' \in [Repo -> Sha] /\ head'["master"] = Append(head["master"], c)
        /\ \A r \in Repo : head'[r] # NoSha
        /\ \A r \in Repo \ {"master"} : head'[r] = head[r]
    <3> HIDE DEF c
    <3> QED
      BY <1>P, <2>1, <2>3, MasterTypes DEF BranchTyped
  <2>5. TreesTyped' /\ BranchTyped'
    BY <1>P, <2>1, <2>4 DEF TreesTyped, BranchTyped
  <2>6. UserTyped' /\ EditsCounted'
    BY <1>P, <2>1 DEF UserTyped, UserStep, EditsCounted
  <2>7. CommitsPages(c)
    <3>1. c.by < -MaxForeign
      BY <1>P, <2>1, BoundsAssumption DEF EditsCounted, UserTyped
    <3> QED
      BY <2>1, <2>4, <3>1 DEF CommitsPages
  <2>8. pc = "idle"
    BY <2>1 DEF Locked
  <2>9. \E k \in Commit : CommitsPages(k)
    BY <2>2, <2>7
  <2> HIDE DEF c
  <2> QED
    BY <2>1, <2>4, <2>5, <2>6, <2>8, <2>9
<1> QED
  BY <1>1, <1>2, <1>3, <1>4, <1>5, <1>6 DEF UserRuns

-----------------------------------------------------------------------------
(***************************************************************************)
(* Lemmas about branches.                                                  *)
(***************************************************************************)

\* To agree on a repository's own files is an equivalence.
LEMMA LikeOrder ==
  ASSUME NEW r, NEW t, NEW u, NEW v
  PROVE  /\ Like(r, t, t)
         /\ Like(r, t, u) => Like(r, u, t)
         /\ Like(r, t, u) /\ Like(r, u, v) => Like(r, t, v)
BY DEF Like

\* A branch that continues another has its tree, but for the pages, and goes on
\* with every commit of that kind.
LEMMA ContinuesFacts ==
  ASSUME NEW r, NEW a \in Sha, a # NoSha, NEW b \in Sha, b # NoSha
  PROVE  /\ Continues(r, a, a)
         /\ Continues(r, a, b) => Like(r, TreeOf(b), TreeOf(a))
         /\ \A c \in Commit :
              Continues(r, a, b) /\ c.by < 0 /\ Like(r, c.tree, TreeOf(b))
                => Continues(r, a, Append(b, c))
<1>1. Len(a) \in Nat /\ Len(b) \in Nat /\ Len(b) > 0
  BY DEF Sha, NoSha
<1>2. Continues(r, a, a)
  BY <1>1, AncestorOrder DEF Continues
<1>3. ASSUME Continues(r, a, b) PROVE Like(r, TreeOf(b), TreeOf(a))
  <2>1. Len(a) <= Len(b) /\ \A k \in 1..Len(a) : a[k] = b[k]
    BY <1>3, AncestorPoints DEF Continues
  <2>2. CASE Len(a) = Len(b)
    <3>1. TreeOf(a) = TreeOf(b)
      BY <1>1, <2>1, <2>2 DEF TreeOf
    <3> QED
      BY <3>1, LikeOrder
  <2>3. CASE Len(a) < Len(b)
    <3>1. Len(b) \in (Len(a) + 1)..Len(b)
      BY <1>1, <2>3
    <3> QED
      BY <1>3, <3>1 DEF Continues, TreeOf
  <2> QED
    BY <1>1, <2>1, <2>2, <2>3
<1>4. ASSUME NEW c \in Commit, Continues(r, a, b), c.by < 0, Like(r, c.tree, TreeOf(b))
      PROVE  Continues(r, a, Append(b, c))
  <2> DEFINE d == Append(b, c)
  <2>1. /\ d \in Sha /\ Ancestor(b, d) /\ Len(d) = Len(b) + 1 /\ d[Len(b) + 1] = c
        /\ \A k \in 1..Len(b) : d[k] = b[k]
    BY <1>1, AncestorAppend DEF Sha
  <2> HIDE DEF d
  <2>2. Ancestor(a, d)
    BY <1>4, <2>1, AncestorOrder DEF Continues
  <2>3. Like(r, c.tree, TreeOf(a))
    BY <1>3, <1>4, LikeOrder
  <2>4. ASSUME NEW k \in (Len(a) + 1)..Len(d)
        PROVE  d[k].by < 0 /\ Like(r, d[k].tree, TreeOf(a))
    <3>1. CASE k = Len(b) + 1
      BY <1>4, <2>1, <2>3, <3>1
    <3>2. CASE k # Len(b) + 1
      <4>1. k \in (Len(a) + 1)..Len(b) /\ k \in 1..Len(b)
        BY <1>1, <2>1, <3>2
      <4> QED
        BY <1>4, <2>1, <4>1 DEF Continues
    <3> QED
      BY <3>1, <3>2
  <2>5. Continues(r, a, d)
    BY <2>2, <2>4 DEF Continues
  <2> QED
    BY <2>5 DEF d
<1> QED
  BY <1>2, <1>3, <1>4

\* A beginning of a history is an ancestor of another when they agree on it.
LEMMA BeginningPoints ==
  ASSUME NEW a \in Sha, NEW b \in Sha, NEW k \in 0..Len(a)
  PROVE  Ancestor(SubSeq(a, 1, k), b) <=> k <= Len(b) /\ \A i \in 1..k : a[i] = b[i]
<1> DEFINE p == SubSeq(a, 1, k)
<1>1. p \in Sha /\ Len(p) = k /\ \A i \in 1..k : p[i] = a[i]
  BY DEF Sha
<1> HIDE DEF p
<1>2. Ancestor(p, b) <=> k <= Len(b) /\ \A i \in 1..k : a[i] = b[i]
  BY <1>1, AncestorPoints
<1> QED
  BY <1>2 DEF p

\* A branch whose remote has all but its last commits of the second updater.
LEMMA OnTopFacts ==
  ASSUME NEW a \in Sha, NEW b \in Sha
  PROVE  /\ Ancestor(a, b) => OnTopOf(a, b)
         /\ \A c \in Sha : OnTopOf(a, b) /\ Ancestor(b, c) => OnTopOf(a, c)
         /\ \A c \in Commit :
              OnTopOf(a, b) /\ c.by < -MaxForeign => OnTopOf(Append(a, c), b)
         /\ Ancestor(b, a) /\ AheadOwned(a, b) => OnTopOf(a, b)
         /\ \A n \in Nat : OnTopOf(a, b) /\ Contains(a, n) => Contains(b, n)
<1>1. Len(a) \in Nat /\ Len(b) \in Nat /\ MaxForeign \in Nat
  BY BoundsAssumption DEF Sha
<1>2. ASSUME Ancestor(a, b) PROVE OnTopOf(a, b)
  <2>1. Len(a) \in 0..Len(a) /\ Ancestor(SubSeq(a, 1, Len(a)), b)
    BY <1>1, <1>2, AncestorPoints, BeginningPoints
  <2>2. UserCommits(a, Len(a) + 1)
    BY <1>1 DEF UserCommits
  <2> QED
    BY <2>1, <2>2 DEF OnTopOf
<1>3. ASSUME NEW c \in Sha, OnTopOf(a, b), Ancestor(b, c) PROVE OnTopOf(a, c)
  <2>1. PICK k \in 0..Len(a) : Ancestor(SubSeq(a, 1, k), b) /\ UserCommits(a, k + 1)
    BY <1>3 DEF OnTopOf
  <2>2. SubSeq(a, 1, k) \in Sha
    BY <1>1 DEF Sha
  <2>3. Ancestor(SubSeq(a, 1, k), c)
    BY <1>3, <2>1, <2>2, AncestorOrder
  <2> QED
    BY <2>1, <2>3 DEF OnTopOf
<1>4. ASSUME NEW c \in Commit, OnTopOf(a, b), c.by < -MaxForeign
      PROVE  OnTopOf(Append(a, c), b)
  <2> DEFINE d == Append(a, c)
  <2>1. /\ d \in Sha /\ Len(d) = Len(a) + 1 /\ d[Len(a) + 1] = c
        /\ \A k \in 1..Len(a) : d[k] = a[k]
    BY <1>1 DEF Sha
  <2> HIDE DEF d
  <2>2. PICK k \in 0..Len(a) : Ancestor(SubSeq(a, 1, k), b) /\ UserCommits(a, k + 1)
    BY <1>4 DEF OnTopOf
  <2>3. k \in 0..Len(d) /\ Ancestor(SubSeq(d, 1, k), b)
    <3>1. k <= Len(b) /\ \A i \in 1..k : a[i] = b[i]
      BY <2>2, BeginningPoints
    <3>2. k \in 0..Len(d) /\ \A i \in 1..k : d[i] = a[i]
      BY <1>1, <2>1
    <3> QED
      BY <2>1, <3>1, <3>2, BeginningPoints
  <2>4. UserCommits(d, k + 1)
    <3>1. ASSUME NEW i \in (k + 1)..Len(d) PROVE d[i].by < -MaxForeign
      <4>1. CASE i = Len(a) + 1
        BY <1>4, <2>1, <4>1
      <4>2. CASE i # Len(a) + 1
        <5>1. i \in (k + 1)..Len(a) /\ i \in 1..Len(a)
          BY <1>1, <2>1, <4>2
        <5> QED
          BY <2>1, <2>2, <5>1 DEF UserCommits
      <4> QED
        BY <4>1, <4>2
    <3> QED
      BY <3>1 DEF UserCommits
  <2>5. OnTopOf(d, b)
    BY <2>3, <2>4 DEF OnTopOf
  <2> QED
    BY <2>5 DEF d
<1>5. ASSUME Ancestor(b, a), AheadOwned(a, b) PROVE OnTopOf(a, b)
  <2>1. Len(b) <= Len(a) /\ \A i \in 1..Len(b) : b[i] = a[i]
    BY <1>5, AncestorPoints
  <2>2. Len(b) \in 0..Len(a) /\ Ancestor(SubSeq(a, 1, Len(b)), b)
    BY <1>1, <2>1, BeginningPoints
  <2>3. UserCommits(a, Len(b) + 1)
    BY <1>5 DEF AheadOwned, OwnCommit, UserCommits
  <2> QED
    BY <2>2, <2>3 DEF OnTopOf
<1>6. ASSUME NEW n \in Nat, OnTopOf(a, b), Contains(a, n) PROVE Contains(b, n)
  <2>1. PICK k \in 0..Len(a) : Ancestor(SubSeq(a, 1, k), b) /\ UserCommits(a, k + 1)
    BY <1>6 DEF OnTopOf
  <2>2. PICK i \in 1..Len(a) : a[i].by = n
    BY <1>6 DEF Contains
  <2>3. k <= Len(b) /\ \A m \in 1..k : a[m] = b[m]
    BY <2>1, BeginningPoints
  <2>4. i <= k
    <3>1. CASE i > k
      <4>1. i \in (k + 1)..Len(a)
        BY <1>1, <3>1
      <4>2. a[i].by < -MaxForeign
        BY <2>1, <4>1 DEF UserCommits
      <4> QED
        BY <1>1, <2>2, <4>2
    <3> QED
      BY <3>1
  <2>5. i \in 1..Len(b) /\ b[i].by = n
    BY <1>1, <2>2, <2>3, <2>4
  <2> QED
    BY <2>5 DEF Contains
<1> QED
  BY <1>2, <1>3, <1>4, <1>5, <1>6

\* A branch of the pending transaction that has passed its target continues it.
LEMMA TargetContinues ==
  ASSUME CycleInv, Open, NEW r \in Enabled, NEW b \in Sha, OnBranch(r, b),
         Ancestor(TargetOf(r), b)
  PROVE  Continues(r, TargetOf(r), b)
<1>0. JournalOfPlan /\ IInv
  BY DEF CycleInv
<1>1. CASE journal.target[r] # NoSha /\ Continues(r, journal.target[r], b)
  BY <1>0, <1>1 DEF JournalOfPlan
<1>2. CASE Continues(r, journal.base[r], b)
  <2> DEFINE base == journal.base[r]
             c    == [by |-> Len(plan), tree |-> Txn.tree[r]]
  <2>1. CASE TargetOf(r) = base
    BY <1>2, <2>1
  <2>2. CASE TargetOf(r) = Append(base, c)
    <3>1. /\ base \in Sha /\ Len(base) \in Nat /\ Len(plan) \in Nat /\ Len(plan) > 0
          /\ TargetOf(r) \in Sha
      BY <1>0, Values, TargetFacts DEF JournalOfPlan, Sha
    <3>2. Len(TargetOf(r)) = Len(base) + 1 /\ TargetOf(r)[Len(base) + 1] = c
      BY <2>2, <3>1, TargetFacts, <1>0 DEF Sha
    <3>3. Len(TargetOf(r)) <= Len(b) /\ \A k \in 1..Len(TargetOf(r)) : TargetOf(r)[k] = b[k]
      BY <3>1, AncestorPoints
    <3>4. /\ Len(base) + 1 \in (Len(base) + 1)..Len(b)
          /\ b[Len(base) + 1] = c
      BY <3>1, <3>2, <3>3
    <3>5. b[Len(base) + 1].by < 0
      BY <1>2, <3>4 DEF Continues
    <3> QED
      BY <3>1, <3>4, <3>5
  <2> QED
    BY <2>1, <2>2 DEF TargetOf
<1> QED
  BY <1>1, <1>2 DEF OnBranch

-----------------------------------------------------------------------------
(***************************************************************************)
(* The second updater keeps what a cycle needs.                            *)
(***************************************************************************)

\* The types of the step before and after it.
LEMMA UserTypes ==
  ASSUME SharedInv, UserRuns
  PROVE  IInv' /\ UserTyped'
<1>1. /\ TypeOK /\ NoEmptyBranch /\ Control /\ Typed
  BY TypedParts DEF SharedInv, SharingTypeOK, CycleInv, IInv
<1>2. /\ pc = "idle" /\ CycleUntouched /\ UNCHANGED journal
      /\ TreesTyped' /\ BranchTyped' /\ UserTyped'
  BY <1>1, UserEffects DEF SharedInv, Sharing
<1>3. Typed'
  BY <1>1, <1>2, Frames DEF Typed, CycleUntouched
<1>4. Control'
  <2>1. UNCHANGED <<pc, mode, todo, journal>> /\ CommitRepo' = CommitRepo
    BY <1>2 DEF CycleUntouched, cursor, CommitRepo
  <2> QED
    BY <1>1, <1>2, <2>1
    DEF Control, JournalWellFormed, PhaseOfStep, TodoOfStep, TargetOfStep,
      AllCommitted, PushedPrefix, CommitSteps, PushSteps
<1>5. TypeOK' /\ NoEmptyBranch'
  BY <1>3, TypedParts, PTL
<1> QED
  BY <1>2, <1>4, <1>5 DEF IInv

\* What it rests on, at one of its steps and the one after.
LEMMA UserFacts ==
  ASSUME SharedInv, UserRuns
  PROVE  /\ pc = "idle" /\ pc' = "idle"
         /\ UNCHANGED <<journal, staged, plan, mode, days>>
         /\ \A r \in Repo \ {"master"} :
              /\ head'[r] = head[r] /\ remote'[r] = remote[r]
              /\ work'[r] = work[r] /\ index'[r] = index[r]
         /\ \/ Fetches \/ Edits \/ PushesPages \/ Looks
            \/ \E c \in Commit : CommitsPages(c)
         /\ \A r \in Repo : /\ head[r] \in Sha /\ head[r] # NoSha
                            /\ remote[r] \in Sha /\ remote[r] # NoSha
                            /\ head'[r] \in Sha /\ head'[r] # NoSha
                            /\ remote'[r] \in Sha /\ remote'[r] # NoSha
         /\ "master" \in Repo /\ "i18n" \in Repo /\ Enabled \subseteq Repo
<1>1. SharingTypeOK /\ NoEmptyBranch /\ Locked /\ EditsCounted /\ IInv
  BY DEF SharedInv, Sharing, CycleInv, IInv
<1>2. /\ pc = "idle" /\ CycleUntouched /\ UNCHANGED <<journal, staged, days>>
      /\ \A r \in Repo \ {"master"} :
           /\ head'[r] = head[r] /\ remote'[r] = remote[r]
           /\ work'[r] = work[r] /\ index'[r] = index[r]
      /\ \/ Fetches \/ Edits \/ PushesPages \/ Looks
         \/ \E c \in Commit : CommitsPages(c)
  BY <1>1, UserEffects
<1>3. pc' = pc /\ UNCHANGED <<plan, mode>>
  BY <1>2 DEF CycleUntouched
<1>4. \A r \in Repo : /\ head[r] \in Sha /\ head[r] # NoSha
                      /\ remote[r] \in Sha /\ remote[r] # NoSha
  BY <1>1, Values
<1>5. \A r \in Repo : /\ head'[r] \in Sha /\ head'[r] # NoSha
                      /\ remote'[r] \in Sha /\ remote'[r] # NoSha
  BY UserTypes DEF IInv, TypeOK, NoEmptyBranch
<1>6. "master" \in Repo /\ "i18n" \in Repo /\ Enabled \subseteq Repo
  BY OptionsAssumption DEF Repo
<1> QED
  BY <1>2, <1>3, <1>4, <1>5, <1>6

\* It takes no commit from a remote, and shows no transaction there.
LEMMA UserRemote ==
  ASSUME SharedInv, UserRuns, NEW r \in Repo
  PROVE  /\ Ancestor(remote[r], remote'[r])
         /\ \A n \in Nat : Contains(remote'[r], n) <=> Contains(remote[r], n)
<1>1. remote[r] \in Sha
  BY UserFacts
<1>2. CASE remote'[r] = remote[r]
  BY <1>1, <1>2, AncestorOrder
<1>3. CASE PushesPages /\ r = "master"
  <2>1. /\ Ancestor(remote[r], head[r]) /\ remote'[r] = head[r] /\ head[r] \in Sha
        /\ OnTopOf(head[r], remote[r])
    BY <1>3, UserFacts DEF PushesPages, SharedInv, Sharing, UserPlace, OnTop
  <2>2. ASSUME NEW n \in Nat
        PROVE  Contains(head[r], n) <=> Contains(remote[r], n)
    BY <1>1, <2>1, OnTopFacts, ContainsGrows
  <2> QED
    BY <2>1, <2>2
<1>4. CASE r = "master" /\ ~PushesPages
  BY <1>1, <1>4, <1>2, UserFacts DEF Fetches, Edits, Looks, CommitsPages
<1> QED
  BY <1>2, <1>3, <1>4, UserFacts

LEMMA UserSettled ==
  ASSUME SharedInv, UserRuns, NEW r \in Repo, NEW n \in 1..Len(plan), Settled(r, n)
  PROVE  Settled(r, n)'
<1>1. n \in Nat /\ UNCHANGED plan
  BY UserFacts, Values DEF SharedInv, CycleInv
<1> QED
  BY <1>1, UserRemote DEF Settled

\* The files a transaction has placed stay there: the working tree it fetches shows
\* them too, and it writes nothing but pages.
LEMMA UserKeepsPlaced ==
  ASSUME SharedInv, UserRuns, Open, NEW g \in Files, "master" \in Enabled,
         journal.source["master"][g] # Absent,
         work["master"][g] = journal.source["master"][g]
  PROVE  work'["master"][g] = journal.source["master"][g]
<1> DEFINE r == "master"
<1>0. /\ CycleInv /\ IInv /\ JournalOfPlan /\ r \in Enabled /\ g \in Kept(r)
      /\ OnBranch(r, head[r]) /\ OnBranch(r, remote[r])
  BY DEF SharedInv, Sharing, CycleInv, PagesApart, Branches, Kept
<1>1. CASE UNCHANGED work
  BY <1>1
<1>2. CASE Edits
  BY <1>0, <1>2 DEF Edits, Like
<1>3. CASE Fetches
  <2>1. /\ Clean(r) /\ Ancestor(head[r], remote[r]) /\ work'[r] = TreeOf(remote[r])
    BY <1>3 DEF Fetches
  <2>2. /\ head[r] \in Sha /\ remote[r] \in Sha /\ head[r] # NoSha /\ remote[r] # NoSha
        /\ journal.base[r] \in Sha /\ journal.base[r] # NoSha
        /\ TargetOf(r) \in Sha /\ TargetOf(r) # NoSha
        /\ TreeOf(TargetOf(r)) = Txn.tree[r]
        /\ Txn.tree[r] = Overlay(journal.source[r], TreeOf(journal.base[r]))
    BY <1>0, UserFacts, Values, TargetFacts DEF JournalOfPlan
  <2>3. ASSUME Continues(r, TargetOf(r), remote[r]) PROVE work'[r][g] = journal.source[r][g]
    <3>1. Like(r, TreeOf(remote[r]), Txn.tree[r])
      BY <2>2, <2>3, ContinuesFacts
    <3>2. Txn.tree[r][g] = journal.source[r][g]
      BY <2>2 DEF Overlay
    <3> QED
      BY <1>0, <2>1, <3>1, <3>2 DEF Like
  <2>4. CASE Ancestor(TargetOf(r), remote[r])
    BY <1>0, <2>2, <2>3, <2>4, TargetContinues
  <2>5. CASE ~Ancestor(TargetOf(r), remote[r])
    <3>1. ~Ancestor(TargetOf(r), head[r])
      BY <2>1, <2>2, <2>5, AncestorOrder
    <3>2. Continues(r, journal.base[r], head[r]) /\ Continues(r, journal.base[r], remote[r])
      BY <1>0, <2>5, <3>1 DEF OnBranch, JournalOfPlan, Continues
    <3>3. /\ Like(r, TreeOf(head[r]), TreeOf(journal.base[r]))
          /\ Like(r, TreeOf(remote[r]), TreeOf(journal.base[r]))
      BY <2>2, <3>2, ContinuesFacts
    <3>4. Like(r, TreeOf(head[r]), TreeOf(remote[r]))
      BY <3>3 DEF Like
    <3> QED
      BY <1>0, <2>1, <3>4 DEF Like, Clean
  <2> QED
    BY <2>4, <2>5
<1> QED
  BY <1>1, <1>2, <1>3, UserFacts DEF PushesPages, Looks, CommitsPages

\* CycleInv is kept.
LEMMA UserKeepsHistories == SharedInv /\ UserRuns => HistoriesSound'
<1> SUFFICES ASSUME SharedInv, UserRuns, NEW r \in Repo
             PROVE  /\ SoundHistory(plan, r, head'[r], Len(plan))
                    /\ SoundHistory(plan, r, remote'[r], Len(plan))
  BY UserFacts DEF HistoriesSound
<1>1. /\ SoundHistory(plan, r, head[r], Len(plan))
      /\ SoundHistory(plan, r, remote[r], Len(plan))
      /\ head[r] \in Sha /\ remote[r] \in Sha /\ Len(plan) \in Nat
  BY UserFacts, Values DEF SharedInv, CycleInv, HistoriesSound
<1>2. ASSUME NEW c \in Commit, r = "master", CommitsPages(c)
      PROVE  SoundHistory(plan, r, head'[r], Len(plan)) /\ remote'[r] = remote[r]
  <2>1. c.by \in Int /\ c.by <= Len(plan) /\ ~(c.by > 0)
    BY <1>1, <1>2, BoundsAssumption DEF Commit, CommitsPages
  <2> QED
    BY <1>1, <1>2, <2>1, SoundAppend DEF CommitsPages
<1>3. CASE r = "master" /\ (Fetches \/ Edits \/ PushesPages \/ Looks)
  BY <1>1, <1>3 DEF Fetches, Edits, PushesPages, Looks
<1> QED
  BY <1>1, <1>2, <1>3, UserFacts

LEMMA UserKeepsPublication == SharedInv /\ UserRuns => PublishProgress'
<1> SUFFICES ASSUME SharedInv, UserRuns,
                    journal.phase \in {"committing", "pushing", "completed"},
                    NEW i \in Items
             PROVE  Placed(i)'
  BY UserFacts DEF PublishProgress, Items
<1>1. PICK e \in Enabled, g \in Files : i = <<e, g>> /\ journal.source[e][g] # Absent
  BY DEF Items
<1>2. Open /\ work[e][g] = journal.source[e][g]
  BY <1>1 DEF SharedInv, CycleInv, PublishProgress, Open, Placed
<1>3. work'[e][g] = journal.source[e][g]
  BY <1>1, <1>2, UserKeepsPlaced, UserFacts
<1> QED
  BY <1>1, <1>3, UserFacts DEF Placed

LEMMA UserKeepsCycleInv == SharedInv /\ UserRuns => CycleInv'
<1> SUFFICES ASSUME SharedInv, UserRuns PROVE CycleInv'
  OBVIOUS
<1>0. CycleInv /\ IInv /\ Len(plan) \in Nat
  BY Values DEF SharedInv, CycleInv
<1>1. pc = "idle" /\ pc' = "idle" /\ UNCHANGED <<journal, plan>>
  BY UserFacts
<1>2. JournalOfPlan'
  BY <1>0, <1>1 DEF CycleInv, JournalOfPlan, Open, Txn, TargetOf
<1>3. Prepared' /\ CommitPlace'
  BY <1>1 DEF Prepared, CommitPlace
<1>4. PushSeen'
  <2>1. ASSUME Open, NEW r \in Enabled, journal.push[r] = "pushed"
        PROVE  Ancestor(journal.target[r], remote'[r])
    <3>1. /\ r \in Repo /\ journal.target[r] \in Sha /\ remote[r] \in Sha /\ remote'[r] \in Sha
          /\ Ancestor(journal.target[r], remote[r])
      BY <1>0, <2>1, UserFacts, Values DEF CycleInv, PushSeen
    <3> QED
      BY <3>1, UserRemote, AncestorOrder
  <2> QED
    BY <1>1, <2>1 DEF PushSeen, Open
<1>5. LastInOrder'
  <2>1. ASSUME Open, Contains(remote'["master"], Len(plan))
        PROVE  Settled("i18n", Len(plan))'
    <3>1. Len(plan) \in 1..Len(plan) /\ Contains(remote["master"], Len(plan))
      BY <1>0, <2>1, UserRemote, UserFacts DEF CycleInv, JournalOfPlan
    <3>2. Settled("i18n", Len(plan))
      BY <1>0, <2>1, <3>1 DEF CycleInv, LastInOrder
    <3> QED
      BY <3>1, <3>2, UserSettled, UserFacts
  <2> QED
    BY <1>1, <2>1 DEF LastInOrder, Open
<1>6. NothingAbandoned'
  BY <1>0, <1>1, UserSettled DEF CycleInv, NothingAbandoned
<1> QED
  BY <1>2, <1>3, <1>4, <1>5, <1>6, UserTypes, UserKeepsHistories, UserKeepsPublication
  DEF CycleInv

-----------------------------------------------------------------------------
(***************************************************************************)
(* The second updater keeps what is said of the repositories.              *)
(***************************************************************************)

LEMMA UserKeepsBranches == SharedInv /\ UserRuns => Branches'
<1> SUFFICES ASSUME SharedInv, UserRuns, Open, NEW r \in Enabled
             PROVE  OnBranch(r, head[r])' /\ OnBranch(r, remote[r])'
  BY UserFacts DEF Branches, Open
<1>0. /\ r \in Repo /\ OnBranch(r, head[r]) /\ OnBranch(r, remote[r])
      /\ head[r] \in Sha /\ head[r] # NoSha /\ UNCHANGED journal
      /\ journal.base[r] \in Sha /\ journal.base[r] # NoSha /\ journal.target[r] \in Sha
  BY UserFacts, Values DEF SharedInv, Sharing, Branches, CycleInv
<1>1. CASE head'[r] \in {head[r], remote[r]} /\ remote'[r] \in {head[r], remote[r]}
  BY <1>0, <1>1 DEF OnBranch, Continues
<1>2. ASSUME NEW c \in Commit, r = "master", CommitsPages(c)
      PROVE  OnBranch(r, head[r])' /\ OnBranch(r, remote[r])'
  <2>1. /\ c.by < 0 /\ Like(r, c.tree, TreeOf(head[r]))
        /\ head'[r] = Append(head[r], c) /\ remote'[r] = remote[r]
    BY <1>2, BoundsAssumption
    DEF CommitsPages, SharedInv, Sharing, UserPlace, OffPages, Commit
  <2>2. OnBranch(r, Append(head[r], c))
    BY <1>0, <2>1, ContinuesFacts DEF OnBranch
  <2> QED
    BY <1>0, <2>1, <2>2 DEF OnBranch, Continues
<1>3. CASE r = "master" /\ (Fetches \/ Edits \/ PushesPages \/ Looks)
  <2>1. head'[r] \in {head[r], remote[r]} /\ remote'[r] \in {head[r], remote[r]}
    BY <1>3 DEF Fetches, Edits, PushesPages, Looks
  <2> QED
    BY <2>1, <1>1
<1> QED
  BY <1>0, <1>1, <1>2, <1>3, UserFacts

\* What it fetches while a transaction is pending is that of the base outside the
\* manifest.
LEMMA UserKeepsWork == SharedInv /\ UserRuns => WorkOffPages'
<1> SUFFICES ASSUME SharedInv, UserRuns, Open, NEW r \in Enabled, NEW f \in Kept(r),
                    journal.source[r][f] = Absent
             PROVE  work'[r][f] = TreeOf(journal.base[r])[f]
  BY UserFacts DEF WorkOffPages, Open
<1>0. /\ r \in Repo /\ f \in Files /\ OnBranch(r, remote[r]) /\ CycleInv /\ IInv
      /\ JournalOfPlan /\ work[r][f] = TreeOf(journal.base[r])[f]
  BY UserFacts DEF SharedInv, Sharing, Branches, WorkOffPages, CycleInv, Kept
<1>1. CASE work'[r] = work[r]
  BY <1>0, <1>1
<1>2. CASE r = "master" /\ Edits
  BY <1>0, <1>2 DEF Edits, Like
<1>3. CASE r = "master" /\ Fetches
  <2>1. /\ work'[r] = TreeOf(remote[r]) /\ remote[r] \in Sha /\ remote[r] # NoSha
        /\ journal.base[r] \in Sha /\ journal.base[r] # NoSha
        /\ TargetOf(r) \in Sha /\ TargetOf(r) # NoSha
        /\ TreeOf(TargetOf(r)) = Overlay(journal.source[r], TreeOf(journal.base[r]))
    BY <1>0, <1>3, UserFacts, Values, TargetFacts DEF Fetches, JournalOfPlan
  <2>2. \/ Continues(r, journal.base[r], remote[r])
        \/ Continues(r, TargetOf(r), remote[r])
    BY <1>0 DEF OnBranch, JournalOfPlan
  <2>3. \/ Like(r, TreeOf(remote[r]), TreeOf(journal.base[r]))
        \/ Like(r, TreeOf(remote[r]), TreeOf(TargetOf(r)))
    BY <2>1, <2>2, ContinuesFacts
  <2> QED
    BY <1>0, <2>1, <2>3 DEF Like, Overlay
<1> QED
  BY <1>0, <1>1, <1>2, <1>3, UserFacts DEF PushesPages, Looks, CommitsPages

\* A recorded commit stays under its branch, whatever is fetched or put on top of it.
LEMMA UserKeepsCommitted == SharedInv /\ UserRuns => CommittedKept'
<1> SUFFICES ASSUME SharedInv, UserRuns, Open, NEW r \in Enabled,
                    journal.commit[r] = "committed"
             PROVE  /\ Ancestor(journal.target[r], head'[r])
                    /\ Like(r, index'[r], TreeOf(journal.target[r]))
  BY UserFacts DEF CommittedKept, Open
<1>0. /\ r \in Repo /\ CycleInv /\ IInv /\ JournalOfPlan /\ OnBranch(r, remote[r])
      /\ Ancestor(journal.target[r], head[r])
      /\ Like(r, index[r], TreeOf(journal.target[r]))
  BY UserFacts DEF SharedInv, Sharing, Branches, CommittedKept, CycleInv
<1>1. journal.target[r] = TargetOf(r)
  BY <1>0 DEF CycleInv, IInv, Control, JournalWellFormed, ValidJournal,
    ValidRepoPhaseState, JournalOfPlan, Open
<1>2. /\ TargetOf(r) \in Sha /\ TargetOf(r) # NoSha
      /\ head[r] \in Sha /\ head'[r] \in Sha /\ remote[r] \in Sha /\ remote[r] # NoSha
  BY <1>0, UserFacts, TargetFacts
<1>3. CASE r = "master" /\ Fetches
  <2>1. head'[r] = remote[r] /\ index'[r] = TreeOf(remote[r]) /\ Ancestor(head[r], remote[r])
    BY <1>3 DEF Fetches
  <2>2. Ancestor(TargetOf(r), remote[r])
    BY <1>0, <1>1, <1>2, <2>1, AncestorOrder
  <2>3. Continues(r, TargetOf(r), remote[r])
    BY <1>0, <1>2, <2>2, TargetContinues
  <2>4. Like(r, TreeOf(remote[r]), TreeOf(TargetOf(r)))
    BY <1>2, <2>3, ContinuesFacts
  <2> QED
    BY <1>1, <2>1, <2>2, <2>4
<1>4. CASE r = "master" /\ Edits
  <2>1. head'[r] = head[r] /\ Like(r, index'[r], index[r])
    BY <1>4 DEF Edits
  <2> QED
    BY <1>0, <2>1 DEF Like
<1>5. ASSUME NEW c \in Commit, r = "master", CommitsPages(c)
      PROVE  /\ Ancestor(journal.target[r], head'[r])
             /\ Like(r, index'[r], TreeOf(journal.target[r]))
  <2>1. Ancestor(head[r], head'[r]) /\ index'[r] = index[r]
    BY <1>2, <1>5, AncestorAppend DEF CommitsPages
  <2> QED
    BY <1>0, <1>1, <1>2, <2>1, AncestorOrder
<1>6. CASE head'[r] = head[r] /\ index'[r] = index[r]
  BY <1>0, <1>6
<1> QED
  BY <1>0, <1>3, <1>4, <1>5, <1>6, UserFacts DEF PushesPages, Looks

\* It soils nothing but pages, and has only its own commits on top of the remote.
LEMMA UserKeepsOff ==
  ASSUME SharedInv, UserRuns, OffPages \/ Fetches
  PROVE  OffPages'
<1> DEFINE m == "master"
<1>1. CASE Fetches
  BY <1>1, LikeOrder DEF Fetches, OffPages
<1>2. CASE OffPages /\ Edits
  BY <1>2 DEF Edits, OffPages, Like
<1>3. ASSUME OffPages, NEW c \in Commit, CommitsPages(c) PROVE OffPages'
  <2>1. /\ TreeOf(head'[m]) = index[m] /\ UNCHANGED <<work, index>>
    <3>1. head[m] \in Sha /\ head'[m] = Append(head[m], c) /\ c.tree = index[m]
      BY <1>3, UserFacts DEF CommitsPages
    <3>2. TreeOf(Append(head[m], c)) = c.tree
      BY <3>1, AppendFacts
    <3> QED
      BY <1>3, <3>1, <3>2 DEF CommitsPages
  <2>2. Like(m, work[m], index[m]) /\ Like(m, index[m], index[m])
    BY <1>3 DEF OffPages, Like
  <2> QED
    BY <2>1, <2>2 DEF OffPages
<1>4. CASE OffPages /\ (PushesPages \/ Looks)
  BY <1>4 DEF PushesPages, Looks, OffPages
<1> QED
  BY <1>1, <1>2, <1>3, <1>4, UserFacts

LEMMA UserKeepsOnTop ==
  ASSUME SharedInv, UserRuns, OnTop \/ Fetches \/ ustep' = "retained"
  PROVE  OnTop'
<1> DEFINE m == "master"
<1>0. /\ head[m] \in Sha /\ remote[m] \in Sha /\ head'[m] \in Sha /\ remote'[m] \in Sha
  BY UserFacts
<1>1. CASE Fetches \/ PushesPages
  <2>1. head'[m] = remote'[m]
    BY <1>1 DEF Fetches, PushesPages
  <2>2. OnTopOf(head'[m], remote'[m])
    BY <1>0, <2>1, AncestorOrder, OnTopFacts
  <2> QED
    BY <2>2 DEF OnTop
<1>2. CASE OnTop /\ (Edits \/ Looks)
  BY <1>2 DEF Edits, Looks, OnTop
<1>3. ASSUME OnTop, NEW c \in Commit, CommitsPages(c) PROVE OnTop'
  BY <1>0, <1>3, OnTopFacts DEF CommitsPages, OnTop
<1>4. CASE ustep' = "retained"
  <2>1. Looks
    BY <1>4, UserFacts DEF Fetches, Edits, PushesPages, CommitsPages
  <2> QED
    BY <1>0, <1>4, <2>1, OnTopFacts DEF Looks, OnTop
<1> QED
  BY <1>1, <1>2, <1>3, <1>4, UserFacts

LEMMA UserKeepsResting == SharedInv /\ UserRuns => Resting' /\ UserPlace'
<1> SUFFICES ASSUME SharedInv, UserRuns PROVE Resting' /\ UserPlace'
  OBVIOUS
<1>0. Resting /\ UserPlace /\ Open' = Open
  BY UserFacts DEF SharedInv, Sharing, Open
<1>1. ASSUME ~Open \/ "master" \notin Enabled PROVE OffPages' /\ OnTop'
  BY <1>0, <1>1, UserKeepsOff, UserKeepsOnTop DEF Resting
<1>2. ASSUME ~Open, "i18n" \in Enabled
      PROVE  Clean("i18n")' /\ Ancestor(head["i18n"], remote["i18n"])'
  BY <1>0, <1>2, UserFacts DEF Resting, Clean
<1>3. ustep' \in {"pages", "stage", "commit", "push"} => OffPages \/ Fetches
  BY <1>0, UserFacts DEF UserPlace, Edits, PushesPages, Looks, CommitsPages
<1>4. ustep' \in {"retained", "pages", "stage", "commit", "push"} =>
        OnTop \/ Fetches \/ ustep' = "retained"
  BY <1>0, UserFacts DEF UserPlace, Edits, PushesPages, Looks, CommitsPages
<1> QED
  BY <1>0, <1>1, <1>2, <1>3, <1>4, UserKeepsOff, UserKeepsOnTop DEF Resting, UserPlace

\* A date that is shown stays shown.
LEMMA UserKeepsDates == SharedInv /\ UserRuns => Dates'
<1> SUFFICES ASSUME SharedInv, UserRuns PROVE Dates'
  OBVIOUS
<1>0. Dates /\ pc = "idle" /\ pc' = "idle" /\ UNCHANGED <<plan, days, mode>>
  BY UserFacts DEF SharedInv, Sharing
<1>1. ASSUME NEW d, DateShown(d) PROVE DateShown(d)'
  BY <1>0, <1>1, UserSettled DEF DateShown, days
<1>2. MarkedDateShown'
  BY <1>0, <1>1 DEF Dates, MarkedDateShown, DateShown, days
<1> QED
  BY <1>0, <1>1, <1>2 DEF Dates, days, TxnSteps, CommitSteps, PushSteps

LEMMA UserKeepsSharing == SharedInv /\ UserRuns => Sharing'
<1> SUFFICES ASSUME SharedInv, UserRuns PROVE Sharing'
  OBVIOUS
<1>1. /\ pc = "idle" /\ pc' = "idle" /\ UNCHANGED journal
      /\ PagesApart /\ EditsCounted'
  <2>1. SharingTypeOK /\ NoEmptyBranch /\ Locked /\ EditsCounted
    BY DEF SharedInv, Sharing, CycleInv, IInv
  <2> QED
    BY <2>1, UserFacts, UserEffects DEF SharedInv, Sharing
<1>2. Locked' /\ AtTargets' /\ PagesApart'
  BY <1>1 DEF Locked, AtTargets, PagesApart, Open
<1> QED
  BY <1>1, <1>2, UserKeepsBranches, UserKeepsWork, UserKeepsCommitted, UserKeepsResting,
     UserKeepsDates
  DEF Sharing

-----------------------------------------------------------------------------
(***************************************************************************)
(* So does the cycle.                                                      *)
(***************************************************************************)

\* How the cycle gets to its last steps, and to those of a fresh transaction.
LEMMA LastArrivals ==
  ASSUME [Next]_vars
  PROVE
  /\ pc' \in {"cleanup", "delete"} =>
       PushDone \/ (pc \in {"cleanup", "delete"} /\ UNCHANGED <<journal, head>>)
  /\ pc' \in TxnSteps /\ mode' = "fresh" =>
       WritePublishingJournal \/ (pc \in TxnSteps /\ mode = "fresh")
<1> USE DEF durable, cursor, Goto, Return, Continue, TxnSteps, CommitSteps, PushSteps
<1>1. CASE Recovery
  BY <1>1 DEF Recovery, NothingToRecover, RecoverCompleted, RecoverPublishing,
    RecoverCommitting
<1>2. CASE SkipCycle \/ PrepareRepo \/ Generate \/ RemoteSnapshotFails
  BY <1>2 DEF SkipCycle, PrepareRepo, Generate, RemoteSnapshotFails
<1>3. CASE GenerationFails \/ DeadlineExceeded \/ WritePublishingJournal
  BY <1>3 DEF GenerationFails, DeadlineExceeded, WritePublishingJournal
<1>4. CASE \E on_date \in BOOLEAN :
           \E observed \in {work["master"][Versions], Len(plan) + 1} \ {Absent} :
             Gate(on_date, observed)
  <2>1. pc' = "prepare"
    BY <1>4 DEF Gate
  <2> QED
    BY <2>1
<1>5. CASE \E i \in rest : PublishFile(i) \/ RecoverPublishFile(i)
  BY <1>5 DEF PublishFile, RecoverPublishFile, CheckpointAs, Replace
<1>6. CASE Checkpoint \/ PublicationDone \/ EnterCommitting
  BY <1>6 DEF Checkpoint, CheckpointAs, PublicationDone, EnterCommitting
<1>7. CASE RecoverCommitRepo
  BY <1>7 DEF RecoverCommitRepo
<1>8. CASE StartCommit \/ PrepareTarget \/ UpdateBranch
           \/ InstallIndex \/ MarkCommitted \/ CommitDone
  BY <1>8 DEF StartCommit, PrepareTarget, UpdateBranch, InstallIndex,
    MarkCommitted, CommitDone
<1>9. CASE EnterPushing \/ ProbeRemote \/ PushHead \/ ConfirmPush \/ MarkPushed
           \/ PushDone
  BY <1>9 DEF EnterPushing, ProbeRemote, PushHead, ConfirmPush, MarkPushed, PushDone
<1>10. CASE ClearStaging \/ DeleteJournal
  BY <1>10 DEF ClearStaging, DeleteJournal
<1>11. CASE BeginCycle \/ Crash \/ StepFails \/ CommitFails \/ PushLost
  BY <1>11 DEF BeginCycle, Crash, StepFails, CommitFails, PushLost
<1>12. CASE \E r \in Repo : ForeignPush(r)
  BY <1>12 DEF ForeignPush
<1>13. CASE UNCHANGED vars
  BY <1>13 DEF vars
<1> QED
  BY <1>1, <1>2, <1>3, <1>4, <1>5, <1>6, <1>7, <1>8, <1>9, <1>10, <1>11, <1>12,
     <1>13
  DEF Next, Cycle, Fresh, Publication, Commits, Pushes

\* prepare_repo_for_update fetches one enabled repository or leaves all alone.
LEMMA PrepareEffect ==
  ASSUME CycleInv, PrepareRepo
  PROVE  /\ ~Open /\ ~Open' /\ UNCHANGED remote
         /\ \/ UNCHANGED <<head, work, index>>
            \/ \E e \in Enabled :
                 /\ head'[e] = remote[e] /\ work'[e] = TreeOf(remote[e])
                 /\ index'[e] = TreeOf(remote[e])
                 /\ \A r \in Repo \ {e} : /\ head'[r] = head[r] /\ work'[r] = work[r]
                                          /\ index'[r] = index[r]
<1> DEFINE e == PublishTurn(todo)
<1>1. /\ e \in Enabled /\ e \in Repo
      /\ head \in [Repo -> Sha] /\ work \in [Repo -> Tree] /\ index \in [Repo -> Tree]
  BY OptionsAssumption
  DEF PrepareRepo, CycleInv, IInv, TypeOK, Control, TodoOfStep, PublishTurn, Repo
<1>2. ~Open /\ ~Open' /\ UNCHANGED remote
  BY DEF PrepareRepo, CycleInv, IInv, Control, PhaseOfStep, Open
<1>3. \/ UNCHANGED <<head, work, index>>
      \/ /\ head' = [head EXCEPT ![e] = remote[e]]
         /\ work' = [work EXCEPT ![e] = TreeOf(remote[e])]
         /\ index' = [index EXCEPT ![e] = TreeOf(remote[e])]
  BY DEF PrepareRepo
<1> HIDE DEF e
<1> QED
  BY <1>1, <1>2, <1>3

\* The branch or the index of one enabled repository goes to its target.
LEMMA BranchEffect ==
  ASSUME CycleInv, UpdateBranch \/ InstallIndex
  PROVE  /\ Open /\ CommitRepo \in Enabled /\ UNCHANGED <<journal, work, remote>>
         /\ journal.target[CommitRepo] # NoSha
         /\ \A r \in Repo : /\ \/ head'[r] = head[r]
                               \/ r = CommitRepo /\ head'[r] = journal.target[r]
                            /\ \/ index'[r] = index[r]
                               \/ r = CommitRepo /\ index'[r] = TreeOf(journal.target[r])
<1>1. /\ CommitRepo \in Enabled /\ CommitRepo \in Repo /\ Open
      /\ journal.target[CommitRepo] # NoSha
  BY CommitRepoEnabled
  DEF UpdateBranch, InstallIndex, CommitSteps, CycleInv, IInv, Control, TargetOfStep, Open
<1>2. head \in [Repo -> Sha] /\ index \in [Repo -> Tree]
  BY DEF CycleInv, IInv, TypeOK
<1> QED
  BY <1>1, <1>2 DEF UpdateBranch, InstallIndex

\* A repository that is not enabled is nobody's business but the second updater's.
LEMMA DisabledKept ==
  ASSUME CycleInv, [Next]_vars, NEW r \in Repo \ Enabled
  PROVE  head'[r] = head[r] /\ work'[r] = work[r] /\ index'[r] = index[r]
<1>1. ASSUME NEW i \in rest, Moves(i) PROVE work'[r] = work[r]
  <2>1. work \in [Repo -> Tree] /\ i[1] \in Enabled
    BY <1>1, MoveFacts DEF CycleInv, IInv, TypeOK
  <2>2. work' = [work EXCEPT ![i[1]][i[2]] = staged[i[1]][i[2]]]
    BY <1>1 DEF Moves, Replace
  <2> QED
    BY <2>1, <2>2
<1>2. CASE PrepareRepo
  BY <1>2, PrepareEffect
<1>3. CASE UpdateBranch \/ InstallIndex
  BY <1>3, BranchEffect
<1>4. UNCHANGED head \/ PrepareRepo \/ UpdateBranch
  BY Writers
<1>5. UNCHANGED index \/ PrepareRepo \/ InstallIndex
  BY Writers
<1>6. UNCHANGED work \/ PrepareRepo \/ \E i \in rest : Moves(i)
  BY Writers
<1>7. head'[r] = head[r] /\ index'[r] = index[r]
  BY <1>2, <1>3, <1>4, <1>5
<1>8. work'[r] = work[r]
  BY <1>1, <1>2, <1>6
<1> QED
  BY <1>7, <1>8

\* A step of the cycle leaves the branches of a pending transaction on theirs.
LEMMA CycleKeepsBranches == SharedInv /\ [Next]_vars => Branches'
<1> SUFFICES ASSUME SharedInv, [Next]_vars, Open', NEW r \in Enabled
             PROVE  OnBranch(r, head[r])' /\ OnBranch(r, remote[r])'
  BY DEF Branches
<1>0. /\ CycleInv /\ IInv /\ JournalOfPlan /\ r \in Repo
      /\ head[r] \in Sha /\ head[r] # NoSha /\ remote[r] \in Sha /\ remote[r] # NoSha
      /\ journal.base[r] \in Sha /\ journal.target[r] \in Sha
      /\ Open => /\ OnBranch(r, head[r]) /\ OnBranch(r, remote[r])
                 /\ journal.base[r] # NoSha
  BY Values DEF SharedInv, Sharing, Branches, CycleInv
<1>1. ASSUME UNCHANGED journal, NEW sha, OnBranch(r, sha) PROVE OnBranch(r, sha)'
  BY <1>1 DEF OnBranch
<1>2. CASE UNCHANGED <<journal, head, remote>>
  BY <1>0, <1>2 DEF OnBranch, Open, Continues
<1>3. CASE WritePublishingJournal
  <2>1. /\ journal'.base[r] = head[r] /\ remote[r] = head[r] /\ UNCHANGED <<head, remote>>
    BY <1>0, <1>3, Begins
  <2>2. Continues(r, head[r], head[r])
    BY <1>0, ContinuesFacts
  <2> QED
    BY <2>1, <2>2 DEF OnBranch
<1>4. CASE Rewrites
  <2>1. /\ Open /\ journal'.base = journal.base /\ UNCHANGED <<head, remote>>
        /\ journal'.target[r] = journal.target[r] \/ journal.target[r] = NoSha
    BY <1>0, <1>4, JournalKept, TargetsKept
  <2> QED
    BY <1>0, <2>1 DEF OnBranch, Continues
<1>5. CASE UpdateBranch \/ InstallIndex
  <2>1. /\ Open /\ UNCHANGED <<journal, remote>>
        /\ \/ head'[r] = head[r]
           \/ journal.target[r] # NoSha /\ head'[r] = journal.target[r]
    BY <1>0, <1>5, BranchEffect
  <2>2. journal.target[r] # NoSha => OnBranch(r, journal.target[r])
    BY <1>0, ContinuesFacts DEF OnBranch
  <2>3. OnBranch(r, head'[r]) /\ OnBranch(r, remote'[r])
    BY <1>0, <2>1, <2>2
  <2> QED
    BY <2>1, <2>3 DEF OnBranch
<1>6. CASE PrepareRepo
  BY <1>0, <1>6, PrepareEffect
<1>7. CASE PushHead
  <2>1. /\ Open /\ UNCHANGED <<journal, head>>
        /\ remote'[r] = remote[r] \/ remote'[r] = journal.target[r]
    BY <1>0, <1>7, PushEffect DEF PushHead, durable
  <2>2. journal.target[r] # NoSha => OnBranch(r, journal.target[r])
    BY <1>0, ContinuesFacts DEF OnBranch
  <2>3. remote'[r] # NoSha
    BY <1>0, NextInv DEF IInv, NoEmptyBranch
  <2>4. OnBranch(r, head'[r]) /\ OnBranch(r, remote'[r])
    BY <1>0, <2>1, <2>2, <2>3
  <2> QED
    BY <2>1, <2>4 DEF OnBranch
<1>8. CASE \E e \in Repo : ForeignPush(e)
  <2>1. Open /\ UNCHANGED <<journal, head>>
    BY <1>0, <1>8, ForeignEffect DEF Open
  <2>2. ASSUME NEW c \in Commit, c.by < 0, c.tree = TreeOf(remote[r])
        PROVE  OnBranch(r, Append(remote[r], c))
    <3>1. Like(r, c.tree, TreeOf(remote[r]))
      BY <2>2 DEF Like
    <3> QED
      BY <1>0, <2>1, <2>2, <3>1, ContinuesFacts DEF OnBranch
  <2>3. OnBranch(r, head'[r]) /\ OnBranch(r, remote'[r])
    BY <1>0, <1>8, <2>1, <2>2, ForeignEffect
  <2> QED
    BY <2>1, <2>3 DEF OnBranch
<1>9. journal' # NoJournal
  BY DEF Open, NoJournal
<1> QED
  BY <1>2, <1>3, <1>4, <1>5, <1>6, <1>7, <1>8, <1>9, Writers DEF Rewrites

\* No generation stages a page.
LEMMA CycleKeepsPages == SharedInv /\ [Next]_vars => PagesApart'
<1> SUFFICES ASSUME SharedInv, [Next]_vars, NEW r \in Enabled, NEW f \in Pages
             PROVE  /\ Open' => journal'.source[r][f] = Absent
                    /\ pc' = "snapshot" => staged'[r][f] = Absent
  BY DEF PagesApart
<1>0. /\ CycleInv /\ r \in Repo /\ f \in Files \ {Versions} /\ f \in Others
      /\ Open => journal.source[r][f] = Absent
      /\ pc = "snapshot" => staged[r][f] = Absent
  BY OptionsAssumption, FilesAssumption
  DEF SharedInv, Sharing, PagesApart, Pages
<1>1. ASSUME Generate PROVE staged'[r][f] = Absent
  <2>1. PICK m \in Stageable("master"), t \in Stageable("i18n") :
          staged' = [e \in Repo |-> IF e = "master" THEN m ELSE t]
    BY <1>1 DEF Generate
  <2>2. ASSUME NEW u \in Stageable(r) PROVE u[f] = Absent
    BY <1>0, <2>2 DEF Stageable
  <2>3. staged'[r] \in Stageable(r)
    BY <1>0, <2>1 DEF Repo
  <2> QED
    BY <2>2, <2>3
<1>2. pc' = "snapshot" => staged'[r][f] = Absent
  BY <1>0, <1>1, Arrivals
<1>3. ASSUME Open' PROVE journal'.source[r][f] = Absent
  <2>1. CASE UNCHANGED journal
    BY <1>0, <1>3, <2>1 DEF Open
  <2>2. CASE WritePublishingJournal
    BY <1>0, <2>2, Begins DEF WritePublishingJournal
  <2>3. CASE Rewrites
    BY <1>0, <2>3, JournalKept
  <2>4. journal' # NoJournal
    BY <1>3 DEF Open, NoJournal
  <2> QED
    BY <2>1, <2>2, <2>3, <2>4, Writers DEF Rewrites
<1> QED
  BY <1>2, <1>3

\* Publication moves the files of the manifest only.
LEMMA CycleKeepsWork == SharedInv /\ [Next]_vars => WorkOffPages'
<1> SUFFICES ASSUME SharedInv, [Next]_vars, Open', NEW r \in Enabled, NEW f \in Kept(r),
                    journal'.source[r][f] = Absent
             PROVE  work'[r][f] = TreeOf(journal'.base[r])[f]
  BY DEF WorkOffPages
<1>1. CycleInv /\ WorkOffPages /\ r \in Repo /\ f \in Files
  BY OptionsAssumption DEF SharedInv, Sharing, Kept
<1>2. CASE UNCHANGED <<journal, work>>
  BY <1>1, <1>2 DEF WorkOffPages, Open
<1>3. CASE WritePublishingJournal
  BY <1>1, <1>3, Begins
<1>4. CASE Rewrites
  BY <1>1, <1>4, JournalKept DEF WorkOffPages
<1>5. CASE PrepareRepo
  BY <1>1, <1>5, PrepareEffect
<1>6. ASSUME NEW i \in rest, Moves(i)
      PROVE  work'[r][f] = TreeOf(journal'.base[r])[f]
  <2>1. i \in Items /\ UNCHANGED journal /\ Open
    BY <1>1, <1>6, MoveFacts
  <2>2. <<r, f>> # i
    BY <2>1 DEF Items
  <2>3. work'[r][f] = work[r][f]
    BY <1>1, <1>6, <2>2, MoveFacts
  <2> QED
    BY <1>1, <2>1, <2>3 DEF WorkOffPages
<1>7. journal' # NoJournal
  BY DEF Open, NoJournal
<1> QED
  BY <1>2, <1>3, <1>4, <1>5, <1>6, <1>7, Writers DEF Rewrites

\* A commit is recorded when its branch and its index are at the target.
LEMMA CycleKeepsCommitted == SharedInv /\ [Next]_vars => CommittedKept'
<1> SUFFICES ASSUME SharedInv, [Next]_vars, Open', NEW r \in Enabled,
                    journal'.commit[r] = "committed"
             PROVE  /\ Ancestor(journal'.target[r], head'[r])
                    /\ Like(r, index'[r], TreeOf(journal'.target[r]))
  BY DEF CommittedKept
<1>0. /\ CycleInv /\ r \in Repo /\ head[r] \in Sha /\ journal.target[r] \in Sha
      /\ Open /\ journal.commit[r] = "committed" =>
           /\ Ancestor(journal.target[r], head[r])
           /\ Like(r, index[r], TreeOf(journal.target[r]))
  BY Values DEF SharedInv, Sharing, CommittedKept, CycleInv
<1>1. CASE UNCHANGED <<journal, head, index>>
  BY <1>0, <1>1 DEF Open
<1>2. CASE WritePublishingJournal
  BY <1>0, <1>2, Begins
<1>3. CASE Rewrites
  <2>1. Open /\ UNCHANGED <<head, index>>
    BY <1>0, <1>3, JournalKept
  <2>2. CASE journal.commit[r] = "committed" /\ journal'.target[r] = journal.target[r]
    BY <1>0, <2>1, <2>2
  <2>3. CASE head[r] = journal'.target[r] /\ index[r] = TreeOf(journal'.target[r])
    BY <1>0, <2>1, <2>3, AncestorOrder, LikeOrder
  <2> QED
    BY <1>0, <1>3, <2>2, <2>3, CommitsKept
<1>4. CASE UpdateBranch \/ InstallIndex
  <2>1. /\ Open /\ UNCHANGED journal
        /\ head'[r] = head[r] \/ head'[r] = journal.target[r]
        /\ index'[r] = index[r] \/ index'[r] = TreeOf(journal.target[r])
    BY <1>0, <1>4, BranchEffect
  <2> QED
    BY <1>0, <2>1, AncestorOrder, LikeOrder
<1>5. CASE PrepareRepo
  BY <1>0, <1>5, PrepareEffect
<1>6. journal' # NoJournal
  BY DEF Open, NoJournal
<1> QED
  BY <1>1, <1>2, <1>3, <1>4, <1>5, <1>6, Writers DEF Rewrites

\* A cycle that has pushed leaves its branches alone until it ends.
LEMMA CycleKeepsTargets == SharedInv /\ [Next]_vars => AtTargets'
<1> SUFFICES ASSUME SharedInv, [Next]_vars, pc' \in {"cleanup", "delete"}
             PROVE  \A r \in Enabled : head'[r] = journal'.target[r]
  BY DEF AtTargets
<1>1. CASE PushDone
  <2>1. pc = "probe" /\ UNCHANGED head /\ journal' = [journal EXCEPT !.phase = "completed"]
    BY <1>1 DEF PushDone
  <2>2. \A r \in Enabled : head[r] = journal.target[r]
    BY <2>1 DEF SharedInv, CycleInv, IInv, Control, AllCommitted, PushSteps
  <2>3. journal'.target = journal.target
    BY <2>1, Values DEF SharedInv, CycleInv, Journal
  <2> QED
    BY <2>1, <2>2, <2>3
<1>2. CASE pc \in {"cleanup", "delete"} /\ UNCHANGED <<journal, head>>
  BY <1>2 DEF SharedInv, Sharing, AtTargets
<1> QED
  BY <1>1, <1>2, LastArrivals

\* A transaction ends with its repositories as it planned them, but for the pages.
LEMMA ClosedFacts ==
  ASSUME SharedInv, [Next]_vars, Open, ~Open', NEW r \in Enabled
  PROVE  /\ UNCHANGED <<work, index, head, remote>>
         /\ Like(r, work[r], TreeOf(head[r])) /\ Like(r, index[r], TreeOf(head[r]))
         /\ Ancestor(head[r], remote[r])
<1>0. CycleInv /\ IInv /\ JournalOfPlan /\ r \in Repo
  BY OptionsAssumption DEF SharedInv, CycleInv
<1>1. Completes \/ DeleteJournal
  BY <1>0, JournalKept, Begins, Writers DEF Open, Rewrites
<1>2. /\ journal.phase = "completed" /\ UNCHANGED <<work, index, head, remote>>
      /\ pc = "delete" \/ CompletedValid
  BY <1>0, <1>1 DEF Completes, DeleteJournal, IInv, Control, PhaseOfStep
<1>3. journal.push[r] = "pushed"
  BY <1>0, <1>2 DEF IInv, Control, JournalWellFormed, ValidJournal, ValidRepoPhaseState
<1>4. /\ journal.commit[r] = "committed" /\ journal.target[r] = TargetOf(r)
      /\ Ancestor(TargetOf(r), remote[r])
  BY <1>0, <1>3, PushedSettled
<1>5. head[r] = TargetOf(r)
  BY <1>2, <1>4 DEF CompletedValid, SharedInv, Sharing, AtTargets
<1>6. Like(r, index[r], TreeOf(TargetOf(r)))
  BY <1>4 DEF SharedInv, Sharing, CommittedKept
<1>7. Like(r, work[r], TreeOf(TargetOf(r)))
  <2>1. TreeOf(TargetOf(r)) = Overlay(journal.source[r], TreeOf(journal.base[r]))
    BY <1>0, TargetFacts DEF JournalOfPlan
  <2>2. ASSUME NEW f \in Kept(r) PROVE work[r][f] = TreeOf(TargetOf(r))[f]
    <3>1. f \in Files
      BY DEF Kept
    <3>2. CASE journal.source[r][f] = Absent
      BY <2>1, <3>1, <3>2 DEF SharedInv, Sharing, WorkOffPages, Overlay
    <3>3. CASE journal.source[r][f] # Absent
      <4>1. f \in Manifest(journal, r)
        BY <3>1, <3>3 DEF Manifest
      <4>2. work[r][f] = journal.source[r][f]
        BY <1>0, <1>2, <4>1, ItemsOfManifest DEF CycleInv, PublishProgress
      <4> QED
        BY <2>1, <3>1, <3>3, <4>2 DEF Overlay
    <3> QED
      BY <3>2, <3>3
  <2> QED
    BY <2>2 DEF Like
<1> QED
  BY <1>2, <1>4, <1>5, <1>6, <1>7

\* Between two transactions the cycle only fetches.
LEMMA OpenlessStep ==
  ASSUME CycleInv, [Next]_vars, ~Open
  PROVE  UNCHANGED <<head, work, index>> \/ PrepareRepo
<1>1. ~UpdateBranch /\ ~InstallIndex
  BY BranchEffect
<1>2. ~\E i \in rest : Moves(i)
  BY MoveFacts
<1> QED
  BY <1>1, <1>2, Writers

LEMMA CycleKeepsOff ==
  ASSUME SharedInv, [Next]_vars, ~Open' \/ "master" \notin Enabled
  PROVE  OffPages' /\ OnTop'
<1> DEFINE m == "master"
<1>0. /\ CycleInv /\ m \in Repo
      /\ head[m] \in Sha /\ remote[m] \in Sha /\ head'[m] \in Sha /\ remote'[m] \in Sha
  BY Values, NextInv DEF SharedInv, CycleInv, IInv, TypeOK, Repo
<1>1. ASSUME OffPages, OnTop, head'[m] = head[m], work'[m] = work[m], index'[m] = index[m]
      PROVE  OffPages' /\ OnTop'
  <2>1. OnTopOf(head[m], remote'[m])
    BY <1>0, <1>1, RemoteStep, OnTopFacts DEF OnTop
  <2> QED
    BY <1>1, <2>1 DEF OffPages, OnTop
<1>2. CASE m \notin Enabled
  BY <1>0, <1>1, <1>2, DisabledKept DEF SharedInv, Sharing, Resting
<1>3. CASE m \in Enabled /\ Open
  <2>1. OffPages /\ Ancestor(head[m], remote[m]) /\ UNCHANGED <<head, work, index>>
    BY <1>3, ClosedFacts DEF OffPages
  <2>2. OnTop
    BY <1>0, <2>1, OnTopFacts DEF OnTop
  <2> QED
    BY <1>1, <2>1, <2>2
<1>4. CASE ~Open
  <2>1. CASE head'[m] = head[m] /\ work'[m] = work[m] /\ index'[m] = index[m]
    BY <1>1, <1>4, <2>1 DEF SharedInv, Sharing, Resting
  <2>2. CASE /\ head'[m] = remote[m] /\ work'[m] = TreeOf(remote[m])
             /\ index'[m] = TreeOf(remote[m]) /\ UNCHANGED remote
    <3>1. OnTopOf(head'[m], remote'[m])
      BY <1>0, <2>2, AncestorOrder, OnTopFacts
    <3> QED
      BY <2>2, <3>1, LikeOrder DEF OffPages, OnTop
  <2> QED
    BY <1>0, <1>4, <2>1, <2>2, OpenlessStep, PrepareEffect
<1> QED
  BY <1>2, <1>3, <1>4

LEMMA CycleKeepsResting == SharedInv /\ [Next]_vars => Resting'
<1> SUFFICES ASSUME SharedInv, [Next]_vars PROVE Resting'
  OBVIOUS
<1>1. ASSUME ~Open', "i18n" \in Enabled
      PROVE  Clean("i18n")' /\ Ancestor(head["i18n"], remote["i18n"])'
  <2> DEFINE r == "i18n"
  <2>0. /\ CycleInv /\ r \in Repo
        /\ head[r] \in Sha /\ head[r] # NoSha /\ remote[r] \in Sha /\ remote'[r] \in Sha
        /\ work[r] \in Tree /\ index[r] \in Tree /\ TreeOf(head[r]) \in Tree
    BY Values, NextInv, TreeOfType DEF SharedInv, CycleInv, IInv, TypeOK, Repo
  <2>1. ASSUME /\ work[r] = TreeOf(head[r]) /\ index[r] = TreeOf(head[r])
               /\ Ancestor(head[r], remote[r])
               /\ head'[r] = head[r] /\ work'[r] = work[r] /\ index'[r] = index[r]
        PROVE  Clean(r)' /\ Ancestor(head[r], remote[r])'
    BY <2>0, <2>1, RemoteStep, AncestorOrder DEF Clean
  <2>2. CASE Open
    <3>1. /\ Like(r, work[r], TreeOf(head[r])) /\ Like(r, index[r], TreeOf(head[r]))
          /\ Ancestor(head[r], remote[r]) /\ UNCHANGED <<head, work, index>>
      BY <1>1, <2>2, ClosedFacts
    <3>2. work[r] = TreeOf(head[r]) /\ index[r] = TreeOf(head[r])
      BY <2>0, <3>1 DEF Like, Kept, Tree
    <3> QED
      BY <2>1, <3>1, <3>2
  <2>3. CASE ~Open
    <3>1. CASE head'[r] = head[r] /\ work'[r] = work[r] /\ index'[r] = index[r]
      BY <1>1, <2>1, <2>3, <3>1 DEF SharedInv, Sharing, Resting, Clean
    <3>2. CASE /\ head'[r] = remote[r] /\ work'[r] = TreeOf(remote[r])
               /\ index'[r] = TreeOf(remote[r]) /\ UNCHANGED remote
      BY <2>0, <3>2, AncestorOrder DEF Clean
    <3> QED
      BY <2>0, <2>3, <3>1, <3>2, OpenlessStep, PrepareEffect
  <2> QED
    BY <2>2, <2>3
<1> QED
  BY <1>1, CycleKeepsOff DEF Resting

\* While the second updater holds the lock the repositories are its own.
LEMMA CycleKeepsUser == SharedInv /\ CycleStep => Locked' /\ UserPlace' /\ EditsCounted'
<1> SUFFICES ASSUME SharedInv, CycleStep PROVE Locked' /\ UserPlace' /\ EditsCounted'
  OBVIOUS
<1> DEFINE m == "master"
<1>0. /\ CycleInv /\ IInv /\ UNCHANGED <<ustep, edits>> /\ [Next]_vars
      /\ ustep # "idle" => pc = "idle" /\ pc' = "idle"
      /\ UserPlace /\ EditsCounted
      /\ head[m] \in Sha /\ remote[m] \in Sha /\ remote'[m] \in Sha
  BY Values, NextInv
  DEF SharedInv, Sharing, CycleStep, user, CycleInv, IInv, TypeOK, Repo
<1>1. Locked'
  BY <1>0 DEF Locked
<1>2. ASSUME ustep # "idle"
      PROVE  UNCHANGED <<head, work, index>>
  <2>1. ~PrepareRepo /\ ~UpdateBranch /\ ~InstallIndex /\ ~\E i \in rest : Moves(i)
    BY <1>0, <1>2 DEF PrepareRepo, UpdateBranch, InstallIndex, Moves
  <2> QED
    BY <1>0, <2>1, Writers
<1>3. ASSUME ustep # "idle", OnTop PROVE OnTop'
  <2>1. OnTopOf(head[m], remote'[m])
    BY <1>0, <1>3, RemoteStep, OnTopFacts DEF OnTop, Repo
  <2> QED
    BY <1>2, <1>3, <2>1 DEF OnTop
<1>4. UserPlace'
  BY <1>0, <1>2, <1>3 DEF UserPlace, OffPages
<1>5. EditsCounted'
  BY <1>0, <1>2 DEF EditsCounted, Clean
<1> QED
  BY <1>1, <1>4, <1>5

-----------------------------------------------------------------------------
(***************************************************************************)
(* The date of a cycle.                                                    *)
(***************************************************************************)

DaysTyped == /\ today \in Day /\ marker \in Day \cup {NoDay}
             /\ {booted, daily, marking} \subseteq BOOLEAN
             /\ due \in Day \cup {NoDay} /\ due_of \in Seq(Day \cup {NoDay})
             /\ Len(due_of) = Len(plan)

\* A step that neither runs nor begins nor marks a cycle.
Uneventful == /\ UNCHANGED <<pc, mode, plan, marker, daily, due_of>>
              /\ today' \in Day /\ booted' \in BOOLEAN
              /\ \/ UNCHANGED <<due, marking>>
                 \/ marking /\ due' = NoDay /\ marking' = FALSE

LEMMA DateSteps ==
  ASSUME SharedInv, [SharedNext]_shared
  PROVE  \/ CycleDate /\ Next /\ pc # "idle"
         \/ SharedBegin \/ SharedCrash \/ MarkDaily \/ Uneventful
<1>T. today \in Day /\ booted \in BOOLEAN
  BY DEF SharedInv, SharingTypeOK
<1>1. CASE SharedGate
  <2>1. pc # "idle"
    BY <1>1 DEF SharedGate, Gate
  <2>2. Next
    BY <1>1 DEF SharedGate, Next, Cycle, Fresh, SharedInv, SharingTypeOK
  <2> QED
    BY <1>1, <2>1, <2>2 DEF SharedGate
<1>2. CASE SharedGeneration
  <2>1. pc # "idle"
    BY <1>2 DEF SharedGeneration, SkipCycle, PrepareRepo, Generate, GenerationFails,
      WritePublishingJournal, RemoteSnapshotFails, DeadlineExceeded
  <2> QED
    BY <1>2, <2>1 DEF SharedGeneration, Next, Cycle, Fresh
<1>3. CASE SharedCycle
  <2>1. Next /\ CycleDate
    BY <1>3 DEF SharedCycle, Next, Cycle
  <2>2. CASE Recovery \/ Publication
    BY <2>1, <2>2
    DEF Recovery, NothingToRecover, RecoverCompleted, RecoverPublishing,
      RecoverCommitting, Publication, PublishFile, RecoverPublishFile, Checkpoint,
      PublicationDone, EnterCommitting
  <2>3. CASE Commits \/ Pushes
    BY <2>1, <2>3
    DEF Commits, StartCommit, RecoverCommitRepo, PrepareTarget, UpdateBranch,
      InstallIndex, MarkCommitted, CommitDone, Pushes, EnterPushing, ProbeRemote,
      PushHead, ConfirmPush, MarkPushed, PushDone, ClearStaging, DeleteJournal
  <2> QED
    BY <1>3, <2>2, <2>3 DEF SharedCycle
<1>4. CASE SharedFailure
  <2>1. pc # "idle"
    BY <1>4 DEF SharedFailure, StepFails, CommitFails, PushLost
  <2> QED
    BY <1>4, <2>1 DEF SharedFailure, Next
<1>5. CASE UserRuns
  BY <1>5, <1>T, UserFacts DEF Uneventful, days
<1>6. CASE SharedSkip \/ DayPasses \/ SharedForeignPush \/ UserBegin \/ UserStops
  <2>1. UNCHANGED <<pc, mode, plan, marker, daily, due_of, due, marking>>
    BY <1>6 DEF SharedSkip, DayPasses, SharedForeignPush, ForeignPush, UserBegin,
      UserStops, vars, days
  <2>2. today' \in Day
    BY <1>6, <1>T, SharingBounds
    DEF SharedSkip, DayPasses, SharedForeignPush, UserBegin, UserStops, days, Day
  <2>3. booted' \in BOOLEAN
    BY <1>6, <1>T
    DEF SharedSkip, DayPasses, SharedForeignPush, UserBegin, UserStops, days
  <2> QED
    BY <2>1, <2>2, <2>3 DEF Uneventful
<1>7. CASE MarkDailyFails \/ UNCHANGED shared
  BY <1>7, <1>T DEF MarkDailyFails, shared, vars, days, Uneventful
<1> QED
  BY <1>1, <1>2, <1>3, <1>4, <1>5, <1>6, <1>7 DEF SharedNext, CycleRuns

\* A transaction takes the date of its cycle.
LEMMA DateOfTransaction ==
  ASSUME SharedInv, [SharedNext]_shared
  PROVE  \/ UNCHANGED <<plan, due_of>>
         \/ /\ WritePublishingJournal /\ CycleDate
            /\ Len(plan') = Len(plan) + 1 /\ due_of' = Append(due_of, due)
<1>0. CycleInv /\ Len(plan) \in Nat
  BY Values DEF SharedInv, CycleInv
<1>1. CASE CycleDate /\ Next
  <2>1. CASE UNCHANGED plan
    BY <1>0, <1>1, <2>1 DEF CycleDate
  <2>2. CASE WritePublishingJournal
    BY <1>0, <1>1, <2>2, Begins DEF CycleDate
  <2> QED
    BY <1>1, <2>1, <2>2, Writers
<1>2. CASE SharedBegin \/ SharedCrash \/ MarkDaily \/ Uneventful
  BY <1>2 DEF SharedBegin, BeginCycle, SharedCrash, Crash, MarkDaily, Uneventful, vars
<1> QED
  BY <1>1, <1>2, DateSteps

LEMMA DayFollows ==
  \A d \in Day : d < MaxDay => d + 1 \in Day
BY SharingBounds DEF Day

LEMMA DaysKept ==
  ASSUME SharedInv, [SharedNext]_shared
  PROVE  DaysTyped'
<1>0. DaysTyped /\ Len(plan) \in Nat
  BY Values DEF SharedInv, CycleInv, SharingTypeOK, DaysTyped
<1>1. due_of' \in Seq(Day \cup {NoDay}) /\ Len(due_of') = Len(plan')
  <2>1. CASE UNCHANGED <<plan, due_of>>
    BY <1>0, <2>1 DEF DaysTyped
  <2>2. CASE Len(plan') = Len(plan) + 1 /\ due_of' = Append(due_of, due)
    BY <1>0, <2>2 DEF DaysTyped
  <2> QED
    BY <2>1, <2>2, DateOfTransaction
<1>2. CASE CycleDate
  <2>1. today' = today /\ marker' = marker /\ booted' = booted
    BY <1>2 DEF CycleDate
  <2>2. daily' \in BOOLEAN /\ due' \in Day \cup {NoDay}
    BY <1>0, <1>2 DEF CycleDate, DaysTyped
  <2>3. marking' \in BOOLEAN
    BY <1>0, <1>2 DEF CycleDate, DaysTyped, DateDone
  <2> QED
    BY <1>0, <1>1, <2>1, <2>2, <2>3 DEF DaysTyped
<1>3. CASE SharedBegin
  <2>1. daily' \in BOOLEAN
    BY <1>3 DEF SharedBegin, DailyNow
  <2>2. /\ marker' = marker /\ booted' = TRUE /\ marking' = marking
        /\ due' \in {today', NoDay}
    BY <1>3 DEF SharedBegin
  <2>3. today' \in Day
    BY <1>0, <1>3, DayFollows DEF SharedBegin, DaysTyped
  <2> QED
    BY <1>0, <1>1, <2>1, <2>2, <2>3 DEF DaysTyped
<1>4. CASE SharedCrash \/ MarkDaily \/ Uneventful
  BY <1>0, <1>1, <1>4 DEF SharedCrash, MarkDaily, Uneventful, DaysTyped
<1> QED
  BY <1>2, <1>3, <1>4, DateSteps

\* The remotes show a transaction of this date after the step.
ShownNext(d) ==
  \E n \in 1..Len(plan') : due_of'[n] = d /\ \A r \in Repo : Settled(r, n)'

\* What the remotes show of a date they go on showing.
LEMMA DateKept ==
  ASSUME SharedInv, [SharedNext]_shared, NEW d, DateShown(d)
  PROVE  ShownNext(d)
<1>1. PICK n \in 1..Len(plan) : due_of[n] = d /\ \A r \in Repo : Settled(r, n)
  BY DEF DateShown
<1>2. /\ CycleInv /\ Len(plan) \in Nat /\ due_of \in Seq(Day \cup {NoDay})
      /\ due \in Day \cup {NoDay} /\ Len(due_of) = Len(plan)
  BY Values DEF SharedInv, CycleInv, SharingTypeOK
<1>3. n \in 1..Len(plan') /\ due_of'[n] = d
  <2>1. CASE UNCHANGED <<plan, due_of>>
    BY <1>1, <2>1
  <2>2. CASE Len(plan') = Len(plan) + 1 /\ due_of' = Append(due_of, due)
    BY <1>1, <1>2, <2>2
  <2> QED
    BY <2>1, <2>2, DateOfTransaction
<1>4. ASSUME NEW r \in Repo PROVE Settled(r, n)'
  <2>1. CASE CycleStep
    BY <1>1, <1>2, <2>1, SettledKept DEF CycleStep
  <2>2. CASE OtherStep
    BY <1>1, <2>2 DEF OtherStep, Settled
  <2>3. CASE UserRuns
    BY <1>1, <2>3, UserSettled
  <2> QED
    BY <2>1, <2>2, <2>3, SharedSteps DEF SharedInv, Sharing
<1> QED
  BY <1>3, <1>4 DEF ShownNext

\* A daily cycle that ends well has its date among the remotes.
LEMMA DateDoneShown ==
  ASSUME SharedInv, DateDone
  PROVE  due # NoDay /\ DateShown(due)
<1>1. /\ pc = "delete" /\ daily
      /\ mode = "fresh" \/ due_of[Len(due_of)] = due
      /\ CycleInv /\ IInv /\ Dates /\ Len(due_of) = Len(plan) /\ Len(plan) \in Nat
  BY Values DEF DateDone, EndsWell, SharedInv, Sharing, CycleInv, SharingTypeOK
<1>2. journal.phase = "completed" /\ Open /\ Len(plan) \in 1..Len(plan)
  BY <1>1 DEF IInv, Control, PhaseOfStep, CycleInv, JournalOfPlan, Open
<1>3. due # NoDay /\ due_of[Len(plan)] = due
  BY <1>1 DEF Dates, TxnSteps
<1>4. ASSUME NEW r \in Repo PROVE Settled(r, Len(plan))
  <2>1. r \in Enabled => journal.push[r] = "pushed"
    BY <1>1, <1>2 DEF IInv, Control, JournalWellFormed, ValidJournal, ValidRepoPhaseState
  <2> QED
    BY <1>1, <1>2, <2>1, PushedSettled DEF Settled
<1> QED
  BY <1>2, <1>3, <1>4 DEF DateShown

LEMMA DatesKept == SharedInv /\ [SharedNext]_shared => Dates'
<1> SUFFICES ASSUME SharedInv, [SharedNext]_shared PROVE Dates'
  OBVIOUS
<1>0. /\ Dates /\ CycleInv /\ today \in Day /\ marking \in BOOLEAN /\ daily \in BOOLEAN
      /\ Len(plan) \in Nat /\ due_of \in Seq(Day \cup {NoDay}) /\ Len(due_of) = Len(plan)
      /\ due \in Day \cup {NoDay}
  BY Values DEF SharedInv, Sharing, CycleInv, SharingTypeOK
<1>1. ASSUME UNCHANGED marker PROVE MarkedDateShown'
  <2>1. marker # NoDay => DateShown(marker)
    BY <1>0 DEF Dates, MarkedDateShown, DateShown
  <2>2. marker # NoDay => ShownNext(marker)
    BY <2>1, DateKept
  <2> QED
    BY <1>1, <2>2 DEF MarkedDateShown, ShownNext
<1>2. CASE CycleDate /\ Next /\ pc # "idle"
  <2>1. UNCHANGED marker
    BY <1>2 DEF CycleDate
  <2>2. CASE pc' = "idle"
    <3>1. daily' = FALSE /\ marking' = DateDone /\ (marking' => due' = due)
      BY <1>2, <2>2 DEF CycleDate
    <3>2. marking' => due' # NoDay /\ ShownNext(due')
      BY <3>1, DateDoneShown, DateKept
    <3>3. marking' => DateShown(due)'
      BY <3>2 DEF DateShown, ShownNext
    <3> QED
      BY <1>1, <2>1, <2>2, <3>1, <3>2, <3>3 DEF Dates, TxnSteps, CommitSteps, PushSteps
  <2>3. CASE pc' # "idle"
    <3>1. UNCHANGED <<daily, due, marking>> /\ ~marking
      BY <1>0, <1>2, <2>3 DEF CycleDate, Dates
    <3>2. ASSUME pc' \in TxnSteps, mode' = "fresh" PROVE due_of'[Len(plan')] = due'
      <4>1. CASE WritePublishingJournal
        <5>1. Len(plan') = Len(plan) + 1 /\ due_of' = Append(due_of, due)
          BY <1>0, <1>2, <4>1, Begins DEF CycleDate
        <5> QED
          BY <1>0, <3>1, <5>1
      <4>2. CASE pc \in TxnSteps /\ mode = "fresh" /\ ~WritePublishingJournal
        <5>1. UNCHANGED <<plan, due_of>>
          BY <4>2, DateOfTransaction
        <5> QED
          BY <1>0, <3>1, <4>2, <5>1 DEF Dates
      <4> QED
        BY <1>2, <3>2, <4>1, <4>2, LastArrivals
    <3> QED
      BY <1>0, <1>1, <2>1, <2>3, <3>1, <3>2 DEF Dates
  <2> QED
    BY <2>2, <2>3
<1>3. CASE SharedBegin
  <2>1. /\ pc' = "recover" /\ UNCHANGED <<marker, marking>> /\ ~marking
        /\ daily' => due' = today'
    BY <1>3 DEF SharedBegin, BeginCycle, Goto
  <2>2. today' # NoDay
    BY <1>0, <1>3, DayFollows, SharingBounds DEF SharedBegin, Day, NoDay
  <2> QED
    BY <1>1, <2>1, <2>2 DEF Dates, TxnSteps, CommitSteps, PushSteps
<1>4. CASE SharedCrash
  <2>1. /\ pc' = "idle" /\ UNCHANGED marker /\ marking' = FALSE /\ daily' = FALSE
    BY <1>4 DEF SharedCrash, Crash
  <2> QED
    BY <1>1, <2>1 DEF Dates, TxnSteps, CommitSteps, PushSteps
<1>5. CASE MarkDaily
  <2>1. /\ marking /\ UNCHANGED <<pc, mode, plan, daily, due_of>>
        /\ marker' = due /\ marking' = FALSE /\ pc = "idle" /\ ~daily
        /\ DateShown(due)
    BY <1>0, <1>5 DEF MarkDaily, vars, Dates
  <2>2. ShownNext(marker')
    BY <2>1, DateKept
  <2>3. MarkedDateShown'
    BY <2>2 DEF MarkedDateShown, ShownNext
  <2> QED
    BY <2>1, <2>3 DEF Dates, TxnSteps, CommitSteps, PushSteps
<1>6. CASE Uneventful
  <2>1. UNCHANGED <<pc, mode, plan, marker, daily, due_of>>
    BY <1>6 DEF Uneventful
  <2>2. CASE UNCHANGED <<due, marking>>
    <3>1. marking' => ShownNext(due')
      BY <1>0, <2>2, DateKept DEF Dates
    <3>2. marking' => DateShown(due)'
      BY <3>1 DEF DateShown, ShownNext
    <3> QED
      BY <1>0, <1>1, <2>1, <2>2, <3>2 DEF Dates, TxnSteps, CommitSteps, PushSteps
  <2>3. CASE marking /\ due' = NoDay /\ marking' = FALSE
    BY <1>0, <1>1, <2>1, <2>3 DEF Dates, TxnSteps, CommitSteps, PushSteps
  <2> QED
    BY <1>6, <2>2, <2>3 DEF Uneventful
<1> QED
  BY <1>2, <1>3, <1>4, <1>5, <1>6, DateSteps

-----------------------------------------------------------------------------
(***************************************************************************)
(* Every step keeps the invariant.                                         *)
(***************************************************************************)

\* A step beside the repositories and the cycle.
LEMMA OtherKeeps ==
  ASSUME SharedInv, OtherStep
  PROVE  /\ CycleInv' /\ UserTyped'
         /\ Locked' /\ Branches' /\ PagesApart' /\ WorkOffPages' /\ CommittedKept'
         /\ AtTargets' /\ Resting' /\ UserPlace' /\ EditsCounted'
<1>0. /\ UNCHANGED <<journal, staged, work, index, head, remote, pc, mode, cursor,
                     candidate, version_info, plan, foreign>>
      /\ faults' = faults \/ Fault
      /\ \/ UNCHANGED user
         \/ pc = "idle" /\ ustep' = "prepare" /\ ustep = "idle" /\ UNCHANGED <<pages, edits>>
         \/ ustep' = "idle" /\ pages' = {} /\ UNCHANGED edits
  BY DEF OtherStep, durable, UserBegin, UserGoto, repo_free, UserEnds
<1>1. /\ TypeOK /\ NoEmptyBranch /\ Control /\ Typed
  BY TypedParts DEF SharedInv, SharingTypeOK, CycleInv, IInv
<1>2. IInv'
  <2>1. BoundsTyped'
    BY <1>0, <1>1, Frames, FaultTyped DEF Typed, bounds
  <2>2. Typed'
    BY <1>0, <1>1, <2>1, Frames DEF Typed
  <2>3. TypeOK' /\ NoEmptyBranch'
    BY <2>2, TypedParts, PTL
  <2>4. Control'
    <3>1. UNCHANGED <<pc, mode, todo, journal>> /\ CommitRepo' = CommitRepo
      BY <1>0 DEF cursor, CommitRepo
    <3>2. UNCHANGED head
      BY <1>0
    <3> QED
      BY <1>1, <3>1, <3>2
      DEF Control, JournalWellFormed, PhaseOfStep, TodoOfStep, TargetOfStep,
        AllCommitted, PushedPrefix, CommitSteps, PushSteps
  <2> QED
    BY <2>3, <2>4 DEF IInv
<1>3. HistoriesSound' /\ JournalOfPlan'
  BY <1>0
  DEF SharedInv, CycleInv, HistoriesSound, SoundHistory, JournalOfPlan, TargetOf, Txn,
    Open
<1>4. PublishProgress'
  BY <1>0
  DEF SharedInv, CycleInv, PublishProgress, Items, Placed, Waiting, Open, cursor
<1>5. Prepared' /\ CommitPlace' /\ PushSeen'
  <2>1. CommitRepo' = CommitRepo /\ PushRepo' = PushRepo
    BY <1>0 DEF CommitRepo, PushRepo, cursor
  <2> QED
    BY <1>0, <2>1
    DEF SharedInv, CycleInv, Prepared, Clean, CommitPlace, PushSeen, Open, cursor
<1>6. LastInOrder' /\ NothingAbandoned'
  <2>1. UNCHANGED <<plan, remote, journal>>
    BY <1>0
  <2>2. LastInOrder'
    BY <2>1 DEF SharedInv, CycleInv, LastInOrder, Settled, Open
  <2>3. NothingAbandoned'
    BY <2>1 DEF SharedInv, CycleInv, NothingAbandoned, Settled
  <2> QED
    BY <2>2, <2>3
<1>7. UserTyped'
  BY <1>0 DEF SharedInv, SharingTypeOK, UserTyped, UserStep, user
<1>8. /\ Branches' /\ PagesApart' /\ WorkOffPages' /\ CommittedKept' /\ AtTargets'
      /\ Resting'
  BY <1>0
  DEF SharedInv, Sharing, Branches, OnBranch, Continues, PagesApart, WorkOffPages,
    CommittedKept, AtTargets, Resting, OffPages, OnTop, Clean, Open
<1>9. Locked' /\ UserPlace' /\ EditsCounted'
  BY <1>0
  DEF SharedInv, Sharing, Locked, UserPlace, EditsCounted, OffPages, OnTop, Clean, user
<1> QED
  BY <1>2, <1>3, <1>4, <1>5, <1>6, <1>7, <1>8, <1>9 DEF CycleInv

LEMMA NextSharedInv == SharedInv /\ [SharedNext]_shared => SharedInv'
<1> SUFFICES ASSUME SharedInv, [SharedNext]_shared PROVE SharedInv'
  OBVIOUS
<1>1. DaysTyped' /\ Dates'
  BY DaysKept, DatesKept
<1>2. CycleInv' /\ UserTyped' /\ Sharing'
  <2>1. CASE CycleStep
    <3>1. CycleInv'
      BY <2>1, NextCycleInv DEF CycleStep, SharedInv
    <3>2. UserTyped'
      BY <2>1 DEF CycleStep, user, SharedInv, SharingTypeOK, UserTyped, UserStep
    <3>3. Locked' /\ UserPlace' /\ EditsCounted'
      BY <2>1, CycleKeepsUser
    <3>4. /\ Branches' /\ PagesApart' /\ WorkOffPages' /\ CommittedKept'
          /\ AtTargets' /\ Resting'
      BY <2>1, CycleKeepsBranches, CycleKeepsPages, CycleKeepsWork,
        CycleKeepsCommitted, CycleKeepsTargets, CycleKeepsResting
      DEF CycleStep
    <3> QED
      BY <1>1, <3>1, <3>2, <3>3, <3>4 DEF Sharing
  <2>2. CASE UserRuns
    BY <2>2, UserKeepsCycleInv, UserKeepsSharing, UserTypes
  <2>3. CASE OtherStep
    BY <1>1, <2>3, OtherKeeps DEF Sharing
  <2> QED
    BY <2>1, <2>2, <2>3, SharedSteps DEF SharedInv, Sharing
<1>3. SharingTypeOK'
  <2>1. TypeOK'
    BY <1>2 DEF CycleInv, IInv
  <2> QED
    BY <1>1, <1>2, <2>1 DEF SharingTypeOK, UserTyped, DaysTyped
<1> QED
  BY <1>2, <1>3 DEF SharedInv

LEMMA InitSharedInv == SharedInit => SharedInv
<1> SUFFICES ASSUME SharedInit PROVE SharedInv
  OBVIOUS
<1>1. Init /\ CycleInv /\ TypeOK
  BY InitTxnInv DEF SharedInit, TxnInv, CycleInv, IInv
<1>2. SharingTypeOK
  <2>1. Len(plan) = 0 /\ due_of = << >>
    BY <1>1 DEF Init, SharedInit
  <2>2. 0 \in Day /\ 0 \in 0..MaxEdits
    BY SharingBounds DEF Day
  <2>3. ustep \in UserStep /\ pages \subseteq Pages /\ edits \in 0..MaxEdits
    BY <2>2 DEF SharedInit, UserStep
  <2>4. {booted, daily, marking} \subseteq BOOLEAN
    BY DEF SharedInit
  <2>5. due_of \in Seq(Day \cup {NoDay}) /\ Len(due_of) = Len(plan)
    BY <2>1
  <2>6. /\ today \in Day /\ marker \in Day \cup {NoDay} /\ due \in Day \cup {NoDay}
        /\ pages = {}
    BY <2>2 DEF SharedInit
  <2> QED
    BY <1>1, <2>3, <2>4, <2>5, <2>6 DEF SharingTypeOK
<1>3. /\ ~Open /\ pc = "idle" /\ ustep = "idle" /\ Len(plan) = 0
      /\ marker = NoDay /\ ~marking /\ ~daily
  BY <1>1 DEF Init, SharedInit, Open, NoJournal
<1>4. \A r \in Repo : /\ work[r] = TreeOf(head[r]) /\ index[r] = TreeOf(head[r])
                      /\ remote[r] = head[r] /\ head[r] \in Sha
  BY <1>1, Values DEF Init, TreeOf, FirstCommit, CycleInv
<1>5. \A r \in Repo : Ancestor(head[r], remote[r])
  BY <1>4, AncestorOrder
<1>6. OffPages /\ OnTop
  BY <1>4, <1>5, OnTopFacts DEF OffPages, OnTop, Like, Repo
<1>7. Resting
  BY <1>4, <1>5, <1>6 DEF Resting, Clean, Repo
<1>8. /\ Locked /\ Branches /\ PagesApart /\ WorkOffPages /\ CommittedKept /\ AtTargets
      /\ UserPlace /\ EditsCounted
  BY <1>3
  DEF Locked, Branches, PagesApart, WorkOffPages, CommittedKept, AtTargets, UserPlace,
    EditsCounted
<1>9. Dates
  BY <1>3 DEF Dates, TxnSteps, CommitSteps, PushSteps, MarkedDateShown
<1> QED
  BY <1>1, <1>2, <1>7, <1>8, <1>9 DEF SharedInv, Sharing

-----------------------------------------------------------------------------
(***************************************************************************)
(* The theorems.                                                           *)
(***************************************************************************)

\* The lock in place of a shared journal: whatever the user information updater
\* leaves of its pages in the repository, and wherever either program dies, the
\* update cycle finds at its next step what that step relies on.
THEOREM SharingInvariance == SharedSpec => []SharedInv
<1> QED
  BY InitSharedInv, NextSharedInv, PTL DEF SharedSpec

\* Both programs keep their variables' types; run_once holds no pages but while it
\* writes them, and every journal has its date.
THEOREM SharingTypeCorrect == SharedSpec => []SharingTypeOK
<1>1. SharedInv => SharingTypeOK
  BY DEF SharedInv
<1> QED
  BY <1>1, SharingInvariance, PTL

\* The next cycle can prepare, but for what the user information updater has not
\* committed or not pushed: neither a recovered transaction nor a fresh one leaves
\* anything else in the way of prepare_repo_for_update.
THEOREM OnlyPagesLeft == SharedSpec => []OnlyPagesInTheWay
<1>1. SharedInv => OnlyPagesInTheWay
  <2> SUFFICES ASSUME SharedInv, ~Open PROVE OnlyPagesInTheWay
    BY DEF OnlyPagesInTheWay, Open
  <2>1. OffPages /\ OnTop
    BY DEF SharedInv, Sharing, Resting
  <2>2. "i18n" \in Enabled => Clean("i18n") /\ Ancestor(head["i18n"], remote["i18n"])
    BY DEF SharedInv, Sharing, Resting
  <2>3. \A f \in Files \ Pages : /\ work["master"][f] = TreeOf(head["master"])[f]
                                 /\ index["master"][f] = TreeOf(head["master"])[f]
    BY <2>1 DEF OffPages, Like, Kept
  <2> QED
    BY <2>1, <2>2, <2>3 DEF OnlyPagesInTheWay, OnTop, OnTopOf
<1> QED
  BY <1>1, SharingInvariance, PTL

\* _mark_daily_completed: no crash, no skipped cycle and no recovery of an older
\* transaction marks a date whose daily refresh a remote does not show.
THEOREM MarkedDatesShown == SharedSpec => []MarkedDateShown
<1>1. SharedInv => MarkedDateShown
  BY DEF SharedInv, Sharing, Dates
<1> QED
  BY <1>1, SharingInvariance, PTL

\* A commit of a transaction that reached a remote holds exactly the planned tree: no
\* unfinished edit of the other program, and no file less, got into it.
THEOREM SharedCommitsNotTorn == SharedSpec => []NoTornCommit
<1>1. SharedInv => NoTornCommit
  BY DEF SharedInv, CycleInv, HistoriesSound, SoundHistory, NoTornCommit
<1> QED
  BY <1>1, SharingInvariance, PTL

\* Two programs push to the master remote, the second without a lease: neither
\* takes from it a commit of the other or of somebody else.
THEOREM SharedRemotesGrow == SharedSpec => RemoteOnlyGrows
<1>1. SharedInv /\ [SharedNext]_shared
        => [\A r \in Repo : Ancestor(remote[r], remote'[r])]_vars
  <2> SUFFICES ASSUME SharedInv, [SharedNext]_shared, NEW r \in Repo
               PROVE  Ancestor(remote[r], remote'[r])
    OBVIOUS
  <2>1. CASE CycleStep
    BY <2>1, RemoteStep DEF CycleStep, SharedInv
  <2>2. CASE UserRuns
    BY <2>2, UserRemote
  <2>3. CASE OtherStep
    <3>1. remote[r] \in Sha /\ remote' = remote
      BY <2>3, Values DEF OtherStep, SharedInv, CycleInv
    <3> QED
      BY <3>1, AncestorOrder
  <2> QED
    BY <2>1, <2>2, <2>3, SharedSteps DEF SharedInv, Sharing
<1> QED
  BY <1>1, SharingInvariance, PTL DEF SharedSpec, RemoteOnlyGrows

\* To the readers of the remotes the second program does not show among the
\* transactions: they are published one after the other, each exactly once and
\* i18n first, although its commits lie between them.
THEOREM SharingImplementsDualPublish == SharedSpec => ImplementsDualPublish
<1>1. SharedInit => DP!PubInit
  BY InitPublish DEF SharedInit
<1>2. SharedInv /\ [SharedNext]_shared => [DP!PubNext]_(DP!pubvars)
  <2> SUFFICES ASSUME SharedInv, [SharedNext]_shared PROVE [DP!PubNext]_(DP!pubvars)
    OBVIOUS
  <2>S. ASSUME UNCHANGED <<Updates, Open, Shown>> PROVE [DP!PubNext]_(DP!pubvars)
    BY <2>S DEF Updates, Open, Shown, DP!pubvars
  <2>1. CASE CycleStep
    BY <2>1, StepPublish DEF CycleStep, SharedInv
  <2>2. CASE UserRuns
    <3>1. UNCHANGED <<journal, plan>> /\ Len(plan) \in Nat
      BY <2>2, UserFacts, Values DEF SharedInv, CycleInv
    <3>2. ASSUME NEW r \in Repo, NEW n \in 1..Len(plan)
          PROVE  Contains(remote'[r], n) <=> Contains(remote[r], n)
      BY <2>2, <3>1, UserRemote
    <3>3. Shown' = Shown
      BY <3>1, <3>2 DEF Shown
    <3> QED
      BY <2>S, <3>1, <3>3 DEF Updates, Open
  <2>3. CASE OtherStep
    BY <2>3, <2>S DEF OtherStep, durable, Updates, Open, Shown
  <2> QED
    BY <2>1, <2>2, <2>3, SharedSteps DEF SharedInv, Sharing
<1> QED
  BY <1>1, <1>2, SharingInvariance, PTL
  DEF SharedSpec, ImplementsDualPublish, DP!PubSpec

=============================================================================
