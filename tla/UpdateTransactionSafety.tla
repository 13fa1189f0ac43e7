----------------------- MODULE UpdateTransactionSafety -----------------------
(***************************************************************************)
(* What the updater does to the data: that commits are whole, remotes only *)
(* grow and show i18n first, no transaction is lost, versions.json moves   *)
(* last, and that UpdateTransaction implements DualPublish.  All of it for *)
(* every set of enabled repositories, every set of files and every number  *)
(* of transactions, faults and foreign commits.                            *)
(*                                                                         *)
(* The inductive invariant adds to IInv (UpdateTransactionProofs) what the *)
(* journal, the working trees, the branches and the remotes say of the     *)
(* same transaction while it moves from one to the next.                   *)
(***************************************************************************)
EXTENDS UpdateTransactionProofs, SequenceTheorems

-----------------------------------------------------------------------------
(***************************************************************************)
(* The inductive invariant.                                                *)
(***************************************************************************)

\* A transaction is pending, and what it set out to publish.
Open == journal.phase # "absent"
Txn  == plan[Len(plan)]

\* Every commit of the history sha of r up to transaction n holds the tree its
\* transaction set out to publish.
SoundHistory(p, r, sha, n) ==
  \A k \in 1..Len(sha) :
    /\ sha[k].by <= n
    /\ sha[k].by > 0 => sha[k].tree = p[sha[k].by].tree[r]

\* No branch holds a commit other than the planned ones.
HistoriesSound ==
  \A r \in Repo : /\ SoundHistory(plan, r, head[r], Len(plan))
                  /\ SoundHistory(plan, r, remote[r], Len(plan))

\* The commit transaction Len(plan) is due in r: none when it changes nothing.
TargetOf(r) ==
  IF Txn.tree[r] = TreeOf(journal.base[r]) THEN journal.base[r]
  ELSE Append(journal.base[r], [by |-> Len(plan), tree |-> Txn.tree[r]])

\* The journal is the record of the last transaction of plan, whose base is from
\* before it, and a recorded target is the due one.
JournalOfPlan ==
  Open => /\ Len(plan) > 0
          /\ \A r \in Enabled :
               /\ Txn.base[r] = journal.base[r]
               /\ Txn.tree[r] = Overlay(journal.source[r], TreeOf(journal.base[r]))
               /\ SoundHistory(plan, r, journal.base[r], Len(plan) - 1)
               /\ journal.target[r] \in {NoSha, TargetOf(r)}

\* The files of the transaction; one is placed once it is in the working tree,
\* and waits while it is in staging.
Items == {i \in Enabled \X Files : journal.source[i[1]][i[2]] # Absent}
Placed(i) == work[i[1]][i[2]] = journal.source[i[1]][i[2]]
Waiting(i) == staged[i[1]][i[2]] = journal.source[i[1]][i[2]]

\* What publication has taken off its list is placed, what a fresh cycle still
\* has to move waits, and after publication everything is placed.
PublishProgress ==
  /\ pc \in {"publish", "checkpoint"} =>
       rest \subseteq Items /\ \A i \in Items \ rest : Placed(i)
  /\ pc = "checkpoint" => Placed(cur)
  /\ pc = "publish" /\ mode = "fresh" => \A i \in rest : Waiting(i)
  /\ pc = "checkpoint" /\ mode = "fresh" => \A i \in rest \ {cur} : Waiting(i)
  /\ pc = "committing" \/ journal.phase \in {"committing", "pushing", "completed"}
       => \A i \in Items : Placed(i)

\* The cycle generates from repositories it has found clean.
Prepared ==
  /\ pc \in {"generate", "snapshot"} => \A r \in Enabled : Clean(r)
  /\ pc = "prepare" => \A r \in Enabled \ todo : Clean(r)

\* The branch under work is at the base before its target is made, and at the
\* target, and then its index too, before its commit is marked.
CommitPlace ==
  /\ pc = "target" => head[CommitRepo] = journal.base[CommitRepo]
  /\ pc \in {"index", "mark"} => head[CommitRepo] = journal.target[CommitRepo]
  /\ pc = "mark" => index[CommitRepo] = TreeOf(journal.target[CommitRepo])

\* A push is marked once the remote shows the target.
PushSeen ==
  /\ Open => \A r \in Enabled :
       journal.push[r] = "pushed" => Ancestor(journal.target[r], remote[r])
  /\ pc = "pushed" => Ancestor(journal.target[PushRepo], remote[PushRepo])

\* I18nBeforeMaster for the transaction that is pending.
LastInOrder ==
  Open /\ Contains(remote["master"], Len(plan)) => Settled("i18n", Len(plan))

\* What a cycle needs of the repositories and keeps, whoever else uses them between
\* two cycles.
CycleInv == /\ IInv
            /\ HistoriesSound /\ JournalOfPlan /\ PublishProgress /\ Prepared
            /\ CommitPlace /\ PushSeen /\ LastInOrder /\ NothingAbandoned

\* Outside the manifest the working tree is that of the base.
WorkOfJournal ==
  Open => \A r \in Enabled : \A f \in Files :
            journal.source[r][f] = Absent => work[r][f] = TreeOf(journal.base[r])[f]

\* A branch leaves the base after its target is recorded, and a commit is marked
\* after branch and index are at the target.
CommitProgress ==
  Open => \A r \in Enabled :
    /\ journal.target[r] = NoSha => head[r] = journal.base[r]
    /\ journal.commit[r] = "committed" =>
         head[r] = journal.target[r] /\ index[r] = TreeOf(journal.target[r])

\* b continues a with commits that leave its tree alone.
Extends(a, b) == Ancestor(a, b) /\ TreeOf(b) = TreeOf(a)

\* The remote of a marked push keeps the tree of the target.
PushProgress ==
  /\ Open => \A r \in Enabled :
       journal.push[r] = "pushed" => Extends(journal.target[r], remote[r])
  /\ pc = "pushed" => Extends(journal.target[PushRepo], remote[PushRepo])

\* Without a journal every repository is clean, and its remote at most ahead by
\* commits that leave its tree alone.
Quiet ==
  ~Open => \A r \in Enabled : /\ work[r] = TreeOf(head[r])
                              /\ index[r] = TreeOf(head[r])
                              /\ Extends(head[r], remote[r])

\* Where the version comes from: a candidate, its staged versions.json, the
\* journal, and last the working tree.
VersionProgress ==
  "master" \in Enabled =>
    /\ pc \in {"prepare", "generate"} => candidate # Absent
    /\ pc = "snapshot" => staged["master"][Versions] # Absent
    /\ Open => journal.source["master"][Versions] # Absent
    /\ version_info # Absent /\ (journal.phase # "publishing" \/ pc = "committing")
         => version_info = work["master"][Versions]

Data == /\ WorkOfJournal /\ VersionsLast /\ CommitProgress /\ PushProgress /\ Quiet
        /\ VersionProgress

TxnInv == CycleInv /\ Data

-----------------------------------------------------------------------------
(***************************************************************************)
(* Lemmas about histories.                                                 *)
(***************************************************************************)

\* The commits of a history.
LEMMA CommitsOf ==
  ASSUME NEW sha \in Sha, NEW k \in 1..Len(sha)
  PROVE  sha[k] \in Commit /\ sha[k].by \in Int /\ sha[k].tree \in Tree
<1>1. sha[k] \in Commit
  BY DEF Sha
<1> QED
  BY <1>1 DEF Commit

\* To be an ancestor is to hold the same commits at the same places.
LEMMA AncestorPoints ==
  ASSUME NEW a \in Sha, NEW b \in Sha
  PROVE  Ancestor(a, b) <=> /\ Len(a) <= Len(b)
                            /\ \A k \in 1..Len(a) : a[k] = b[k]
<1>1. CASE Len(a) <= Len(b)
  <2>1. SubSeq(b, 1, Len(a)) = [k \in 1..Len(a) |-> b[k]]
    BY <1>1 DEF Sha
  <2>2. a = [k \in 1..Len(a) |-> a[k]]
    BY DEF Sha
  <2> QED
    BY <1>1, <2>1, <2>2 DEF Ancestor
<1> QED
  BY <1>1 DEF Ancestor

\* The ancestors are a partial order.
LEMMA AncestorOrder ==
  ASSUME NEW a \in Sha, NEW b \in Sha, NEW c \in Sha
  PROVE  /\ Ancestor(a, a)
         /\ Ancestor(a, b) /\ Ancestor(b, c) => Ancestor(a, c)
         /\ Ancestor(a, b) /\ Ancestor(b, a) => a = b
<1>1. Ancestor(a, a)
  BY AncestorPoints DEF Sha
<1>2. ASSUME Ancestor(a, b), Ancestor(b, c) PROVE Ancestor(a, c)
  BY <1>2, AncestorPoints DEF Sha
<1>3. ASSUME Ancestor(a, b), Ancestor(b, a) PROVE a = b
  BY <1>3, AncestorPoints, SeqEqual DEF Sha
<1> QED
  BY <1>1, <1>2, <1>3

\* A commit on top of a history descends from it.
LEMMA AncestorAppend ==
  ASSUME NEW a \in Sha, NEW c \in Commit
  PROVE  Append(a, c) \in Sha /\ Ancestor(a, Append(a, c))
<1>1. Append(a, c) \in Sha /\ Len(Append(a, c)) = Len(a) + 1
      /\ \A k \in 1..Len(a) : Append(a, c)[k] = a[k]
  BY DEF Sha
<1>2. Len(a) \in Nat
  BY DEF Sha
<1> DEFINE b == Append(a, c)
<1>3. b \in Sha /\ Len(a) <= Len(b) /\ \A k \in 1..Len(a) : a[k] = b[k]
  BY <1>1, <1>2
<1> HIDE DEF b
<1>4. Ancestor(a, b)
  BY <1>3, AncestorPoints
<1> QED
  BY <1>3, <1>4 DEF b

\* What a commit on top of a history adds to it.
LEMMA AppendFacts ==
  ASSUME NEW a \in Sha, NEW c \in Commit
  PROVE  /\ TreeOf(Append(a, c)) = c.tree
         /\ \A n : Contains(Append(a, c), n) <=> Contains(a, n) \/ c.by = n
<1>1. /\ Len(a) \in Nat /\ Len(Append(a, c)) = Len(a) + 1
      /\ Append(a, c)[Len(a) + 1] = c
      /\ \A k \in 1..Len(a) : Append(a, c)[k] = a[k]
  BY DEF Sha
<1>2. 1..Len(Append(a, c)) = 1..Len(a) \cup {Len(a) + 1}
  BY <1>1
<1> QED
  BY <1>1, <1>2 DEF TreeOf, Contains

\* A descendant holds every commit its ancestor holds.
LEMMA ContainsGrows ==
  ASSUME NEW a \in Sha, NEW b \in Sha, Ancestor(a, b), NEW n, Contains(a, n)
  PROVE  Contains(b, n)
<1>1. PICK k \in 1..Len(a) : a[k].by = n
  BY DEF Contains
<1>2. k \in 1..Len(b) /\ b[k] = a[k]
  BY AncestorPoints DEF Sha
<1> QED
  BY <1>1, <1>2 DEF Contains

\* A history is sound up to every later transaction, and a commit of its own
\* transaction keeps it sound.
LEMMA SoundLater ==
  ASSUME NEW p, NEW r, NEW sha \in Sha, NEW n \in Int, NEW m \in Int, n <= m,
         SoundHistory(p, r, sha, n)
  PROVE  SoundHistory(p, r, sha, m)
<1>1. \A k \in 1..Len(sha) : sha[k].by \in Int
  BY CommitsOf
<1> QED
  BY <1>1 DEF SoundHistory

LEMMA SoundAppend ==
  ASSUME NEW p, NEW r, NEW sha \in Sha, NEW n \in Int, NEW c \in Commit,
         SoundHistory(p, r, sha, n), c.by <= n,
         c.by > 0 => c.tree = p[c.by].tree[r]
  PROVE  SoundHistory(p, r, Append(sha, c), n)
<1>1. /\ Len(sha) \in Nat /\ Len(Append(sha, c)) = Len(sha) + 1
      /\ Append(sha, c)[Len(sha) + 1] = c
      /\ \A k \in 1..Len(sha) : Append(sha, c)[k] = sha[k]
  BY DEF Sha
<1>2. 1..Len(Append(sha, c)) = 1..Len(sha) \cup {Len(sha) + 1}
  BY <1>1
<1> QED
  BY <1>1, <1>2 DEF SoundHistory

\* A sound history says the same of a plan that has grown.
LEMMA SoundPlanGrows ==
  ASSUME NEW p, NEW q, NEW r, NEW sha \in Sha, NEW m \in Nat,
         \A n \in 1..m : q[n] = p[n],
         SoundHistory(p, r, sha, m)
  PROVE  SoundHistory(q, r, sha, m)
<1>1. \A k \in 1..Len(sha) : sha[k].by \in Int
  BY CommitsOf
<1> QED
  BY <1>1 DEF SoundHistory

\* A commit that leaves the tree alone continues what the history continues.
LEMMA ExtendsGrows ==
  ASSUME NEW a \in Sha, NEW b \in Sha, Extends(a, b),
         NEW c \in Commit, c.tree = TreeOf(b)
  PROVE  Extends(a, Append(b, c))
BY AncestorAppend, AncestorOrder, AppendFacts DEF Extends

\* Laying an empty manifest over a tree is no change.
LEMMA OverlayFacts ==
  ASSUME NEW source \in Tree, NEW tree \in Tree
  PROVE  /\ Overlay(source, tree) \in Tree
         /\ (\A f \in Files : source[f] = Absent) => Overlay(source, tree) = tree
BY DEF Overlay, Tree

-----------------------------------------------------------------------------
(***************************************************************************)
(* Who writes what.                                                        *)
(***************************************************************************)

\* os.replace of one file: of a waiting one, when recovery does it.
Moves(i) == /\ pc = "publish" /\ i \in PublishNext(rest) /\ i \in rest /\ Replace(i)
            /\ UNCHANGED <<remote, mode, version_info, plan>>
            /\ mode = "recovery" => ~Placed(i) /\ Waiting(i)

\* Recovery accepts a completed journal.
Completes == /\ pc = "recover" /\ CompletedValid
             /\ journal.phase = "completed"
             /\ UNCHANGED <<staged, work, index, head, remote, version_info, plan>>
             /\ pc' = "gate"

\* The destination checkpoint of a file.
Checkpoints == /\ pc \in {"publish", "checkpoint"}
               /\ \E i, c : journal' = [journal EXCEPT !.dest[i[1]][i[2]] = c]
               /\ UNCHANGED <<staged, work, index, head, remote, version_info, plan>>

\* Recovery settles a repository whose manifest is empty.
SettlesEmpty == /\ RecoverCommitRepo
                /\ journal.target[CommitRepo] = NoSha
                /\ RecoveryManifestState(CommitRepo) /\ RecoveryHead(CommitRepo)
                /\ Manifest(journal, CommitRepo) = {}
                /\ journal' = [journal EXCEPT !.target[CommitRepo] = head[CommitRepo],
                                              !.commit[CommitRepo] = "committed"]

\* Every step leaves a variable alone or is one of these.
LEMMA Writers ==
  ASSUME [Next]_vars
  PROVE
  /\ \/ UNCHANGED journal \/ WritePublishingJournal
     \/ (Completes \/ DeleteJournal) /\ journal' = NoJournal
     \/ Checkpoints \/ EnterCommitting \/ EnterPushing \/ PushDone
     \/ SettlesEmpty \/ PrepareTarget \/ MarkCommitted \/ MarkPushed
  /\ UNCHANGED plan \/ WritePublishingJournal
  /\ UNCHANGED head \/ PrepareRepo \/ UpdateBranch
  /\ UNCHANGED remote \/ PushHead \/ \E r \in Repo : ForeignPush(r)
  /\ UNCHANGED index \/ PrepareRepo \/ InstallIndex
  /\ UNCHANGED work \/ PrepareRepo \/ \E i \in rest : Moves(i)
  /\ \/ UNCHANGED staged \/ Generate \/ \E i \in rest : Moves(i)
     \/ /\ pc \in {"generate", "snapshot", "cleanup"}
        /\ UNCHANGED <<journal, work, index, head, remote, version_info, plan>>
        /\ pc' \in {"idle", "delete"}
<1> USE DEF durable, cursor
<1>1. CASE Recovery
  BY <1>1 DEF Recovery, NothingToRecover, RecoverCompleted, Return, Goto,
    RecoverPublishing, RecoverCommitting, Completes
<1>2. CASE SkipCycle \/ PrepareRepo \/ Generate \/ RemoteSnapshotFails
  BY <1>2 DEF SkipCycle, PrepareRepo, Generate, RemoteSnapshotFails
<1>3. CASE GenerationFails \/ DeadlineExceeded
  BY <1>3 DEF GenerationFails, DeadlineExceeded, Return
<1>4. CASE WritePublishingJournal
  BY <1>4 DEF WritePublishingJournal
<1>5. CASE \E daily \in BOOLEAN :
           \E observed \in {work["master"][Versions], Len(plan) + 1} \ {Absent} :
             Gate(daily, observed)
  BY <1>5 DEF Gate
<1>6. ASSUME NEW i \in rest, PublishFile(i) \/ RecoverPublishFile(i)
      PROVE  Moves(i) \/ Checkpoints \/ UNCHANGED <<durable, remote, plan>>
  BY <1>6 DEF PublishFile, RecoverPublishFile, CheckpointAs, Moves, Checkpoints,
    Placed, Waiting
<1>7. Checkpoint => Checkpoints
  BY DEF Checkpoint, CheckpointAs, Checkpoints
<1>8. CASE \E i \in rest : PublishFile(i) \/ RecoverPublishFile(i)
  BY <1>6, <1>8 DEF Moves, Replace, Checkpoints
<1>9. CASE Checkpoint \/ PublicationDone \/ EnterCommitting
  BY <1>7, <1>9 DEF Checkpoints, PublicationDone, EnterCommitting
<1>10. CASE RecoverCommitRepo
  BY <1>10 DEF RecoverCommitRepo, SettlesEmpty
<1>11. CASE StartCommit \/ PrepareTarget \/ UpdateBranch
            \/ InstallIndex \/ MarkCommitted \/ CommitDone
  BY <1>11 DEF StartCommit, PrepareTarget, UpdateBranch, InstallIndex,
    MarkCommitted, CommitDone
<1>12. CASE EnterPushing \/ ProbeRemote \/ PushHead \/ ConfirmPush \/ MarkPushed
            \/ PushDone
  BY <1>12 DEF EnterPushing, ProbeRemote, PushHead, ConfirmPush, MarkPushed, PushDone
<1>13. CASE ClearStaging \/ DeleteJournal
  BY <1>13 DEF ClearStaging, DeleteJournal, Goto
<1>14. CASE BeginCycle \/ Crash \/ StepFails \/ CommitFails \/ PushLost
  BY <1>14 DEF BeginCycle, Crash, StepFails, CommitFails, PushLost
<1>15. CASE \E r \in Repo : ForeignPush(r)
  BY <1>15 DEF ForeignPush
<1>16. CASE UNCHANGED vars
  BY <1>16 DEF vars
<1> QED
  BY <1>1, <1>2, <1>3, <1>4, <1>5, <1>8, <1>9, <1>10, <1>11, <1>12, <1>13, <1>14,
     <1>15, <1>16
  DEF Next, Cycle, Fresh, Publication, Commits, Pushes

-----------------------------------------------------------------------------
(***************************************************************************)
(* What the invariant says of the values.                                  *)
(***************************************************************************)

\* The types, repository by repository.
LEMMA Values ==
  ASSUME IInv
  PROVE  /\ \A r \in Repo : /\ head[r] \in Sha /\ head[r] # NoSha
                            /\ remote[r] \in Sha /\ remote[r] # NoSha
                            /\ work[r] \in Tree /\ index[r] \in Tree
                            /\ staged[r] \in Tree
                            /\ journal.source[r] \in Tree
                            /\ journal.base[r] \in Sha /\ journal.target[r] \in Sha
                            /\ Open /\ r \in Enabled => journal.base[r] # NoSha
         /\ \A r \in Enabled : r \in Repo
         /\ journal \in Journal
         /\ Len(plan) \in Nat
         /\ \A n \in 1..Len(plan) : \A r \in Repo : plan[n].tree[r] \in Tree
<1> DEFINE T == [base : [Repo -> Sha], tree : [Repo -> Tree]]
<1>1. plan \in Seq(T)
  BY DEF IInv, TypeOK
<1> HIDE DEF T
<1>2. Len(plan) \in Nat /\ \A n \in 1..Len(plan) : plan[n] \in T
  BY <1>1
<1>3. \A n \in 1..Len(plan) : \A r \in Repo : plan[n].tree[r] \in Tree
  BY <1>2 DEF T
<1> QED
  BY <1>2, <1>3, OptionsAssumption DEF IInv, TypeOK, NoEmptyBranch, Journal, Open

\* The due commit: a sound history on top of the base, with the planned tree.
LEMMA TargetFacts ==
  ASSUME IInv, JournalOfPlan, Open, NEW r \in Enabled
  PROVE  /\ TargetOf(r) \in Sha /\ TargetOf(r) # NoSha
         /\ Ancestor(journal.base[r], TargetOf(r))
         /\ TreeOf(TargetOf(r)) = Txn.tree[r]
         /\ Txn.tree[r] \in Tree
         /\ SoundHistory(plan, r, TargetOf(r), Len(plan))
         /\ SoundHistory(plan, r, journal.base[r], Len(plan))
         /\ ~Contains(journal.base[r], Len(plan))
         /\ \A n : Contains(TargetOf(r), n) <=>
                     \/ Contains(journal.base[r], n)
                     \/ Txn.tree[r] # TreeOf(journal.base[r]) /\ n = Len(plan)
<1> DEFINE base == journal.base[r]
           n    == Len(plan)
           c    == [by |-> n, tree |-> Txn.tree[r]]
<1>1. /\ n \in Nat /\ n > 0 /\ base \in Sha /\ base # NoSha
      /\ Txn.tree[r] \in Tree
      /\ SoundHistory(plan, r, base, n - 1)
  <2>1. /\ n \in Nat /\ n > 0 /\ base \in Sha /\ base # NoSha
        /\ SoundHistory(plan, r, base, n - 1) /\ r \in Repo
    BY Values DEF JournalOfPlan
  <2>2. n \in 1..Len(plan)
    BY <2>1
  <2>3. plan[n].tree[r] \in Tree
    BY <2>1, <2>2, Values
  <2> QED
    BY <2>1, <2>3 DEF Txn
<1>2. c \in Commit /\ c.by = n /\ c.tree = Txn.tree[r]
  BY <1>1 DEF Commit
<1>3. SoundHistory(plan, r, base, n)
  BY <1>1, SoundLater
<1>4. ~Contains(base, n)
  <2>1. \A k \in 1..Len(base) : base[k].by \in Int /\ base[k].by <= n - 1
    BY <1>1, CommitsOf DEF SoundHistory
  <2> QED
    BY <1>1, <2>1 DEF Contains
<1>5. CASE Txn.tree[r] = TreeOf(base)
  BY <1>1, <1>3, <1>4, <1>5, AncestorOrder DEF TargetOf
<1>6. CASE Txn.tree[r] # TreeOf(base)
  <2>1. TargetOf(r) = Append(base, c)
    BY <1>6 DEF TargetOf
  <2>2. Append(base, c) \in Sha /\ Ancestor(base, Append(base, c))
    BY <1>1, <1>2, AncestorAppend
  <2>3. Append(base, c) # NoSha
    BY <1>1 DEF NoSha, Sha
  <2>4. /\ TreeOf(Append(base, c)) = c.tree
        /\ \A m : Contains(Append(base, c), m) <=> Contains(base, m) \/ c.by = m
    BY <1>1, <1>2, AppendFacts
  <2>5. SoundHistory(plan, r, Append(base, c), n)
    BY <1>1, <1>2, <1>3, SoundAppend DEF Txn
  <2> HIDE DEF c
  <2> QED
    BY <1>1, <1>2, <1>3, <1>4, <1>6, <2>1, <2>2, <2>3, <2>4, <2>5
<1> QED
  BY <1>5, <1>6

-----------------------------------------------------------------------------
\* What a transaction starts from.
LEMMA Begins ==
  ASSUME CycleInv, WritePublishingJournal
  PROVE  /\ ~Open /\ Open'
         /\ Len(plan) \in Nat /\ Len(plan') = Len(plan) + 1
         /\ \A n \in 1..Len(plan) : plan'[n] = plan[n]
         /\ UNCHANGED <<staged, work, index, head, remote, version_info>>
         /\ journal'.phase = "publishing" /\ journal'.source = staged
         /\ \A r \in Enabled :
              /\ remote[r] = head[r]
              /\ work[r] = TreeOf(head[r]) /\ index[r] = TreeOf(head[r])
              /\ journal'.base[r] = head[r] /\ journal'.target[r] = NoSha
              /\ journal'.commit[r] = "pending" /\ journal'.push[r] = "pending"
              /\ Txn'.base[r] = head[r]
              /\ Txn'.tree[r] = Overlay(staged[r], TreeOf(head[r]))
<1> DEFINE T == [base : [Repo -> Sha], tree : [Repo -> Tree]]
           bases == [r \in Repo |-> IF r \in Enabled THEN head[r] ELSE NoSha]
           t == [base |-> bases, tree |-> [r \in Repo |-> Overlay(staged[r], work[r])]]
<1>1. ~Open
  BY DEF WritePublishingJournal, CycleInv, IInv, Control, PhaseOfStep, Open
<1>2. plan \in Seq(T) /\ plan' = Append(plan, t)
  BY DEF WritePublishingJournal, CycleInv, IInv, TypeOK
<1>3. /\ Len(plan) \in Nat /\ Len(plan') = Len(plan) + 1
      /\ \A n \in 1..Len(plan) : plan'[n] = plan[n]
      /\ Txn' = t
  <2> HIDE DEF t, T
  <2> QED
    BY <1>2 DEF Txn
<1>4. \A r \in Enabled : work[r] = TreeOf(head[r]) /\ index[r] = TreeOf(head[r])
  BY DEF WritePublishingJournal, CycleInv, Prepared, Clean
<1>5. journal' = [NoJournal EXCEPT !.phase = "publishing", !.source = staged,
                                   !.base = bases]
  BY DEF WritePublishingJournal
<1>6. /\ journal'.phase = "publishing" /\ journal'.source = staged
      /\ \A r \in Repo : /\ journal'.base[r] = bases[r] /\ journal'.target[r] = NoSha
                         /\ journal'.commit[r] = "pending"
                         /\ journal'.push[r] = "pending"
  BY <1>5 DEF NoJournal
<1>7. \A r \in Enabled : r \in Repo /\ remote[r] = head[r]
  BY OptionsAssumption DEF WritePublishingJournal
<1>8. UNCHANGED <<staged, work, index, head, remote, version_info>>
  BY DEF WritePublishingJournal
<1>9. \A r \in Enabled : /\ Txn'.base[r] = head[r]
                         /\ Txn'.tree[r] = Overlay(staged[r], TreeOf(head[r]))
  BY <1>3, <1>4, <1>7
<1> QED
  BY <1>1, <1>3, <1>4, <1>6, <1>7, <1>8, <1>9 DEF Open

\* The steps that rewrite the journal of a transaction.
Rewrites == \/ Checkpoints \/ EnterCommitting \/ EnterPushing \/ PushDone
            \/ SettlesEmpty \/ PrepareTarget \/ MarkCommitted \/ MarkPushed

\* They leave the files, the branches, the plan and what they rest on alone.
LEMMA JournalKept ==
  ASSUME CycleInv, Rewrites
  PROVE  /\ Open /\ Open'
         /\ journal'.source = journal.source /\ journal'.base = journal.base
         /\ UNCHANGED <<staged, work, index, head, remote, plan>>
<1>1. journal \in Journal
  BY Values DEF CycleInv
<1>2. Open
  BY DEF Rewrites, Checkpoints, EnterCommitting, EnterPushing, PushDone, SettlesEmpty,
    RecoverCommitRepo, PrepareTarget, MarkCommitted, MarkPushed, CycleInv, IInv, Control,
    PhaseOfStep, CommitSteps, PushSteps, Open
<1>3. UNCHANGED <<staged, work, index, head, remote, plan>>
  BY DEF Rewrites, Checkpoints, EnterCommitting, EnterPushing, PushDone, SettlesEmpty,
    RecoverCommitRepo, PrepareTarget, MarkCommitted, MarkPushed
<1>4. Open' /\ journal'.source = journal.source /\ journal'.base = journal.base
  BY <1>1, <1>2
  DEF Rewrites, Checkpoints, EnterCommitting, EnterPushing, PushDone, SettlesEmpty,
    PrepareTarget, MarkCommitted, MarkPushed, Open, Journal
<1> QED
  BY <1>2, <1>3, <1>4

\* The items are the manifests.
LEMMA ItemsOfManifest ==
  \A r \in Enabled : \A f \in Manifest(journal, r) :
    /\ <<r, f>> \in Items
    /\ Placed(<<r, f>>) <=> work[r][f] = journal.source[r][f]
    /\ Waiting(<<r, f>>) <=> staged[r][f] = journal.source[r][f]
<1> SUFFICES ASSUME NEW r \in Enabled, NEW f \in Manifest(journal, r)
             PROVE  /\ <<r, f>> \in Items
                    /\ Placed(<<r, f>>) <=> work[r][f] = journal.source[r][f]
                    /\ Waiting(<<r, f>>) <=> staged[r][f] = journal.source[r][f]
  OBVIOUS
<1>1. <<r, f>> \in Enabled \X Files
  BY DEF Manifest
<1> QED
  BY <1>1 DEF Manifest, Items, Placed, Waiting

\* The target a transaction is due, once all of its files are in place.
LEMMA PreparedIsDue ==
  ASSUME CycleInv, PrepareTarget
  PROVE  /\ CommitRepo \in Enabled /\ Open
         /\ head[CommitRepo] = journal.base[CommitRepo]
         /\ journal' = [journal EXCEPT !.target[CommitRepo] = TargetOf(CommitRepo),
                                       !.commit[CommitRepo] = "prepared"]
<1> DEFINE r    == CommitRepo
           base == journal.base[r]
           tree == [f \in Files |-> IF f \in Manifest(journal, r) THEN work[r][f]
                                    ELSE TreeOf(base)[f]]
<1>1. r \in Enabled /\ r \in Repo /\ Open
  BY CommitRepoEnabled DEF PrepareTarget, CommitSteps, CycleInv, Open
<1>2. /\ journal.phase \in {"committing", "pushing"}
      /\ journal.target[r] = NoSha
  BY DEF PrepareTarget, CycleInv, IInv, Control, PhaseOfStep, TargetOfStep, CommitSteps
<1>3. \A f \in Manifest(journal, r) : work[r][f] = journal.source[r][f]
  <2>1. \A i \in Items : Placed(i)
    BY <1>2 DEF CycleInv, PublishProgress
  <2> QED
    BY <1>1, <2>1, ItemsOfManifest
<1>4. Txn.tree[r] = Overlay(journal.source[r], TreeOf(base))
  BY <1>1 DEF CycleInv, JournalOfPlan
<1>5. tree = Txn.tree[r]
  BY <1>3, <1>4 DEF Overlay, Manifest
<1>6. head[r] = base
  BY DEF PrepareTarget, CycleInv, CommitPlace
<1> QED
  <2>1. journal' = [journal EXCEPT
                      !.target[r] = IF tree = TreeOf(base) THEN base
                                    ELSE Append(base, [by |-> Len(plan), tree |-> tree]),
                      !.commit[r] = "prepared"]
    BY DEF PrepareTarget
  <2>2. TargetOf(r) = IF tree = TreeOf(base) THEN base
                      ELSE Append(base, [by |-> Len(plan), tree |-> tree])
    BY <1>5 DEF TargetOf
  <2> QED
    BY <1>1, <1>6, <2>1, <2>2

\* The same for a repository the transaction leaves alone.
LEMMA EmptyIsDue ==
  ASSUME CycleInv, SettlesEmpty
  PROVE  /\ CommitRepo \in Enabled /\ Open
         /\ head[CommitRepo] = journal.base[CommitRepo]
         /\ index[CommitRepo] = TreeOf(head[CommitRepo])
         /\ journal.target[CommitRepo] = NoSha
         /\ journal' = [journal EXCEPT !.target[CommitRepo] = TargetOf(CommitRepo),
                                       !.commit[CommitRepo] = "committed"]
<1> DEFINE r    == CommitRepo
           base == journal.base[r]
<1>1. r \in Enabled /\ r \in Repo /\ Open
  BY OptionsAssumption
  DEF SettlesEmpty, RecoverCommitRepo, CycleInv, IInv, Control, PhaseOfStep, TodoOfStep,
    CommitRepo, PublishTurn, Repo, Open
<1>2. head[r] = base /\ base \in Sha /\ base # NoSha
  BY <1>1, Values DEF SettlesEmpty, RecoveryHead, CycleInv
<1>3. \A f \in Files : journal.source[r][f] = Absent
  BY DEF SettlesEmpty, Manifest
<1>4. Txn.tree[r] = TreeOf(base)
  <2>1. Txn.tree[r] = Overlay(journal.source[r], TreeOf(base))
    BY <1>1 DEF CycleInv, JournalOfPlan
  <2>2. journal.source[r] \in Tree /\ TreeOf(base) \in Tree
    BY <1>1, <1>2, Values, TreeOfType DEF CycleInv
  <2> QED
    BY <1>3, <2>1, <2>2, OverlayFacts
<1>5. index[r] = TreeOf(head[r])
  <2>1. \A f \in Files : index[r][f] = TreeOf(head[r])[f]
    BY DEF SettlesEmpty, RecoveryManifestState
  <2>2. index[r] \in Tree /\ TreeOf(head[r]) \in Tree
    BY <1>1, Values, TreeOfType DEF CycleInv
  <2> QED
    BY <2>1, <2>2 DEF Tree
<1> QED
  BY <1>1, <1>2, <1>4, <1>5 DEF SettlesEmpty, TargetOf

-----------------------------------------------------------------------------
(***************************************************************************)
(* Every step keeps each part of the invariant.                            *)
(***************************************************************************)

\* A target is recorded once, and it is the due one.
LEMMA TargetsKept ==
  ASSUME CycleInv, Rewrites, NEW r \in Enabled
  PROVE  /\ TargetOf(r)' = TargetOf(r)
         /\ \/ journal'.target[r] = journal.target[r]
            \/ /\ PrepareTarget \/ SettlesEmpty
               /\ r = CommitRepo
               /\ journal'.target[r] = TargetOf(r) /\ head[r] = journal.base[r]
               /\ journal.target[r] = NoSha
<1>1. journal \in Journal /\ r \in Repo
  BY Values DEF CycleInv
<1>2. TargetOf(r)' = TargetOf(r)
  BY JournalKept DEF TargetOf, Txn
<1>3. CASE PrepareTarget
  <2>1. journal.target[CommitRepo] = NoSha
    BY <1>3 DEF PrepareTarget, CycleInv, IInv, Control, TargetOfStep
  <2> QED
    <3> DEFINE e == CommitRepo
               sha == TargetOf(e)
    <3>1. /\ e \in Repo /\ head[e] = journal.base[e]
          /\ journal' = [journal EXCEPT !.target[e] = sha, !.commit[e] = "prepared"]
      BY <1>3, PreparedIsDue, OptionsAssumption
    <3> HIDE DEF e, sha
    <3>2. journal'.target[e] = sha
          /\ \A x \in Repo \ {e} : journal'.target[x] = journal.target[x]
      BY <1>1, <3>1 DEF Journal
    <3>3. CASE r = e
      BY <1>2, <1>3, <2>1, <3>1, <3>2, <3>3 DEF e, sha
    <3>4. CASE r # e
      BY <1>1, <1>2, <3>2, <3>4
    <3> QED
      BY <3>3, <3>4
<1>4. CASE SettlesEmpty
  <2> DEFINE e == CommitRepo
             sha == TargetOf(e)
  <2>1. /\ e \in Repo /\ head[e] = journal.base[e] /\ journal.target[e] = NoSha
        /\ journal' = [journal EXCEPT !.target[e] = sha, !.commit[e] = "committed"]
    BY <1>4, EmptyIsDue, OptionsAssumption
  <2> HIDE DEF e, sha
  <2>2. journal'.target[e] = sha
        /\ \A x \in Repo \ {e} : journal'.target[x] = journal.target[x]
    BY <1>1, <2>1 DEF Journal
  <2>3. CASE r = e
    BY <1>2, <1>4, <2>1, <2>2, <2>3 DEF e, sha
  <2>4. CASE r # e
    BY <1>1, <1>2, <2>2, <2>4
  <2> QED
    BY <2>3, <2>4
<1>5. ASSUME ~PrepareTarget, ~SettlesEmpty
      PROVE  journal'.target = journal.target
  BY <1>1, <1>5 DEF Rewrites, Checkpoints, EnterCommitting, EnterPushing, PushDone,
    MarkCommitted, MarkPushed, Journal
<1> QED
  BY <1>2, <1>3, <1>4, <1>5

\* A branch gains planned commits and foreign ones, and nothing else.
LEMMA HistoriesStep == CycleInv /\ [Next]_vars => HistoriesSound'
<1> SUFFICES ASSUME CycleInv, [Next]_vars, NEW r \in Repo
             PROVE  /\ SoundHistory(plan', r, head'[r], Len(plan'))
                    /\ SoundHistory(plan', r, remote'[r], Len(plan'))
  BY DEF HistoriesSound
<1>1. /\ SoundHistory(plan, r, head[r], Len(plan))
      /\ SoundHistory(plan, r, remote[r], Len(plan))
      /\ head[r] \in Sha /\ remote[r] \in Sha /\ remote[r] # NoSha
      /\ Len(plan) \in Nat
  BY Values DEF CycleInv, HistoriesSound
<1>2. CASE UNCHANGED <<head, remote, plan>>
  BY <1>1, <1>2
<1>3. CASE WritePublishingJournal
  <2>1. /\ Len(plan') = Len(plan) + 1 /\ \A n \in 1..Len(plan) : plan'[n] = plan[n]
        /\ UNCHANGED <<head, remote>>
    BY <1>3, Begins
  <2>2. /\ SoundHistory(plan', r, head[r], Len(plan))
        /\ SoundHistory(plan', r, remote[r], Len(plan))
    BY <1>1, <2>1, SoundPlanGrows
  <2> QED
    BY <1>1, <2>1, <2>2, SoundLater
<1>4. CASE PrepareRepo
  <2>1. head'[r] \in {head[r], remote[r]} /\ UNCHANGED <<remote, plan>>
    <3>1. head' = head \/ head' = [head EXCEPT ![PublishTurn(todo)] =
                                                remote[PublishTurn(todo)]]
      BY <1>4 DEF PrepareRepo
    <3>2. head \in [Repo -> Sha] /\ UNCHANGED <<remote, plan>>
      BY <1>4 DEF PrepareRepo, CycleInv, IInv, TypeOK
    <3> QED
      BY <3>1, <3>2
  <2> QED
    BY <1>1, <2>1
<1>5. CASE UpdateBranch
  <2>1. /\ CommitRepo \in Enabled /\ Open /\ journal.target[CommitRepo] # NoSha
    BY <1>5, CommitRepoEnabled
    DEF UpdateBranch, CommitSteps, Open, CycleInv, IInv, Control, TargetOfStep
  <2>2. journal.target[CommitRepo] = TargetOf(CommitRepo)
    BY <2>1 DEF CycleInv, JournalOfPlan
  <2>3. SoundHistory(plan, CommitRepo, TargetOf(CommitRepo), Len(plan))
    BY <2>1, TargetFacts DEF CycleInv
  <2>4. /\ UNCHANGED <<remote, plan>>
        /\ \/ head'[r] = head[r]
           \/ r = CommitRepo /\ head'[r] = journal.target[CommitRepo]
    BY <1>5 DEF UpdateBranch, CycleInv, IInv, TypeOK
  <2> QED
    BY <1>1, <2>2, <2>3, <2>4
<1>6. CASE PushHead
  <2>1. remote'[r] \in {head[r], remote[r]} /\ UNCHANGED <<head, plan>>
    BY <1>6 DEF PushHead, durable, CycleInv, IInv, TypeOK
  <2> QED
    BY <1>1, <2>1
<1>7. ASSUME NEW e \in Repo, ForeignPush(e)
      PROVE  /\ SoundHistory(plan', r, head'[r], Len(plan'))
             /\ SoundHistory(plan', r, remote'[r], Len(plan'))
  <2> DEFINE c == [by |-> -(foreign + 1), tree |-> TreeOf(remote[r])]
  <2>1. /\ UNCHANGED <<head, plan>>
        /\ remote'[r] \in {remote[r], Append(remote[r], c)}
    BY <1>7 DEF ForeignPush, durable, CycleInv, IInv, TypeOK
  <2>2. foreign \in Nat /\ TreeOf(remote[r]) \in Tree
    BY <1>1, TreeOfType, BoundsAssumption DEF CycleInv, IInv, TypeOK
  <2>3. c \in Commit /\ c.by < 0
    BY <2>2 DEF Commit
  <2>4. SoundHistory(plan, r, Append(remote[r], c), Len(plan))
    <3> HIDE DEF c
    <3>1. c.by \in Int /\ c.by <= Len(plan) /\ ~(c.by > 0)
      BY <1>1, <2>3 DEF Commit
    <3> QED
      BY <1>1, <2>3, <3>1, SoundAppend
  <2> QED
    BY <1>1, <2>1, <2>4
<1> QED
  BY <1>2, <1>3, <1>4, <1>5, <1>6, <1>7, Writers

\* The journal goes on being the record of the last transaction.
LEMMA JournalOfPlanStep == CycleInv /\ [Next]_vars => JournalOfPlan'
<1> SUFFICES ASSUME CycleInv, [Next]_vars, Open' PROVE JournalOfPlan'
  BY DEF JournalOfPlan
<1>1. JournalOfPlan
  BY DEF CycleInv
<1>2. CASE UNCHANGED <<journal, plan>>
  BY <1>1, <1>2 DEF JournalOfPlan, Open, Txn, TargetOf
<1>3. CASE WritePublishingJournal
  <2>1. ASSUME NEW r \in Enabled
        PROVE  SoundHistory(plan', r, head[r], Len(plan))
    <3>1. /\ SoundHistory(plan, r, head[r], Len(plan)) /\ head[r] \in Sha
          /\ Len(plan) \in Nat
      BY Values DEF CycleInv, HistoriesSound
    <3> QED
      BY <1>3, <3>1, Begins, SoundPlanGrows
  <2>2. /\ Len(plan') > 0 /\ Len(plan') - 1 = Len(plan)
    BY <1>3, Begins
  <2>3. ASSUME NEW r \in Enabled
        PROVE  /\ Txn'.base[r] = journal'.base[r]
               /\ Txn'.tree[r] = Overlay(journal'.source[r], TreeOf(journal'.base[r]))
               /\ SoundHistory(plan', r, journal'.base[r], Len(plan') - 1)
               /\ journal'.target[r] = NoSha
    BY <1>3, <2>1, <2>2, Begins
  <2> QED
    BY <2>2, <2>3 DEF JournalOfPlan
<1>4. CASE Rewrites
  <2>1. Open /\ UNCHANGED plan /\ journal'.source = journal.source
        /\ journal'.base = journal.base /\ Txn' = Txn
    BY <1>4, JournalKept DEF Txn
  <2>2. \A r \in Enabled : journal'.target[r] \in {NoSha, TargetOf(r)'}
    BY <1>1, <1>4, <2>1, TargetsKept DEF JournalOfPlan
  <2> QED
    BY <1>1, <2>1, <2>2 DEF JournalOfPlan
<1>5. journal' # NoJournal
  BY DEF Open, NoJournal
<1> QED
  BY <1>2, <1>3, <1>4, <1>5, Writers DEF Rewrites

\* Moving one file puts what the journal recorded in its place.
LEMMA MoveFacts ==
  ASSUME CycleInv, NEW i \in rest, Moves(i)
  PROVE  /\ UNCHANGED <<journal, plan, index, head, remote, version_info, mode, rest>>
         /\ Open /\ journal.phase = "publishing"
         /\ i \in Items /\ i[1] \in Enabled /\ i[2] \in Files
         /\ pc' = "checkpoint" /\ cur' = i
         /\ Placed(i)'
         /\ \A r \in Repo : \A f \in Files : <<r, f>> # i =>
              work'[r][f] = work[r][f] /\ staged'[r][f] = staged[r][f]
<1>1. pc = "publish" /\ journal.phase = "publishing"
  BY DEF Moves, CycleInv, IInv, Control, PhaseOfStep
<1>2. i \in Items
  BY <1>1 DEF CycleInv, PublishProgress
<1>3. Waiting(i)
  BY <1>1, <1>2 DEF Moves, CycleInv, PublishProgress, IInv, TypeOK
<1>4. i \in Enabled \X Files
  BY <1>2 DEF Items
<1>5. PICK e \in Enabled, g \in Files : i = <<e, g>>
  BY <1>4
<1>6. /\ staged' = [staged EXCEPT ![e][g] = Absent]
      /\ work'   = [work EXCEPT ![e][g] = staged[e][g]]
      /\ cur' = i /\ pc' = "checkpoint"
      /\ UNCHANGED <<journal, plan, index, head, remote, version_info, mode, rest>>
  BY <1>5 DEF Moves, Replace, Goto
<1>7. work \in [Repo -> Tree] /\ staged \in [Repo -> Tree] /\ e \in Repo
  BY OptionsAssumption DEF CycleInv, IInv, TypeOK
<1>8. work'[e][g] = staged[e][g]
  BY <1>5, <1>6, <1>7 DEF Tree
<1>9. Placed(i)'
  BY <1>3, <1>5, <1>6, <1>8 DEF Placed, Waiting
<1>10. \A r \in Repo : \A f \in Files : <<r, f>> # i =>
         work'[r][f] = work[r][f] /\ staged'[r][f] = staged[r][f]
  BY <1>5, <1>6, <1>7 DEF Tree
<1> QED
  BY <1>1, <1>2, <1>5, <1>6, <1>9, <1>10 DEF Open

\* The other files stay where they are.
LEMMA MoveItems ==
  ASSUME CycleInv, NEW i \in rest, Moves(i)
  PROVE  /\ Items' = Items
         /\ \A k \in Items : Placed(k) => Placed(k)'
         /\ \A k \in Items \ {i} : Waiting(k) => Waiting(k)'
<1>1. Items' = Items
  BY MoveFacts DEF Items
<1>2. ASSUME NEW k \in Items, k # i
      PROVE  (Placed(k) => Placed(k)') /\ (Waiting(k) => Waiting(k)')
  <2>1. PICK e \in Enabled, g \in Files : k = <<e, g>>
    BY DEF Items
  <2>2. e \in Repo
    BY OptionsAssumption
  <2>3. work'[e][g] = work[e][g] /\ staged'[e][g] = staged[e][g] /\ UNCHANGED journal
    BY <1>2, <2>1, <2>2, MoveFacts
  <2> QED
    BY <2>1, <2>3 DEF Placed, Waiting
<1>3. Placed(i)'
  BY MoveFacts
<1> QED
  BY <1>1, <1>2, <1>3

\* Publication touches nothing outside the manifest.
LEMMA WorkOfJournalStep == CycleInv /\ Data /\ [Next]_vars => WorkOfJournal'
<1> SUFFICES ASSUME CycleInv, Data, [Next]_vars, Open', NEW r \in Enabled, NEW f \in Files,
                    journal'.source[r][f] = Absent
             PROVE  work'[r][f] = TreeOf(journal'.base[r])[f]
  BY DEF WorkOfJournal
<1>1. WorkOfJournal /\ r \in Repo
  BY OptionsAssumption DEF CycleInv, Data
<1>2. CASE UNCHANGED <<journal, work>>
  BY <1>1, <1>2 DEF WorkOfJournal, Open
<1>3. CASE WritePublishingJournal
  BY <1>3, Begins
<1>4. CASE Rewrites
  BY <1>1, <1>4, JournalKept DEF WorkOfJournal
<1>5. CASE PrepareRepo
  BY <1>5 DEF PrepareRepo, Open, CycleInv, IInv, Control, PhaseOfStep
<1>6. ASSUME NEW i \in rest, Moves(i)
      PROVE  work'[r][f] = TreeOf(journal'.base[r])[f]
  <2>1. i \in Items /\ UNCHANGED journal /\ Open
    BY <1>6, MoveFacts
  <2>2. <<r, f>> # i
    BY <2>1 DEF Items
  <2>3. work'[r][f] = work[r][f]
    BY <1>1, <1>6, <2>2, MoveFacts
  <2> QED
    BY <1>1, <2>1, <2>3 DEF WorkOfJournal
<1>7. journal' # NoJournal
  BY DEF Open, NoJournal
<1> QED
  BY <1>2, <1>3, <1>4, <1>5, <1>6, <1>7, Writers DEF Rewrites

\* The phases in which every file is in its place.
Done == pc = "committing" \/ journal.phase \in {"committing", "pushing", "completed"}

\* A checkpoint takes a file off the list that is in its place.
LEMMA CheckpointFacts ==
  ASSUME CycleInv, NEW i, NEW content, CheckpointAs(i, content), Placed(i),
         pc \in {"publish", "checkpoint"}, UNCHANGED mode,
         mode = "fresh" => \A k \in rest \ {i} : Waiting(k)
  PROVE  PublishProgress'
<1>1. journal \in Journal /\ journal.phase = "publishing"
  BY Values DEF CycleInv, IInv, Control, PhaseOfStep
<1>2. /\ journal'.phase = "publishing" /\ journal'.source = journal.source
      /\ rest' = rest \ {i} /\ pc' = "publish" /\ UNCHANGED <<staged, work>>
  BY <1>1 DEF CheckpointAs, Journal, Goto
<1>3. /\ Items' = Items
      /\ \A k : (Placed(k)' <=> Placed(k)) /\ (Waiting(k)' <=> Waiting(k))
  BY <1>2 DEF Items, Placed, Waiting
<1>4. rest \subseteq Items /\ \A k \in Items \ rest : Placed(k)
  BY DEF CycleInv, PublishProgress
<1> QED
  BY <1>2, <1>3, <1>4 DEF PublishProgress

\* A file leaves the list of publication when it is in its place.
LEMMA PublishProgressStep == CycleInv /\ [Next]_vars => PublishProgress'
<1> SUFFICES ASSUME CycleInv, [Next]_vars PROVE PublishProgress'
  OBVIOUS
<1>P. PublishProgress /\ PhaseOfStep /\ journal \in Journal
  BY Values DEF CycleInv, IInv, Control
<1>D. ASSUME UNCHANGED work, journal'.source = journal.source, Done' => Done,
             pc' \notin {"publish", "checkpoint"}
      PROVE  PublishProgress'
  <2>1. Items' = Items /\ \A k : Placed(k)' <=> Placed(k)
    BY <1>D DEF Items, Placed
  <2> QED
    BY <1>P, <1>D, <2>1 DEF PublishProgress, Done
<1>A. ASSUME journal'.phase = "absent", pc' \notin {"publish", "checkpoint", "committing"}
      PROVE  PublishProgress'
  BY <1>A DEF PublishProgress
<1>Q. ASSUME UNCHANGED <<journal, work>>, pc' \notin {"publish", "checkpoint", "committing"}
      PROVE  PublishProgress'
  BY <1>D, <1>Q DEF Done
<1> USE DEF Goto, durable, Return
<1>1. CASE BeginCycle
  BY <1>1, <1>Q DEF BeginCycle
<1>2. CASE NothingToRecover
  BY <1>2, <1>Q DEF NothingToRecover
<1>3. CASE RecoverCompleted
  BY <1>3, <1>Q, <1>A DEF RecoverCompleted, NoJournal
<1>4. CASE RecoverPublishing
  <2>1. Items' = Items /\ rest' = Items
    BY <1>4 DEF RecoverPublishing, Items
  <2> QED
    BY <1>4, <2>1 DEF RecoverPublishing, PublishProgress
<1>5. CASE RecoverCommitting
  BY <1>5, <1>Q DEF RecoverCommitting
<1>6. CASE SkipCycle
  BY <1>6, <1>Q DEF SkipCycle
<1>7. CASE PrepareRepo
  BY <1>7, <1>A, <1>P DEF PrepareRepo, PhaseOfStep
<1>8. CASE Generate
  BY <1>8, <1>Q DEF Generate
<1>9. CASE GenerationFails
  BY <1>9, <1>Q DEF GenerationFails
<1>10. CASE DeadlineExceeded
  BY <1>10, <1>Q DEF DeadlineExceeded
<1>11. CASE WritePublishingJournal
  <2>1. /\ journal'.source = staged /\ journal'.phase = "publishing" /\ UNCHANGED staged
        /\ pc' = "publish"
        /\ rest' = {i \in Enabled \X Files : staged[i[1]][i[2]] # Absent}
    BY <1>11, Begins DEF WritePublishingJournal
  <2>2. rest' = Items' /\ \A i : Waiting(i)'
    BY <2>1 DEF Items, Waiting
  <2> QED
    BY <2>1, <2>2 DEF PublishProgress
<1>12. CASE RemoteSnapshotFails
  BY <1>12, <1>Q DEF RemoteSnapshotFails
<1>13. CASE Checkpoint
  BY <1>13, <1>P, CheckpointFacts DEF Checkpoint, PublishProgress
<1>14. CASE PublicationDone
  <2>1. Items' = Items /\ \A k : Placed(k)' <=> Placed(k)
    BY <1>14 DEF PublicationDone, Items, Placed
  <2>2. \A k \in Items : Placed(k)
    BY <1>14, <1>P DEF PublicationDone, PublishProgress
  <2> QED
    BY <1>14, <2>1, <2>2 DEF PublicationDone, PublishProgress
<1>15. CASE EnterCommitting
  BY <1>15, <1>P, <1>D DEF EnterCommitting, Journal, Done
<1>16. CASE StartCommit
  BY <1>16, <1>Q DEF StartCommit
<1>17. CASE RecoverCommitRepo
  <2>1. /\ pc' \in {"target", "commit", "index", "cas", "idle"} /\ UNCHANGED work
        /\ journal'.source = journal.source /\ journal'.phase = journal.phase
    BY <1>17, <1>P DEF RecoverCommitRepo, Journal
  <2> QED
    BY <2>1, <1>D DEF Done
<1>18. CASE PrepareTarget
  BY <1>18, <1>P, <1>D DEF PrepareTarget, Journal, Done
<1>19. CASE UpdateBranch
  BY <1>19, <1>Q DEF UpdateBranch
<1>20. CASE InstallIndex
  BY <1>20, <1>Q DEF InstallIndex
<1>21. CASE MarkCommitted
  BY <1>21, <1>P, <1>D DEF MarkCommitted, Journal, Done
<1>22. CASE CommitDone
  BY <1>22, <1>Q DEF CommitDone
<1>23. CASE EnterPushing
  BY <1>23, <1>P, <1>D DEF EnterPushing, Journal, Done, PhaseOfStep
<1>24. CASE ProbeRemote
  BY <1>24, <1>Q DEF ProbeRemote
<1>25. CASE PushHead
  BY <1>25, <1>Q DEF PushHead
<1>26. CASE ConfirmPush
  BY <1>26, <1>Q DEF ConfirmPush
<1>27. CASE MarkPushed
  BY <1>27, <1>P, <1>D DEF MarkPushed, Journal, Done
<1>28. CASE PushDone
  BY <1>28, <1>P, <1>D DEF PushDone, Journal, Done, PhaseOfStep, PushSteps
<1>29. CASE ClearStaging
  BY <1>29, <1>Q DEF ClearStaging
<1>30. CASE DeleteJournal
  BY <1>30, <1>A DEF DeleteJournal, NoJournal
<1>31. CASE Crash
  BY <1>31, <1>Q DEF Crash
<1>32. CASE StepFails
  BY <1>32, <1>Q DEF StepFails
<1>33. CASE CommitFails
  BY <1>33, <1>Q DEF CommitFails
<1>34. CASE PushLost
  BY <1>34, <1>Q DEF PushLost
<1>35. CASE \E daily \in BOOLEAN :
           \E observed \in {work["master"][Versions], Len(plan) + 1} \ {Absent} :
             Gate(daily, observed)
  BY <1>35, <1>Q DEF Gate
<1>M. ASSUME NEW i \in rest, Moves(i) PROVE PublishProgress'
  <2>1. /\ pc' = "checkpoint" /\ cur' = i /\ Placed(i)' /\ Items' = Items
        /\ UNCHANGED <<journal, mode, rest>> /\ journal.phase = "publishing"
        /\ \A k \in Items : Placed(k) => Placed(k)'
        /\ \A k \in Items \ {i} : Waiting(k) => Waiting(k)'
    BY <1>M, MoveFacts, MoveItems
  <2>2. pc = "publish"
    BY <1>M DEF Moves
  <2> QED
    BY <1>P, <2>1, <2>2 DEF PublishProgress
<1>36. ASSUME NEW i \in rest, PublishFile(i) PROVE PublishProgress'
  <2>1. Moves(i)
    BY <1>36 DEF PublishFile, Moves
  <2> QED
    BY <2>1, <1>M
<1>37. ASSUME NEW i \in rest, RecoverPublishFile(i) PROVE PublishProgress'
  <2>1. CASE Moves(i)
    BY <2>1, <1>M
  <2>2. CASE UNCHANGED durable /\ Return
    BY <2>2, <1>Q
  <2>3. CASE /\ Placed(i) /\ CheckpointAs(i, journal.source[i[1]][i[2]])
             /\ UNCHANGED mode /\ mode = "recovery" /\ pc = "publish"
    BY <2>3, CheckpointFacts
  <2> QED
    BY <1>37, <2>1, <2>2, <2>3 DEF RecoverPublishFile, Moves, Placed, Waiting
<1>38. CASE \E r \in Repo : ForeignPush(r)
  BY <1>38, <1>P DEF ForeignPush, PublishProgress, Items, Placed, Waiting, cursor
<1>39. CASE UNCHANGED vars
  BY <1>39, <1>P DEF vars, PublishProgress, Items, Placed, Waiting, cursor
<1> QED
  BY <1>1, <1>2, <1>3, <1>4, <1>5, <1>6, <1>7, <1>8, <1>9, <1>10, <1>11, <1>12,
      <1>13, <1>14, <1>15, <1>16, <1>17, <1>18, <1>19, <1>20, <1>21, <1>22,
      <1>23, <1>24, <1>25, <1>26, <1>27, <1>28, <1>29, <1>30, <1>31, <1>32,
      <1>33, <1>34, <1>35, <1>36, <1>37, <1>38, <1>39
  DEF Next, Cycle, Recovery, Fresh, Publication, Commits, Pushes

\* versions.json is moved only when it is the last one left.
LEMMA VersionsLastStep == CycleInv /\ Data /\ [Next]_vars => VersionsLast'
<1> SUFFICES ASSUME CycleInv, Data, [Next]_vars, journal'.phase = "publishing", VersionsStaged',
                    work'["master"][Versions] # TreeOf(journal'.base["master"])[Versions],
                    NEW r \in Enabled, NEW f \in Files, journal'.source[r][f] # Absent
             PROVE  work'[r][f] = journal'.source[r][f]
  BY DEF VersionsLast, Manifest
<1>1. VersionsLast /\ r \in Repo /\ journal \in Journal
  BY OptionsAssumption, Values DEF CycleInv, Data
<1>2. CASE UNCHANGED <<journal, work>>
  BY <1>1, <1>2 DEF VersionsLast, VersionsStaged, Manifest
<1>3. CASE WritePublishingJournal
  BY <1>3, Begins DEF VersionsStaged
<1>4. CASE Rewrites
  <2>1. /\ journal'.source = journal.source /\ journal'.base = journal.base
        /\ UNCHANGED work
    BY <1>4, JournalKept
  <2>2. journal.phase = "publishing"
    BY <1>1, <1>4
    DEF Rewrites, Checkpoints, EnterCommitting, EnterPushing, PushDone, SettlesEmpty,
      PrepareTarget, MarkCommitted, MarkPushed, Journal
  <2> QED
    BY <1>1, <2>1, <2>2 DEF VersionsLast, VersionsStaged, Manifest
<1>5. CASE PrepareRepo
  BY <1>5 DEF PrepareRepo, CycleInv, IInv, Control, PhaseOfStep
<1>6. ASSUME NEW i \in rest, Moves(i)
      PROVE  work'[r][f] = journal'.source[r][f]
  <2>1. /\ i \in Items /\ UNCHANGED <<journal, rest>> /\ Placed(i)'
        /\ \A k \in Items : Placed(k) => Placed(k)'
    BY <1>6, MoveFacts, MoveItems
  <2>2. f \in Manifest(journal, r)
    BY <2>1 DEF Manifest
  <2>3. <<r, f>> \in Items /\ (Placed(<<r, f>>) <=> work[r][f] = journal.source[r][f])
        /\ (Placed(<<r, f>>)' <=> work'[r][f] = journal.source[r][f])
    BY <2>1, <2>2, ItemsOfManifest DEF Placed
  <2>4. CASE i = VersionsItem
    <3>1. \A k \in rest : k = VersionsItem
      <4>1. rest \subseteq Items
        BY <1>6 DEF Moves, CycleInv, Data, PublishProgress
      <4>2. \A k \in rest : k[1] \in {"master", "i18n"}
        BY <4>1, OptionsAssumption DEF Items, Repo
      <4>3. i \in PublishNext(rest)
        BY <1>6 DEF Moves
      <4> QED
        BY <2>4, <4>2, <4>3 DEF PublishNext
    <3>2. Placed(<<r, f>>) \/ <<r, f>> = i
      BY <2>3, <2>4, <3>1, <1>6 DEF Moves, CycleInv, Data, PublishProgress
    <3> QED
      BY <2>1, <2>3, <3>2
  <2>5. CASE i # VersionsItem
    <3>1. "master" \in Repo /\ <<"master", Versions>> # i
      BY <2>5 DEF Repo, VersionsItem
    <3>2. work'["master"][Versions] = work["master"][Versions]
      BY <1>6, <3>1, MoveFacts, FilesAssumption
    <3>3. Placed(<<r, f>>)
      BY <1>1, <2>1, <2>2, <2>3, <3>2 DEF VersionsLast, VersionsStaged
    <3> QED
      BY <2>1, <2>3, <3>3
  <2> QED
    BY <2>4, <2>5
<1>7. journal' # NoJournal
  BY DEF NoJournal
<1> QED
  BY <1>2, <1>3, <1>4, <1>5, <1>6, <1>7, Writers DEF Rewrites

\* How the cycle gets to the steps the invariant speaks about.
LEMMA Arrivals ==
  ASSUME [Next]_vars
  PROVE
  /\ pc' \in {"prepare", "generate", "snapshot"} =>
       \/ UNCHANGED <<pc, todo, work, index, head>> \/ PrepareRepo \/ Generate
       \/ pc' = "prepare" /\ todo' = Enabled
  /\ pc' = "target" =>
       \/ UNCHANGED <<journal, head, pc, todo>>
       \/ /\ UNCHANGED <<journal, head, todo>>
          /\ head[CommitRepo] = journal.base[CommitRepo]
  /\ pc' \in {"index", "mark"} =>
       \/ UNCHANGED <<journal, head, index, pc, todo>> \/ UpdateBranch \/ InstallIndex
       \/ /\ UNCHANGED <<journal, head, index, todo>> /\ pc' = "index"
          /\ head[CommitRepo] = journal.target[CommitRepo]
  /\ pc' = "pushed" =>
       \/ UNCHANGED <<journal, pc, todo>>
       \/ /\ UNCHANGED <<journal, remote, todo>>
          /\ remote[PushRepo] = journal.target[PushRepo]
  /\ pc' \in {"prepare", "generate"} =>
       candidate' # Absent \/ (pc \in {"prepare", "generate"} /\ UNCHANGED candidate)
  /\ pc' = "snapshot" => Generate \/ UNCHANGED <<pc, staged>>
  /\ pc' = "committing" =>
       PublicationDone \/ UNCHANGED <<journal, work, pc, version_info>>
<1> USE DEF durable, cursor, Goto, Return, Continue
<1>1. CASE Recovery
  BY <1>1 DEF Recovery, NothingToRecover, RecoverCompleted, RecoverPublishing,
    RecoverCommitting
<1>2. CASE SkipCycle \/ PrepareRepo \/ Generate \/ RemoteSnapshotFails
  BY <1>2 DEF SkipCycle, PrepareRepo, Generate, RemoteSnapshotFails
<1>3. CASE GenerationFails \/ DeadlineExceeded \/ WritePublishingJournal
  BY <1>3 DEF GenerationFails, DeadlineExceeded, WritePublishingJournal
<1>4. CASE \E daily \in BOOLEAN :
           \E observed \in {work["master"][Versions], Len(plan) + 1} \ {Absent} :
             Gate(daily, observed)
  <2>1. pc' = "prepare" /\ candidate' # Absent /\ todo' = Enabled
    BY <1>4 DEF Gate
  <2> QED
    BY <2>1
<1>5. CASE \E i \in rest : PublishFile(i) \/ RecoverPublishFile(i)
  BY <1>5 DEF PublishFile, RecoverPublishFile, CheckpointAs, Replace
<1>6. CASE Checkpoint \/ PublicationDone \/ EnterCommitting
  BY <1>6 DEF Checkpoint, CheckpointAs, PublicationDone, EnterCommitting
<1>7. CASE RecoverCommitRepo
  BY <1>7 DEF RecoverCommitRepo, RecoveryHead
<1>8. CASE StartCommit \/ PrepareTarget \/ UpdateBranch
           \/ InstallIndex \/ MarkCommitted \/ CommitDone
  BY <1>8 DEF StartCommit, PrepareTarget, UpdateBranch, InstallIndex,
    MarkCommitted, CommitDone
<1>9. CASE EnterPushing \/ ProbeRemote \/ PushHead \/ ConfirmPush \/ MarkPushed
           \/ PushDone
  BY <1>9 DEF EnterPushing, ProbeRemote, PushHead, ConfirmPush, MarkPushed, PushDone
<1>10. CASE ClearStaging \/ DeleteJournal
  BY <1>10 DEF ClearStaging, DeleteJournal
<1>11. CASE BeginCycle \/ Crash \/ StepFails \/ CommitFails \/ PushLost
  BY <1>11 DEF BeginCycle, Crash, StepFails, CommitFails, PushLost
<1>12. CASE \E r \in Repo : ForeignPush(r)
  BY <1>12 DEF ForeignPush
<1>13. CASE UNCHANGED vars
  BY <1>13 DEF vars
<1> QED
  BY <1>1, <1>2, <1>3, <1>4, <1>5, <1>6, <1>7, <1>8, <1>9, <1>10, <1>11, <1>12,
     <1>13
  DEF Next, Cycle, Fresh, Publication, Commits, Pushes

\* A commit is recorded once its branch and its index are at the target.
LEMMA CommitsKept ==
  ASSUME CycleInv, Rewrites, NEW r \in Enabled,
         journal'.commit[r] = "committed"
  PROVE  \/ journal.commit[r] = "committed" /\ journal'.target[r] = journal.target[r]
         \/ head[r] = journal'.target[r] /\ index[r] = TreeOf(journal'.target[r])
<1>1. journal \in Journal /\ r \in Repo
  BY Values DEF CycleInv
<1>2. CASE PrepareTarget
  <2> DEFINE e == CommitRepo
             sha == TargetOf(e)
  <2>1. e \in Repo
        /\ journal' = [journal EXCEPT !.target[e] = sha, !.commit[e] = "prepared"]
    BY <1>2, PreparedIsDue, OptionsAssumption
  <2> HIDE DEF e, sha
  <2> QED
    BY <1>1, <2>1 DEF Journal
<1>3. CASE SettlesEmpty
  <2> DEFINE e == CommitRepo
             sha == head[e]
  <2>1. /\ e \in Repo /\ index[e] = TreeOf(head[e])
        /\ journal' = [journal EXCEPT !.target[e] = sha, !.commit[e] = "committed"]
    BY <1>3, EmptyIsDue, OptionsAssumption DEF SettlesEmpty
  <2>2. CASE r = e
    <3> HIDE DEF e
    <3>1. journal'.target[e] = sha
      <4> HIDE DEF sha
      <4> QED
        BY <1>1, <2>1 DEF Journal
    <3> QED
      BY <2>1, <2>2, <3>1
  <2>3. CASE r # e
    <3> HIDE DEF e, sha
    <3> QED
      BY <1>1, <2>1, <2>3 DEF Journal
  <2> QED
    BY <2>2, <2>3
<1>4. CASE MarkCommitted
  <2>1. /\ pc = "mark" /\ CommitRepo \in Repo
        /\ journal' = [journal EXCEPT !.commit[CommitRepo] = "committed"]
    BY <1>4, TurnType DEF MarkCommitted, CommitRepo
  <2>2. /\ head[CommitRepo] = journal.target[CommitRepo]
        /\ index[CommitRepo] = TreeOf(journal.target[CommitRepo])
    BY <2>1 DEF CycleInv, CommitPlace
  <2> QED
    BY <1>1, <2>1, <2>2 DEF Journal
<1>5. ASSUME ~PrepareTarget, ~SettlesEmpty, ~MarkCommitted
      PROVE  journal'.target = journal.target /\ journal'.commit = journal.commit
  BY <1>1, <1>5 DEF Rewrites, Checkpoints, EnterCommitting, EnterPushing, PushDone,
    MarkPushed, Journal
<1> QED
  BY <1>2, <1>3, <1>4, <1>5

\* The cycle leaves a repository it has prepared alone until it generates.
LEMMA PreparedStep == CycleInv /\ [Next]_vars => Prepared'
<1> SUFFICES ASSUME CycleInv, [Next]_vars, pc' \in {"prepare", "generate", "snapshot"},
                    NEW r \in Enabled, pc' = "prepare" => r \notin todo'
             PROVE  work'[r] = TreeOf(head'[r]) /\ index'[r] = TreeOf(head'[r])
  BY DEF Prepared, Clean
<1>P. /\ r \in Repo /\ Prepared
      /\ head \in [Repo -> Sha] /\ work \in [Repo -> Tree] /\ index \in [Repo -> Tree]
  BY OptionsAssumption DEF CycleInv, IInv, TypeOK
<1>1. CASE UNCHANGED <<pc, todo, work, index, head>>
  BY <1>P, <1>1 DEF Prepared, Clean
<1>2. CASE Generate
  BY <1>P, <1>2 DEF Generate, Prepared, Clean
<1>3. CASE PrepareRepo
  <2> DEFINE e == PublishTurn(todo)
  <2>1. /\ pc = "prepare"
        /\ head' = [head EXCEPT ![e] = remote[e]]
        /\ work' = [work EXCEPT ![e] = TreeOf(remote[e])]
        /\ index' = [index EXCEPT ![e] = TreeOf(remote[e])]
        /\ todo' = todo \ {e} /\ pc' = IF todo' = {} THEN "generate" ELSE "prepare"
    BY <1>3 DEF PrepareRepo, Return, Goto
  <2> HIDE DEF e
  <2>2. CASE r = e
    BY <1>P, <2>1, <2>2
  <2>3. CASE r # e
    BY <1>P, <2>1, <2>3 DEF Prepared, Clean
  <2> QED
    BY <2>2, <2>3
<1>4. CASE pc' = "prepare" /\ todo' = Enabled
  BY <1>4
<1> QED
  BY <1>1, <1>2, <1>3, <1>4, Arrivals

\* The steps of one commit follow each other.
LEMMA CommitPlaceStep == CycleInv /\ [Next]_vars => CommitPlace'
<1> SUFFICES ASSUME CycleInv, [Next]_vars PROVE CommitPlace'
  OBVIOUS
<1>P. /\ CommitPlace /\ journal \in Journal
      /\ head \in [Repo -> Sha] /\ index \in [Repo -> Tree]
  BY Values DEF CycleInv, IInv, TypeOK
<1>1. ASSUME pc' = "target" PROVE head'[CommitRepo'] = journal'.base[CommitRepo']
  BY <1>P, <1>1, Arrivals DEF CommitPlace, CommitRepo
<1>2. ASSUME pc' \in {"index", "mark"}
      PROVE  /\ head'[CommitRepo'] = journal'.target[CommitRepo']
             /\ pc' = "mark" => index'[CommitRepo'] = TreeOf(journal'.target[CommitRepo'])
  <2>1. CASE UNCHANGED <<journal, head, index, pc, todo>>
    BY <1>P, <1>2, <2>1 DEF CommitPlace, CommitRepo
  <2>2. CASE UpdateBranch \/ InstallIndex
    <3>1. CommitRepo' = CommitRepo /\ CommitRepo \in Repo /\ UNCHANGED journal
      BY <2>2, TurnType DEF UpdateBranch, InstallIndex, CommitRepo, cursor
    <3>2. CASE UpdateBranch
      BY <1>P, <3>1, <3>2 DEF UpdateBranch, Goto
    <3>3. CASE InstallIndex
      BY <1>P, <3>1, <3>3 DEF InstallIndex, Goto, CommitPlace
    <3> QED
      BY <2>2, <3>2, <3>3
  <2>3. CASE /\ UNCHANGED <<journal, head, index, todo>> /\ pc' = "index"
             /\ head[CommitRepo] = journal.target[CommitRepo]
    BY <2>3 DEF CommitRepo
  <2> QED
    BY <1>2, <2>1, <2>2, <2>3, Arrivals
<1> QED
  BY <1>1, <1>2 DEF CommitPlace

\* Target, branch, index and mark are written in this order.
LEMMA CommitProgressStep == CycleInv /\ Data /\ [Next]_vars => CommitProgress'
<1> SUFFICES ASSUME CycleInv, Data, [Next]_vars PROVE CommitProgress'
  OBVIOUS
<1>P. /\ CommitProgress /\ journal \in Journal
      /\ head \in [Repo -> Sha] /\ index \in [Repo -> Tree]
  BY Values DEF CycleInv, Data, IInv, TypeOK
<1>1. ASSUME Open', NEW r \in Enabled
      PROVE  /\ journal'.target[r] = NoSha => head'[r] = journal'.base[r]
             /\ journal'.commit[r] = "committed" =>
                  head'[r] = journal'.target[r] /\ index'[r] = TreeOf(journal'.target[r])
  <2>1. r \in Repo
    BY OptionsAssumption
  <2>2. CASE UNCHANGED <<journal, head, index>>
    BY <1>P, <1>1, <2>2 DEF CommitProgress, Open
  <2>3. CASE WritePublishingJournal
    BY <2>3, Begins
  <2>4. CASE Rewrites
    <3>1. /\ Open /\ journal'.base = journal.base /\ UNCHANGED <<head, index>>
      BY <2>4, JournalKept
    <3>2. journal'.target[r] = NoSha => head[r] = journal.base[r]
      BY <1>P, <2>4, <3>1, TargetsKept DEF CommitProgress
    <3>3. journal'.commit[r] = "committed" =>
            head[r] = journal'.target[r] /\ index[r] = TreeOf(journal'.target[r])
      BY <1>P, <2>4, <3>1, CommitsKept DEF CommitProgress
    <3> QED
      BY <3>1, <3>2, <3>3
  <2>5. CASE PrepareRepo
    BY <1>1, <2>5 DEF PrepareRepo, Open, CycleInv, IInv, Control, PhaseOfStep
  <2>6. CASE UpdateBranch \/ InstallIndex
    <3>1. /\ UNCHANGED journal /\ Open /\ CommitRepo \in Repo
          /\ journal.target[CommitRepo] # NoSha
      BY <1>1, <2>6, TurnType
      DEF UpdateBranch, InstallIndex, Open, CycleInv, IInv, Control, TargetOfStep,
        CommitRepo
    <3>2. /\ head'[r] = head[r] \/ (r = CommitRepo /\ head'[r] = journal.target[r])
          /\ \/ index'[r] = index[r]
             \/ r = CommitRepo /\ index'[r] = TreeOf(journal.target[r])
      BY <1>P, <2>1, <2>6, <3>1 DEF UpdateBranch, InstallIndex
    <3> QED
      BY <1>P, <3>1, <3>2 DEF CommitProgress
  <2>7. journal' # NoJournal
    BY <1>1 DEF Open, NoJournal
  <2> QED
    BY <2>2, <2>3, <2>4, <2>5, <2>6, <2>7, Writers DEF Rewrites
<1> QED
  BY <1>1 DEF CommitProgress

-----------------------------------------------------------------------------
\* A push that arrives replaces the base by the target.
LEMMA PushEffect ==
  ASSUME CycleInv, PushHead
  PROVE  /\ Open /\ PushRepo \in Enabled /\ UNCHANGED <<journal, plan>>
         /\ pc = "push" /\ pc' = "confirm"
         /\ journal.target[PushRepo] = TargetOf(PushRepo)
         /\ \/ UNCHANGED remote
            \/ /\ remote[PushRepo] = journal.base[PushRepo]
               /\ remote'[PushRepo] = TargetOf(PushRepo)
               /\ \A r \in Repo \ {PushRepo} : remote'[r] = remote[r]
<1>1. /\ pc = "push" /\ pc' = "confirm" /\ todo # {} /\ todo \subseteq Enabled
      /\ journal.phase = "pushing" /\ UNCHANGED <<journal, plan>>
  BY DEF PushHead, Goto, durable, CycleInv, IInv, Control, PhaseOfStep, TodoOfStep,
    PushSteps
<1>2. PushRepo \in Enabled /\ PushRepo \in Repo
  BY <1>1, OptionsAssumption DEF PushRepo, PushTurn, Repo
<1>3. head[PushRepo] = journal.target[PushRepo] /\ head[PushRepo] # NoSha
  BY <1>1, <1>2, Values DEF CycleInv, IInv, Control, AllCommitted, PushSteps
<1>4. journal.target[PushRepo] = TargetOf(PushRepo)
  BY <1>1, <1>2, <1>3 DEF CycleInv, JournalOfPlan, Open
<1>5. remote \in [Repo -> Sha]
  BY DEF CycleInv, IInv, TypeOK
<1> QED
  BY <1>1, <1>2, <1>3, <1>4, <1>5 DEF PushHead, Open

\* A push of somebody else continues the branch and leaves its tree alone.
LEMMA ForeignEffect ==
  ASSUME CycleInv, NEW e \in Repo, ForeignPush(e)
  PROVE  /\ UNCHANGED <<journal, plan, head, work, index, todo>>
         /\ \A r \in Repo :
              \/ remote'[r] = remote[r]
              \/ \E c \in Commit : /\ c.by < 0 /\ c.tree = TreeOf(remote[r])
                                   /\ remote'[r] = Append(remote[r], c)
<1> DEFINE c == [by |-> -(foreign + 1), tree |-> TreeOf(remote[e])]
<1>1. /\ UNCHANGED <<journal, plan, head, work, index, todo>>
      /\ remote' = [remote EXCEPT ![e] = Append(remote[e], c)]
  BY DEF ForeignPush, durable, cursor
<1>2. /\ foreign \in Nat /\ TreeOf(remote[e]) \in Tree /\ remote \in [Repo -> Sha]
  BY Values, TreeOfType, BoundsAssumption DEF CycleInv, IInv, TypeOK
<1>3. c \in Commit /\ c.by < 0 /\ c.tree = TreeOf(remote[e])
  BY <1>2 DEF Commit
<1>4. remote'[e] = Append(remote[e], c) /\ \A r \in Repo \ {e} : remote'[r] = remote[r]
  BY <1>1, <1>2
<1> HIDE DEF c
<1> QED
  BY <1>1, <1>3, <1>4

\* A remote never loses a commit.
LEMMA RemoteStep ==
  ASSUME CycleInv, [Next]_vars, NEW r \in Repo
  PROVE  Ancestor(remote[r], remote'[r])
<1>1. remote[r] \in Sha
  BY Values DEF CycleInv
<1>2. CASE UNCHANGED remote
  BY <1>1, <1>2, AncestorOrder
<1>3. CASE PushHead
  <2>1. CASE r = PushRepo /\ remote[r] = journal.base[r] /\ remote'[r] = TargetOf(r)
    BY <1>3, <2>1, PushEffect, TargetFacts DEF CycleInv
  <2>2. CASE remote'[r] = remote[r]
    BY <1>1, <2>2, AncestorOrder
  <2> QED
    BY <1>3, <2>1, <2>2, PushEffect
<1>4. CASE \E e \in Repo : ForeignPush(e)
  <2>1. CASE remote'[r] = remote[r]
    BY <1>1, <2>1, AncestorOrder
  <2>2. ASSUME NEW c \in Commit, remote'[r] = Append(remote[r], c)
        PROVE  Ancestor(remote[r], remote'[r])
    BY <1>1, <2>2, AncestorAppend
  <2> QED
    BY <1>4, <2>1, <2>2, ForeignEffect
<1> QED
  BY <1>2, <1>3, <1>4, Writers

\* What a remote continues it goes on to continue.
LEMMA AncestorKept ==
  ASSUME CycleInv, [Next]_vars, NEW r \in Repo, Ancestor(journal.target[r], remote[r])
  PROVE  Ancestor(journal.target[r], remote'[r])
<1>1. /\ remote[r] \in Sha /\ remote'[r] \in Sha /\ journal.target[r] \in Sha
  BY Values, NextInv DEF CycleInv, IInv, TypeOK
<1> QED
  BY <1>1, RemoteStep, AncestorOrder

\* A push is marked after the remote was seen at the target.
LEMMA PushSeenStep == CycleInv /\ [Next]_vars => PushSeen'
<1> SUFFICES ASSUME CycleInv, [Next]_vars PROVE PushSeen'
  OBVIOUS
<1>P. /\ PushSeen /\ journal \in Journal /\ Control
  BY Values DEF CycleInv, IInv
<1>1. ASSUME Open', NEW r \in Enabled, journal'.push[r] = "pushed"
      PROVE  Ancestor(journal'.target[r], remote'[r])
  <2>1. r \in Repo
    BY OptionsAssumption
  <2>2. CASE UNCHANGED journal
    <3>1. /\ Open /\ journal.target[r] # NoSha
          /\ Ancestor(journal.target[r], remote[r])
      BY <1>P, <1>1, <2>2
      DEF PushSeen, Open, Control, JournalWellFormed, ValidJournal,
        ValidRepoPhaseState
    <3> QED
      BY <2>1, <2>2, <3>1, AncestorKept
  <2>3. CASE WritePublishingJournal
    BY <1>1, <2>3, Begins
  <2>4. CASE MarkPushed
    <3>1. pc = "pushed" /\ Open /\ UNCHANGED remote
      BY <2>4, JournalKept DEF MarkPushed, Rewrites
    <3>2. /\ journal'.target[r] = journal.target[r]
          /\ r = PushRepo \/ journal.push[r] = "pushed"
      BY <1>P, <1>1, <2>1, <2>4 DEF MarkPushed, Journal
    <3> QED
      BY <1>P, <3>1, <3>2 DEF PushSeen
  <2>5. CASE Rewrites /\ ~MarkPushed
    <3>1. Open /\ UNCHANGED remote
      BY <2>5, JournalKept
    <3>2. journal'.push = journal.push
      BY <1>P, <2>5 DEF Rewrites, Checkpoints, EnterCommitting, EnterPushing, PushDone,
        SettlesEmpty, PrepareTarget, MarkCommitted, Journal
    <3>3. journal.target[r] # NoSha
      BY <1>P, <1>1, <3>1, <3>2
      DEF Open, Control, JournalWellFormed, ValidJournal, ValidRepoPhaseState
    <3>4. journal'.target[r] = journal.target[r]
      BY <2>5, <3>3, TargetsKept
    <3> QED
      BY <1>P, <1>1, <3>1, <3>2, <3>4 DEF PushSeen
  <2>6. journal' # NoJournal
    BY <1>1 DEF Open, NoJournal
  <2> QED
    BY <2>2, <2>3, <2>4, <2>5, <2>6, Writers DEF Rewrites
<1>2. ASSUME pc' = "pushed"
      PROVE  Ancestor(journal'.target[PushRepo'], remote'[PushRepo'])
  <2>1. CASE UNCHANGED <<journal, pc, todo>>
    <3>1. /\ PushRepo' = PushRepo /\ PushRepo \in Enabled /\ Open
          /\ Ancestor(journal.target[PushRepo], remote[PushRepo])
      BY <1>P, <1>2, <2>1, OptionsAssumption
      DEF PushSeen, PushRepo, PushTurn, Control, TodoOfStep, PhaseOfStep, PushSteps,
        Open, Repo
    <3>2. journal.target[PushRepo] # NoSha
      BY <1>P, <1>2, <2>1, <3>1, Values, OptionsAssumption
      DEF CycleInv, Control, AllCommitted, PushSteps
    <3> QED
      BY <2>1, <3>1, AncestorKept, OptionsAssumption
  <2>2. CASE /\ UNCHANGED <<journal, remote, todo>>
             /\ remote[PushRepo] = journal.target[PushRepo]
    <3>1. PushRepo' = PushRepo /\ remote[PushRepo] \in Sha
      BY <2>2, TurnType, Values DEF PushRepo, CycleInv
    <3> QED
      BY <2>2, <3>1, AncestorOrder
  <2> QED
    BY <1>2, <2>1, <2>2, Arrivals
<1> QED
  BY <1>1, <1>2 DEF PushSeen

\* Once a remote continues the target it goes on to.
LEMMA ExtendsKept ==
  ASSUME CycleInv, Data, [Next]_vars, NEW r \in Enabled, Open, UNCHANGED journal,
         journal.target[r] # NoSha, Extends(journal.target[r], remote[r])
  PROVE  Extends(journal.target[r], remote'[r])
<1>1. /\ r \in Repo /\ remote[r] \in Sha /\ journal.target[r] \in Sha
      /\ journal.target[r] = TargetOf(r)
  BY Values DEF CycleInv, Data, JournalOfPlan
<1>2. CASE PushHead
  <2>1. CASE remote'[r] = TargetOf(r)
    BY <1>1, <2>1, AncestorOrder DEF Extends
  <2> QED
    BY <1>1, <1>2, <2>1, PushEffect
<1>3. CASE \E e \in Repo : ForeignPush(e)
  BY <1>1, <1>3, ForeignEffect, ExtendsGrows
<1> QED
  BY <1>2, <1>3, Writers

\* The remote goes on with the tree of the target.
LEMMA PushProgressStep == CycleInv /\ Data /\ [Next]_vars => PushProgress'
<1> SUFFICES ASSUME CycleInv, Data, [Next]_vars PROVE PushProgress'
  OBVIOUS
<1>P. /\ PushProgress /\ journal \in Journal /\ Control
  BY Values DEF CycleInv, Data, IInv
<1>1. ASSUME Open', NEW r \in Enabled, journal'.push[r] = "pushed"
      PROVE  Extends(journal'.target[r], remote'[r])
  <2>1. r \in Repo
    BY OptionsAssumption
  <2>2. CASE UNCHANGED journal
    <3>1. /\ Open /\ journal.target[r] # NoSha
          /\ Extends(journal.target[r], remote[r])
      BY <1>P, <1>1, <2>2
      DEF PushProgress, Open, Control, JournalWellFormed, ValidJournal,
        ValidRepoPhaseState
    <3> QED
      BY <2>2, <3>1, ExtendsKept
  <2>3. CASE WritePublishingJournal
    BY <1>1, <2>3, Begins
  <2>4. CASE MarkPushed
    <3>1. pc = "pushed" /\ Open /\ UNCHANGED remote
      BY <2>4, JournalKept DEF MarkPushed, Rewrites
    <3>2. /\ journal'.target[r] = journal.target[r]
          /\ r = PushRepo \/ journal.push[r] = "pushed"
      BY <1>P, <1>1, <2>1, <2>4 DEF MarkPushed, Journal
    <3> QED
      BY <1>P, <3>1, <3>2 DEF PushProgress
  <2>5. CASE Rewrites /\ ~MarkPushed
    <3>1. Open /\ UNCHANGED remote
      BY <2>5, JournalKept
    <3>2. journal'.push = journal.push
      BY <1>P, <2>5 DEF Rewrites, Checkpoints, EnterCommitting, EnterPushing, PushDone,
        SettlesEmpty, PrepareTarget, MarkCommitted, Journal
    <3>3. journal.target[r] # NoSha
      BY <1>P, <1>1, <3>1, <3>2
      DEF Open, Control, JournalWellFormed, ValidJournal, ValidRepoPhaseState
    <3>4. journal'.target[r] = journal.target[r]
      BY <2>5, <3>3, TargetsKept
    <3> QED
      BY <1>P, <1>1, <3>1, <3>2, <3>4 DEF PushProgress
  <2>6. journal' # NoJournal
    BY <1>1 DEF Open, NoJournal
  <2> QED
    BY <2>2, <2>3, <2>4, <2>5, <2>6, Writers DEF Rewrites
<1>2. ASSUME pc' = "pushed"
      PROVE  Extends(journal'.target[PushRepo'], remote'[PushRepo'])
  <2>1. CASE UNCHANGED <<journal, pc, todo>>
    <3>1. /\ PushRepo' = PushRepo /\ PushRepo \in Enabled /\ Open
          /\ Extends(journal.target[PushRepo], remote[PushRepo])
      BY <1>P, <1>2, <2>1, OptionsAssumption
      DEF PushProgress, PushRepo, PushTurn, Control, TodoOfStep, PhaseOfStep, PushSteps,
        Open, Repo
    <3>2. journal.target[PushRepo] # NoSha
      BY <1>P, <1>2, <2>1, <3>1, Values, OptionsAssumption
      DEF CycleInv, Control, AllCommitted, PushSteps
    <3> QED
      BY <2>1, <3>1, <3>2, ExtendsKept
  <2>2. CASE /\ UNCHANGED <<journal, remote, todo>>
             /\ remote[PushRepo] = journal.target[PushRepo]
    <3>1. PushRepo' = PushRepo /\ remote[PushRepo] \in Sha
      BY <2>2, TurnType, Values DEF PushRepo, CycleInv
    <3> QED
      BY <2>2, <3>1, AncestorOrder DEF Extends
  <2> QED
    BY <1>2, <2>1, <2>2, Arrivals
<1> QED
  BY <1>1, <1>2 DEF PushProgress

\* A repository recorded as pushed shows the transaction.
LEMMA PushedSettled ==
  ASSUME CycleInv, Open, NEW r \in Enabled, journal.push[r] = "pushed"
  PROVE  /\ Settled(r, Len(plan))
         /\ journal.commit[r] = "committed" /\ journal.target[r] = TargetOf(r)
         /\ Ancestor(TargetOf(r), remote[r])
<1>1. journal.commit[r] = "committed" /\ journal.target[r] # NoSha
  BY DEF CycleInv, IInv, Control, JournalWellFormed, ValidJournal, ValidRepoPhaseState,
    Open
<1>2. /\ journal.target[r] = TargetOf(r) /\ Txn.base[r] = journal.base[r]
      /\ JournalOfPlan
  BY <1>1 DEF CycleInv, JournalOfPlan
<1>3. Ancestor(TargetOf(r), remote[r])
  BY <1>1, <1>2 DEF CycleInv, PushSeen
<1>4. /\ TargetOf(r) \in Sha /\ remote[r] \in Sha
      /\ Txn.tree[r] = TreeOf(Txn.base[r]) \/ Contains(TargetOf(r), Len(plan))
  BY <1>2, Values, TargetFacts DEF CycleInv
<1>5. Settled(r, Len(plan))
  BY <1>3, <1>4, ContainsGrows DEF Settled, Txn
<1> QED
  BY <1>1, <1>2, <1>3, <1>5

\* What a remote shows it goes on showing.
LEMMA SettledKept ==
  ASSUME CycleInv, [Next]_vars, NEW n \in 1..Len(plan), NEW r \in Repo, Settled(r, n)
  PROVE  Settled(r, n)'
<1>1. plan'[n] = plan[n]
  BY Begins, Writers
<1>2. remote[r] \in Sha /\ remote'[r] \in Sha
  BY Values, NextInv DEF CycleInv, IInv, TypeOK
<1> QED
  BY <1>1, <1>2, RemoteStep, ContainsGrows DEF Settled

\* A journal goes when every remote shows its transaction.
LEMMA NothingAbandonedStep == CycleInv /\ [Next]_vars => NothingAbandoned'
<1> SUFFICES ASSUME CycleInv, [Next]_vars, NEW n \in 1..Len(plan'),
                    n < Len(plan') \/ journal'.phase = "absent", NEW r \in Repo
             PROVE  Settled(r, n)'
  BY DEF NothingAbandoned
<1>0. NothingAbandoned /\ Len(plan) \in Nat
  BY Values DEF CycleInv
<1>1. ASSUME n \in 1..Len(plan), Settled(r, n) PROVE Settled(r, n)'
  BY <1>1, SettledKept
<1>2. CASE WritePublishingJournal
  <2>1. Len(plan') = Len(plan) + 1 /\ ~Open /\ journal'.phase = "publishing"
    BY <1>2, Begins
  <2> QED
    BY <1>0, <1>1, <2>1 DEF NothingAbandoned, Open
<1>3. CASE UNCHANGED plan /\ (n < Len(plan) \/ ~Open)
  BY <1>0, <1>1, <1>3 DEF NothingAbandoned, Open
<1>4. CASE UNCHANGED plan /\ n = Len(plan) /\ Open /\ ~WritePublishingJournal
  <2>1. Completes \/ DeleteJournal
    <3>1. ~UNCHANGED journal /\ (Rewrites => FALSE)
      BY <1>4, JournalKept DEF Open
    <3> QED
      BY <1>4, <3>1, Writers DEF Rewrites
  <2>2. journal.phase = "completed"
    BY <2>1 DEF Completes, DeleteJournal, CycleInv, IInv, Control, PhaseOfStep
  <2>3. r \in Enabled => journal.push[r] = "pushed"
    BY <2>2 DEF CycleInv, IInv, Control, JournalWellFormed, ValidJournal,
      ValidRepoPhaseState
  <2>4. Settled(r, n)
    BY <1>4, <2>3, PushedSettled DEF Settled
  <2> QED
    BY <1>0, <1>1, <1>4, <2>4
<1> QED
  BY <1>0, <1>2, <1>3, <1>4, Writers

\* The master remote is pushed to when the i18n remote is done with.
LEMMA LastInOrderStep == CycleInv /\ [Next]_vars => LastInOrder'
<1> SUFFICES ASSUME CycleInv, [Next]_vars, Open', NEW n, n = Len(plan'),
                    Contains(remote'["master"], n)
             PROVE  Settled("i18n", n)'
  BY DEF LastInOrder
<1>0. /\ "i18n" \in Repo /\ "master" \in Repo /\ LastInOrder
      /\ remote["master"] \in Sha /\ Len(plan) \in Nat
  BY Values DEF CycleInv, Repo
<1>1. CASE WritePublishingJournal
  <2>1. Len(plan') = Len(plan) + 1 /\ UNCHANGED remote
    BY <1>1, Begins
  <2>2. SoundHistory(plan, "master", remote["master"], Len(plan))
    BY <1>0 DEF CycleInv, HistoriesSound
  <2>3. \A k \in 1..Len(remote["master"]) :
          remote["master"][k].by \in Int /\ remote["master"][k].by <= Len(plan)
    BY <1>0, <2>2, CommitsOf DEF SoundHistory
  <2> QED
    BY <1>0, <2>1, <2>3 DEF Contains
<1>2. CASE UNCHANGED plan /\ ~WritePublishingJournal
  <2>1. Open /\ Len(plan) > 0
    BY <1>2, JournalKept, Writers DEF Open, NoJournal, Rewrites, CycleInv, JournalOfPlan
  <2>2. n \in 1..Len(plan) /\ n = Len(plan)
    BY <1>0, <1>2, <2>1
  <2>3. ASSUME Settled("i18n", n) PROVE Settled("i18n", n)'
    BY <1>0, <2>2, <2>3, SettledKept
  <2>4. CASE Contains(remote["master"], n)
    BY <1>0, <2>1, <2>2, <2>3, <2>4 DEF LastInOrder
  <2>5. CASE PushHead /\ PushRepo = "master"
    <3>1. pc = "push" /\ "i18n" \notin todo
      BY <2>5 DEF PushHead, PushRepo, PushTurn
    <3>2. "i18n" \in Enabled => journal.push["i18n"] = "pushed"
      BY <3>1 DEF CycleInv, IInv, Control, PushedPrefix, PushSteps
    <3>3. Settled("i18n", n)
      BY <2>1, <2>2, <3>2, PushedSettled DEF Settled
    <3> QED
      BY <2>3, <3>3
  <2>6. CASE remote'["master"] = remote["master"]
    BY <1>2, <2>4, <2>6
  <2>7. CASE \E e \in Repo : ForeignPush(e)
    <3>1. ASSUME NEW c \in Commit, c.by < 0, remote'["master"] = Append(remote["master"], c)
          PROVE  Contains(remote["master"], n)
      <4>1. Contains(Append(remote["master"], c), n)
              <=> Contains(remote["master"], n) \/ c.by = n
        BY <1>0, AppendFacts
      <4> QED
        BY <2>1, <2>2, <3>1, <4>1
    <3> QED
      BY <1>0, <2>4, <2>6, <2>7, <3>1, ForeignEffect
  <2> QED
    BY <1>0, <2>5, <2>6, <2>7, PushEffect, Writers
<1> QED
  BY <1>1, <1>2, Writers

\* Once its files are in place a working tree is what the transaction planned.
LEMMA WorkDone ==
  ASSUME CycleInv, Data, journal.phase \in {"committing", "pushing", "completed"},
         NEW r \in Enabled
  PROVE  work[r] = Txn.tree[r]
<1>1. /\ Open /\ r \in Repo /\ work[r] \in Tree
      /\ Txn.tree[r] = Overlay(journal.source[r], TreeOf(journal.base[r]))
  BY Values DEF Open, CycleInv, Data, JournalOfPlan
<1>2. Txn.tree[r] \in Tree
  BY <1>1, TargetFacts DEF CycleInv, Data
<1>3. ASSUME NEW f \in Files PROVE work[r][f] = Txn.tree[r][f]
  <2>1. CASE journal.source[r][f] = Absent
    BY <1>1, <2>1 DEF CycleInv, Data, WorkOfJournal, Overlay
  <2>2. CASE journal.source[r][f] # Absent
    <3>1. f \in Manifest(journal, r)
      BY <2>2 DEF Manifest
    <3>2. work[r][f] = journal.source[r][f]
      BY <3>1, ItemsOfManifest DEF CycleInv, Data, PublishProgress
    <3> QED
      BY <1>1, <2>2, <3>2 DEF Overlay
  <2> QED
    BY <2>1, <2>2
<1> QED
  BY <1>1, <1>2, <1>3 DEF Tree

\* What a transaction leaves behind is clean and pushed.
LEMMA QuietStep == CycleInv /\ Data /\ [Next]_vars => Quiet'
<1> SUFFICES ASSUME CycleInv, Data, [Next]_vars, ~Open', NEW r \in Enabled
             PROVE  /\ work'[r] = TreeOf(head'[r]) /\ index'[r] = TreeOf(head'[r])
                    /\ Extends(head'[r], remote'[r])
  BY DEF Quiet
<1>0. /\ r \in Repo /\ head[r] \in Sha /\ remote[r] \in Sha
  BY Values DEF CycleInv
<1>1. CASE Open
  <2>1. Completes \/ DeleteJournal
    BY <1>1, JournalKept, Begins, Writers DEF Open, Rewrites
  <2>2. /\ journal.phase = "completed"
        /\ UNCHANGED <<work, index, head, remote>>
    BY <2>1 DEF Completes, DeleteJournal, CycleInv, IInv, Control, PhaseOfStep
  <2>3. journal.push[r] = "pushed"
    BY <2>2 DEF CycleInv, IInv, Control, JournalWellFormed, ValidJournal,
      ValidRepoPhaseState
  <2>4. work[r] = TreeOf(TargetOf(r))
    BY <1>1, <2>2, WorkDone, TargetFacts DEF CycleInv, Data
  <2>5. /\ head[r] = TargetOf(r) /\ index[r] = TreeOf(TargetOf(r))
        /\ Extends(TargetOf(r), remote[r])
    BY <1>1, <2>3, PushedSettled DEF Data, CommitProgress, PushProgress
  <2> QED
    BY <2>2, <2>4, <2>5
<1>2. CASE ~Open
  <2>1. /\ work[r] = TreeOf(head[r]) /\ index[r] = TreeOf(head[r])
        /\ Extends(head[r], remote[r])
    BY <1>2 DEF CycleInv, Data, Quiet
  <2>2. CASE UNCHANGED <<head, work, index, remote>>
    BY <2>1, <2>2
  <2>3. CASE PrepareRepo
    <3> DEFINE e == PublishTurn(todo)
    <3>1. /\ UNCHANGED remote
          /\ \/ UNCHANGED <<head, work, index>>
             \/ /\ head' = [head EXCEPT ![e] = remote[e]]
                /\ work' = [work EXCEPT ![e] = TreeOf(remote[e])]
                /\ index' = [index EXCEPT ![e] = TreeOf(remote[e])]
      BY <2>3 DEF PrepareRepo
    <3>2. /\ head \in [Repo -> Sha] /\ work \in [Repo -> Tree] /\ index \in [Repo -> Tree]
      BY DEF CycleInv, IInv, TypeOK
    <3> HIDE DEF e
    <3>3. CASE UNCHANGED <<head, work, index>>
      BY <2>1, <3>1, <3>3
    <3>4. CASE r # e /\ ~UNCHANGED <<head, work, index>>
      BY <1>0, <2>1, <3>1, <3>2, <3>4
    <3>5. CASE r = e /\ ~UNCHANGED <<head, work, index>>
      <4>1. /\ head'[r] = remote[r] /\ work'[r] = TreeOf(remote[r])
            /\ index'[r] = TreeOf(remote[r])
        BY <1>0, <3>1, <3>2, <3>5
      <4> QED
        BY <1>0, <3>1, <4>1, AncestorOrder DEF Extends
    <3> QED
      BY <3>3, <3>4, <3>5
  <2>4. CASE \E e \in Repo : ForeignPush(e)
    <3>1. UNCHANGED <<head, work, index>>
      BY <2>4, ForeignEffect
    <3>2. ASSUME NEW c \in Commit, c.tree = TreeOf(remote[r]),
                 remote'[r] = Append(remote[r], c)
          PROVE  Extends(head[r], remote'[r])
      BY <1>0, <2>1, <3>2, ExtendsGrows
    <3> QED
      BY <1>0, <2>1, <2>4, <3>1, <3>2, ForeignEffect
  <2>5. ~PushHead /\ ~UpdateBranch /\ ~InstallIndex
    BY <1>2 DEF PushHead, UpdateBranch, InstallIndex, CycleInv, IInv, Control, PhaseOfStep,
      CommitSteps, PushSteps, Open
  <2>6. ~\E i \in rest : Moves(i)
    BY <1>2, MoveFacts
  <2> QED
    BY <2>2, <2>3, <2>4, <2>5, <2>6, Writers
<1> QED
  BY <1>1, <1>2

\* The published version changes only where the code synchronises it, and is
\* forgotten by a crash.
LEMMA VersionWriters ==
  ASSUME [Next]_vars
  PROVE  \/ UNCHANGED version_info \/ version_info' = Absent
         \/ /\ SyncVersionInfo /\ UNCHANGED <<journal, work>>
            /\ \/ pc = "publish"
               \/ pc = "recover" /\ journal.phase \in {"committing", "pushing"}
<1> USE DEF durable, cursor
<1>1. CASE Recovery
  BY <1>1 DEF Recovery, NothingToRecover, RecoverCompleted, RecoverPublishing,
    RecoverCommitting
<1>2. CASE SkipCycle \/ PrepareRepo \/ Generate \/ RemoteSnapshotFails
  BY <1>2 DEF SkipCycle, PrepareRepo, Generate, RemoteSnapshotFails
<1>3. CASE GenerationFails \/ DeadlineExceeded \/ WritePublishingJournal
  BY <1>3 DEF GenerationFails, DeadlineExceeded, WritePublishingJournal
<1>4. CASE \E daily \in BOOLEAN :
           \E observed \in {work["master"][Versions], Len(plan) + 1} \ {Absent} :
             Gate(daily, observed)
  BY <1>4 DEF Gate
<1>5. CASE \E i \in rest : PublishFile(i) \/ RecoverPublishFile(i)
  BY <1>5 DEF PublishFile, RecoverPublishFile
<1>6. CASE Checkpoint \/ PublicationDone \/ EnterCommitting
  BY <1>6 DEF Checkpoint, PublicationDone, EnterCommitting
<1>7. CASE Commits
  BY <1>7 DEF Commits, StartCommit, RecoverCommitRepo, PrepareTarget, UpdateBranch,
    InstallIndex, MarkCommitted, CommitDone
<1>8. CASE Pushes
  BY <1>8 DEF Pushes, EnterPushing, ProbeRemote, PushHead, ConfirmPush, MarkPushed,
    PushDone, ClearStaging, DeleteJournal
<1>9. CASE BeginCycle \/ Crash \/ StepFails \/ CommitFails \/ PushLost
  BY <1>9 DEF BeginCycle, Crash, StepFails, CommitFails, PushLost
<1>10. CASE \E r \in Repo : ForeignPush(r)
  BY <1>10 DEF ForeignPush
<1>11. CASE UNCHANGED vars
  BY <1>11 DEF vars
<1> QED
  BY <1>1, <1>2, <1>3, <1>4, <1>5, <1>6, <1>7, <1>8, <1>9, <1>10, <1>11
  DEF Next, Cycle, Fresh, Publication

\* The phase "publishing" ends only where the code enters the next one.
LEMMA StaysPublishing ==
  ASSUME CycleInv, [Next]_vars, journal.phase = "publishing", pc # "committing"
  PROVE  journal'.phase = "publishing"
<1>1. journal \in Journal /\ PhaseOfStep
  BY Values DEF CycleInv, IInv, Control
<1>2. ~EnterCommitting /\ ~EnterPushing /\ ~PushDone /\ ~Completes /\ ~DeleteJournal
  BY <1>1 DEF EnterCommitting, EnterPushing, PushDone, Completes, DeleteJournal,
    PhaseOfStep, PushSteps
<1>3. CASE Checkpoints
  BY <1>1, <1>3 DEF Checkpoints, Journal
<1>4. CASE SettlesEmpty \/ PrepareTarget \/ MarkCommitted \/ MarkPushed
  BY <1>1, <1>4 DEF SettlesEmpty, PrepareTarget, MarkCommitted, MarkPushed, Journal
<1>5. CASE WritePublishingJournal
  BY <1>5, Begins
<1> QED
  BY <1>2, <1>3, <1>4, <1>5, Writers

\* The version is synchronised with versions.json once that is in place.
LEMMA VersionProgressStep == CycleInv /\ Data /\ [Next]_vars => VersionProgress'
<1> SUFFICES ASSUME CycleInv, Data, [Next]_vars, "master" \in Enabled PROVE VersionProgress'
  BY DEF VersionProgress
<1>P. /\ pc \in {"prepare", "generate"} => candidate # Absent
      /\ pc = "snapshot" => staged["master"][Versions] # Absent
      /\ Open => journal.source["master"][Versions] # Absent
      /\ version_info # Absent /\ (journal.phase # "publishing" \/ pc = "committing")
           => version_info = work["master"][Versions]
      /\ journal \in Journal /\ "master" \in Repo
  BY Values DEF CycleInv, Data, VersionProgress
<1>1. pc' \in {"prepare", "generate"} => candidate' # Absent
  BY <1>P, Arrivals
<1>2. ASSUME pc' = "snapshot" PROVE staged'["master"][Versions] # Absent
  <2>1. CASE Generate
    <3>1. PICK m \in Stageable("master"), t \in Stageable("i18n") :
            staged' = [r \in Repo |-> IF r = "master" THEN m ELSE t]
      BY <2>1 DEF Generate
    <3>2. m[Versions] = candidate /\ candidate # Absent
      BY <1>P, <2>1 DEF Stageable, Generate
    <3> QED
      BY <1>P, <3>1, <3>2
  <2>2. CASE UNCHANGED <<pc, staged>>
    BY <1>P, <1>2, <2>2
  <2> QED
    BY <1>2, <2>1, <2>2, Arrivals
<1>3. ASSUME Open' PROVE journal'.source["master"][Versions] # Absent
  <2>1. CASE UNCHANGED journal
    BY <1>P, <1>3, <2>1 DEF Open
  <2>2. CASE WritePublishingJournal
    BY <1>P, <2>2, Begins DEF WritePublishingJournal
  <2>3. CASE Rewrites
    BY <1>P, <2>3, JournalKept
  <2> QED
    BY <1>3, <2>1, <2>2, <2>3, Writers DEF Rewrites, Open, NoJournal
<1>4. ASSUME version_info' # Absent, journal'.phase # "publishing" \/ pc' = "committing"
      PROVE  version_info' = work'["master"][Versions]
  <2>1. CASE /\ SyncVersionInfo /\ UNCHANGED <<journal, work>>
             /\ \/ pc = "publish"
                \/ pc = "recover" /\ journal.phase \in {"committing", "pushing"}
    <3>1. Open
      BY <2>1 DEF Open, CycleInv, IInv, Control, PhaseOfStep
    <3> QED
      BY <1>P, <2>1, <3>1 DEF SyncVersionInfo, VersionsStaged
  <2>2. CASE UNCHANGED version_info
    <3>1. CASE \E i \in rest : Moves(i)
      BY <1>4, <3>1, MoveFacts
    <3>2. CASE PrepareRepo
      <4>1. work'["master"] \in {work["master"], TreeOf(remote["master"])}
        BY <1>P, <3>2 DEF PrepareRepo, CycleInv, IInv, TypeOK
      <4>2. ~Open /\ pc = "prepare"
        BY <3>2 DEF PrepareRepo, Open, CycleInv, IInv, Control, PhaseOfStep
      <4>3. TreeOf(remote["master"]) = work["master"]
        BY <4>2 DEF CycleInv, Data, Quiet, Extends
      <4> QED
        BY <1>P, <1>4, <2>2, <4>1, <4>2, <4>3 DEF Open
    <3>3. CASE UNCHANGED work
      <4>1. CASE journal.phase = "publishing" /\ pc # "committing"
        <5>1. CASE pc' = "committing"
          <6>1. CASE PublicationDone
            BY <1>P, <4>1, <6>1 DEF PublicationDone, SyncVersionInfo, VersionsStaged,
              Open, durable
          <6>2. CASE UNCHANGED <<journal, work, pc, version_info>>
            BY <4>1, <5>1, <6>2
          <6> QED
            BY <5>1, <6>1, <6>2, Arrivals
        <5>2. journal'.phase = "publishing"
          BY <4>1, StaysPublishing
        <5> QED
          BY <1>4, <5>1, <5>2
      <4> QED
        BY <1>P, <1>4, <2>2, <3>3, <4>1
    <3> QED
      BY <3>1, <3>2, <3>3, Writers
  <2> QED
    BY <1>4, <2>1, <2>2, VersionWriters
<1> QED
  BY <1>1, <1>2, <1>3, <1>4 DEF VersionProgress

-----------------------------------------------------------------------------
\* The first state.
LEMMA InitTxnInv == Init => TxnInv
<1> SUFFICES ASSUME Init PROVE TxnInv
  OBVIOUS
<1>1. IInv
  BY InitInv
<1>2. ~Open /\ journal = NoJournal /\ pc = "idle" /\ Len(plan) = 0
      /\ version_info = Absent
  BY DEF Init, Open, NoJournal
<1>3. HistoriesSound
  BY DEF Init, HistoriesSound, SoundHistory, FirstCommit
<1>4. /\ JournalOfPlan /\ PublishProgress /\ Prepared /\ CommitPlace /\ PushSeen
      /\ LastInOrder
  BY <1>2 DEF JournalOfPlan, PublishProgress, Prepared, CommitPlace, PushSeen,
    LastInOrder, Open
<1>5. NothingAbandoned
  BY <1>2 DEF NothingAbandoned
<1>6. /\ WorkOfJournal /\ VersionsLast /\ CommitProgress /\ PushProgress
      /\ VersionProgress
  BY <1>2 DEF WorkOfJournal, VersionsLast, CommitProgress, PushProgress,
    VersionProgress, Open
<1>7. Quiet
  <2>1. \A r \in Repo : /\ work[r] = TreeOf(head[r]) /\ index[r] = TreeOf(head[r])
                        /\ remote[r] = head[r] /\ head[r] \in Sha
    BY <1>1, Values DEF Init, TreeOf, FirstCommit
  <2> QED
    BY <2>1, AncestorOrder, OptionsAssumption DEF Quiet, Extends
<1> QED
  BY <1>1, <1>3, <1>4, <1>5, <1>6, <1>7 DEF TxnInv, CycleInv, Data

\* Every step.
LEMMA NextCycleInv == CycleInv /\ [Next]_vars => CycleInv'
<1> SUFFICES ASSUME CycleInv, [Next]_vars PROVE CycleInv'
  OBVIOUS
<1>1. IInv'
  BY NextInv DEF CycleInv
<1> QED
  BY <1>1, HistoriesStep, JournalOfPlanStep, PublishProgressStep, PreparedStep,
    CommitPlaceStep, PushSeenStep, LastInOrderStep, NothingAbandonedStep
  DEF CycleInv

LEMMA NextTxnInv == TxnInv /\ [Next]_vars => TxnInv'
<1> SUFFICES ASSUME CycleInv, Data, [Next]_vars PROVE CycleInv' /\ Data'
  BY DEF TxnInv
<1> QED
  BY NextCycleInv, WorkOfJournalStep, VersionsLastStep, CommitProgressStep,
    PushProgressStep, QuietStep, VersionProgressStep
  DEF Data

-----------------------------------------------------------------------------
(***************************************************************************)
(* DualPublish.                                                            *)
(***************************************************************************)

\* The variables of DualPublish, as the refinement mapping gives them.
Updates == [n \in 1..Len(plan) |->
              {r \in Enabled : plan[n].tree[r] # TreeOf(plan[n].base[r])}]
Shown   == [r \in Repo |-> {n \in 1..Len(plan) : Contains(remote[r], n)}]

\* The first state maps to the first state.
LEMMA InitPublish == Init => DP!PubInit
<1> SUFFICES ASSUME Init PROVE DP!PubInit
  OBVIOUS
<1>1. Len(plan) = 0 /\ journal.phase = "absent"
  BY DEF Init, NoJournal
<1>2. Updates = << >>
  <2>1. 1..Len(plan) = {}
    BY <1>1
  <2> QED
    BY <2>1 DEF Updates
<1>3. Shown = [r \in Repo |-> {}]
  BY <1>1 DEF Shown
<1> QED
  BY <1>1, <1>2, <1>3 DEF DP!PubInit, Updates, Shown

\* Append, point by point.
LEMMA AppendPoints ==
  ASSUME NEW S, NEW s \in Seq(S), NEW x \in S
  PROVE  Append(s, x) =
           [m \in 1..(Len(s) + 1) |-> IF m = Len(s) + 1 THEN x ELSE s[m]]
<1> DEFINE t == Append(s, x)
           u == [m \in 1..(Len(s) + 1) |-> IF m = Len(s) + 1 THEN x ELSE s[m]]
<1>1. /\ t \in Seq(S) /\ Len(t) = Len(s) + 1 /\ Len(s) \in Nat
      /\ \A m \in 1..Len(s) : t[m] = s[m] /\ s[m] \in S
      /\ t[Len(s) + 1] = x
  BY AppendProperties
<1>2. t = [m \in 1..(Len(s) + 1) |-> t[m]]
  <2> HIDE DEF t
  <2> QED
    BY <1>1
<1>3. \A m \in 1..(Len(s) + 1) : t[m] = u[m]
  <2> HIDE DEF t
  <2> QED
    BY <1>1
<1> HIDE DEF t
<1> QED
  BY <1>2, <1>3 DEF t

\* To begin a transaction is to begin an update.
LEMMA BeginsUpdate ==
  ASSUME CycleInv, WritePublishingJournal
  PROVE  \E changed \in SUBSET Repo : DP!Begin(changed)
<1> DEFINE n == Len(plan)
<1>1. /\ ~Open /\ Open' /\ n \in Nat /\ Len(plan') = n + 1
      /\ \A m \in 1..n : plan'[m] = plan[m]
      /\ UNCHANGED remote
  BY Begins
<1>2. PICK changed \in SUBSET Repo :
        changed = {r \in Enabled : Txn'.tree[r] # TreeOf(Txn'.base[r])}
  BY OptionsAssumption
<1>3. Updates' = Append(Updates, changed)
  <2>1. 1..Len(plan') = 1..n \cup {n + 1}
    BY <1>1
  <2>2. Txn' = plan'[n + 1]
    BY <1>1 DEF Txn
  <2>3. Updates' = [m \in 1..(n + 1) |-> IF m = n + 1 THEN changed ELSE Updates[m]]
    BY <1>1, <1>2, <2>1, <2>2 DEF Updates
  <2>4. Updates \in Seq(SUBSET Repo) /\ Len(Updates) = n
    <3>1. Updates \in [1..n -> SUBSET Repo]
      BY OptionsAssumption DEF Updates
    <3> HIDE DEF Updates
    <3> QED
      BY <1>1, <3>1
  <2>5. Append(Updates, changed) =
          [m \in 1..(n + 1) |-> IF m = n + 1 THEN changed ELSE Updates[m]]
    BY <1>1, <1>2, <2>4, AppendPoints
  <2> QED
    BY <2>3, <2>5
<1>4. Shown' = Shown
  <2>1. ASSUME NEW r \in Repo PROVE ~Contains(remote[r], n + 1)
    <3>1. SoundHistory(plan, r, remote[r], n) /\ remote[r] \in Sha
      BY Values DEF CycleInv, HistoriesSound
    <3>2. \A k \in 1..Len(remote[r]) : remote[r][k].by \in Int /\ remote[r][k].by <= n
      BY <3>1, CommitsOf DEF SoundHistory
    <3> QED
      BY <1>1, <3>2 DEF Contains
  <2>2. 1..Len(plan') = 1..n \cup {n + 1}
    BY <1>1
  <2>3. ASSUME NEW r \in Repo
        PROVE  {m \in 1..Len(plan') : Contains(remote'[r], m)}
                 = {m \in 1..Len(plan) : Contains(remote[r], m)}
    BY <1>1, <2>1, <2>2
  <2> QED
    BY <2>3 DEF Shown
<1>5. DP!Begin(changed)
  <2>1. journal.phase = "absent" /\ (journal'.phase # "absent") = TRUE
    BY <1>1 DEF Open
  <2> QED
    BY <1>3, <1>4, <2>1 DEF DP!Begin, Updates, Shown
<1> QED
  BY <1>2, <1>5

\* To delete the journal is to close the update.
LEMMA ClosesUpdate ==
  ASSUME CycleInv, Completes \/ DeleteJournal, journal' = NoJournal
  PROVE  DP!Close
<1>1. /\ Open /\ journal.phase = "completed" /\ journal'.phase = "absent"
      /\ UNCHANGED <<plan, remote>>
  BY DEF Completes, DeleteJournal, CycleInv, IInv, Control, PhaseOfStep, Open, NoJournal
<1>2. Len(plan) \in 1..Len(plan)
  BY <1>1, Values DEF CycleInv, JournalOfPlan
<1>3. Len(Updates) = Len(plan)
  BY Values DEF Updates, CycleInv
<1>4. ASSUME NEW r \in Updates[Len(plan)] PROVE Len(plan) \in Shown[r]
  <2>1. /\ r \in Enabled /\ r \in Repo
        /\ plan[Len(plan)].tree[r] # TreeOf(plan[Len(plan)].base[r])
    BY <1>2, OptionsAssumption DEF Updates
  <2>2. journal.push[r] = "pushed"
    BY <1>1, <2>1 DEF CycleInv, IInv, Control, JournalWellFormed, ValidJournal,
      ValidRepoPhaseState
  <2>3. Settled(r, Len(plan))
    BY <1>1, <2>1, <2>2, PushedSettled
  <2>4. Contains(remote[r], Len(plan))
    BY <2>1, <2>3 DEF Settled
  <2> QED
    BY <1>2, <2>1, <2>4 DEF Shown
<1>5. Updates' = Updates /\ Shown' = Shown
  BY <1>1 DEF Updates, Shown
<1> QED
  BY <1>1, <1>3, <1>4, <1>5 DEF DP!Close, DP!Current, Updates, Shown, Open

\* To push a target that differs from its base is to show the update.
LEMMA ShowsUpdate ==
  ASSUME CycleInv, PushHead
  PROVE  \/ UNCHANGED <<Updates, Shown>>
         \/ \E r \in Repo : DP!Show(r)
<1> DEFINE r == PushRepo
           n == Len(plan)
<1>1. /\ Open /\ r \in Enabled /\ r \in Repo /\ UNCHANGED <<journal, plan>>
      /\ pc = "push"
  BY PushEffect, OptionsAssumption
<1>2. n \in 1..n /\ Len(Updates) = n
  BY <1>1, Values DEF CycleInv, JournalOfPlan, Updates
<1>3. UNCHANGED Updates
  BY <1>1 DEF Updates
<1>4. CASE UNCHANGED remote
  BY <1>1, <1>3, <1>4 DEF Shown
<1>5. CASE /\ remote[r] = journal.base[r] /\ remote'[r] = TargetOf(r)
           /\ \A e \in Repo \ {r} : remote'[e] = remote[e]
  <2>1. /\ ~Contains(remote[r], n)
        /\ \A m : Contains(remote'[r], m) <=>
                    \/ Contains(remote[r], m)
                    \/ Txn.tree[r] # TreeOf(journal.base[r]) /\ m = n
        /\ Txn.base[r] = journal.base[r]
    BY <1>1, <1>5, TargetFacts DEF CycleInv, JournalOfPlan
  <2>2. CASE Txn.tree[r] = TreeOf(journal.base[r])
    <3>1. Shown' = Shown
      BY <1>1, <1>5, <2>1, <2>2 DEF Shown
    <3> QED
      BY <1>3, <3>1
  <2>3. CASE Txn.tree[r] # TreeOf(journal.base[r])
    <3>1. r \in Updates[n] /\ n \notin Shown[r]
      BY <1>1, <1>2, <2>1, <2>3 DEF Updates, Shown, Txn
    <3>2. Shown' = [Shown EXCEPT ![r] = @ \cup {n}]
      <4>1. ASSUME NEW e \in Repo
            PROVE  {m \in 1..n : Contains(remote'[e], m)}
                     = {m \in 1..n : Contains(remote[e], m)}
                         \cup (IF e = r THEN {n} ELSE {})
        BY <1>2, <1>5, <2>1, <2>3
      <4> QED
        BY <1>1, <4>1 DEF Shown
    <3>3. ASSUME r = "master", "i18n" \in Updates[n] PROVE n \in Shown["i18n"]
      <4>1. /\ "i18n" \in Enabled /\ "i18n" \notin todo /\ "i18n" \in Repo
            /\ plan[n].tree["i18n"] # TreeOf(plan[n].base["i18n"])
        BY <1>2, <3>3 DEF Updates, PushRepo, PushTurn, Repo
      <4>2. journal.push["i18n"] = "pushed"
        BY <1>1, <4>1 DEF CycleInv, IInv, Control, PushedPrefix, PushSteps
      <4>3. Contains(remote["i18n"], n)
        BY <1>1, <4>1, <4>2, PushedSettled DEF Settled
      <4> QED
        BY <1>2, <4>1, <4>3 DEF Shown
    <3>4. journal'.phase # "absent" /\ journal.phase # "absent"
      BY <1>1 DEF Open
    <3>5. DP!Show(r)
      <4> HIDE DEF r
      <4> QED
        BY <1>1, <1>2, <1>3, <3>1, <3>2, <3>3, <3>4
        DEF DP!Show, DP!Current, Updates, Shown
    <3> QED
      BY <1>1, <3>5
  <2> QED
    BY <2>2, <2>3
<1> QED
  BY <1>4, <1>5, PushEffect

\* Every step maps to a step of DualPublish or to a stutter.
LEMMA StepPublish == CycleInv /\ [Next]_vars => [DP!PubNext]_(DP!pubvars)
<1> SUFFICES ASSUME CycleInv, [Next]_vars PROVE [DP!PubNext]_(DP!pubvars)
  OBVIOUS
<1>S. ASSUME UNCHANGED <<Updates, Open, Shown>> PROVE [DP!PubNext]_(DP!pubvars)
  BY <1>S DEF Updates, Open, Shown, DP!pubvars
<1>1. CASE UNCHANGED <<journal, remote, plan>>
  BY <1>1, <1>S DEF Updates, Open, Shown
<1>2. CASE WritePublishingJournal
  BY <1>2, BeginsUpdate DEF DP!PubNext
<1>3. CASE (Completes \/ DeleteJournal) /\ journal' = NoJournal
  BY <1>3, ClosesUpdate DEF DP!PubNext
<1>4. CASE Rewrites
  BY <1>4, <1>S, JournalKept DEF Updates, Shown
<1>5. CASE PushHead
  <2>1. Open' = Open
    BY <1>5, PushEffect DEF Open
  <2> QED
    BY <1>5, <1>S, <2>1, ShowsUpdate DEF DP!PubNext
<1>6. ASSUME NEW e \in Repo, ForeignPush(e) PROVE [DP!PubNext]_(DP!pubvars)
  <2>1. UNCHANGED <<journal, plan>>
    BY <1>6, ForeignEffect
  <2>2. ASSUME NEW r \in Repo, NEW n \in 1..Len(plan)
        PROVE  Contains(remote'[r], n) <=> Contains(remote[r], n)
    <3>1. CASE remote'[r] = remote[r]
      BY <3>1
    <3>2. ASSUME NEW c \in Commit, c.by < 0, remote'[r] = Append(remote[r], c)
          PROVE  Contains(remote'[r], n) <=> Contains(remote[r], n)
      <4>1. /\ remote[r] \in Sha /\ n # c.by
        BY <3>2, Values DEF CycleInv
      <4>2. Contains(Append(remote[r], c), n) <=> Contains(remote[r], n) \/ c.by = n
        BY <4>1, AppendFacts
      <4> QED
        BY <3>2, <4>1, <4>2
    <3> QED
      BY <1>6, <3>1, <3>2, ForeignEffect
  <2>3. UNCHANGED <<Updates, Open, Shown>>
    BY <2>1, <2>2 DEF Updates, Open, Shown
  <2> QED
    BY <2>3, <1>S
<1> QED
  BY <1>1, <1>2, <1>3, <1>4, <1>5, <1>6, Writers DEF Rewrites

-----------------------------------------------------------------------------
(***************************************************************************)
(* The theorems.                                                           *)
(***************************************************************************)

\* Journal, staging, working trees, indexes, branches and remotes agree about the
\* pending transaction at every step of the updater, whatever crashes before it.
THEOREM TxnInvariance == Spec => []TxnInv
<1> QED
  BY InitTxnInv, NextTxnInv, PTL DEF Spec

\* However often publication, commit and push are interrupted and resumed, a commit
\* that reached a remote holds exactly the tree its transaction set out to publish.
THEOREM CommitsNotTorn == Spec => []NoTornCommit
<1>1. TxnInv => NoTornCommit
  BY DEF TxnInv, CycleInv, HistoriesSound, SoundHistory, NoTornCommit
<1> QED
  BY <1>1, TxnInvariance, PTL

\* push_order: the master remote never shows a transaction whose translations the
\* i18n remote does not show.
THEOREM TranslationsFirst == Spec => []I18nBeforeMaster
<1>1. TxnInv => I18nBeforeMaster
  <2> SUFFICES ASSUME TxnInv, NEW n \in 1..Len(plan), Contains(remote["master"], n)
               PROVE  Settled("i18n", n)
    BY DEF I18nBeforeMaster
  <2>1. CASE n < Len(plan) \/ journal.phase = "absent"
    BY <2>1 DEF TxnInv, CycleInv, NothingAbandoned, Repo
  <2>2. CASE n = Len(plan) /\ Open
    BY <2>2 DEF TxnInv, CycleInv, LastInOrder
  <2>3. Len(plan) \in Nat
    BY Values DEF TxnInv, CycleInv
  <2> QED
    BY <2>1, <2>2, <2>3 DEF Open
<1> QED
  BY <1>1, TxnInvariance, PTL

\* Durable recovery comes first: no transaction is begun, and no journal deleted,
\* while an earlier transaction is missing from a remote it changes.
THEOREM TransactionsSettle == Spec => []NothingAbandoned
<1>1. TxnInv => NothingAbandoned
  BY DEF TxnInv, CycleInv
<1> QED
  BY <1>1, TxnInvariance, PTL

\* A cycle that leaves no journal leaves clean repositories that are not ahead of
\* their remotes: prepare_repo_for_update refuses none of them later.
THEOREM QuietIsReady == Spec => []QuietMeansReady
<1>1. TxnInv => QuietMeansReady
  BY DEF TxnInv, Data, Quiet, QuietMeansReady, Extends, Clean, Open
<1> QED
  BY <1>1, TxnInvariance, PTL

\* _publish_order: whoever finds the new versions.json in a working tree finds every
\* file of its transaction there, in both repositories.
THEOREM VersionsMoveLast == Spec => []VersionsLast
<1>1. TxnInv => VersionsLast
  BY DEF TxnInv, Data
<1> QED
  BY <1>1, TxnInvariance, PTL

\* _sync_recovered_version_info and the publication keep the published version in
\* memory in lock-step with the versions.json on disk.
THEOREM VersionInLockStep == Spec => []VersionInfoLockStep
<1>1. TxnInv => VersionInfoLockStep
  BY DEF TxnInv, Data, VersionProgress, VersionInfoLockStep
<1> QED
  BY <1>1, TxnInvariance, PTL

\* The lease of push_current_head: no push of the updater ever takes a commit from a
\* remote, its own or somebody else's.
THEOREM RemotesOnlyGrow == Spec => RemoteOnlyGrows
<1>1. TxnInv /\ [Next]_vars => [\A r \in Repo : Ancestor(remote[r], remote'[r])]_vars
  BY RemoteStep DEF TxnInv
<1> QED
  BY <1>1, TxnInvariance, PTL DEF Spec, RemoteOnlyGrows

\* To the readers of the remotes, neither journals nor crashes show: the updater
\* publishes one update after the other, each exactly once and i18n first.
THEOREM UpdaterImplementsDualPublish == Spec => ImplementsDualPublish
<1>1. TxnInv => CycleInv
  BY DEF TxnInv
<1> QED
  BY InitPublish, StepPublish, <1>1, TxnInvariance, PTL
  DEF Spec, ImplementsDualPublish, DP!PubSpec

=============================================================================
