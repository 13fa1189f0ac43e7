-------------------------- MODULE UpdateTransaction --------------------------
(***************************************************************************)
(* The durable update of the two data repositories (check_update.py with   *)
(* utils/update_transaction.py): one cycle at a time generates files into  *)
(* staging, records a journal, moves the files into the working trees,     *)
(* commits both repositories, pushes i18n and then master, and deletes the *)
(* journal.  Every durable effect is a step of its own, so a crash or an   *)
(* I/O error can fall between any two; the next cycle then finds the       *)
(* journal and recovers before it does anything else.                      *)
(*                                                                         *)
(* Abstractions.  The content of a file is the number of the transaction   *)
(* that last changed it.  A commit identity (a SHA) is the whole history   *)
(* that leads to the commit, so equal SHAs are equal sequences and "is an  *)
(* ancestor of" is "is a prefix of".  The repository locks are those of    *)
(* one updater process: a cycle that finds them taken is skipped and has   *)
(* no step here.  RepoSharing adds the other process that takes them.      *)
(***************************************************************************)
EXTENDS Integers, Sequences

CONSTANTS
  Enabled,     \* the repositories update_options enables
  Files,       \* paths a repository may hold
  Tracked,     \* the paths present in the first commit of each repository
  Others,     \* paths no generation writes: they belong to another program
  MaxTxn,      \* bound: transactions that write a journal
  MaxFaults,   \* bound: crashes, I/O errors, failed probes and pushes
  MaxForeign   \* bound: commits somebody else pushes to a remote

Repo     == {"master", "i18n"}
Versions == "versions.json"
Absent   == -1
NoSha    == << >>

ASSUME OptionsAssumption == Enabled \subseteq Repo /\ Enabled # {}
ASSUME FilesAssumption   == /\ Versions \in Files \ Others
                            /\ Tracked \subseteq Files /\ Others \subseteq Files
ASSUME BoundsAssumption  == /\ MaxTxn \in Nat
                            /\ MaxFaults \in Nat
                            /\ MaxForeign \in Nat

VARIABLES
  \* on disk
  journal,   \* .git/sekai-update/transaction.json of the master repository
  staged,    \* <repo>.staging/<txn>: staged[r][f], Absent when not staged
  work,      \* the working trees
  index,     \* the Git indexes
  head,      \* refs/heads/main of the local repositories
  \* at the remotes
  remote,    \* refs/heads/main of the origins
  \* in memory of the updater
  pc, mode, rest, cur, todo, failed,
  candidate,     \* the version this cycle generates for
  version_info,  \* the published version, Absent for None
  \* history and bounds
  plan,      \* plan[n]: what transaction n set out to publish
  faults, foreign

durable  == <<journal, staged, work, index, head>>
cursor   == <<rest, cur, todo, failed>>
bounds   == <<faults, foreign>>
vars     == <<durable, remote, pc, mode, cursor, candidate, version_info,
              plan, bounds>>

-----------------------------------------------------------------------------
(***************************************************************************)
(* Types                                                                   *)
(***************************************************************************)

Content == Nat \cup {Absent}
Tree    == [Files -> Content]
Commit  == [by : Int, tree : Tree]
Sha     == Seq(Commit)
Item    == Repo \X Files

TxnPhase        == {"absent", "publishing", "committing", "pushing", "completed"}
RepoCommitState == {"pending", "prepared", "committed"}
RepoPushState   == {"pending", "pushed"}

\* TransactionJournal; phase "absent" stands for a missing file.
Journal == [phase  : TxnPhase,
            source : [Repo -> Tree],
            dest   : [Repo -> Tree],
            base   : [Repo -> Sha],
            target : [Repo -> Sha],
            commit : [Repo -> RepoCommitState],
            push   : [Repo -> RepoPushState]]

Nothing   == [f \in Files |-> Absent]
NoJournal == [phase  |-> "absent",
              source |-> [r \in Repo |-> Nothing],
              dest   |-> [r \in Repo |-> Nothing],
              base   |-> [r \in Repo |-> NoSha],
              target |-> [r \in Repo |-> NoSha],
              commit |-> [r \in Repo |-> "pending"],
              push   |-> [r \in Repo |-> "pending"]]

Step == {"idle", "recover", "gate", "prepare", "generate", "snapshot",
         "publish", "checkpoint", "committing", "commit", "target", "cas",
         "index", "mark", "pushing", "probe", "push", "confirm", "pushed",
         "cleanup", "delete"}

TypeOK ==
  /\ journal \in Journal
  /\ staged \in [Repo -> Tree] /\ work \in [Repo -> Tree]
  /\ index \in [Repo -> Tree]
  /\ head \in [Repo -> Sha] /\ remote \in [Repo -> Sha]
  /\ pc \in Step /\ mode \in {"fresh", "recovery"}
  /\ rest \subseteq Item /\ cur \in Item /\ todo \subseteq Repo
  /\ failed \in BOOLEAN
  /\ candidate \in Content /\ version_info \in Content
  /\ plan \in Seq([base : [Repo -> Sha], tree : [Repo -> Tree]])
  /\ faults \in 0..MaxFaults /\ foreign \in 0..MaxForeign

-----------------------------------------------------------------------------
(***************************************************************************)
(* Helpers                                                                 *)
(***************************************************************************)

TreeOf(sha) == sha[Len(sha)].tree

\* The commit of transaction n is in the history sha.
Contains(sha, n) == \E k \in 1..Len(sha) : sha[k].by = n

Manifest(j, r) == {f \in Files : j.source[r][f] # Absent}

\* The manifest of source laid over a tree.
Overlay(source, tree) ==
  [f \in Files |-> IF source[f] # Absent THEN source[f] ELSE tree[f]]

Clean(r) == work[r] = TreeOf(head[r]) /\ index[r] = TreeOf(head[r])

\* publish_order and push_order: which repository of S is next.
PublishTurn(S) == IF "master" \in S THEN "master" ELSE "i18n"
\* Mutant: push in publish order.
PushTurnMasterFirst(S) == IF "master" \in S THEN "master" ELSE "i18n"

PushTurn(S)    == IF "i18n" \in S THEN "i18n" ELSE "master"

\* _publish_order over both repositories: master, i18n, and the one
\* versions.json of master last and alone.
VersionsItem == <<"master", Versions>>
\* Mutant: no order among the files.
PublishNextAny(S) == S

PublishNext(S) ==
  LET others(r) == {i \in S : i[1] = r /\ i # VersionsItem}
  IN  IF others("master") # {} THEN others("master")
      ELSE IF others("i18n") # {} THEN others("i18n")
      ELSE S

Goto(step) == pc' = step

\* The cycle returns: the locks are released, the journal stays as it is.
Return ==
  /\ pc' = "idle"
  /\ candidate' = Absent
  /\ mode' = "fresh" /\ rest' = {} /\ cur' = VersionsItem
  /\ todo' = {} /\ failed' = FALSE

Continue == UNCHANGED candidate

-----------------------------------------------------------------------------
(***************************************************************************)
(* TransactionJournal.write: the schema rules every written journal obeys. *)
(***************************************************************************)

\* _validate_repo_phase_state and _validate_phase_relationships.  remote_sha
\* is the target exactly when the repository is pushed and is not kept apart.
ValidRepoPhaseState(j, r) ==
  /\ j.commit[r] = "pending" <=> j.target[r] = NoSha
  /\ j.push[r] = "pushed" => j.commit[r] = "committed"
  /\ j.phase = "publishing" => j.commit[r] = "pending"
  /\ j.phase \in {"publishing", "committing"} => j.push[r] = "pending"
  /\ j.phase \in {"pushing", "completed"} => j.commit[r] = "committed"
  /\ j.phase = "completed" => j.push[r] = "pushed"

\* _validate_push_prefix.
ValidPushPrefix(j) ==
  {"i18n", "master"} \subseteq Enabled /\ j.push["master"] = "pushed"
    => j.push["i18n"] = "pushed"

ValidJournal(j) ==
  j.phase # "absent" => /\ \A r \in Enabled : ValidRepoPhaseState(j, r)
                        /\ ValidPushPrefix(j)

-----------------------------------------------------------------------------
(***************************************************************************)
(* The start of a cycle: durable recovery first, then the gate, prepare    *)
(* and generation of a fresh cycle.                                        *)
(***************************************************************************)

BeginCycle ==
  /\ pc = "idle"
  /\ Goto("recover")
  /\ UNCHANGED <<durable, remote, mode, cursor, candidate, version_info,
                 plan, bounds>>

\* Mutant: the cycle starts whether or not a journal is pending.
NothingToRecoverUnchecked ==
  /\ pc = "recover" /\ Goto("gate")
  /\ UNCHANGED <<durable, remote, mode, cursor, version_info, plan, bounds>>
  /\ Continue

NothingToRecover ==
  /\ pc = "recover" /\ journal.phase = "absent"
  /\ Goto("gate")
  /\ UNCHANGED <<durable, remote, mode, cursor, version_info, plan, bounds>>
  /\ Continue

\* The paths git status reports for the manifest check.  _git_command strips
\* its output, so when the first line starts with the blank of an unstaged
\* change (" M path") the path read from it loses its first character; such a
\* line comes first when a tracked file differs from an index equal to HEAD.
FirstPathMangled(r) ==
  /\ index[r] = TreeOf(head[r])
  /\ \E f \in Files : index[r][f] # Absent /\ work[r][f] # index[r][f]

\* Every destination is what publication proved, and the dirt lies within the
\* manifest.
RecoveryManifestState(r) ==
  /\ \A f \in Manifest(journal, r) :
       work[r][f] = IF journal.dest[r][f] # Absent THEN journal.dest[r][f]
                    ELSE journal.source[r][f]
  /\ \A f \in Files \ Manifest(journal, r) :
       work[r][f] = index[r][f] /\ index[r][f] = TreeOf(head[r])[f]
  /\ ~FirstPathMangled(r)

RecoveryHead(r) ==
  journal.target[r] = NoSha => head[r] = journal.base[r]

\* _validate_target_tree, _validate_target_commit_identity.
TargetTree(r) ==
  LET target == journal.target[r] IN
  /\ \A f \in Manifest(journal, r) : TreeOf(target)[f] = journal.source[r][f]
  /\ \A f \in Files \ Manifest(journal, r) :
       TreeOf(target)[f] = TreeOf(journal.base[r])[f]
  /\ target # journal.base[r] =>
       target = Append(journal.base[r], [by |-> Len(plan), tree |-> TreeOf(target)])

\* A path of the recorded target that the index does not know yet.
UntrackedTarget(r) ==
  \E f \in Files : TreeOf(journal.target[r])[f] # Absent /\ index[r][f] = Absent

\* _validate_target_worktree: git diff of the target looks at the paths of the
\* index only, and reports an untracked path of the target as deleted.
TargetWorktree(r) ==
  work[r] = TreeOf(journal.target[r]) /\ ~UntrackedTarget(r)

\* Mutant: a branch that already moved to the target is not accepted.
RecordedTargetAtBase(r) ==
  /\ TargetTree(r) /\ TargetWorktree(r)
  /\ head[r] = journal.base[r] /\ index[r] = TreeOf(head[r])

\* _recover_recorded_target up to the first write.
RecordedTarget(r) ==
  LET target == journal.target[r]
      base   == journal.base[r]
  IN  /\ TargetTree(r)
      /\ TargetWorktree(r)
      /\ head[r] \in {target, base}
      /\ head[r] = target => index[r] \in {TreeOf(base), TreeOf(target)}
      /\ head[r] # target => index[r] = TreeOf(base)

\* The completed journal still describes the repositories.
CompletedValid ==
  \A r \in Enabled : /\ head[r] = journal.target[r]
                     /\ TargetTree(r)
                     /\ Clean(r)
                     /\ RecoveryManifestState(r)

RecoverCompleted ==
  /\ pc = "recover" /\ journal.phase = "completed"
  /\ IF CompletedValid
     THEN /\ journal' = NoJournal
          /\ Goto("gate") /\ Continue
          /\ UNCHANGED <<mode, cursor>>
     ELSE Return /\ UNCHANGED journal
  /\ UNCHANGED <<staged, work, index, head, remote, version_info, plan, bounds>>

RecoverPublishing ==
  /\ pc = "recover" /\ journal.phase = "publishing"
  /\ Goto("publish") /\ mode' = "recovery"
  /\ rest' = {i \in Enabled \X Files : journal.source[i[1]][i[2]] # Absent}
  /\ UNCHANGED <<durable, remote, cur, todo, failed, version_info, plan, bounds>>
  /\ Continue

\* _sync_recovered_version_info: the published version is what the journal's
\* versions.json holds, once the destination proves it.
VersionsStaged == "master" \in Enabled /\ journal.source["master"][Versions] # Absent
VersionsProven ==
  VersionsStaged =>
    work["master"][Versions] = IF journal.dest["master"][Versions] # Absent
                               THEN journal.dest["master"][Versions]
                               ELSE journal.source["master"][Versions]
SyncVersionInfo ==
  version_info' = IF VersionsStaged THEN work["master"][Versions] ELSE version_info

RecoverCommitting ==
  /\ pc = "recover" /\ journal.phase \in {"committing", "pushing"}
  /\ IF VersionsProven
     THEN /\ SyncVersionInfo
          /\ Goto("commit") /\ mode' = "recovery" /\ todo' = Enabled
          /\ UNCHANGED <<rest, cur, failed>> /\ Continue
     ELSE Return /\ UNCHANGED version_info
  /\ UNCHANGED <<durable, remote, plan, bounds>>

\* _cycle_should_proceed: the observed version is the published one or a new
\* one; an ordinary cycle stops when it is the published one, a daily cycle
\* goes on.
Gate(daily, observed) ==
  /\ pc = "gate"
  /\ Len(plan) < MaxTxn
  /\ daily \/ version_info = Absent \/ observed # version_info
  /\ Goto("prepare") /\ candidate' = observed /\ todo' = Enabled
  /\ UNCHANGED <<durable, remote, mode, rest, cur, failed, version_info,
                 plan, bounds>>

\* Maintenance, no new version, or (until the journal is written) the
\* deadline of an ordinary cycle.
SkipCycle ==
  /\ pc \in {"gate", "prepare", "generate"}
  /\ Return
  /\ UNCHANGED <<durable, remote, version_info, plan, bounds>>

Ancestor(a, b) == Len(a) <= Len(b) /\ SubSeq(b, 1, Len(a)) = a

\* prepare_repo_for_update(allow_push=False): equal, or behind and
\* fast-forwarded; a dirty, ahead or diverged repository ends the cycle.
PrepareRepo ==
  LET r == PublishTurn(todo) IN
  /\ pc = "prepare" /\ todo # {}
  /\ IF Clean(r) /\ Ancestor(head[r], remote[r])
     THEN /\ head'  = [head EXCEPT ![r] = remote[r]]
          /\ work'  = [work EXCEPT ![r] = TreeOf(remote[r])]
          /\ index' = [index EXCEPT ![r] = TreeOf(remote[r])]
          /\ todo'  = todo \ {r}
          /\ Goto(IF todo' = {} THEN "generate" ELSE "prepare")
          /\ UNCHANGED <<mode, rest, cur, failed>> /\ Continue
     ELSE Return /\ UNCHANGED <<head, work, index>>
  /\ UNCHANGED <<journal, staged, remote, version_info, plan, bounds>>

\* What a generation may stage in repository r: versions.json is written for
\* the candidate, every other path but those of other programs is left out,
\* regenerated with the content it has, or changed.
Stageable(r) ==
  IF r \notin Enabled THEN {Nothing}
  ELSE {t \in [Files -> {Absent, candidate, Len(plan) + 1}
                          \cup {work[r][f] : f \in Files}] :
          /\ t[Versions] = IF r = "master" THEN candidate ELSE Absent
          /\ \A f \in Files \ {Versions} :
               t[f] \in {Absent} \cup (IF f \in Others THEN {}
                                       ELSE {work[r][f], Len(plan) + 1})}

\* Mutant: the published version advances before anything is published.
GenerateAdvancesVersion ==
  /\ pc = "generate"
  /\ staged' \in {[r \in Repo |-> IF r = "master" THEN m ELSE t] :
                    m \in Stageable("master"), t \in Stageable("i18n")}
  /\ version_info' = candidate
  /\ Goto("snapshot")
  /\ UNCHANGED <<journal, work, index, head, remote, mode, cursor, plan, bounds>>
  /\ Continue

Generate ==
  /\ pc = "generate"
  /\ \E m \in Stageable("master"), t \in Stageable("i18n") :
       staged' = [r \in Repo |-> IF r = "master" THEN m ELSE t]
  /\ Goto("snapshot")
  /\ UNCHANGED <<journal, work, index, head, remote, mode, cursor, version_info,
                 plan, bounds>>
  /\ Continue

GenerationFails ==
  /\ pc = "generate"
  /\ staged' = [r \in Repo |-> Nothing]
  /\ Return
  /\ UNCHANGED <<journal, work, index, head, remote, version_info, plan, bounds>>

\* The final deadline check: staging is cleared, nothing else was touched.
DeadlineExceeded ==
  /\ pc = "snapshot"
  /\ staged' = [r \in Repo |-> Nothing]
  /\ Return
  /\ UNCHANGED <<journal, work, index, head, remote, version_info, plan, bounds>>

\* _build_publishing_journal: the remotes must stand at the local heads, and
\* the journal is on disk before the first file moves.
WritePublishingJournal ==
  /\ pc = "snapshot"
  /\ \A r \in Enabled : remote[r] = head[r]
  /\ LET bases == [r \in Repo |-> IF r \in Enabled THEN head[r] ELSE NoSha] IN
     /\ journal' = [NoJournal EXCEPT !.phase = "publishing",
                                     !.source = staged,
                                     !.base = bases]
     /\ plan' = Append(plan, [base |-> bases,
                              tree |-> [r \in Repo |-> Overlay(staged[r], work[r])]])
  /\ rest' = {i \in Enabled \X Files : staged[i[1]][i[2]] # Absent}
  /\ Goto("publish") /\ mode' = "fresh"
  /\ UNCHANGED <<staged, work, index, head, remote, cur, todo, failed,
                 version_info, bounds>>
  /\ Continue

RemoteSnapshotFails ==
  /\ pc = "snapshot"
  /\ \E r \in Enabled : remote[r] # head[r]
  /\ Return
  /\ UNCHANGED <<durable, remote, version_info, plan, bounds>>

-----------------------------------------------------------------------------
(***************************************************************************)
(* Publication: os.replace of one staged file, then its durable            *)
(* destination checkpoint.                                                 *)
(***************************************************************************)

Replace(i) ==
  /\ staged' = [staged EXCEPT ![i[1]][i[2]] = Absent]
  /\ work'   = [work EXCEPT ![i[1]][i[2]] = staged[i[1]][i[2]]]
  /\ cur' = i /\ Goto("checkpoint")
  /\ UNCHANGED <<journal, index, head, rest>>

CheckpointAs(i, content) ==
  /\ journal' = [journal EXCEPT !.dest[i[1]][i[2]] = content]
  /\ rest' = rest \ {i}
  /\ Goto("publish") /\ cur' = VersionsItem
  /\ UNCHANGED <<staged, work, index, head>>

\* _publish_staging.
PublishFile(i) ==
  /\ pc = "publish" /\ mode = "fresh" /\ i \in PublishNext(rest)
  /\ Replace(i)
  /\ UNCHANGED <<remote, mode, todo, failed, version_info, plan, bounds>>
  /\ Continue

\* _recover_publish_file: a checkpoint must agree with the destination; a
\* destination that equals the source is complete, else a staged file that
\* equals the source is moved, else recovery stops.
RecoverPublishFile(i) ==
  LET source == journal.source[i[1]][i[2]]
      dest   == journal.dest[i[1]][i[2]]
      there  == work[i[1]][i[2]]
  IN
  /\ pc = "publish" /\ mode = "recovery" /\ i \in PublishNext(rest)
  /\ \/ /\ dest \in {Absent, there} /\ there = source
        /\ CheckpointAs(i, source) /\ Continue
        /\ UNCHANGED <<mode, todo, failed>>
     \/ /\ dest \in {Absent, there} /\ there # source
        /\ staged[i[1]][i[2]] = source
        /\ Replace(i) /\ Continue
        /\ UNCHANGED <<mode, todo, failed>>
     \/ /\ \/ dest \notin {Absent, there}
           \/ there # source /\ staged[i[1]][i[2]] # source
        /\ Return
        /\ UNCHANGED durable
  /\ UNCHANGED <<remote, version_info, plan, bounds>>

Checkpoint ==
  /\ pc = "checkpoint"
  /\ CheckpointAs(cur, work[cur[1]][cur[2]])
  /\ UNCHANGED <<remote, mode, todo, failed, version_info, plan, bounds>>
  /\ Continue

\* Every file is in place: the published version advances in memory.
PublicationDone ==
  /\ pc = "publish" /\ rest = {}
  /\ SyncVersionInfo
  /\ Goto("committing")
  /\ UNCHANGED <<durable, remote, mode, cursor, plan, bounds>>
  /\ Continue

EnterCommitting ==
  /\ pc = "committing"
  /\ journal' = [journal EXCEPT !.phase = "committing"]
  /\ Goto("commit") /\ todo' = Enabled
  /\ UNCHANGED <<staged, work, index, head, remote, mode, rest, cur, failed,
                 version_info, plan, bounds>>
  /\ Continue

-----------------------------------------------------------------------------
(***************************************************************************)
(* Commit, master before i18n: record the target, move main from the base  *)
(* to it, install its index, record the commit.                            *)
(***************************************************************************)

CommitRepo == PublishTurn(todo)

\* _coordinated_commit_repo refuses a head that is not the base.
StartCommit ==
  /\ pc = "commit" /\ mode = "fresh" /\ todo # {}
  /\ IF head[CommitRepo] = journal.base[CommitRepo]
     THEN Goto("target") /\ UNCHANGED <<todo, failed>>
     ELSE Goto("commit") /\ todo' = todo \ {CommitRepo} /\ failed' = TRUE
  /\ UNCHANGED <<durable, remote, mode, rest, cur, version_info, plan, bounds>>
  /\ Continue

\* _recover_commit_repo.
RecoverCommitRepo ==
  LET r == CommitRepo
      target == journal.target[r]
      provable == RecoveryManifestState(r) /\ RecoveryHead(r)
  IN
  /\ pc = "commit" /\ mode = "recovery" /\ todo # {}
  /\ \/ /\ provable /\ target = NoSha /\ Manifest(journal, r) # {}
        /\ Goto("target") /\ Continue
        /\ UNCHANGED <<journal, mode, cursor>>
     \/ /\ provable /\ target = NoSha /\ Manifest(journal, r) = {}
        /\ journal' = [journal EXCEPT !.target[r] = head[r],
                                      !.commit[r] = "committed"]
        /\ todo' = todo \ {r}
        /\ Goto("commit") /\ Continue
        /\ UNCHANGED <<mode, rest, cur, failed>>
     \/ /\ provable /\ target # NoSha /\ RecordedTarget(r)
        /\ Goto(IF head[r] = target THEN "index" ELSE "cas") /\ Continue
        /\ UNCHANGED <<journal, mode, cursor>>
     \/ /\ ~provable \/ (target # NoSha /\ ~RecordedTarget(r))
        /\ Return
        /\ UNCHANGED journal
  /\ UNCHANGED <<staged, work, index, head, remote, version_info, plan, bounds>>

\* Mutant: only paths the base already tracks are committed.
PrepareTargetTrackedOnly ==
  LET r    == CommitRepo
      base == journal.base[r]
      tree == [f \in Files |-> IF TreeOf(base)[f] # Absent THEN work[r][f]
                               ELSE Absent]
  IN
  /\ pc = "target"
  /\ journal' = [journal EXCEPT
       !.target[r] = Append(base, [by |-> Len(plan), tree |-> tree]),
       !.commit[r] = "prepared"]
  /\ Goto("cas")
  /\ UNCHANGED <<staged, work, index, head, remote, mode, cursor, version_info,
                 plan, bounds>>
  /\ Continue

\* _prepare_commit_target and the PREPARED checkpoint: the base itself when
\* the manifest changes nothing, else one commit on top of it.
PrepareTarget ==
  LET r    == CommitRepo
      base == journal.base[r]
      tree == [f \in Files |-> IF f \in Manifest(journal, r) THEN work[r][f]
                               ELSE TreeOf(base)[f]]
  IN
  /\ pc = "target"
  /\ journal' = [journal EXCEPT
       !.target[r] = IF tree = TreeOf(base) THEN base
                     ELSE Append(base, [by |-> Len(plan), tree |-> tree]),
       !.commit[r] = "prepared"]
  /\ Goto("cas")
  /\ UNCHANGED <<staged, work, index, head, remote, mode, cursor, version_info,
                 plan, bounds>>
  /\ Continue

\* _update_branch_cas.
UpdateBranch ==
  /\ pc = "cas" /\ head[CommitRepo] = journal.base[CommitRepo]
  /\ head' = [head EXCEPT ![CommitRepo] = journal.target[CommitRepo]]
  /\ Goto("index")
  /\ UNCHANGED <<journal, staged, work, index, remote, mode, cursor, version_info,
                 plan, bounds>>
  /\ Continue

\* Mutant: the index stays at the base.
InstallIndexSkipped ==
  /\ pc = "index" /\ Goto("mark")
  /\ UNCHANGED <<durable, remote, mode, cursor, version_info, plan, bounds>>
  /\ Continue

InstallIndex ==
  /\ pc = "index"
  /\ index' = [index EXCEPT ![CommitRepo] = TreeOf(journal.target[CommitRepo])]
  /\ Goto("mark")
  /\ UNCHANGED <<journal, staged, work, head, remote, mode, cursor, version_info,
                 plan, bounds>>
  /\ Continue

MarkCommitted ==
  /\ pc = "mark"
  /\ journal' = [journal EXCEPT !.commit[CommitRepo] = "committed"]
  /\ todo' = todo \ {CommitRepo}
  /\ Goto("commit")
  /\ UNCHANGED <<staged, work, index, head, remote, mode, rest, cur, failed,
                 version_info, plan, bounds>>
  /\ Continue

\* Mutant: the pushes start whatever the commits returned.
CommitDoneRegardless ==
  /\ pc = "commit" /\ todo = {} /\ Goto("pushing")
  /\ UNCHANGED <<durable, remote, mode, cursor, version_info, plan, bounds>>
  /\ Continue

\* No push unless every repository was committed at its target.
CommitDone ==
  /\ pc = "commit" /\ todo = {}
  /\ IF failed
     THEN Return
     ELSE IF \A r \in Enabled : /\ journal.commit[r] = "committed"
                                /\ head[r] = journal.target[r]
     THEN Goto("pushing") /\ Continue /\ UNCHANGED <<mode, cursor>>
     ELSE Return
  /\ UNCHANGED <<durable, remote, version_info, plan, bounds>>

-----------------------------------------------------------------------------
(***************************************************************************)
(* Push, i18n before master: _recover_push, which a fresh cycle also uses. *)
(***************************************************************************)

PushRepo == PushTurn(todo)

EnterPushing ==
  /\ pc = "pushing"
  /\ journal' = [journal EXCEPT !.phase = "pushing"]
  /\ Goto("probe") /\ todo' = Enabled
  /\ UNCHANGED <<staged, work, index, head, remote, mode, rest, cur, failed,
                 version_info, plan, bounds>>
  /\ Continue

ProbeRemote ==
  /\ pc = "probe" /\ todo # {}
  /\ \/ /\ remote[PushRepo] = journal.target[PushRepo]
        /\ Goto("pushed") /\ Continue /\ UNCHANGED <<mode, cursor>>
     \/ /\ remote[PushRepo] # journal.target[PushRepo]
        /\ remote[PushRepo] = journal.base[PushRepo]
        /\ Goto("push") /\ Continue /\ UNCHANGED <<mode, cursor>>
     \/ /\ remote[PushRepo] \notin {journal.target[PushRepo], journal.base[PushRepo]}
        /\ Return
  /\ UNCHANGED <<durable, remote, version_info, plan, bounds>>

\* Mutant: a forced push without the lease.
PushHeadForced ==
  /\ pc = "push"
  /\ remote' = [remote EXCEPT ![PushRepo] = head[PushRepo]]
  /\ Goto("confirm")
  /\ UNCHANGED <<durable, mode, cursor, version_info, plan, bounds>>
  /\ Continue

\* push_current_head with the target as expected SHA and a lease on the base:
\* a head that is not the target is not pushed, a remote that has moved
\* rejects.
PushHead ==
  /\ pc = "push"
  /\ remote' = IF /\ head[PushRepo] = journal.target[PushRepo]
                  /\ remote[PushRepo] = journal.base[PushRepo]
               THEN [remote EXCEPT ![PushRepo] = head[PushRepo]]
               ELSE remote
  /\ Goto("confirm")
  /\ UNCHANGED <<durable, mode, cursor, version_info, plan, bounds>>
  /\ Continue

\* Mutant: what the push reported is believed.
ConfirmPushTrusting ==
  /\ pc = "confirm" /\ Goto("pushed")
  /\ UNCHANGED <<durable, remote, mode, cursor, version_info, plan, bounds>>
  /\ Continue

\* The probe after the push decides, whatever the push itself reported.
ConfirmPush ==
  /\ pc = "confirm"
  /\ IF remote[PushRepo] = journal.target[PushRepo]
     THEN Goto("pushed") /\ Continue /\ UNCHANGED <<mode, cursor>>
     ELSE Return
  /\ UNCHANGED <<durable, remote, version_info, plan, bounds>>

\* Mutant: the push is recorded in the field of the commit.
MarkPushedAsCommit ==
  /\ pc = "pushed"
  /\ journal' = [journal EXCEPT !.commit[PushRepo] = "pushed"]
  /\ todo' = todo \ {PushRepo}
  /\ Goto("probe")
  /\ UNCHANGED <<staged, work, index, head, remote, mode, rest, cur, failed,
                 version_info, plan, bounds>>
  /\ Continue

MarkPushed ==
  /\ pc = "pushed"
  /\ journal' = [journal EXCEPT !.push[PushRepo] = "pushed"]
  /\ todo' = todo \ {PushRepo}
  /\ Goto("probe")
  /\ UNCHANGED <<staged, work, index, head, remote, mode, rest, cur, failed,
                 version_info, plan, bounds>>
  /\ Continue

PushDone ==
  /\ pc = "probe" /\ todo = {}
  /\ journal' = [journal EXCEPT !.phase = "completed"]
  /\ Goto("cleanup")
  /\ UNCHANGED <<staged, work, index, head, remote, mode, cursor, version_info,
                 plan, bounds>>
  /\ Continue

ClearStaging ==
  /\ pc = "cleanup"
  /\ staged' = [r \in Repo |-> Nothing]
  /\ Goto("delete")
  /\ UNCHANGED <<journal, work, index, head, remote, mode, cursor, version_info,
                 plan, bounds>>
  /\ Continue

DeleteJournal ==
  /\ pc = "delete"
  /\ journal' = NoJournal
  /\ Return
  /\ UNCHANGED <<staged, work, index, head, remote, version_info, plan, bounds>>

-----------------------------------------------------------------------------
(***************************************************************************)
(* Faults, at most MaxFaults of them, and the rest of the world.           *)
(***************************************************************************)

Fault == faults < MaxFaults /\ faults' = faults + 1

\* The process dies; its successor starts with no published version in memory.
Crash ==
  /\ Fault
  /\ pc' = "idle" /\ candidate' = Absent
  /\ mode' = "fresh" /\ rest' = {} /\ cur' = VersionsItem
  /\ todo' = {} /\ failed' = FALSE
  /\ version_info' = Absent
  /\ UNCHANGED <<durable, remote, plan, foreign>>

\* An operation of the current step fails: the cycle ends with the disk as
\* the earlier steps left it.
StepFails ==
  /\ pc # "idle"
  /\ mode = "recovery" \/ pc \notin {"target", "cas", "index", "mark"}
  /\ Fault
  /\ Return
  /\ UNCHANGED <<durable, remote, version_info, plan, foreign>>

\* In a fresh cycle a failed commit is a result: the cycle goes on to the next
\* repository and ends as commit_failed.
CommitFails ==
  /\ mode = "fresh" /\ pc \in {"target", "cas", "index", "mark"}
  /\ Fault
  /\ todo' = todo \ {CommitRepo} /\ failed' = TRUE
  /\ Goto("commit")
  /\ UNCHANGED <<durable, remote, mode, rest, cur, version_info, plan, foreign>>
  /\ Continue

\* The push does not reach the remote.
PushLost ==
  /\ pc = "push"
  /\ Fault
  /\ Goto("confirm")
  /\ UNCHANGED <<durable, remote, mode, cursor, version_info, plan, foreign>>
  /\ Continue

\* Somebody else pushes a commit that touches none of the modelled paths.
ForeignPush(r) ==
  /\ foreign < MaxForeign /\ foreign' = foreign + 1
  /\ remote' = [remote EXCEPT ![r] =
                  Append(@, [by |-> -(foreign + 1), tree |-> TreeOf(@)])]
  /\ UNCHANGED <<durable, pc, mode, cursor, candidate, version_info,
                 plan, faults>>

-----------------------------------------------------------------------------

FirstTree   == [f \in Files |-> IF f \in Tracked THEN 0 ELSE Absent]
FirstCommit == <<[by |-> 0, tree |-> FirstTree]>>

Init ==
  /\ journal = NoJournal
  /\ staged = [r \in Repo |-> Nothing]
  /\ work = [r \in Repo |-> FirstTree] /\ index = [r \in Repo |-> FirstTree]
  /\ head = [r \in Repo |-> FirstCommit] /\ remote = [r \in Repo |-> FirstCommit]
  /\ pc = "idle" /\ mode = "fresh" /\ rest = {} /\ cur = VersionsItem
  /\ todo = {} /\ failed = FALSE
  /\ candidate = Absent /\ version_info = Absent
  /\ plan = << >> /\ faults = 0 /\ foreign = 0

Recovery ==
  \/ NothingToRecover \/ RecoverCompleted \/ RecoverPublishing \/ RecoverCommitting

Fresh ==
  \/ \E daily \in BOOLEAN :
       \E observed \in {work["master"][Versions], Len(plan) + 1} \ {Absent} :
         Gate(daily, observed)
  \/ SkipCycle \/ PrepareRepo \/ Generate \/ GenerationFails \/ DeadlineExceeded
  \/ WritePublishingJournal \/ RemoteSnapshotFails

Publication ==
  \/ \E i \in rest : PublishFile(i) \/ RecoverPublishFile(i)
  \/ Checkpoint \/ PublicationDone \/ EnterCommitting

Commits ==
  \/ StartCommit \/ RecoverCommitRepo \/ PrepareTarget \/ UpdateBranch
  \/ InstallIndex \/ MarkCommitted \/ CommitDone

Pushes ==
  \/ EnterPushing \/ ProbeRemote \/ PushHead \/ ConfirmPush \/ MarkPushed
  \/ PushDone \/ ClearStaging \/ DeleteJournal

Cycle == BeginCycle \/ Recovery \/ Fresh \/ Publication \/ Commits \/ Pushes

Next ==
  \/ Cycle
  \/ Crash \/ StepFails \/ CommitFails \/ PushLost
  \/ \E r \in Repo : ForeignPush(r)

Spec == Init /\ [][Next]_vars

\* The scheduler starts cycles and a running cycle goes on.
FairSpec == Spec /\ WF_vars(Cycle)
-----------------------------------------------------------------------------
(***************************************************************************)
(* Safety                                                                  *)
(***************************************************************************)

\* What the process itself does to a remote, as opposed to the world.
ProcessPushes(r) == remote'[r] # remote[r] /\ foreign' = foreign

Settled(r, n) ==
  \/ r \notin Enabled
  \/ plan[n].tree[r] = TreeOf(plan[n].base[r])
  \/ Contains(remote[r], n)

\* Every journal that is written obeys the schema TransactionJournal.write
\* enforces, at whatever step a crash or a failed step stopped the cycle
\* before: no recovery ever dies because the writer refuses its next state.
JournalWellFormed == ValidJournal(journal)

\* A commit that reached a remote holds exactly the tree its transaction set
\* out to publish, however often the publication, the commit and the push were
\* interrupted and resumed (_recover_publish_file, _recover_commit_repo).
NoTornCommit ==
  \A r \in Repo : \A k \in 1..Len(remote[r]) :
    remote[r][k].by > 0 => remote[r][k].tree = plan[remote[r][k].by].tree[r]

\* push_order is i18n, master: the master remote never shows a transaction
\* whose translations the i18n remote does not show yet.
I18nBeforeMaster ==
  \A n \in 1..Len(plan) : Contains(remote["master"], n) => Settled("i18n", n)

\* Recovery comes first: no transaction is begun, and no journal deleted,
\* while an earlier transaction is missing from a remote it changes.
NothingAbandoned ==
  \A n \in 1..Len(plan) :
    n < Len(plan) \/ journal.phase = "absent" => \A r \in Repo : Settled(r, n)

\* When no journal is pending, the next cycle can prepare: every enabled
\* repository is clean and not ahead of its remote, for the gate in
\* prepare_repo_for_update would skip every later cycle otherwise.
QuietMeansReady ==
  journal.phase = "absent" =>
    \A r \in Enabled : Clean(r) /\ Ancestor(head[r], remote[r])

\* versions.json is the last file of the transaction to move, across both
\* working trees: whoever reads the new version finds all of its data.
VersionsLast ==
  journal.phase = "publishing" /\ VersionsStaged
    /\ work["master"][Versions] # TreeOf(journal.base["master"])[Versions]
  => \A r \in Enabled : \A f \in Manifest(journal, r) :
       work[r][f] = journal.source[r][f]

\* With no journal pending, the version the updater believes published is the
\* one in the versions.json of the master working tree ("lock-step").
VersionInfoLockStep ==
  journal.phase = "absent" /\ version_info # Absent /\ "master" \in Enabled
    => version_info = work["master"][Versions]

\* The process changes a remote only once every enabled repository stands at
\* its recorded target: a failed commit anywhere stops both pushes.
PushOnlyCommitted ==
  [][\A r \in Repo : ProcessPushes(r) =>
       \A e \in Enabled : /\ journal.commit[e] = "committed"
                          /\ head[e] = journal.target[e]]_vars

\* The lease of the push: a commit somebody else pushed between the probe and
\* the push is never overwritten.
RemoteOnlyGrows == [][\A r \in Repo : Ancestor(remote[r], remote'[r])]_vars

\* To the readers of the remotes the journal, the locks and the crashes do not
\* show: the remotes change as DualPublish promises.
DP == INSTANCE DualPublish WITH
  updates <- [n \in 1..Len(plan) |->
                {r \in Enabled : plan[n].tree[r] # TreeOf(plan[n].base[r])}],
  open    <- journal.phase # "absent",
  shown   <- [r \in Repo |-> {n \in 1..Len(plan) : Contains(remote[r], n)}]

ImplementsDualPublish == DP!PubSpec

-----------------------------------------------------------------------------
(***************************************************************************)
(* Liveness                                                                *)
(***************************************************************************)

\* A journal that a crash or a failure left behind is completed and deleted
\* by the following cycles.
RecoveryCompletes == journal.phase # "absent" ~> journal.phase = "absent"

=============================================================================
