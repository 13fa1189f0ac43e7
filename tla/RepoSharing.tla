----------------------------- MODULE RepoSharing -----------------------------
(***************************************************************************)
(* Two programs on one master repository: the update cycles of             *)
(* UpdateTransaction and the user information updater                      *)
(* (update_user_information.py), kept apart by the lock file beside the    *)
(* repository, which both try without waiting.  The cycle takes it for its *)
(* whole length; the lock of the i18n repository has no other taker.  The  *)
(* second updater writes its pages directly into the working tree, commits *)
(* and pushes them, and pays no attention to a journal.                    *)
(*                                                                         *)
(* The module also has what surrounds a cycle: the daily run that is due   *)
(* once per calendar date, the date its journal keeps, and the durable     *)
(* marker of the last completed date.                                      *)
(***************************************************************************)
EXTENDS UpdateTransaction

CONSTANTS
  MaxEdits,   \* bound: pages the second updater writes with new content
  MaxDay      \* bound: calendar dates after the first one

ASSUME SharingBounds == MaxEdits \in Nat /\ MaxDay \in Nat

Pages == Others   \* _MASTER_FILES
NoDay == -1

VARIABLES
  \* the user information updater
  ustep,    \* where run_once is; "idle" when it does not hold the lock
  pages,    \* the pages it has still to write
  edits,    \* pages written with new content
  \* the daily run
  today,    \* the calendar date in Tokyo
  marker,   \* last_completed_tokyo_date on disk
  booted,   \* the process has run the daily cycle of its bootstrap
  daily,    \* the running cycle is a daily one
  due,      \* the date captured when it began
  due_of,   \* due_of[n]: daily_due_date in the journal of transaction n
  marking   \* a daily cycle has ended well and its marker is to be written

user    == <<ustep, pages, edits>>
days    == <<today, marker, booted, daily, due, due_of, marking>>
shared  == <<vars, user, days>>

UserStep == {"idle", "prepare", "retained", "again", "pages", "stage",
             "commit", "push"}
Day      == 0..MaxDay

SharingTypeOK ==
  /\ TypeOK
  /\ ustep \in UserStep /\ pages \subseteq Pages /\ edits \in 0..MaxEdits
  /\ ustep # "pages" => pages = {}
  /\ today \in Day /\ marker \in Day \cup {NoDay}
  /\ {booted, daily, marking} \subseteq BOOLEAN
  /\ due \in Day \cup {NoDay} /\ due_of \in Seq(Day \cup {NoDay})
  /\ Len(due_of) = Len(plan)

-----------------------------------------------------------------------------
(***************************************************************************)
(* The user information updater: run_once.                                 *)
(***************************************************************************)

repo_free == pc = "idle"

\* It returns, skips or raises; the lock is released, the disk stays.
UserEnds == ustep' = "idle" /\ pages' = {} /\ UNCHANGED edits

UserGoto(step) == ustep' = step /\ UNCHANGED <<pages, edits>>

CycleUntouched == UNCHANGED <<pc, mode, cursor, candidate, version_info,
                              plan, bounds>>

\* Mutant: the lock is not tried.
UserBeginUnlocked == /\ ustep = "idle" /\ UserGoto("prepare")
                     /\ UNCHANGED <<vars, days>>

\* repo_file_locks without waiting; when a cycle holds the lock the run is
\* skipped and changes nothing.
UserBegin ==
  /\ ustep = "idle" /\ repo_free
  /\ UserGoto("prepare")
  /\ UNCHANGED <<vars, days>>

\* A commit of this updater: its author, one parent, no paths but its own.
\* Mutant: the paths and the author are not looked at.
OwnCommitAny(sha, k) == k > 1

OwnCommit(sha, k) ==
  /\ k > 1 /\ sha[k].by < -MaxForeign
  /\ \A f \in Files \ Pages : sha[k].tree[f] = sha[k - 1].tree[f]

\* Mutant: retained commits are nobody's business.
AheadOwnedNever(sha, published) == FALSE

\* _ahead_commits_owned_by_updater over origin/main..HEAD.
AheadOwned(sha, published) ==
  /\ Len(sha) > Len(published)
  /\ \A k \in Len(published) + 1..Len(sha) : OwnCommit(sha, k)

\* _prepare_master_repo with prepare_repo_for_update(allow_push=False): it goes
\* on, or has commits to push first, or raises.
Prepares ==
  /\ ustep \in {"prepare", "again"}
  /\ UNCHANGED <<journal, staged, remote, days>> /\ CycleUntouched

\* A repository at its remote or behind it is fast-forwarded.
UserFastForward ==
  LET there == remote["master"] IN
  /\ Prepares /\ Clean("master") /\ Ancestor(head["master"], there)
  /\ head'  = [head EXCEPT !["master"] = there]
  /\ work'  = [work EXCEPT !["master"] = TreeOf(there)]
  /\ index' = [index EXCEPT !["master"] = TreeOf(there)]
  /\ ustep' = "pages" /\ pages' = Pages /\ UNCHANGED edits

Ahead == /\ Clean("master") /\ ~Ancestor(head["master"], remote["master"])
         /\ Ancestor(remote["master"], head["master"])

\* One that is ahead is pushed first, once, if the commits are its own.
UserAhead ==
  /\ Prepares /\ Ahead
  /\ IF ustep = "prepare" /\ AheadOwned(head["master"], remote["master"])
     THEN UserGoto("retained") ELSE UserEnds
  /\ UNCHANGED <<head, work, index>>

Diverged == ~Ancestor(head["master"], remote["master"])
              /\ ~Ancestor(remote["master"], head["master"])

\* A dirty or diverged one stops the run.
UserBlocked ==
  /\ Prepares /\ (~Clean("master") \/ Diverged)
  /\ UserEnds
  /\ UNCHANGED <<head, work, index>>

\* Mutant: the push is forced.
PushedForced(sha, there) == sha

\* push_current_head without an expected SHA or a lease: an ordinary push,
\* which a remote that has moved rejects.
Pushed(sha, there) == IF Ancestor(there, sha) THEN sha ELSE there

PushMaster == remote' = [remote EXCEPT !["master"] = Pushed(head["master"], @)]

\* _push_retained_commits, then it prepares again.
UserPushRetained ==
  /\ ustep = "retained"
  /\ PushMaster
  /\ IF remote'["master"] = head["master"] THEN UserGoto("again") ELSE UserEnds
  /\ UNCHANGED <<durable, days>> /\ CycleUntouched

\* save_info_from_suite_user and refresh_information with _write_master_file: a
\* page as the game has it, changed or not.
UserWrite(f) ==
  /\ ustep = "pages" /\ f \in pages
  /\ \/ UNCHANGED <<work, edits>>
     \/ /\ edits < MaxEdits /\ edits' = edits + 1
        /\ work' = [work EXCEPT !["master"][f] = edits']
  /\ pages' = pages \ {f}
  /\ ustep' = IF pages' = {} THEN "stage" ELSE "pages"
  /\ UNCHANGED <<journal, staged, index, head, remote, days>> /\ CycleUntouched

\* commit_diff up to index.add: a clean repository has nothing to commit.
UserStage ==
  /\ ustep = "stage"
  /\ IF Clean("master")
     THEN UserEnds /\ UNCHANGED index
     ELSE /\ index' = [index EXCEPT !["master"] =
                         [f \in Files |-> IF f \in Pages THEN work["master"][f]
                                          ELSE @[f]]]
          /\ UserGoto("commit")
  /\ UNCHANGED <<journal, staged, work, head, remote, days>> /\ CycleUntouched

\* index.commit: the commit holds the whole index.
UserCommit ==
  /\ ustep = "commit"
  /\ head' = [head EXCEPT !["master"] =
                Append(@, [by |-> -(MaxForeign + edits), tree |-> index["master"]])]
  /\ UserGoto("push")
  /\ UNCHANGED <<journal, staged, work, index, remote, days>> /\ CycleUntouched

\* push_diff: whatever the push reports, the run ends and keeps the commit.
UserPush ==
  /\ ustep = "push"
  /\ PushMaster
  /\ UserEnds
  /\ UNCHANGED <<durable, days>> /\ CycleUntouched

\* Mutant: the pages outlive the run.
UserStopsHalf ==
  /\ ustep # "idle" /\ Fault
  /\ ustep' = "idle" /\ UNCHANGED <<pages, edits>>
  /\ UNCHANGED <<durable, remote, days, pc, mode, cursor, candidate, version_info,
                 plan, foreign>>

\* A call of the game, a write, a commit or a push fails, or the process dies:
\* the lock is released and the disk stays as the earlier steps left it.
UserStops ==
  /\ ustep # "idle" /\ Fault
  /\ UserEnds
  /\ UNCHANGED <<durable, remote, days, pc, mode, cursor, candidate, version_info,
                 plan, foreign>>

UserRuns ==
  \/ UserFastForward \/ UserAhead \/ UserBlocked \/ UserPushRetained
  \/ UserStage \/ UserCommit \/ UserPush
  \/ \E f \in pages : UserWrite(f)

-----------------------------------------------------------------------------
(***************************************************************************)
(* The update cycle with its locks and its date.                           *)
(***************************************************************************)

\* bootstrap runs a daily cycle at any hour; scheduled_update_job runs one from
\* 04:00 on until the date is marked (_is_daily_run), else an ordinary one.
DailyNow == IF ~booted THEN {TRUE}
            ELSE IF marker = today THEN {FALSE} ELSE BOOLEAN

\* _run_update_cycle: the process lock, the due date, then the repository locks
\* as _run_with_authoritative_locks takes them, master first.  The clock is read
\* to decide that the run is daily and read again for its due date; midnight may
\* fall between the two.
SharedBegin ==
  /\ ustep = "idle" /\ ~marking
  /\ BeginCycle
  /\ booted' = TRUE /\ daily' \in DailyNow
  /\ \/ UNCHANGED today
     \/ today < MaxDay /\ today' = today + 1
  /\ due' = IF daily' THEN today' ELSE NoDay
  /\ UNCHANGED <<user, marker, due_of, marking>>

\* skipped:repo_lock.
SharedSkip ==
  /\ pc = "idle" /\ ustep # "idle" /\ ~marking
  /\ booted' = TRUE
  /\ UNCHANGED <<vars, user, today, marker, daily, due, due_of, marking>>

\* The cycle ends as "ok" or "recovered".
EndsWell == pc = "delete" /\ journal'.phase = "absent"

\* Mutant: any recovery in a daily cycle completes the date.
DateDoneAny == daily /\ EndsWell

\* A daily cycle completes its date when it published, or when the journal it
\* recovered carries the same date.
DateDone == /\ daily /\ EndsWell
            /\ mode = "fresh" \/ due_of[Len(due_of)] = due

\* The date of the running cycle, from its start to its end, and the date its
\* journal keeps.
CycleDate ==
  /\ IF pc' = "idle"
     THEN /\ daily' = FALSE
          /\ marking' = DateDone
          /\ due' = IF marking' THEN due ELSE NoDay
     ELSE UNCHANGED <<daily, due, marking>>
  /\ due_of' = IF Len(plan') > Len(plan) THEN Append(due_of, due) ELSE due_of
  /\ UNCHANGED <<user, today, marker, booted>>

SharedGate ==
  /\ \E observed \in {work["master"][Versions], Len(plan) + 1} \ {Absent} :
       Gate(daily, observed)
  /\ CycleDate

SharedGeneration ==
  /\ \/ SkipCycle \/ PrepareRepo \/ Generate \/ GenerationFails
     \/ WritePublishingJournal \/ RemoteSnapshotFails
     \/ ~daily /\ DeadlineExceeded
  /\ CycleDate

SharedCycle ==
  /\ Recovery \/ Publication \/ Commits \/ Pushes
  /\ CycleDate

\* _mark_daily_completed, after the locks are released.
MarkDaily ==
  /\ marking
  /\ marker' = due /\ due' = NoDay /\ marking' = FALSE
  /\ UNCHANGED <<vars, user, today, booted, daily, due_of>>

\* The marker cannot be written: the date stays due.
MarkDailyFails ==
  /\ marking /\ Fault
  /\ due' = NoDay /\ marking' = FALSE
  /\ UNCHANGED <<durable, remote, pc, mode, cursor, candidate, version_info,
                 plan, foreign, user, today, marker, booted, daily, due_of>>

SharedCrash ==
  /\ Crash
  /\ booted' = FALSE /\ daily' = FALSE /\ due' = NoDay /\ marking' = FALSE
  /\ UNCHANGED <<user, today, marker, due_of>>

SharedFailure == (StepFails \/ CommitFails \/ PushLost) /\ CycleDate

\* The date is read only when a cycle begins: it changes just before, or there.
DayPasses ==
  /\ pc = "idle" /\ ustep = "idle" /\ ~marking
  /\ today < MaxDay /\ today' = today + 1
  /\ UNCHANGED <<vars, user, marker, booted, daily, due, due_of, marking>>

\* Somebody else pushes to the master remote, just before one of the steps
\* that read it; the pushes to the other remote are those of UpdateTransaction.
SharedForeignPush ==
  /\ pc \in {"prepare", "snapshot", "probe", "push", "confirm"}
       \/ ustep \in {"prepare", "retained", "again", "push"}
  /\ ForeignPush("master")
  /\ UNCHANGED <<user, days>>

SharedInit ==
  /\ Init
  /\ ustep = "idle" /\ pages = {} /\ edits = 0
  /\ today = 0 /\ marker = NoDay /\ booted = FALSE /\ daily = FALSE
  /\ due = NoDay /\ due_of = << >> /\ marking = FALSE

CycleRuns == SharedGate \/ SharedGeneration \/ SharedCycle \/ MarkDaily

SharedNext ==
  \/ SharedBegin \/ SharedSkip \/ CycleRuns
  \/ UserBegin \/ UserRuns
  \/ SharedCrash \/ SharedFailure \/ MarkDailyFails \/ UserStops
  \/ SharedForeignPush \/ DayPasses

SharedSpec == SharedInit /\ [][SharedNext]_shared

\* Both programs start again every half hour and find the lock free often
\* enough; what has begun goes on.
FairSharing ==
  /\ SharedSpec
  /\ WF_shared(CycleRuns) /\ WF_shared(UserRuns)
  /\ SF_shared(SharedBegin) /\ SF_shared(UserBegin)

-----------------------------------------------------------------------------
(***************************************************************************)
(* Properties                                                              *)
(***************************************************************************)

UserCommits(sha, from) == \A k \in from..Len(sha) : sha[k].by < -MaxForeign

\* When no journal is pending, nothing but the second updater's own doing keeps
\* the next cycle from preparing: outside its pages the master repository is
\* clean, and only its commits are missing from the remote.
OnlyPagesInTheWay ==
  journal.phase = "absent" =>
    /\ \A f \in Files \ Pages :
         /\ work["master"][f] = TreeOf(head["master"])[f]
         /\ index["master"][f] = TreeOf(head["master"])[f]
    /\ \E k \in 0..Len(head["master"]) :
         /\ Ancestor(SubSeq(head["master"], 1, k), remote["master"])
         /\ UserCommits(head["master"], k + 1)
    /\ "i18n" \in Enabled => Clean("i18n") /\ Ancestor(head["i18n"], remote["i18n"])

\* A marked date is one whose daily refresh every enabled remote shows: a
\* skipped, failed or ordinary cycle, or the recovery of an older date's
\* transaction, leaves the date due.
MarkedDateShown ==
  marker # NoDay =>
    \E n \in 1..Len(plan) :
      due_of[n] = marker /\ \A r \in Repo : Settled(r, n)

\* Under a journal, the second updater has moved or soiled the master
\* repository, or somebody has moved a remote.
Moved ==
  \/ \E r \in Enabled : remote[r] \notin {journal.base[r], journal.target[r]}
  \/ \E k \in 1..Len(head["master"]) :
       head["master"][k].by < -MaxForeign /\ k > Len(journal.base["master"])
  \/ \E f \in Pages : \/ work["master"][f] # TreeOf(head["master"])[f]
                      \/ index["master"][f] # TreeOf(head["master"])[f]

\* A cycle ended between the record of a target and the index that knows its
\* files, and the target has files the base does not track.
CutShort == pc = "idle" /\ \E r \in Enabled :
                             journal.target[r] # NoSha /\ UntrackedTarget(r)

\* An interrupted transaction is completed by the following cycles unless a
\* repository or a remote was moved away from its journal, or a cycle ended
\* just where _validate_target_worktree refuses every recovery.
CompletesUnlessMoved ==
  journal.phase # "absent" ~> journal.phase = "absent" \/ Moved \/ CutShort

\* What the first run of a recovery promises, that one point set aside: every
\* other interrupted transaction is completed, whatever the second updater does
\* between the cycles.
CompletesAmongUsers ==
  journal.phase # "absent" ~> journal.phase = "absent" \/ CutShort

\* A commit of the second updater whose push failed is pushed by a later run,
\* for nobody else may push it (_push_retained_commits): it stays only in a
\* repository that is dirty or has diverged.
RetainedPushed ==
  AheadOwned(head["master"], remote["master"])
    ~> \/ ~AheadOwned(head["master"], remote["master"])
       \/ ~Clean("master") \/ Diverged

=============================================================================
