---------------------------- MODULE AccountLease ----------------------------
(***************************************************************************)
(* The account lease of a shared client (shared_client.py: get_account_info*)
(* and login_account; accounts/lease_journal.py) against the remote account*)
(* service.  One worker thread runs the logins one after the other; it     *)
(* keeps the active lease in memory and what it asked of the service in a  *)
(* journal on disk, so that a restart can replay an acquire or finish a    *)
(* release.  When the process ends, its main thread releases the active    *)
(* lease while the worker, a daemon thread, goes on.                       *)
(*                                                                         *)
(* Abstractions.  Time is what is left of a lease, in ticks: a copy of an  *)
(* expiry counts down like the expiry itself, for the clocks agree.  Lease *)
(* ids and idempotency keys are numbers, 0 for none.  The service is       *)
(* external: it follows the contract of AccountProvider.  The retries      *)
(* inside one request are part of its outcome.  The active lease and its   *)
(* operation, two globals set one after the other, are read and set as one.*)
(***************************************************************************)
EXTENDS Naturals, FiniteSets

CONSTANTS
  TTL,             \* ticks of an acquired or renewed lease
  Ahead,           \* ticks before the expiry at which renewal starts
  ReportsInvalid,  \* the region is tw or kr
  ReleasesRefused, \* the service may refuse releases for good
  ExitCalls,       \* calls of release_active_account_lease when the process ends:
                   \* atexit alone, or the worker_exit hook of gunicorn as well
  MaxKeys,         \* bound: acquire operations, and leases the service gives
  MaxFaults        \* bound: crashes, failed requests and failed writes

ASSUME LeaseTimesAssumption  == TTL \in Nat \ {0} /\ Ahead \in 0..TTL
ASSUME LeaseBoundsAssumption == /\ ReportsInvalid \in BOOLEAN
                                /\ ReleasesRefused \in BOOLEAN /\ ExitCalls \in Nat
                                /\ MaxKeys \in Nat /\ MaxFaults \in Nat

VARIABLES
  \* the service
  left,      \* left[l]: ticks until lease l expires, 0 when it is over
  keyOf,     \* keyOf[l]: the idempotency key lease l was given for
  issued,    \* leases given so far
  \* on disk
  journal,   \* the operation in the lease journal
  \* in memory
  active,    \* _active_account_lease
  op,        \* _active_lease_operation
  holdoff,   \* _lease_renewal_retry_until lies ahead
  exits,     \* calls of release_active_account_lease begun
  release,   \* release[t]: what _release_account_lease does in thread t
  pc,        \* the worker's step, and its locals:
  prev,      \* previous_account_lease and previous_lease_operation
  replaced,  \* active is another object than previous_account_lease
  work,      \* the operation get_account_info works on
  got,       \* the lease or the expiry the service answered with
  \* history and bounds
  keys,      \* idempotency keys drawn so far
  known,     \* known[l]: ticks until the last expiry recorded for lease l
  contested, \* keys of operations that lost their record or their lease behind
             \* the back of the login that acquires for them: see Contested
  faults

service == <<left, keyOf, issued>>
local   == <<prev, replaced, work, got>>
memory  == <<active, op, holdoff, exits, release, local>>
history == <<keys, known, contested>>
vars    == <<service, journal, memory, pc, history, faults>>

LeaseId == 0..MaxKeys
KeyId   == 0..MaxKeys
Lease   == [id : LeaseId, left : 0..TTL]
Op      == [key : KeyId, id : LeaseId, left : 0..TTL, pending : BOOLEAN]
NoLease == [id |-> 0, left |-> 0]
NoOp    == [key |-> 0, id |-> 0, left |-> 0, pending |-> FALSE]
NoPrev  == [lease |-> NoLease, op |-> NoOp]

Step == {"idle", "info", "renew", "renewed", "journal", "flush", "flushed", "again",
         "acquire", "acquired", "login", "raised", "report", "reported", "failed",
         "releasing", "restoring"}

Thread     == {"worker", "exit"}
ReleaseAt  == {"off", "kept", "load", "mark", "delete", "clear"}
OfRelease  == [at : ReleaseAt, lease : Lease, op : Op]
NoRelease  == [at |-> "off", lease |-> NoLease, op |-> NoOp]

\* get_account_info holds _account_lease_lock at these steps.
LockHeld == {"renew", "renewed", "journal", "flush", "flushed", "again", "acquire",
             "acquired"}

Live     == {l \in 1..MaxKeys : left[l] > 0}
Over(o)  == o.id # 0 /\ o.left = 0

\* An expiry in memory or on disk gets one tick nearer.
Aged(r)  == [r EXCEPT !.left = IF @ > 0 THEN @ - 1 ELSE 0]

Goto(step) == pc' = step
Fault      == faults < MaxFaults /\ faults' = faults + 1

\* Thread t gives a lease back, or holds on to it for the moment.
Releasing(t, at, lease, o) ==
  release' = [release EXCEPT ![t] = [at |-> at, lease |-> lease, op |-> o]]
Released(t) == release' = [release EXCEPT ![t] = NoRelease]

-----------------------------------------------------------------------------
(***************************************************************************)
(* login_account and the cached and the renewed lease of get_account_info. *)
(***************************************************************************)

\* login_account(forced): the lease before the login is remembered.
BeginLogin ==
  /\ pc = "idle" /\ Goto("info")
  /\ prev' = [lease |-> active, op |-> op] /\ replaced' = FALSE
  /\ UNCHANGED <<service, journal, active, op, holdoff, exits, release, work, got,
                 history, faults>>

RenewalDue == active.left <= Ahead /\ ~holdoff /\ op.id # 0

GetAccountInfo ==
  /\ pc = "info"
  /\ Goto(IF active.left = 0 THEN "journal"
          ELSE IF RenewalDue THEN "renew" ELSE "login")
  /\ UNCHANGED <<service, journal, memory, history, faults>>

\* The service extends a live lease; the same renewal key, that is the same
\* recorded expiry, extends it once.
Extend(l) ==
  /\ left' = [left EXCEPT ![l] = IF op.left < @ THEN @ ELSE TTL]
  /\ UNCHANGED <<keyOf, issued>>

Renew ==
  /\ pc = "renew" /\ active.id \in Live
  /\ Extend(active.id)
  /\ got' = [id |-> active.id, left |-> left'[active.id]]
  /\ Goto("renewed")
  /\ UNCHANGED <<journal, active, op, holdoff, exits, release, prev, replaced, work,
                 history, faults>>

\* 404: the lease is gone, reacquire.
RenewInvalid ==
  /\ pc = "renew" /\ active.id \notin Live
  /\ Goto("journal")
  /\ UNCHANGED <<service, journal, memory, history, faults>>

\* A retryable error keeps the cached lease for now, another one reacquires.
RenewFails ==
  /\ pc = "renew" /\ Fault
  /\ \/ UNCHANGED service
     \/ active.id \in Live /\ Extend(active.id)
  /\ \/ Goto("login") /\ holdoff' = TRUE
     \/ Goto("journal") /\ UNCHANGED holdoff
  /\ UNCHANGED <<journal, active, op, exits, release, local, history>>

\* get_account_info returns or raises.
InfoOver == work' = NoOp /\ got' = NoLease

\* LeaseJournal.mark_renewed refuses when the journal has moved on.
MarkRenewed ==
  /\ pc = "renewed"
  /\ LET renewed == [op EXCEPT !.left = got.left] IN
     IF journal.key = op.key /\ journal.id = op.id /\ ~journal.pending
     THEN /\ journal' = renewed /\ op' = renewed
          /\ active' = got /\ replaced' = TRUE /\ holdoff' = FALSE
          /\ known' = [known EXCEPT ![op.id] = got.left]
          /\ Goto("login") /\ InfoOver
     ELSE /\ Goto("journal")
          /\ UNCHANGED <<journal, op, active, replaced, holdoff, known, work, got>>
  /\ UNCHANGED <<service, exits, release, prev, keys, contested, faults>>

-----------------------------------------------------------------------------
(***************************************************************************)
(* The acquire path of get_account_info.                                   *)
(***************************************************************************)

\* Mutant: the new operation is the old one with another key.
TakeUpInherits ==
  IF journal.key # 0 /\ ~Over(journal)
  THEN work' = journal /\ UNCHANGED <<journal, keys>>
  ELSE /\ keys < MaxKeys /\ keys' = keys + 1
       /\ journal' = [journal EXCEPT !.key = keys', !.id = 0] /\ work' = journal'

\* Mutant: an operation that owes a release is kept until it is released.
TakeUpOwed ==
  IF journal.key # 0 /\ (journal.pending \/ ~Over(journal))
  THEN work' = journal /\ UNCHANGED <<journal, keys>>
  ELSE /\ keys < MaxKeys /\ keys' = keys + 1
       /\ journal' = [NoOp EXCEPT !.key = keys'] /\ work' = journal'

\* LeaseJournal.load_or_create: an operation whose lease has not expired is
\* taken up again.
TakeUp ==
  IF journal.key # 0 /\ ~Over(journal)
  THEN work' = journal /\ UNCHANGED <<journal, keys>>
  ELSE /\ keys < MaxKeys /\ keys' = keys + 1
       /\ journal' = [NoOp EXCEPT !.key = keys'] /\ work' = journal'

\* A release the operation owes comes first.
LoadOrCreate ==
  /\ pc = "journal" /\ TakeUp
  /\ Goto(IF work'.pending THEN "flush" ELSE "acquire")
  /\ UNCHANGED <<service, active, op, holdoff, exits, release, prev, replaced, got,
                 known, contested, faults>>

\* DELETE on a lease that is over answers 404, which is as good here.
End(l) == left' = [left EXCEPT ![l] = 0] /\ UNCHANGED <<keyOf, issued>>

FlushRelease ==
  /\ pc = "flush" /\ End(work.id) /\ Goto("flushed")
  /\ UNCHANGED <<journal, memory, history, faults>>

\* LeaseJournal.clear deletes the operation it is given, and no other.
Cleared(o) == IF journal.key = o.key THEN NoOp ELSE journal

FlushClear ==
  /\ pc = "flushed" /\ journal' = Cleared(work) /\ Goto("again")
  /\ UNCHANGED <<service, memory, history, faults>>

\* The second load_or_create: what it returns is acquired for as it is.
LoadOrCreateAgain ==
  /\ pc = "again" /\ TakeUp /\ Goto("acquire")
  /\ UNCHANGED <<service, active, op, holdoff, exits, release, prev, replaced, got,
                 known, contested, faults>>

\* A new lease for operation o is contested when o is not on disk any more as it
\* was loaded, when the shutdown has read the journal and is about to write it, or
\* when a lease the service gave for the same key before, and has ended since, is
\* still in the memory of the login or being released by the shutdown.
Contested(o) ==
  \/ journal # o \/ o.pending \/ release["exit"].at = "mark"
  \/ o.key \in {prev.op.key, release["exit"].op.key}

\* The service: the same live lease for the same key, else a new lease.
Give(o) ==
  IF \E l \in Live : keyOf[l] = o.key
  THEN UNCHANGED <<service, known, contested>>
  ELSE /\ issued < MaxKeys /\ issued' = issued + 1
       /\ left' = [left EXCEPT ![issued'] = TTL]
       /\ keyOf' = [keyOf EXCEPT ![issued'] = o.key]
       /\ known' = [known EXCEPT ![issued'] = IF o.id = 0 THEN TTL ELSE o.left]
       /\ contested' = IF Contested(o) THEN contested \cup {o.key} ELSE contested

Acquire ==
  /\ pc = "acquire" /\ Give(work) /\ Goto("acquired")
  /\ \E l \in Live' : keyOf'[l] = work.key /\ got' = [id |-> l, left |-> left'[l]]
  /\ UNCHANGED <<journal, active, op, holdoff, exits, release, prev, replaced, work,
                 keys, faults>>

\* LeaseJournal.mark_acquired, then the lease becomes the active one.
MarkAcquired ==
  /\ pc = "acquired"
  /\ journal' = [work EXCEPT !.id = got.id, !.left = got.left, !.pending = FALSE]
  /\ op' = journal' /\ active' = got /\ replaced' = TRUE /\ holdoff' = FALSE
  /\ known' = [known EXCEPT ![got.id] = got.left]
  /\ Goto("login") /\ InfoOver
  /\ UNCHANGED <<service, exits, release, prev, keys, contested, faults>>

-----------------------------------------------------------------------------
(***************************************************************************)
(* What login_account makes of the outcome.                                *)
(***************************************************************************)

LoginReturns == Goto("idle") /\ prev' = NoPrev /\ replaced' = FALSE /\ UNCHANGED <<work, got>>

\* The login succeeded: a previous lease that is another object is released.
LoginSucceeds ==
  /\ pc = "login"
  /\ IF prev.lease # NoLease /\ replaced
     THEN /\ Goto("releasing") /\ UNCHANGED local
          /\ Releasing("worker", "load", prev.lease, prev.op)
     ELSE LoginReturns /\ UNCHANGED release
  /\ UNCHANGED <<service, journal, active, op, holdoff, exits, history, faults>>

\* The game refuses the credential ("HTTP 401", "HTTP 403"), or the login
\* fails otherwise, in get_account_info or after it.
LoginFails ==
  /\ pc \in {"login", "raised"}
  /\ \/ Goto("report") /\ pc = "login" /\ ReportsInvalid /\ active # NoLease
     \/ Goto("failed")
  /\ Releasing("worker", "kept", active, op)
  /\ UNCHANGED <<service, journal, active, op, holdoff, exits, local, history, faults>>

Failed == release["worker"].lease

\* report_invalid ends the lease; 404 counts as a failed report.
ReportInvalid ==
  /\ pc = "report"
  /\ IF Failed.id \in Live THEN End(Failed.id) /\ Goto("reported")
     ELSE UNCHANGED service /\ Goto("failed")
  /\ UNCHANGED <<journal, memory, history, faults>>

\* A login that fails goes back to the lease before, unless it has just reported it.
Restore == active' = prev.lease /\ op' = prev.op
Drop    == IF replaced THEN Restore ELSE active' = NoLease /\ op' = NoOp

Reported ==
  /\ pc = "reported" /\ journal' = Cleared(release["worker"].op)
  /\ Drop /\ Released("worker") /\ LoginReturns
  /\ UNCHANGED <<service, holdoff, exits, history, faults>>

\* A failed login releases the lease it acquired.
LoginFailed ==
  /\ pc = "failed" /\ Goto("restoring")
  /\ release' = [release EXCEPT !["worker"] = IF replaced /\ Failed # NoLease
                                              THEN [@ EXCEPT !.at = "load"] ELSE NoRelease]
  /\ UNCHANGED <<service, journal, active, op, holdoff, exits, local, history, faults>>

LoginOver ==
  /\ release["worker"].at = "off" /\ LoginReturns
  /\ \/ pc = "releasing" /\ UNCHANGED <<active, op>>
     \/ pc = "restoring" /\ Restore
  /\ UNCHANGED <<service, journal, holdoff, exits, release, history, faults>>

-----------------------------------------------------------------------------
(***************************************************************************)
(* _release_account_lease in thread t: read the journal, record the intent *)
(* there if it still has the operation, release, clear.  No lock is held.  *)
(***************************************************************************)

\* Mutant: the intent is recorded whatever the journal has come to.
ReleaseLoadUnchecked(t) ==
  /\ release[t].at = "load"
  /\ IF release[t].op.key # 0
     THEN release' = [release EXCEPT ![t].at = "mark"]
     ELSE release' = [release EXCEPT ![t].at = "delete", ![t].op = NoOp]
  /\ UNCHANGED <<service, journal, active, op, holdoff, exits, local, pc, history, faults>>

ReleaseLoad(t) ==
  /\ release[t].at = "load"
  /\ IF release[t].op.key # 0 /\ journal.key = release[t].op.key
     THEN release' = [release EXCEPT ![t].at = "mark"]
     ELSE release' = [release EXCEPT ![t].at = "delete", ![t].op = NoOp]
  /\ UNCHANGED <<service, journal, active, op, holdoff, exits, local, pc, history, faults>>

ReleaseMark(t) ==
  /\ release[t].at = "mark"
  /\ LET pending == [release[t].op EXCEPT !.pending = TRUE] IN
     /\ journal' = pending
     /\ Releasing(t, "delete", release[t].lease, pending)
     /\ known' = [known EXCEPT ![pending.id] = IF pending.left < @ THEN pending.left ELSE @]
  /\ UNCHANGED <<service, active, op, holdoff, exits, local, pc, keys, contested, faults>>

\* Release is idempotent.  A service that answers 404 for a lease that is over
\* raises InvalidLeaseError, which the best-effort release swallows: the intent
\* stays in the journal.
ReleaseDelete(t) ==
  /\ release[t].at = "delete"
  /\ \/ /\ End(release[t].lease.id)
        /\ IF release[t].op.key # 0 THEN release' = [release EXCEPT ![t].at = "clear"]
                                    ELSE Released(t)
     \/ release[t].lease.id \notin Live /\ Released(t) /\ UNCHANGED service
  /\ UNCHANGED <<journal, active, op, holdoff, exits, local, pc, history, faults>>

ReleaseClear(t) ==
  /\ release[t].at = "clear"
  /\ journal' = Cleared(release[t].op) /\ Released(t)
  /\ UNCHANGED <<service, active, op, holdoff, exits, local, pc, history, faults>>

Release(t) == ReleaseLoad(t) \/ ReleaseMark(t) \/ ReleaseDelete(t) \/ ReleaseClear(t)

\* release_active_account_lease: the worker_exit hook, then atexit.  It waits for
\* _account_lease_lock to take the active lease out of memory, and for nothing else.
Shutdown ==
  /\ exits < ExitCalls /\ exits' = exits + 1
  /\ release["exit"].at = "off" /\ pc \notin LockHeld
  /\ active' = NoLease /\ op' = NoOp
  /\ replaced' = IF pc \in {"info", "login", "raised"} THEN prev.lease # NoLease ELSE replaced
  /\ IF active = NoLease THEN UNCHANGED release ELSE Releasing("exit", "load", active, op)
  /\ UNCHANGED <<service, journal, holdoff, prev, work, got, pc, history, faults>>

-----------------------------------------------------------------------------
(***************************************************************************)
(* Faults, the end of the process, and time.                               *)
(***************************************************************************)

\* A request of get_account_info fails with an error the login does not
\* survive, whether the service acted on it or not; or a write of the journal
\* fails.
InfoFails ==
  /\ Goto("raised") /\ InfoOver
  /\ \/ /\ pc \in {"renewed", "journal", "flush", "flushed", "again", "acquire", "acquired"}
        /\ \/ Fault
           \/ ReleasesRefused /\ pc = "flush" /\ UNCHANGED faults
        /\ UNCHANGED <<service, known, contested>>
     \/ pc = "flush" /\ Fault /\ End(work.id) /\ UNCHANGED <<known, contested>>
     \/ pc = "acquire" /\ Fault /\ Give(work)
  /\ UNCHANGED <<journal, active, op, holdoff, exits, release, prev, replaced, keys>>

ReportFails ==
  /\ pc = "report" /\ Fault /\ Goto("failed")
  /\ UNCHANGED service \/ End(Failed.id)
  /\ UNCHANGED <<journal, memory, history>>

\* The journal of a reported lease cannot be cleared; that is only logged.
ReportedNotCleared ==
  /\ pc = "reported" /\ Fault /\ Drop /\ Released("worker") /\ LoginReturns
  /\ UNCHANGED <<service, journal, holdoff, exits, history>>

ReleaseFails(t) ==
  /\ release[t].at \in {"load", "mark", "delete", "clear"} /\ Released(t)
  /\ \/ UNCHANGED service /\ Fault
     \/ UNCHANGED <<service, faults>> /\ ReleasesRefused /\ release[t].at = "delete"
     \/ release[t].at = "delete" /\ Fault /\ End(release[t].lease.id)
  /\ UNCHANGED <<journal, active, op, holdoff, exits, local, pc, history>>

\* The process that ends forgets everything it had in memory, and another begins.
Forget ==
  /\ active' = NoLease /\ op' = NoOp /\ holdoff' = FALSE /\ exits' = 0
  /\ release' = [t \in Thread |-> NoRelease]
  /\ prev' = NoPrev /\ replaced' = FALSE /\ work' = NoOp /\ got' = NoLease
  /\ Goto("idle")
  /\ UNCHANGED <<service, journal, history>>

\* The interpreter ends, and the daemon thread with it, wherever it is.
Exit ==
  /\ exits = ExitCalls /\ exits > 0 /\ release["exit"].at = "off"
  /\ Forget /\ UNCHANGED faults

Crash == Fault /\ Forget

Tick ==
  /\ left' = [l \in 1..MaxKeys |-> IF left[l] > 0 THEN left[l] - 1 ELSE 0]
  /\ known' = [l \in 1..MaxKeys |-> IF known[l] > 0 THEN known[l] - 1 ELSE 0]
  /\ journal' = Aged(journal) /\ active' = Aged(active) /\ op' = Aged(op)
  /\ prev' = [lease |-> Aged(prev.lease), op |-> Aged(prev.op)]
  /\ release' = [t \in Thread |-> [release[t] EXCEPT !.lease = Aged(@), !.op = Aged(@)]]
  /\ work' = Aged(work) /\ got' = Aged(got)
  /\ holdoff' = FALSE
  /\ UNCHANGED <<keyOf, issued, exits, pc, replaced, keys, contested, faults>>

-----------------------------------------------------------------------------

Init ==
  /\ left = [l \in 1..MaxKeys |-> 0] /\ keyOf = [l \in 1..MaxKeys |-> 0]
  /\ issued = 0 /\ journal = NoOp
  /\ active = NoLease /\ op = NoOp /\ holdoff = FALSE /\ exits = 0
  /\ release = [t \in Thread |-> NoRelease] /\ prev = NoPrev
  /\ replaced = FALSE /\ work = NoOp /\ got = NoLease
  /\ pc = "idle" /\ keys = 0 /\ known = [l \in 1..MaxKeys |-> 0] /\ contested = {}
  /\ faults = 0

Account == GetAccountInfo \/ Renew \/ RenewInvalid \/ MarkRenewed \/ LoadOrCreate
           \/ FlushRelease \/ FlushClear \/ LoadOrCreateAgain \/ Acquire \/ MarkAcquired
Outcome == LoginSucceeds \/ LoginFails \/ ReportInvalid \/ Reported \/ LoginFailed
           \/ LoginOver
Faults  == RenewFails \/ InfoFails \/ ReportFails \/ ReportedNotCleared
           \/ (\E t \in Thread : ReleaseFails(t)) \/ Crash

Next == BeginLogin \/ Account \/ Outcome \/ (\E t \in Thread : Release(t))
        \/ Shutdown \/ Exit \/ Faults \/ Tick

Spec == Init /\ [][Next]_vars

\* The worker takes its next step, a login is asked for again, and time passes;
\* nothing makes a request succeed that may fail for good, or a process end.
FairSpec == /\ Spec /\ WF_vars(Account \/ Outcome \/ Release("worker"))
            /\ WF_vars(BeginLogin) /\ WF_vars(Tick)

-----------------------------------------------------------------------------
(***************************************************************************)
(* Properties.                                                             *)
(***************************************************************************)

\* Every variable has its type, and an operation that owes a release knows the
\* lease it owes it for (LeaseJournal._load refuses any other).
LeaseTypeOK ==
  /\ left \in [1..MaxKeys -> 0..TTL] /\ keyOf \in [1..MaxKeys -> KeyId]
  /\ issued \in LeaseId /\ keys \in KeyId /\ contested \subseteq KeyId
  /\ known \in [1..MaxKeys -> 0..TTL]
  /\ journal \in Op /\ op \in Op /\ work \in Op
  /\ active \in Lease /\ got \in Lease /\ prev \in [lease : Lease, op : Op]
  /\ release \in [Thread -> OfRelease]
  /\ {holdoff, replaced} \subseteq BOOLEAN /\ exits \in 0..ExitCalls
  /\ pc \in Step /\ faults \in 0..MaxFaults
  /\ journal.pending => journal.id # 0

\* A restart gets lease l back, or gives it back.
Recoverable(l) == journal.key = keyOf[l] /\ (journal.pending => journal.id = l)

\* The journal never forgets a lease the service still counts as held before the
\* last expiry recorded for it has passed, whatever crashes, lost answers and
\* shutdowns come between: the next process takes it up or gives it back, and the
\* consumer never holds two accounts.  A lease whose renewal was never recorded is
\* covered as long as its record lasts.  What is left out is a lease given under a
\* contested key: see LeaseOnRecord.
NoOrphanLease ==
  \A l \in Live : known[l] > 0 /\ keyOf[l] \notin contested => Recoverable(l)

\* The same of every lease when a process begins: "a restart reuses the same acquire
\* idempotency key or completes an ambiguous release before requesting another
\* account".
LeaseOnRecord ==
  pc = "idle" /\ exits = 0 => \A l \in Live : known[l] > 0 => Recoverable(l)

\* A release that is owed does not stand in the way of an acquire for ever, even if
\* the service refuses it for good and every login fails at it: as long as the
\* process is left running it is made or its lease runs out, and the operation is
\* replaced.  The bound on keys and leases ends the behaviour early.
OwedReleaseSettled ==
  journal.pending ~> ~journal.pending \/ exits > 0 \/ MaxKeys \in {keys, issued}

\* Between two logins the worker holds the lease it works with, unless it has
\* run out.  Without any fault a login that renews its lease gives it back.
ActiveLeaseHeld ==
  pc = "idle" /\ active.left > 0 => active.id \in Live

=============================================================================
