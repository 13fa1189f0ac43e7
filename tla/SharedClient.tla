---------------------------- MODULE SharedClient ----------------------------
(***************************************************************************)
(* The shared client of one region (shared_client.py, utils/task_queue.py, *)
(* utils/deadline.py): callers put jobs into a queue of one place, one     *)
(* worker runs them against the game client, and every job works on the    *)
(* lifecycle state and on the session of that client behind a roll-back    *)
(* barrier.  A call has a deadline; its caller leaves when it has passed,  *)
(* while the job goes on until it reaches a place that looks at the        *)
(* deadline.                                                               *)
(*                                                                         *)
(* Abstractions.  A session token is the number of the login or of the     *)
(* rotation that brought it, a user profile the number of the login that   *)
(* fetched it, 0 for none.  The game server is external: it may accept,    *)
(* refuse or fail any request.  The steps of one authentication are one    *)
(* step here, for nobody sees the session before it ends.  A back-off is a *)
(* flag that time takes down.  The account lease is AccountLease's.        *)
(***************************************************************************)
EXTENDS Naturals, FiniteSets

CONSTANTS
  Callers, NoCaller,
  MaxRetries,        \* MAX_API_RETRIES
  MaxSessions,       \* bound: tokens the game hands out
  MaxInterrupts      \* bound: BaseExceptions raised in the worker

ASSUME CallersAssumption == NoCaller \notin Callers
ASSUME ClientBoundsAssumption ==
  /\ MaxRetries \in Nat /\ MaxSessions \in Nat /\ MaxInterrupts \in Nat

VARIABLES
  lifecycle,   \* _LifecycleRuntime
  session,     \* the session state of the APIClient
  call,        \* call[c]: what caller c asked for and how far it is
  slot,        \* job_queue, of one place
  \* the worker
  job,         \* the caller whose job runs
  pc,
  saved,       \* the snapshot of guarded
  before,      \* what login_account, or a hidden login, saw first; and whether
               \* it began after the deadline
  gen,         \* auth_generation differs from what the job, the login saw
  attempt,     \* retries of the current request
  err,         \* how the job ends
  \* history and bounds
  drawn,       \* tokens handed out
  refused,     \* tokens the game refused during this job
  loginFailed, \* login_account raised during this job
  rejected,    \* the game answered 426 to an authentication of this job, and
               \* the callback was told of a success
  interrupts

worker  == <<job, pc, saved, before, gen, attempt, err>>
history == <<drawn, refused, loginFailed, rejected, interrupts>>
vars    == <<lifecycle, session, call, slot, worker, history>>

-----------------------------------------------------------------------------

Kind  == {"init", "login", "relogin", "ensure_ready", "snapshot", "call"}
State == {"UNINITIALIZED", "INITIALIZING", "READY", "DEGRADED",
          "REAUTHENTICATING", "FAILED"}
Step  == {"idle", "init", "build", "login", "auth", "send", "request",
          "hidden", "end"}
Token == 0..MaxSessions

\* failed: error is not None; backoff: retry_until_mono lies ahead; pending:
\* hidden_auth_failure_pending; tx: an authentication transaction is active.
\* A finish always meets the transaction begun last, or none.
Lifecycle == [client : BOOLEAN, authed : BOOLEAN, user : Token, state : State,
              failed : BOOLEAN, backoff : BOOLEAN, pending : BOOLEAN, tx : BOOLEAN]
Session   == [token : Token, user : Token]
NoSession == [token |-> 0, user |-> 0]

FirstLifecycle ==
  [client |-> FALSE, authed |-> FALSE, user |-> 0, state |-> "UNINITIALIZED",
   failed |-> FALSE, backoff |-> FALSE, pending |-> FALSE, tx |-> FALSE]

Idle == [kind |-> "call", at |-> "idle", late |-> FALSE, waiting |-> FALSE]

kind == call[job].kind
Late == call[job].late

\* The operations that may change readiness when they fail.
Authoritative == kind \in {"init", "login", "relogin", "ensure_ready"}

Ready(l) == l.state = "READY" /\ l.client /\ l.authed

\* Mutant: the state changes and no back-off begins.
RecordFailureStateOnly(l, s) == [l EXCEPT !.state = s]

RecordFailure(l, s) == [l EXCEPT !.state = s, !.failed = TRUE, !.backoff = TRUE]
ClearFailure(l)     == [l EXCEPT !.failed = FALSE, !.backoff = FALSE]

Goto(step)     == pc' = step
Ends(outcome)  == pc' = "end" /\ err' = outcome

-----------------------------------------------------------------------------
(***************************************************************************)
(* Callers: run_job, enqueue_job, get_answer.                              *)
(***************************************************************************)

\* The RPC methods look at the client before they enqueue; the scheduler only
\* logs in again whom it finds logged in.
Ask(c, k) ==
  /\ call[c].at = "idle"
  /\ k = "call" => lifecycle.client
  /\ call' = [call EXCEPT ![c] = [kind |-> k, at |-> "putting", late |-> FALSE,
                                  waiting |-> TRUE]]
  /\ UNCHANGED <<lifecycle, session, slot, worker, history>>

Enqueue(c) ==
  /\ call[c].at = "putting" /\ ~call[c].late /\ slot = NoCaller
  /\ slot' = c /\ call' = [call EXCEPT ![c].at = "queued"]
  /\ UNCHANGED <<lifecycle, session, worker, history>>

\* queue_full, or the deadline passed before the put.
Reject(c) ==
  /\ call[c].at = "putting" /\ (slot # NoCaller \/ call[c].late)
  /\ call' = [call EXCEPT ![c] = Idle]
  /\ UNCHANGED <<lifecycle, session, slot, worker, history>>

Expire(c) ==
  /\ call[c].at # "idle" /\ ~call[c].late
  /\ call' = [call EXCEPT ![c].late = TRUE]
  /\ UNCHANGED <<lifecycle, session, slot, worker, history>>

GiveUp(c) ==
  /\ call[c].at \in {"queued", "running"} /\ call[c].late /\ call[c].waiting
  /\ call' = [call EXCEPT ![c].waiting = FALSE]
  /\ UNCHANGED <<lifecycle, session, slot, worker, history>>

-----------------------------------------------------------------------------
(***************************************************************************)
(* The worker takes a job.                                                 *)
(***************************************************************************)

FirstStep(k) == CASE k \in {"init", "ensure_ready"} -> "init"
                  [] k \in {"login", "relogin", "snapshot"} -> "login"
                  [] k = "call" -> "send"

\* _run_queued_job: a job that expired in the queue is not started.
DropExpired ==
  /\ job = NoCaller /\ slot # NoCaller /\ call[slot].late
  /\ call' = [call EXCEPT ![slot] = Idle] /\ slot' = NoCaller
  /\ UNCHANGED <<lifecycle, session, worker, history>>

\* ensure_ready does nothing while the client is ready or the back-off lasts;
\* update_snapshot needs a client and logs in only when nobody is.
Begin ==
  /\ job = NoCaller /\ slot # NoCaller /\ ~call[slot].late
  /\ job' = slot /\ slot' = NoCaller
  /\ call' = [call EXCEPT ![slot].at = "running"]
  /\ saved' = [l |-> lifecycle, s |-> session]
  /\ gen' = [job |-> FALSE, login |-> FALSE]
  /\ attempt' = 0 /\ refused' = {} /\ loginFailed' = FALSE /\ rejected' = FALSE
  /\ LET k == call[slot].kind IN
     \/ /\ k = "ensure_ready" /\ (Ready(lifecycle) \/ lifecycle.backoff)
        /\ Ends("none")
     \/ /\ k = "snapshot" /\ ~lifecycle.client
        /\ Ends("error")
     \/ /\ k = "snapshot" /\ lifecycle.client /\ lifecycle.authed
        /\ Goto("send") /\ err' = "none"
     \/ /\ k = "ensure_ready" => ~Ready(lifecycle) /\ ~lifecycle.backoff
        /\ k = "snapshot" => lifecycle.client /\ ~lifecycle.authed
        /\ Goto(FirstStep(k)) /\ err' = "none"
  /\ UNCHANGED <<lifecycle, session, before, drawn, interrupts>>

-----------------------------------------------------------------------------
(***************************************************************************)
(* _initialize_client.                                                     *)
(***************************************************************************)

\* Where a job goes on after a client or a login, and how it takes a failure:
\* ensure_ready swallows an Exception.
Raise(e) ==
  /\ e = "interrupt" => interrupts < MaxInterrupts
  /\ interrupts' = IF e = "interrupt" THEN interrupts + 1 ELSE interrupts
  /\ Ends(IF kind = "ensure_ready" /\ e # "interrupt" THEN "none" ELSE e)

Failure == {"error", "deadline", "interrupt"}

AfterInit == IF kind = "init" THEN Ends("none") ELSE Goto("login") /\ UNCHANGED err

InitializeClient ==
  /\ pc = "init"
  /\ \/ /\ lifecycle.client /\ AfterInit /\ UNCHANGED <<lifecycle, interrupts>>
     \/ /\ ~lifecycle.client /\ lifecycle.backoff
        /\ Raise("error") /\ UNCHANGED lifecycle
     \/ /\ ~lifecycle.client /\ ~lifecycle.backoff
        /\ lifecycle' = [lifecycle EXCEPT !.state = "INITIALIZING"]
        /\ Goto("build") /\ UNCHANGED <<err, interrupts>>
  /\ UNCHANGED <<session, call, slot, job, saved, before, gen, attempt,
                 drawn, refused, loginFailed, rejected>>

CommitClient ==
  /\ pc = "build"
  /\ lifecycle' = [ClearFailure(lifecycle) EXCEPT
                     !.client = TRUE, !.authed = FALSE, !.user = 0,
                     !.state = "DEGRADED"]
  /\ session' = NoSession /\ AfterInit
  /\ UNCHANGED <<call, slot, job, saved, before, gen, attempt, history>>

BuildFails(e) ==
  /\ pc = "build"
  /\ lifecycle' = IF e = "interrupt" THEN lifecycle
                  ELSE RecordFailure(lifecycle, "FAILED")
  /\ Raise(e)
  /\ UNCHANGED <<session, call, slot, job, saved, before, gen, attempt,
                 drawn, refused, loginFailed, rejected>>

-----------------------------------------------------------------------------
(***************************************************************************)
(* The lifecycle callback of hidden authentication: a notification that    *)
(* comes late, or whose transaction is over, is dropped.                   *)
(***************************************************************************)

Attempted(l) == IF Late THEN l ELSE [l EXCEPT !.tx = TRUE]

Accepts(l, s) == ~Late /\ l.tx /\ s.user # 0

Succeeded(l, s) ==
  IF Accepts(l, s)
  THEN [ClearFailure(l) EXCEPT !.tx = FALSE, !.user = s.user, !.authed = TRUE,
                               !.state = "READY", !.pending = FALSE]
  ELSE [l EXCEPT !.tx = @ /\ Late]

\* Mutant: a hidden failure leaves no trace.
HiddenFailedUnheard(l) == [l EXCEPT !.tx = @ /\ Late]

HiddenFailed(l) ==
  IF ~Late /\ l.tx
  THEN [RecordFailure(l, "DEGRADED") EXCEPT !.tx = FALSE, !.pending = TRUE]
  ELSE l

\* What the callback hears of while an authentication is under way and in the
\* end fails: nothing; a recovery of its own that fails, for the login it
\* would need is the one in progress; or, on a 426 to the authentication
\* request itself, a recovery that only refreshes the version and succeeds.
\* One that begins after the deadline sends nothing and hears nothing.
Heard == {"nothing", "failure", "success"}
Nested(l, heard) ==
  CASE heard = "nothing" -> l
    [] heard = "failure" -> HiddenFailed(Attempted(l))
    [] heard = "success" -> Succeeded(Attempted(l), session)
NestedAccepts(heard) == heard = "success" /\ Accepts(Attempted(lifecycle), session)

NewToken == drawn < MaxSessions /\ drawn' = drawn + 1

\* No request is sent after the deadline, yet one under way may be answered.
Authenticates == ~before.late /\ NewToken

-----------------------------------------------------------------------------
(***************************************************************************)
(* login_account.                                                          *)
(***************************************************************************)

AfterLogin == IF kind = "snapshot" THEN Goto("send") /\ UNCHANGED err ELSE Ends("none")

BeginLogin ==
  /\ pc = "login"
  /\ \/ /\ kind = "login" /\ lifecycle.authed
        /\ AfterLogin /\ UNCHANGED <<lifecycle, before, gen, interrupts>>
     \/ /\ kind # "login" \/ ~lifecycle.authed
        /\ ~lifecycle.client
        /\ Raise("error") /\ UNCHANGED <<lifecycle, before, gen>>
     \/ /\ kind # "login" \/ ~lifecycle.authed
        /\ lifecycle.client
        /\ before' = [s |-> session, authed |-> lifecycle.authed, late |-> Late]
        /\ gen' = [gen EXCEPT !.login = FALSE]
        /\ lifecycle' = [lifecycle EXCEPT
                           !.state = IF lifecycle.authed THEN "REAUTHENTICATING"
                                     ELSE "INITIALIZING"]
        /\ Goto("auth") /\ UNCHANGED <<err, interrupts>>
  /\ UNCHANGED <<session, call, slot, job, saved, attempt, drawn, refused,
                 loginFailed, rejected>>

CommitLogin ==
  /\ pc = "auth" /\ Authenticates
  /\ session' = [token |-> drawn', user |-> drawn']
  /\ lifecycle' = [ClearFailure(lifecycle) EXCEPT
                     !.user = drawn', !.authed = TRUE, !.state = "READY",
                     !.pending = FALSE]
  /\ AfterLogin
  /\ UNCHANGED <<call, slot, job, saved, before, gen, attempt, refused,
                 loginFailed, rejected, interrupts>>

\* Mutant: the failure of a login records no back-off.
DegradedSilently(l) ==
  [l EXCEPT !.authed = @ /\ before.authed, !.pending = FALSE,
            !.user = IF before.authed THEN @ ELSE 0]

\* A session that a hidden authentication committed meanwhile stays, any other
\* failure restores the session and degrades, unless the callback did already.
Degraded(l) ==
  LET out == [l EXCEPT !.authed = @ /\ before.authed,
                       !.user = IF before.authed THEN @ ELSE 0]
  IN IF out.pending THEN [out EXCEPT !.pending = FALSE]
     ELSE RecordFailure(out, "DEGRADED")

LoginFails(e, heard) ==
  LET heardOf   == Nested(lifecycle, heard)
      accepted  == gen.login \/ NestedAccepts(heard)
      committed == accepted /\ heardOf.authed /\ heardOf.state = "READY"
  IN
  /\ pc = "auth" /\ (before.late => heard = "nothing") /\ Raise(e)
  /\ lifecycle' = IF committed THEN heardOf ELSE Degraded(heardOf)
  /\ session' = IF committed THEN session ELSE before.s
  /\ gen' = [job |-> gen.job \/ NestedAccepts(heard), login |-> accepted]
  /\ loginFailed' = TRUE /\ rejected' = (rejected \/ heard = "success")
  /\ UNCHANGED <<call, slot, job, saved, before, attempt, drawn, refused>>

-----------------------------------------------------------------------------
(***************************************************************************)
(* One request of the game API (call_pjsk_api, execute_request,            *)
(* _handle_http_error_retry), a GET.                                       *)
(***************************************************************************)

Send ==
  /\ pc = "send"
  /\ IF Late THEN Ends("deadline") ELSE Goto("request") /\ UNCHANGED err
  /\ UNCHANGED <<lifecycle, session, call, slot, job, saved, before, gen,
                 attempt, history>>

\* Any answer may carry a new token.
Rotate ==
  \/ UNCHANGED <<session, drawn>>
  \/ session.token # 0 /\ NewToken /\ session' = [session EXCEPT !.token = drawn']

Answer ==
  /\ pc = "request" /\ Rotate /\ Ends("none")
  /\ UNCHANGED <<lifecycle, call, slot, job, saved, before, gen, attempt,
                 refused, loginFailed, rejected, interrupts>>

\* A permanent error, or the worker is interrupted.
RequestFails(e) ==
  /\ pc = "request" /\ e # "deadline" /\ Rotate /\ Raise(e)
  /\ UNCHANGED <<lifecycle, call, slot, job, saved, before, gen, attempt,
                 refused, loginFailed, rejected>>

\* Mutant: one retry too many.
RetryOnceMore ==
  \/ attempt <= MaxRetries /\ ~Late /\ attempt' = attempt + 1
       /\ Goto("send") /\ UNCHANGED err
  \/ attempt <= MaxRetries /\ Ends("deadline") /\ UNCHANGED attempt
  \/ attempt > MaxRetries /\ Ends("error") /\ UNCHANGED attempt

\* wait_before_retry: a wait the deadline has no room for ends the job.
Retry ==
  \/ attempt < MaxRetries /\ ~Late /\ attempt' = attempt + 1
       /\ Goto("send") /\ UNCHANGED err
  \/ attempt < MaxRetries /\ Ends("deadline") /\ UNCHANGED attempt
  \/ attempt = MaxRetries /\ Ends("error") /\ UNCHANGED attempt

\* A network error, 429, 5xx, a new cookie, or a session error nobody can log
\* in for.
Transient ==
  /\ pc = "request" /\ Retry
  /\ UNCHANGED <<lifecycle, session, call, slot, job, saved, before, gen, history>>

\* 403 session_error, 406, 426: recover by a login of the client itself.
BeginHidden(refusal) ==
  /\ pc = "request" /\ session.token # 0
  /\ lifecycle' = Attempted(lifecycle)
  /\ refused' = refused \cup IF refusal THEN {session.token} ELSE {}
  /\ before' = [before EXCEPT !.s = session, !.late = Late]
  /\ Goto("hidden")
  /\ UNCHANGED <<session, call, slot, job, saved, gen, attempt, err, drawn,
                 loginFailed, rejected, interrupts>>

HiddenLogin ==
  /\ pc = "hidden" /\ Authenticates
  /\ session' = [token |-> drawn', user |-> drawn']
  /\ lifecycle' = Succeeded(lifecycle, session')
  /\ gen' = IF Accepts(lifecycle, session') THEN [job |-> TRUE, login |-> TRUE]
            ELSE gen
  /\ Retry
  /\ UNCHANGED <<call, slot, job, saved, before, refused, loginFailed, rejected,
                 interrupts>>

\* The session transaction restores what the hidden login found.
HiddenLoginFails(e, heard) ==
  /\ pc = "hidden" /\ (before.late => heard = "nothing") /\ Raise(e)
  /\ session' = before.s
  /\ lifecycle' = HiddenFailed(Nested(lifecycle, heard))
  /\ gen' = IF NestedAccepts(heard) THEN [job |-> TRUE, login |-> TRUE] ELSE gen
  /\ rejected' = (rejected \/ heard = "success")
  /\ UNCHANGED <<call, slot, job, saved, before, attempt, drawn, refused,
                 loginFailed>>

-----------------------------------------------------------------------------
(***************************************************************************)
(* guarded: the job ends, and the lifecycle and the session are kept or    *)
(* rolled back.                                                            *)
(***************************************************************************)

Forget ==
  /\ saved' = [l |-> FirstLifecycle, s |-> NoSession]
  /\ before' = [s |-> NoSession, authed |-> FALSE, late |-> FALSE]
  /\ gen' = [job |-> FALSE, login |-> FALSE]
  /\ attempt' = 0 /\ err' = "none"
  /\ refused' = {} /\ loginFailed' = FALSE /\ rejected' = FALSE

Finish ==
  /\ Goto("idle") /\ job' = NoCaller
  /\ call' = [call EXCEPT ![job] = Idle]
  /\ Forget /\ UNCHANGED <<slot, drawn, interrupts>>

\* Mutant: the deadline is not looked at again before the job returns.
AbandonedUnchecked == err = "deadline"

Abandoned == err = "deadline" \/ (err = "none" /\ Late)

EndAccepted ==
  /\ err = "none" /\ ~Abandoned /\ Finish
  /\ UNCHANGED <<lifecycle, session>>

EndAbandoned ==
  /\ Abandoned /\ Finish
  /\ lifecycle' = saved.l /\ session' = saved.s

\* The worker was interrupted before the client existed.
EndUnborn ==
  /\ err = "interrupt" /\ ~saved.l.client /\ Finish
  /\ session' = saved.s
  /\ lifecycle' = IF ~Authoritative THEN saved.l
                  ELSE RecordFailure(saved.l, IF kind = "init" THEN "FAILED"
                                              ELSE "DEGRADED")

\* Mutant: the flags and the profile are not rolled back with the session.
RolledBackSessionOnly ==
  IF Authoritative /\ lifecycle.state # "DEGRADED"
  THEN RecordFailure(lifecycle, "DEGRADED") ELSE lifecycle

\* An error of the job rolls the session back and degrades an authoritative
\* operation, unless the callback has recorded the failure.
RolledBack ==
  LET l == [lifecycle EXCEPT !.authed = saved.l.authed, !.user = saved.l.user]
      cut == err = "interrupt" /\ l.tx
      known == cut \/ l.pending
      out == [IF cut THEN RecordFailure(l, "DEGRADED") ELSE l
                EXCEPT !.tx = @ /\ ~cut, !.pending = FALSE]
  IN IF Authoritative /\ out.state # "DEGRADED" /\ ~known
     THEN RecordFailure(out, "DEGRADED") ELSE out

EndRolledBack ==
  /\ err \in {"error", "interrupt"} /\ saved.l.client /\ ~gen.job /\ Finish
  /\ lifecycle' = RolledBack /\ session' = saved.s

\* A hidden authentication was accepted during the job, or there was no client
\* to restore.
EndKept ==
  /\ \/ err \in {"error", "interrupt"} /\ saved.l.client /\ gen.job
     \/ err = "error" /\ ~saved.l.client
  /\ Finish
  /\ UNCHANGED <<lifecycle, session>>

End ==
  /\ pc = "end"
  /\ EndAccepted \/ EndAbandoned \/ EndUnborn \/ EndRolledBack \/ EndKept

\* The back-off is over; a snapshot holds the same instant.
BackoffOver ==
  /\ lifecycle.backoff \/ saved.l.backoff
  /\ lifecycle' = [lifecycle EXCEPT !.backoff = FALSE]
  /\ saved' = [saved EXCEPT !.l.backoff = FALSE]
  /\ UNCHANGED <<session, call, slot, job, pc, before, gen, attempt, err, history>>

-----------------------------------------------------------------------------

Init ==
  /\ lifecycle = FirstLifecycle /\ session = NoSession
  /\ call = [c \in Callers |-> Idle] /\ slot = NoCaller
  /\ job = NoCaller /\ pc = "idle"
  /\ saved = [l |-> FirstLifecycle, s |-> NoSession]
  /\ before = [s |-> NoSession, authed |-> FALSE, late |-> FALSE]
  /\ gen = [job |-> FALSE, login |-> FALSE]
  /\ attempt = 0 /\ err = "none"
  /\ drawn = 0 /\ refused = {} /\ loginFailed = FALSE /\ rejected = FALSE
  /\ interrupts = 0

Next ==
  \/ \E c \in Callers : \/ \E k \in Kind : Ask(c, k)
                        \/ Enqueue(c) \/ Reject(c) \/ Expire(c) \/ GiveUp(c)
  \/ DropExpired \/ Begin
  \/ InitializeClient \/ CommitClient \/ BeginLogin \/ CommitLogin
  \/ Send \/ Answer \/ Transient \/ HiddenLogin
  \/ \E e \in Failure : \/ BuildFails(e) \/ RequestFails(e)
                        \/ \E h \in Heard : LoginFails(e, h) \/ HiddenLoginFails(e, h)
  \/ \E refusal \in BOOLEAN : BeginHidden(refusal)
  \/ End \/ BackoffOver

Spec == Init /\ [][Next]_vars

-----------------------------------------------------------------------------
(***************************************************************************)
(* Properties.                                                             *)
(***************************************************************************)

\* Every variable has its type.
SharedTypeOK ==
  /\ lifecycle \in Lifecycle /\ session \in Session
  /\ call \in [Callers -> [kind : Kind, at : {"idle", "putting", "queued", "running"},
                           late : BOOLEAN, waiting : BOOLEAN]]
  /\ {slot, job} \subseteq Callers \cup {NoCaller}
  /\ pc \in Step /\ err \in {"none"} \cup Failure
  /\ saved \in [l : Lifecycle, s : Session]
  /\ before \in [s : Session, authed : BOOLEAN, late : BOOLEAN]
  /\ gen \in [job : BOOLEAN, login : BOOLEAN]
  /\ attempt \in 0..MaxRetries
  /\ drawn \in Token /\ refused \subseteq Token
  /\ loginFailed \in BOOLEAN /\ rejected \in BOOLEAN
  /\ interrupts \in 0..MaxInterrupts

\* Whoever reads the readiness finds a session and a profile behind it,
\* whatever was rolled back before (_client_job, login_account).
ReadyHasSession ==
  Ready(lifecycle) =>
    session.token # 0 /\ session.user # 0 /\ lifecycle.user # 0

JobEnds == pc = "end" /\ pc' = "idle"

\* A job that ends after the deadline of its caller leaves the session, the
\* profile and the authentication as it found them, unless the callback took
\* an authentication in time.
LateRestores ==
  [][JobEnds /\ (Abandoned \/ Late) /\ (err = "deadline" \/ ~gen.job) =>
       /\ session' = saved.s
       /\ lifecycle'.user = saved.l.user /\ lifecycle'.authed = saved.l.authed]_vars

\* A job during which the game refused a token does not end in readiness on
\* that token: the client has logged in anew or is degraded.  A job in which the
\* game answered 426 to an authentication is left out: there the callback takes
\* the old session for an accepted one (EveryFailedLoginDegrades).
RefusedNotReady ==
  [][JobEnds /\ ~Abandoned /\ ~Late /\ ~rejected /\ Ready(lifecycle')
       => session'.token \notin refused]_vars

Settled(l) == l.state \notin {"INITIALIZING", "REAUTHENTICATING"}

\* "leave a terminal lifecycle state": no job leaves the state of an attempt
\* behind that is no longer under way.
SettledAfterJob ==
  [][JobEnds /\ Settled(saved.l) /\ ~saved.l.pending => Settled(lifecycle')]_vars

FailureOnRecord(l) == l.state = "DEGRADED" /\ l.failed

\* A login that failed is on record and backs off, whichever operation asked
\* for it and whether the callback or the operation recorded it, unless the
\* game answered 426 to an authentication of the same job.
FailedLoginDegrades ==
  [][JobEnds /\ loginFailed /\ ~rejected /\ ~Abandoned /\ ~saved.l.pending =>
       FailureOnRecord(lifecycle')]_vars

\* login_account: "only an uncommitted explicit login/relogin can degrade", for
\* what else survives is a newer session of a hidden authentication; a login
\* that failed and brought no session is on record, a 426 or not.
EveryFailedLoginDegrades ==
  [][JobEnds /\ loginFailed /\ session'.token = saved.s.token
       /\ ~Abandoned /\ ~saved.l.pending => FailureOnRecord(lifecycle')]_vars

\* docs/remediation-roadmap.md: once its caller has timed out, a task commits
\* no client state any more; what is left is what the job found, or what the
\* lifecycle took before the deadline.
LateCommitsNothing ==
  [][JobEnds /\ Late => session'.user \in {saved.s.user, lifecycle.user}]_vars

=============================================================================
