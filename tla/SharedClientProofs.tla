------------------------- MODULE SharedClientProofs -------------------------
(***************************************************************************)
(* Theorems about SharedClient, for any callers, any number of retries,    *)
(* any number of sessions and interrupts: readiness has a session behind   *)
(* it, a late job restores what it found, a refused token is not taken for *)
(* readiness, no job leaves the state of an attempt behind, and a failed   *)
(* login is on record.                                                     *)
(***************************************************************************)
EXTENDS SharedClient, TLAPS

-----------------------------------------------------------------------------
(***************************************************************************)
(* The inductive invariant.                                                *)
(***************************************************************************)

\* The record of a caller.
CallRecord == [kind : Kind, at : {"idle", "putting", "queued", "running"},
               late : BOOLEAN, waiting : BOOLEAN]

\* A profile comes with a token, an authentication with both: whatever the
\* state says, a roll-back may make it READY again.
Backed(l, s) == /\ s.user # 0 => s.token # 0
                /\ l.client /\ l.authed => s.user # 0 /\ l.user # 0

\* What a lifecycle without a client, or with a new one, knows.
Blank(l, s) == s = NoSession /\ l.user = 0 /\ ~l.authed

\* The current session and the one guarded goes back to, and that tokens only
\* come from the game.
Sessions ==
  /\ Backed(lifecycle, session) /\ Backed(saved.l, saved.s)
  /\ {session.token, saved.s.token, before.s.token} \subseteq 0..drawn
  /\ refused \subseteq 0..drawn

\* A client is never lost, and a job that found none has nothing to restore,
\* unless it logged in.
Unborn ==
  /\ saved.l.client => lifecycle.client
  /\ ~lifecycle.client => Blank(lifecycle, session)
  /\ ~saved.l.client => Blank(saved.l, saved.s)
  /\ ~saved.l.client /\ pc # "idle" =>
       Blank(lifecycle, session) \/ (pc = "end" /\ err = "none")

\* The worker is at a step exactly while it has a job, whose caller no longer
\* touches it.
Worker ==
  /\ pc = "idle" <=> job = NoCaller
  /\ job # NoCaller => call[job].at = "running"

\* Which steps a job takes, and which find a client.
KindOfStep ==
  /\ pc \in {"init", "build"} => kind \in {"init", "ensure_ready"}
  /\ pc \in {"login", "auth"} => kind \in {"login", "relogin", "ensure_ready", "snapshot"}
  /\ pc \in {"send", "request", "hidden"} => kind \in {"call", "snapshot"}
  /\ pc \notin {"idle", "end"} /\ kind = "snapshot" => saved.l.client
  /\ pc \in {"init", "build"} => lifecycle.client = saved.l.client
  /\ pc = "build" => ~lifecycle.client

\* What an authentication that is under way goes back to.
BeforeOfStep ==
  /\ pc \in {"auth", "hidden"} => before.s = session
  /\ pc = "hidden" => session.token # 0
  /\ pc = "auth" => /\ lifecycle.client /\ ~Settled(lifecycle)
                    /\ before.authed = lifecycle.authed
                    /\ ~gen.login

\* No login follows a failed one, and none follows a request.
LoginOfStep ==
  /\ pc \in {"init", "build", "login", "auth"} => refused = {}
  /\ loginFailed => /\ pc = "end"
                    /\ \/ kind \in {"login", "relogin", "ensure_ready"}
                       \/ kind = "snapshot" /\ saved.l.client

\* Only a step that ends with its job leaves the state of an attempt.
Attempts ==
  ~saved.l.pending =>
    /\ pc \in {"init", "build", "login", "auth"} => ~lifecycle.pending
    /\ Settled(saved.l) /\ pc \notin {"idle", "build", "auth"} =>
         \/ Settled(lifecycle)
         \/ pc = "end" /\ err = "interrupt" /\ ~saved.l.client

\* A failed login is on record before its job ends, a 426 set aside.
OnRecord ==
  loginFailed /\ ~rejected /\ ~saved.l.pending =>
    lifecycle.state = "DEGRADED" /\ lifecycle.failed

\* As long as its caller waits, the job that met a refused token has a newer one
\* that the callback accepted, or is degraded.
Refusals ==
  ~rejected /\ pc # "idle" /\ ~Late =>
    /\ pc = "hidden" => lifecycle.tx
    /\ \/ session.token \notin refused
       \/ pc = "hidden" \/ (pc = "end" /\ lifecycle.state = "DEGRADED")
    /\ \/ refused = {} \/ gen.job
       \/ pc = "hidden" \/ (pc = "end" /\ lifecycle.state = "DEGRADED")

ClientInv ==
  /\ SharedTypeOK /\ Sessions /\ Unborn /\ Worker /\ KindOfStep /\ BeforeOfStep
  /\ LoginOfStep /\ Attempts /\ OnRecord /\ Refusals

-----------------------------------------------------------------------------
(***************************************************************************)
(* What the helpers do to a lifecycle.                                     *)
(***************************************************************************)

LEMMA RecordFacts ==
  ASSUME NEW l \in Lifecycle, NEW s \in State
  PROVE  /\ RecordFailure(l, s) \in Lifecycle
         /\ RecordFailure(l, s).state = s
         /\ RecordFailure(l, s).failed
         /\ RecordFailure(l, s).client = l.client
         /\ RecordFailure(l, s).authed = l.authed
         /\ RecordFailure(l, s).user = l.user
         /\ RecordFailure(l, s).pending = l.pending
         /\ RecordFailure(l, s).tx = l.tx
BY DEF RecordFailure, Lifecycle

LEMMA ClearFacts ==
  ASSUME NEW l \in Lifecycle
  PROVE  /\ ClearFailure(l) \in Lifecycle
         /\ ClearFailure(l).pending = l.pending
         /\ ClearFailure(l).client = l.client
         /\ ClearFailure(l).tx = l.tx
BY DEF ClearFailure, Lifecycle

\* A callback that accepts an authentication makes the lifecycle ready with its
\* profile; one that does not leaves at most the transaction over.
LEMMA SucceededFacts ==
  ASSUME NEW l \in Lifecycle, NEW s \in Session, Late \in BOOLEAN
  PROVE  /\ Succeeded(l, s) \in Lifecycle
         /\ Succeeded(l, s).client = l.client
         /\ Accepts(l, s) => /\ Succeeded(l, s).authed
                             /\ Succeeded(l, s).user = s.user
                             /\ Succeeded(l, s).state = "READY"
                             /\ ~Succeeded(l, s).pending
                             /\ ~Succeeded(l, s).tx
         /\ ~Accepts(l, s) => /\ Succeeded(l, s).authed = l.authed
                              /\ Succeeded(l, s).user = l.user
                              /\ Succeeded(l, s).state = l.state
                              /\ Succeeded(l, s).pending = l.pending
                              /\ Succeeded(l, s).failed = l.failed
<1>1. CASE Accepts(l, s)
  BY <1>1 DEF Succeeded, ClearFailure, Lifecycle, Session, State
<1>2. CASE ~Accepts(l, s)
  BY <1>2 DEF Succeeded, Lifecycle
<1> QED
  BY <1>1, <1>2

\* A failure the callback hears in time is recorded; a late one is dropped.
LEMMA FailedFacts ==
  ASSUME NEW l \in Lifecycle
  PROVE  /\ HiddenFailed(l) \in Lifecycle
         /\ HiddenFailed(l).client = l.client
         /\ HiddenFailed(l).authed = l.authed
         /\ HiddenFailed(l).user = l.user
         /\ ~Late /\ l.tx => /\ HiddenFailed(l).state = "DEGRADED"
                             /\ HiddenFailed(l).failed
                             /\ HiddenFailed(l).pending
         /\ Late \/ ~l.tx => HiddenFailed(l) = l
<1>1. CASE ~Late /\ l.tx
  BY <1>1 DEF HiddenFailed, RecordFailure, Lifecycle, State
<1>2. CASE Late \/ ~l.tx
  BY <1>2 DEF HiddenFailed
<1> QED
  BY <1>1, <1>2

LEMMA AttemptedFacts ==
  ASSUME NEW l \in Lifecycle
  PROVE  /\ Attempted(l) \in Lifecycle
         /\ Attempted(l).client = l.client
         /\ Attempted(l).authed = l.authed
         /\ Attempted(l).user = l.user
         /\ Attempted(l).state = l.state
         /\ Attempted(l).failed = l.failed
         /\ Attempted(l).pending = l.pending
         /\ ~Late => Attempted(l).tx
         /\ Late => Attempted(l) = l
BY DEF Attempted, Lifecycle

\* What a recovery within an authentication does: it is accepted, or recorded as
\* a failure, or changes nothing but the transaction.
LEMMA NestedFacts ==
  ASSUME lifecycle \in Lifecycle, session \in Session, Late \in BOOLEAN,
         NEW h \in Heard
  PROVE  /\ Nested(lifecycle, h) \in Lifecycle
         /\ Nested(lifecycle, h).client = lifecycle.client
         /\ h # "success" => ~NestedAccepts(h)
         /\ NestedAccepts(h) => /\ Nested(lifecycle, h).authed
                                /\ Nested(lifecycle, h).user = session.user
                                /\ session.user # 0
                                /\ Nested(lifecycle, h).state = "READY"
                                /\ ~Nested(lifecycle, h).pending
                                /\ ~Nested(lifecycle, h).tx
         /\ ~NestedAccepts(h) =>
              /\ Nested(lifecycle, h).authed = lifecycle.authed
              /\ Nested(lifecycle, h).user = lifecycle.user
              /\ \/ /\ Nested(lifecycle, h).state = lifecycle.state
                    /\ Nested(lifecycle, h).pending = lifecycle.pending
                 \/ /\ Nested(lifecycle, h).state = "DEGRADED"
                    /\ Nested(lifecycle, h).failed
                    /\ Nested(lifecycle, h).pending
              /\ h # "success" /\ lifecycle.tx /\ ~Late
                   => \/ Nested(lifecycle, h).state = "DEGRADED"
                      \/ Nested(lifecycle, h).tx
<1> DEFINE a == Attempted(lifecycle)
<1>a. a \in Lifecycle
  BY AttemptedFacts
<1>1. CASE h = "nothing"
  BY <1>1 DEF Nested, NestedAccepts
<1>2. CASE h = "failure"
  <2>1. Nested(lifecycle, h) = HiddenFailed(a) /\ ~NestedAccepts(h)
    BY <1>2 DEF Nested, NestedAccepts
  <2>2. CASE ~Late /\ a.tx
    BY <2>1, <2>2, <1>a, AttemptedFacts, FailedFacts
  <2>3. CASE Late \/ ~a.tx
    BY <2>1, <2>3, <1>a, AttemptedFacts, FailedFacts
  <2> QED
    BY <2>2, <2>3
<1>3. CASE h = "success"
  <2>1. /\ Nested(lifecycle, h) = Succeeded(a, session)
        /\ NestedAccepts(h) <=> Accepts(a, session)
        /\ h = "success"
    BY <1>3 DEF Nested, NestedAccepts, Heard
  <2>2. CASE Accepts(a, session)
    BY <2>1, <2>2, <1>a, AttemptedFacts, SucceededFacts DEF Accepts
  <2>3. CASE ~Accepts(a, session)
    <3>1. /\ Succeeded(a, session).authed = a.authed
          /\ Succeeded(a, session).user = a.user
          /\ Succeeded(a, session).state = a.state
          /\ Succeeded(a, session).pending = a.pending
          /\ Succeeded(a, session).client = a.client
          /\ Succeeded(a, session) \in Lifecycle
      BY <2>3, <1>a, SucceededFacts
    <3> QED
      BY <2>1, <2>3, <3>1, AttemptedFacts
  <2> QED
    BY <2>2, <2>3
<1> QED
  BY <1>1, <1>2, <1>3 DEF Heard

\* A login that fails is off the record only where the callback put it.
LEMMA DegradedFacts ==
  ASSUME NEW l \in Lifecycle, before.authed \in BOOLEAN
  PROVE  /\ Degraded(l) \in Lifecycle
         /\ Degraded(l).client = l.client
         /\ Degraded(l).authed <=> l.authed /\ before.authed
         /\ Degraded(l).user = IF before.authed THEN l.user ELSE 0
         /\ ~l.pending => Degraded(l).state = "DEGRADED" /\ Degraded(l).failed
         /\ l.pending => Degraded(l).state = l.state /\ Degraded(l).failed = l.failed
         /\ Degraded(l).tx = l.tx
<1> DEFINE authed == l.authed /\ before.authed
           user   == IF before.authed THEN l.user ELSE 0
           out    == [l EXCEPT !.authed = authed, !.user = user]
<1>0. authed \in BOOLEAN /\ user \in Token
  <2>1. user \in Token
    BY ClientBoundsAssumption DEF Lifecycle, Token
  <2>2. authed \in BOOLEAN
    OBVIOUS
  <2> QED
    BY <2>1, <2>2
<1> HIDE DEF authed, user
<1>1. /\ out \in Lifecycle /\ out.client = l.client /\ out.state = l.state
      /\ out.authed = authed /\ out.user = user
      /\ out.pending = l.pending /\ out.failed = l.failed /\ out.tx = l.tx
  BY <1>0 DEF Lifecycle
<1>2. Degraded(l) = IF out.pending THEN [out EXCEPT !.pending = FALSE]
                    ELSE RecordFailure(out, "DEGRADED")
  BY DEF Degraded, authed, user
<1>5. out.authed <=> l.authed /\ before.authed
  BY <1>1 DEF authed
<1>6. out.user = IF before.authed THEN l.user ELSE 0
  BY <1>1 DEF user
<1> HIDE DEF out
<1>3. CASE out.pending
  BY <1>1, <1>2, <1>3, <1>5, <1>6 DEF Lifecycle
<1>4. CASE ~out.pending
  BY <1>1, <1>2, <1>4, <1>5, <1>6, RecordFacts DEF State
<1> QED
  BY <1>3, <1>4

\* A job that is rolled back keeps the client, takes the authentication and the
\* profile it found, and ends in the state it is in or degraded.
LEMMA RolledBackFacts ==
  ASSUME lifecycle \in Lifecycle, saved.l \in Lifecycle
  PROVE  /\ RolledBack \in Lifecycle
         /\ RolledBack.client = lifecycle.client
         /\ RolledBack.authed = saved.l.authed
         /\ RolledBack.user = saved.l.user
         /\ RolledBack.state \in {lifecycle.state, "DEGRADED"}
         /\ lifecycle.failed => RolledBack.failed
<1> DEFINE l == [lifecycle EXCEPT !.authed = saved.l.authed, !.user = saved.l.user]
           cut == err = "interrupt" /\ l.tx
           known == cut \/ l.pending
           rec == IF cut THEN RecordFailure(l, "DEGRADED") ELSE l
           out == [rec EXCEPT !.tx = @ /\ ~cut, !.pending = FALSE]
<1>1. /\ l \in Lifecycle /\ l.client = lifecycle.client /\ l.state = lifecycle.state
      /\ l.authed = saved.l.authed /\ l.user = saved.l.user
      /\ l.failed = lifecycle.failed
  BY DEF Lifecycle
<1>2. /\ rec \in Lifecycle /\ rec.client = lifecycle.client
      /\ rec.state \in {lifecycle.state, "DEGRADED"}
      /\ rec.authed = saved.l.authed /\ rec.user = saved.l.user
      /\ lifecycle.failed => rec.failed
  <2> HIDE DEF l
  <2>1. CASE cut
    BY <1>1, <2>1, RecordFacts DEF State
  <2>2. CASE ~cut
    BY <1>1, <2>2
  <2> QED
    BY <2>1, <2>2
<1>3. /\ out \in Lifecycle /\ out.client = lifecycle.client
      /\ out.state \in {lifecycle.state, "DEGRADED"}
      /\ out.authed = saved.l.authed /\ out.user = saved.l.user
      /\ lifecycle.failed => out.failed
  <2> HIDE DEF rec, cut
  <2> QED
    BY <1>2 DEF Lifecycle
<1>4. RolledBack = IF Authoritative /\ out.state # "DEGRADED" /\ ~known
                   THEN RecordFailure(out, "DEGRADED") ELSE out
  BY DEF RolledBack
<1> HIDE DEF out, known
<1> QED
  BY <1>3, <1>4, RecordFacts DEF State

-----------------------------------------------------------------------------
(***************************************************************************)
(* Every step keeps the invariant: callers and time first.                 *)
(***************************************************************************)

LEMMA InitInv == Init => ClientInv
<1> SUFFICES ASSUME Init PROVE ClientInv
  OBVIOUS
<1> USE DEF Init, FirstLifecycle, NoSession, Idle
<1>1. SharedTypeOK
  <2>1. 0 \in Token
    BY ClientBoundsAssumption DEF Token
  <2>2. lifecycle \in Lifecycle /\ session \in Session
    BY <2>1 DEF Lifecycle, Session, State
  <2>3. call \in [Callers -> CallRecord]
    BY DEF Kind, CallRecord
  <2>4. /\ saved \in [l : Lifecycle, s : Session]
        /\ before \in [s : Session, authed : BOOLEAN, late : BOOLEAN]
        /\ gen \in [job : BOOLEAN, login : BOOLEAN]
    BY <2>2
  <2>5. /\ {slot, job} \subseteq Callers \cup {NoCaller}
        /\ pc \in Step /\ err \in {"none"} \cup Failure
    BY DEF Step
  <2>6. /\ attempt \in 0..MaxRetries /\ drawn \in Token /\ refused \subseteq Token
        /\ interrupts \in 0..MaxInterrupts
    BY <2>1, ClientBoundsAssumption
  <2>7. loginFailed \in BOOLEAN /\ rejected \in BOOLEAN
    OBVIOUS
  <2> QED
    BY <2>2, <2>3, <2>4, <2>5, <2>6, <2>7 DEF SharedTypeOK, CallRecord
<1>2. Sessions /\ Unborn /\ Worker
  BY DEF Sessions, Unborn, Worker, Backed, Blank
<1>3. KindOfStep /\ BeforeOfStep /\ LoginOfStep
  BY DEF KindOfStep, BeforeOfStep, LoginOfStep
<1>4. Attempts /\ OnRecord /\ Refusals
  BY DEF Attempts, OnRecord, Refusals, Settled
<1> QED
  BY <1>1, <1>2, <1>3, <1>4 DEF ClientInv

\* While a job is under way, its caller and its kind are known.
LEMMA Running ==
  ASSUME SharedTypeOK, Worker, pc # "idle"
  PROVE  /\ job \in Callers /\ call[job].at = "running"
         /\ kind \in Kind /\ Late \in BOOLEAN
BY DEF SharedTypeOK, Worker, kind, Late

\* What a caller does never reaches the job under way, but for the deadline.
LEMMA CallerStep ==
  ASSUME ClientInv, NEW c \in Callers,
         \/ \E k \in Kind : Ask(c, k)
         \/ Enqueue(c) \/ Reject(c) \/ Expire(c) \/ GiveUp(c) \/ DropExpired
  PROVE  ClientInv'
<1>1. UNCHANGED <<lifecycle, session, worker, history>>
  BY DEF Ask, Enqueue, Reject, Expire, GiveUp, DropExpired
<1>2. SharedTypeOK'
  <2>1. /\ call' \in [Callers -> CallRecord]
        /\ slot' \in Callers \cup {NoCaller}
    <3>0. call \in [Callers -> CallRecord] /\ slot \in Callers \cup {NoCaller}
      BY DEF ClientInv, SharedTypeOK, CallRecord
    <3>1. CASE \E k \in Kind : Ask(c, k)
      BY <3>0, <3>1 DEF Ask, CallRecord
    <3>2. CASE Enqueue(c) \/ GiveUp(c)
      BY <3>0, <3>2 DEF Enqueue, GiveUp, CallRecord
    <3>5. CASE Reject(c)
      <4>1. Idle \in CallRecord
        BY DEF Idle, CallRecord, Kind
      <4> QED
        BY <3>0, <3>5, <4>1 DEF Reject
    <3>3. CASE Expire(c)
      <4> DEFINE e == [call[c] EXCEPT !.late = TRUE]
      <4>1. e \in CallRecord /\ call' = [call EXCEPT ![c] = e] /\ slot' = slot
        BY <3>0, <3>3 DEF Expire, CallRecord
      <4> HIDE DEF e
      <4> QED
        BY <3>0, <4>1
    <3>4. CASE DropExpired
      <4>1. Idle \in CallRecord
        BY DEF Idle, CallRecord, Kind
      <4>2. slot \in Callers /\ call' = [call EXCEPT ![slot] = Idle] /\ slot' = NoCaller
        BY <3>0, <3>4 DEF DropExpired
      <4> QED
        BY <3>0, <4>1, <4>2
    <3> QED
      BY <3>1, <3>2, <3>3, <3>4, <3>5
  <2> QED
    BY <1>1, <2>1 DEF ClientInv, SharedTypeOK, CallRecord, worker, history
<1>3. ASSUME job # NoCaller
      PROVE  /\ call'[job].at = "running" /\ call'[job].kind = call[job].kind
             /\ ~call'[job].late => ~call[job].late
  <2>1. job \in Callers /\ call[job].at = "running"
    BY <1>3 DEF ClientInv, SharedTypeOK, Worker
  <2>2. CASE (\E k \in Kind : Ask(c, k)) \/ Enqueue(c) \/ Reject(c)
    BY <2>1, <2>2 DEF Ask, Enqueue, Reject, ClientInv, SharedTypeOK
  <2>3. CASE Expire(c) \/ GiveUp(c)
    BY <2>1, <2>3 DEF Expire, GiveUp, ClientInv, SharedTypeOK
  <2>4. CASE DropExpired
    BY <1>3, <2>4 DEF DropExpired
  <2> QED
    BY <2>2, <2>3, <2>4
<1>4. pc # "idle" => kind' = kind /\ (~Late' => ~Late)
  BY <1>1, <1>3 DEF ClientInv, Worker, kind, Late, worker
<1> USE <1>1 DEF ClientInv, worker, history
<1>5. (Sessions /\ Unborn /\ Attempts /\ OnRecord)'
  BY DEF Sessions, Unborn, Attempts, OnRecord
<1>6. Worker'
  BY <1>3 DEF Worker
<1>7. (KindOfStep /\ BeforeOfStep /\ LoginOfStep)'
  BY <1>4 DEF KindOfStep, BeforeOfStep, LoginOfStep
<1>8. Refusals'
  BY <1>4 DEF Refusals
<1> QED
  BY <1>2, <1>5, <1>6, <1>7, <1>8

LEMMA BackoffStep == ClientInv /\ BackoffOver => ClientInv'
<1> SUFFICES ASSUME ClientInv, BackoffOver PROVE ClientInv'
  OBVIOUS
<1>1. /\ lifecycle' \in Lifecycle /\ saved' \in [l : Lifecycle, s : Session]
      /\ \A f \in {"client", "authed", "user", "state", "failed", "pending", "tx"} :
           lifecycle'[f] = lifecycle[f] /\ saved'.l[f] = saved.l[f]
      /\ saved'.s = saved.s
  BY DEF ClientInv, SharedTypeOK, BackoffOver, Lifecycle, Session
<1>2. /\ lifecycle'.client = lifecycle.client /\ lifecycle'.authed = lifecycle.authed
      /\ lifecycle'.user = lifecycle.user /\ lifecycle'.state = lifecycle.state
      /\ lifecycle'.failed = lifecycle.failed /\ lifecycle'.pending = lifecycle.pending
      /\ lifecycle'.tx = lifecycle.tx
      /\ saved'.l.client = saved.l.client /\ saved'.l.authed = saved.l.authed
      /\ saved'.l.user = saved.l.user /\ saved'.l.state = saved.l.state
      /\ saved'.l.pending = saved.l.pending
  BY <1>1
<1>3. UNCHANGED <<session, call, slot, job, pc, before, gen, attempt, err, history>>
  BY DEF BackoffOver
<1>4. kind' = kind /\ Late' = Late
  BY <1>3 DEF kind, Late
<1> USE DEF ClientInv
<1>5. SharedTypeOK'
  BY <1>1, <1>3 DEF SharedTypeOK, history
<1>6. (Sessions /\ Unborn /\ Worker)'
  BY <1>1, <1>2, <1>3 DEF Sessions, Unborn, Worker, Backed, Blank, history
<1>7. (KindOfStep /\ BeforeOfStep /\ LoginOfStep)'
  BY <1>2, <1>3, <1>4 DEF KindOfStep, BeforeOfStep, LoginOfStep, Settled, history
<1>8. (Attempts /\ OnRecord)'
  BY <1>2, <1>3 DEF Attempts, OnRecord, Settled, history
<1>9. Refusals'
  BY <1>2, <1>3, <1>4 DEF Refusals, history
<1> QED
  BY <1>5, <1>6, <1>7, <1>8, <1>9

-----------------------------------------------------------------------------
(***************************************************************************)
(* The worker takes a job.                                                 *)
(***************************************************************************)

LEMMA BeginStep == ClientInv /\ Begin => ClientInv'
<1> SUFFICES ASSUME ClientInv, Begin PROVE ClientInv'
  OBVIOUS
<1> USE DEF ClientInv
<1>1. /\ slot \in Callers /\ job' = slot /\ slot' = NoCaller /\ pc = "idle"
      /\ call' = [call EXCEPT ![slot].at = "running"]
      /\ saved' = [l |-> lifecycle, s |-> session]
      /\ gen' = [job |-> FALSE, login |-> FALSE]
      /\ attempt' = 0 /\ refused' = {} /\ loginFailed' = FALSE /\ rejected' = FALSE
      /\ UNCHANGED <<lifecycle, session, before, drawn, interrupts>>
  BY DEF Begin, Worker, SharedTypeOK
<1>2. /\ call'[slot].at = "running" /\ kind' = call[slot].kind /\ slot # NoCaller
      /\ call' \in [Callers -> CallRecord]
  BY <1>1, CallersAssumption DEF SharedTypeOK, CallRecord, kind
<1>3. /\ pc' \in {"end", "send", "init", "login"} /\ err' \in {"none", "error"}
      /\ pc' = "init" => kind' \in {"init", "ensure_ready"}
      /\ pc' = "login" => \/ kind' \in {"login", "relogin"}
                          \/ kind' = "snapshot" /\ lifecycle.client
      /\ pc' = "send" => \/ kind' = "call"
                         \/ kind' = "snapshot" /\ lifecycle.client
  <2>1. call[slot].kind \in Kind
    BY <1>1 DEF SharedTypeOK
  <2> QED
    BY <1>2, <2>1 DEF Begin, Goto, Ends, FirstStep, Kind
<1>4. SharedTypeOK'
  <2>1. /\ saved' \in [l : Lifecycle, s : Session]
        /\ gen' \in [job : BOOLEAN, login : BOOLEAN]
    BY <1>1 DEF SharedTypeOK
  <2>2. /\ attempt' \in 0..MaxRetries
        /\ {slot', job'} \subseteq Callers \cup {NoCaller}
        /\ pc' \in Step /\ err' \in {"none"} \cup Failure
    BY <1>1, <1>3, ClientBoundsAssumption DEF Failure, Step
  <2> QED
    BY <1>1, <1>2, <2>1, <2>2 DEF SharedTypeOK, CallRecord
<1>5. (Sessions /\ Unborn /\ Worker)'
  BY <1>1, <1>2, <1>3 DEF Sessions, Unborn, Worker, SharedTypeOK, Session, Token
<1>6. (KindOfStep /\ BeforeOfStep /\ LoginOfStep)'
  BY <1>1, <1>3 DEF KindOfStep, BeforeOfStep, LoginOfStep
<1>7. (Attempts /\ OnRecord)'
  BY <1>1, <1>3 DEF Attempts, OnRecord
<1>8. Refusals'
  BY <1>1, <1>3 DEF Refusals
<1> QED
  BY <1>4, <1>5, <1>6, <1>7, <1>8

-----------------------------------------------------------------------------
(***************************************************************************)
(* How a step of the worker goes on.                                       *)
(***************************************************************************)

\* A step of the worker leaves its caller alone.
LEMMA Frame ==
  ASSUME ClientInv, pc # "idle", UNCHANGED <<call, slot, job>>
  PROVE  /\ kind' = kind /\ Late' = Late /\ kind \in Kind /\ Late \in BOOLEAN
         /\ pc' # "idle" => Worker'
BY Running DEF ClientInv, Worker, kind, Late

\* A job that raises ends; ensure_ready swallows what is not an interrupt.
LEMMA RaiseFacts ==
  ASSUME ClientInv, NEW e \in Failure, Raise(e)
  PROVE  /\ pc' = "end" /\ err' \in {"none", e}
         /\ e = "interrupt" => err' = "interrupt"
         /\ interrupts' \in 0..MaxInterrupts
<1>1. interrupts \in 0..MaxInterrupts
  BY DEF ClientInv, SharedTypeOK
<1>2. interrupts' \in 0..MaxInterrupts
  BY <1>1, ClientBoundsAssumption DEF Raise
<1> QED
  BY <1>2 DEF Raise, Ends

\* A request that failed for now is sent again, or the job ends.
LEMMA RetryFacts ==
  ASSUME ClientInv, Retry
  PROVE  /\ attempt' \in 0..MaxRetries
         /\ \/ pc' = "send" /\ err' = err
            \/ pc' = "end" /\ err' \in {"deadline", "error"}
<1>1. attempt \in 0..MaxRetries
  BY DEF ClientInv, SharedTypeOK
<1>2. attempt' \in 0..MaxRetries
  BY <1>1, ClientBoundsAssumption DEF Retry
<1> QED
  BY <1>2 DEF Retry, Goto, Ends

\* The game hands out a token nobody has seen.
LEMMA TokenFacts ==
  ASSUME ClientInv, NewToken
  PROVE  /\ drawn \in Token /\ drawn' \in Token /\ drawn' # 0
         /\ 0..drawn \subseteq 0..drawn' /\ drawn' \in 0..drawn'
         /\ drawn' \notin 0..drawn
BY ClientBoundsAssumption DEF ClientInv, SharedTypeOK, NewToken, Token

LEMMA RotateFacts ==
  ASSUME ClientInv, Rotate
  PROVE  /\ session' \in Session /\ drawn' \in Token
         /\ 0..drawn \subseteq 0..drawn' /\ session'.token \in 0..drawn'
         /\ session'.user = session.user
         /\ session'.token = session.token \/ session'.token \notin 0..drawn
         /\ session.token = 0 => session' = session
         /\ session.token # 0 => session'.token # 0
<1>1. session \in Session /\ drawn \in Token /\ session.token \in 0..drawn
  BY DEF ClientInv, SharedTypeOK, Sessions
<1>2. CASE UNCHANGED <<session, drawn>>
  BY <1>1, <1>2
<1>3. CASE session.token # 0 /\ NewToken /\ session' = [session EXCEPT !.token = drawn']
  BY <1>1, <1>3, TokenFacts DEF Session
<1> QED
  BY <1>2, <1>3 DEF Rotate

-----------------------------------------------------------------------------
(***************************************************************************)
(* _initialize_client and login_account.                                   *)
(***************************************************************************)

LEMMA InitializeClientStep == ClientInv /\ InitializeClient => ClientInv'
<1> SUFFICES ASSUME ClientInv, InitializeClient PROVE ClientInv'
  OBVIOUS
<1>1. /\ pc = "init" /\ kind' = kind /\ Late' = Late /\ kind \in {"init", "ensure_ready"}
      /\ UNCHANGED <<session, call, slot, job, saved, before, gen, attempt,
                     drawn, refused, loginFailed, rejected>>
  BY Frame DEF InitializeClient, ClientInv, KindOfStep
<1>2. /\ lifecycle' \in Lifecycle /\ interrupts' \in 0..MaxInterrupts
      /\ err' \in {"none"} \cup Failure
      /\ UNCHANGED <<lifecycle.client, lifecycle.authed, lifecycle.user,
                     lifecycle.pending>>
      /\ \/ pc' = "end" /\ UNCHANGED lifecycle
         \/ pc' = "login" /\ UNCHANGED lifecycle /\ kind # "init"
         \/ pc' = "build" /\ ~lifecycle.client
  <2>1. CASE lifecycle.client /\ AfterInit /\ UNCHANGED <<lifecycle, interrupts>>
    BY <2>1 DEF AfterInit, Goto, Ends, ClientInv, SharedTypeOK
  <2>2. CASE Raise("error") /\ UNCHANGED lifecycle
    BY <2>2, RaiseFacts DEF Failure, ClientInv, SharedTypeOK
  <2>3. CASE /\ lifecycle' = [lifecycle EXCEPT !.state = "INITIALIZING"]
             /\ Goto("build") /\ UNCHANGED <<err, interrupts>> /\ ~lifecycle.client
    BY <2>3 DEF Goto, Lifecycle, State, ClientInv, SharedTypeOK
  <2> QED
    BY <2>1, <2>2, <2>3 DEF InitializeClient
<1> USE DEF ClientInv
<1>3. SharedTypeOK'
  BY <1>1, <1>2 DEF SharedTypeOK, Step
<1>4. (Sessions /\ Unborn)'
  BY <1>1, <1>2 DEF Sessions, Unborn, Backed, Blank
<1>5. Worker'
  BY <1>1, <1>2, Frame
<1>6. (KindOfStep /\ BeforeOfStep /\ LoginOfStep)'
  BY <1>1, <1>2 DEF KindOfStep, BeforeOfStep, LoginOfStep
<1>7. (Attempts /\ OnRecord)'
  BY <1>1, <1>2 DEF Attempts, OnRecord, LoginOfStep
<1>8. Refusals'
  BY <1>1, <1>2 DEF Refusals, LoginOfStep
<1> QED
  BY <1>3, <1>4, <1>5, <1>6, <1>7, <1>8

LEMMA CommitClientStep == ClientInv /\ CommitClient => ClientInv'
<1> SUFFICES ASSUME ClientInv, CommitClient PROVE ClientInv'
  OBVIOUS
<1>1. /\ pc = "build" /\ kind' = kind /\ Late' = Late /\ kind \in {"init", "ensure_ready"}
      /\ session' = NoSession
      /\ UNCHANGED <<call, slot, job, saved, before, gen, attempt, history>>
  BY Frame DEF CommitClient, ClientInv, KindOfStep
<1>2. /\ lifecycle' \in Lifecycle /\ lifecycle'.client /\ ~lifecycle'.authed
      /\ lifecycle'.user = 0 /\ lifecycle'.state = "DEGRADED"
      /\ lifecycle'.pending = lifecycle.pending
  <2> DEFINE l == ClearFailure(lifecycle)
  <2>1. l \in Lifecycle /\ l.pending = lifecycle.pending
    BY ClearFacts DEF ClientInv, SharedTypeOK
  <2>2. 0 \in Token
    BY ClientBoundsAssumption DEF Token
  <2>3. lifecycle' = [l EXCEPT !.client = TRUE, !.authed = FALSE, !.user = 0,
                               !.state = "DEGRADED"]
    BY DEF CommitClient
  <2> HIDE DEF l
  <2> QED
    BY <2>1, <2>2, <2>3 DEF Lifecycle, State
<1>3. \/ pc' = "end" /\ err' = "none"
      \/ pc' = "login" /\ kind # "init" /\ err' = err
  BY DEF CommitClient, AfterInit, Goto, Ends
<1>4. session' \in Session /\ session'.token = 0 /\ session'.user = 0
  BY <1>1, ClientBoundsAssumption DEF Session, NoSession, Token
<1> USE DEF ClientInv
<1>5. SharedTypeOK'
  BY <1>1, <1>2, <1>3, <1>4 DEF SharedTypeOK, Step, history
<1>6. (Sessions /\ Unborn)'
  <2>1. 0 \in 0..drawn
    BY DEF SharedTypeOK, Token
  <2> QED
    BY <1>1, <1>2, <1>3, <1>4, <2>1 DEF Sessions, Unborn, Backed, Blank, history
<1>7. Worker'
  BY <1>1, <1>3, Frame
<1>8. (KindOfStep /\ BeforeOfStep /\ LoginOfStep)'
  BY <1>1, <1>3 DEF KindOfStep, BeforeOfStep, LoginOfStep, history
<1>9. (Attempts /\ OnRecord)'
  BY <1>1, <1>2, <1>3 DEF Attempts, OnRecord, LoginOfStep, Settled, history
<1>10. Refusals'
  BY <1>1, <1>3 DEF Refusals, LoginOfStep, history
<1> QED
  BY <1>5, <1>6, <1>7, <1>8, <1>9, <1>10

LEMMA BuildFailsStep ==
  ASSUME ClientInv, NEW e \in Failure, BuildFails(e) PROVE ClientInv'
<1>1. /\ pc = "build" /\ kind' = kind /\ Late' = Late
      /\ UNCHANGED <<session, call, slot, job, saved, before, gen, attempt,
                     drawn, refused, loginFailed, rejected>>
  BY Frame DEF BuildFails
<1>2. /\ pc' = "end" /\ err' \in {"none", e} /\ interrupts' \in 0..MaxInterrupts
      /\ e = "interrupt" => err' = "interrupt"
  BY RaiseFacts DEF BuildFails
<1>3. /\ lifecycle' \in Lifecycle
      /\ UNCHANGED <<lifecycle.client, lifecycle.authed, lifecycle.user>>
      /\ e # "interrupt" => lifecycle'.state = "FAILED"
  BY RecordFacts DEF BuildFails, ClientInv, SharedTypeOK, State
<1> USE DEF ClientInv
<1>4. SharedTypeOK'
  BY <1>1, <1>2, <1>3 DEF SharedTypeOK, Step
<1>5. (Sessions /\ Unborn)'
  BY <1>1, <1>2, <1>3 DEF Sessions, Unborn, Backed, Blank
<1>6. Worker'
  BY <1>1, <1>2, Frame
<1>7. (KindOfStep /\ BeforeOfStep /\ LoginOfStep)'
  BY <1>1, <1>2 DEF KindOfStep, BeforeOfStep, LoginOfStep
<1>8. (Attempts /\ OnRecord)'
  BY <1>1, <1>2, <1>3 DEF Attempts, OnRecord, LoginOfStep, KindOfStep, Settled
<1>9. Refusals'
  BY <1>1, <1>2 DEF Refusals, LoginOfStep
<1> QED
  BY <1>4, <1>5, <1>6, <1>7, <1>8, <1>9

LEMMA BeginLoginStep == ClientInv /\ BeginLogin => ClientInv'
<1> SUFFICES ASSUME ClientInv, BeginLogin PROVE ClientInv'
  OBVIOUS
<1>1. /\ pc = "login" /\ kind' = kind /\ Late' = Late /\ Late \in BOOLEAN
      /\ kind \in {"login", "relogin", "ensure_ready", "snapshot"}
      /\ UNCHANGED <<session, call, slot, job, saved, attempt, drawn, refused,
                     loginFailed, rejected>>
  BY Frame DEF BeginLogin, ClientInv, KindOfStep
<1> DEFINE Out  == /\ pc' = "end" /\ err' \in {"none", "error"}
                   /\ UNCHANGED <<lifecycle, before, gen>>
                   /\ interrupts' \in 0..MaxInterrupts
           Auth == /\ pc' = "auth" /\ lifecycle.client
                   /\ before' = [s |-> session, authed |-> lifecycle.authed, late |-> Late]
                   /\ gen' = [gen EXCEPT !.login = FALSE]
                   /\ lifecycle' = [lifecycle EXCEPT
                           !.state = IF lifecycle.authed THEN "REAUTHENTICATING"
                                     ELSE "INITIALIZING"]
                   /\ UNCHANGED <<err, interrupts>>
<1>2. Out \/ Auth
  <2>1. CASE kind = "login" /\ AfterLogin /\ UNCHANGED <<lifecycle, before, gen, interrupts>>
    BY <2>1 DEF AfterLogin, Ends, ClientInv, SharedTypeOK
  <2>2. CASE Raise("error") /\ UNCHANGED <<lifecycle, before, gen>>
    BY <2>2, RaiseFacts DEF Failure
  <2> QED
    BY <2>1, <2>2 DEF BeginLogin, Goto
<1> USE DEF ClientInv
<1>3. CASE Out
  <2>1. (SharedTypeOK /\ Sessions /\ Unborn)'
    BY <1>1, <1>3 DEF SharedTypeOK, Step, Failure, Sessions, Unborn
  <2>2. Worker'
    BY <1>1, <1>3, Frame
  <2>3. (KindOfStep /\ BeforeOfStep /\ LoginOfStep)'
    BY <1>1, <1>3 DEF KindOfStep, BeforeOfStep, LoginOfStep
  <2>4. (Attempts /\ OnRecord /\ Refusals)'
    BY <1>1, <1>3 DEF Attempts, OnRecord, LoginOfStep, Refusals
  <2> QED
    BY <2>1, <2>2, <2>3, <2>4
<1>4. CASE Auth
  <2>1. /\ lifecycle' \in Lifecycle /\ ~Settled(lifecycle')
        /\ UNCHANGED <<lifecycle.client, lifecycle.authed, lifecycle.user,
                       lifecycle.pending>>
    BY <1>4 DEF SharedTypeOK, Lifecycle, State, Settled
  <2>2. /\ before' \in [s : Session, authed : BOOLEAN, late : BOOLEAN]
        /\ before'.s = session /\ before'.authed = lifecycle.authed
        /\ gen' \in [job : BOOLEAN, login : BOOLEAN]
        /\ ~gen'.login /\ gen'.job = gen.job
    BY <1>1, <1>4 DEF SharedTypeOK, Lifecycle
  <2>3. SharedTypeOK'
    BY <1>1, <1>4, <2>1, <2>2 DEF SharedTypeOK, Step
  <2>4. (Sessions /\ Unborn)'
    BY <1>1, <1>4, <2>1, <2>2 DEF Sessions, Unborn, Backed, Blank
  <2>5. Worker'
    BY <1>1, <1>4, Frame
  <2>6. (KindOfStep /\ BeforeOfStep /\ LoginOfStep)'
    BY <1>1, <1>4, <2>1, <2>2 DEF KindOfStep, BeforeOfStep, LoginOfStep
  <2>7. (Attempts /\ OnRecord /\ Refusals)'
    BY <1>1, <1>4, <2>1, <2>2 DEF Attempts, OnRecord, LoginOfStep, Refusals
  <2> QED
    BY <2>3, <2>4, <2>5, <2>6, <2>7
<1> QED
  BY <1>2, <1>3, <1>4

LEMMA CommitLoginStep == ClientInv /\ CommitLogin => ClientInv'
<1> SUFFICES ASSUME ClientInv, CommitLogin PROVE ClientInv'
  OBVIOUS
<1>1. /\ pc = "auth" /\ kind' = kind /\ Late' = Late
      /\ kind \in {"login", "relogin", "ensure_ready", "snapshot"}
      /\ UNCHANGED <<call, slot, job, saved, before, gen, attempt, refused,
                     loginFailed, rejected, interrupts>>
  BY Frame DEF CommitLogin, ClientInv, KindOfStep
<1>2. /\ drawn' \in Token /\ drawn' # 0 /\ 0..drawn \subseteq 0..drawn'
      /\ drawn' \in 0..drawn' /\ session' \in Session
      /\ session'.token = drawn' /\ session'.user = drawn'
  BY TokenFacts DEF CommitLogin, Authenticates, Session
<1>3. /\ lifecycle' \in Lifecycle /\ lifecycle'.client = lifecycle.client
      /\ lifecycle'.user = drawn' /\ lifecycle'.state = "READY" /\ ~lifecycle'.pending
  <2> DEFINE l == ClearFailure(lifecycle)
             n == drawn'
  <2>1. l \in Lifecycle /\ l.client = lifecycle.client
    BY ClearFacts DEF ClientInv, SharedTypeOK
  <2>2. lifecycle' = [l EXCEPT !.user = n, !.authed = TRUE, !.state = "READY",
                               !.pending = FALSE]
    BY DEF CommitLogin
  <2>3. n \in Token
    BY <1>2
  <2> HIDE DEF l, n
  <2>4. /\ lifecycle' \in Lifecycle /\ lifecycle'.client = lifecycle.client
        /\ lifecycle'.user = n /\ lifecycle'.state = "READY" /\ ~lifecycle'.pending
    BY <2>1, <2>2, <2>3 DEF Lifecycle, State
  <2> QED
    BY <2>4 DEF n
<1>4. \/ pc' = "end" /\ err' = "none" /\ kind # "snapshot"
      \/ pc' = "send" /\ kind = "snapshot" /\ err' = err
  BY DEF CommitLogin, AfterLogin, Goto, Ends
<1> USE DEF ClientInv
<1>5. SharedTypeOK'
  BY <1>1, <1>2, <1>3, <1>4 DEF SharedTypeOK, Step
<1>6. Sessions'
  BY <1>1, <1>2, <1>3 DEF Sessions, Backed
<1>7. Unborn'
  BY <1>1, <1>3, <1>4 DEF Unborn, BeforeOfStep, KindOfStep
<1>8. Worker'
  BY <1>1, <1>4, Frame
<1>9. (KindOfStep /\ BeforeOfStep /\ LoginOfStep)'
  BY <1>1, <1>4 DEF KindOfStep, BeforeOfStep, LoginOfStep
<1>10. (Attempts /\ OnRecord)'
  BY <1>1, <1>3, <1>4 DEF Attempts, OnRecord, LoginOfStep, Settled
<1>11. Refusals'
  BY <1>1, <1>4 DEF Refusals, LoginOfStep
<1> QED
  BY <1>5, <1>6, <1>7, <1>8, <1>9, <1>10, <1>11

LEMMA LoginFailsStep ==
  ASSUME ClientInv, NEW e \in Failure, NEW h \in Heard, LoginFails(e, h)
  PROVE  ClientInv'
<1> DEFINE n        == Nested(lifecycle, h)
           accepted == gen.login \/ NestedAccepts(h)
           committed == accepted /\ n.authed /\ n.state = "READY"
<1> USE DEF ClientInv
<1>1. /\ pc = "auth" /\ kind' = kind /\ Late' = Late /\ Late \in BOOLEAN
      /\ kind \in {"login", "relogin", "ensure_ready", "snapshot"}
      /\ loginFailed'
      /\ rejected' = (rejected \/ h = "success") /\ rejected \in BOOLEAN
      /\ UNCHANGED <<call, slot, job, saved, before, attempt, drawn, refused>>
  BY Frame DEF LoginFails, SharedTypeOK, KindOfStep
<1>2. /\ pc' = "end" /\ err' \in {"none", e} /\ interrupts' \in 0..MaxInterrupts
  BY RaiseFacts DEF LoginFails
<1>3. /\ before.s = session /\ ~gen.login /\ before.authed = lifecycle.authed
      /\ lifecycle.client /\ ~Settled(lifecycle) /\ before.authed \in BOOLEAN
      /\ lifecycle \in Lifecycle /\ session \in Session
  BY <1>1 DEF BeforeOfStep, SharedTypeOK
<1>4. session' = session
  BY <1>3 DEF LoginFails
<1>5. gen' \in [job : BOOLEAN, login : BOOLEAN]
  BY DEF LoginFails, SharedTypeOK
<1>6. /\ n \in Lifecycle /\ n.client
      /\ NestedAccepts(h) => committed /\ n.user # 0 /\ session.user # 0
      /\ ~NestedAccepts(h) => ~committed /\ n.authed = lifecycle.authed
                              /\ n.user = lifecycle.user
      /\ h # "success" => ~NestedAccepts(h)
  BY <1>1, <1>3, NestedFacts DEF Settled
<1>7. ~NestedAccepts(h) /\ n.pending
        => \/ n.state = "DEGRADED" /\ n.failed
           \/ lifecycle.pending
  BY <1>1, <1>3, NestedFacts
<1>8. lifecycle' = IF committed THEN n ELSE Degraded(n)
  BY DEF LoginFails
<1>9. CASE NestedAccepts(h)
  <2>1. lifecycle' = n /\ n.user # 0 /\ session.user # 0 /\ n.state = "READY"
    BY <1>6, <1>8, <1>9
  <2>2. SharedTypeOK'
    BY <1>1, <1>2, <1>4, <1>5, <1>6, <2>1 DEF SharedTypeOK, Step, Failure
  <2>3. (Sessions /\ Unborn)'
    BY <1>1, <1>2, <1>4, <1>6, <2>1 DEF Sessions, Unborn, Backed, Blank, NoSession
  <2>4. (Attempts /\ OnRecord)'
    BY <1>1, <1>2, <1>6, <1>9, <2>1 DEF Attempts, OnRecord, Settled
  <2> QED
    BY <1>1, <1>2, <1>4, <1>6, <1>9, <2>2, <2>3, <2>4, Frame
    DEF KindOfStep, BeforeOfStep, LoginOfStep, Refusals
<1>10. CASE ~NestedAccepts(h)
  <2>1. /\ lifecycle' = Degraded(n) /\ lifecycle' \in Lifecycle /\ lifecycle'.client
        /\ lifecycle'.authed <=> lifecycle.authed
        /\ lifecycle.authed => lifecycle'.user = lifecycle.user
        /\ ~lifecycle.authed => lifecycle'.user = 0
        /\ ~lifecycle.pending => lifecycle'.state = "DEGRADED" /\ lifecycle'.failed
    BY <1>3, <1>6, <1>7, <1>8, <1>10, DegradedFacts
  <2>2. SharedTypeOK'
    BY <1>1, <1>2, <1>3, <1>4, <1>5, <2>1 DEF SharedTypeOK, Step, Failure
  <2>3. (Sessions /\ Unborn)'
    BY <1>1, <1>2, <1>3, <1>4, <2>1 DEF Sessions, Unborn, Backed, Blank
  <2>4. (Attempts /\ OnRecord)'
    <3>1. ~saved.l.pending => ~lifecycle.pending
      BY <1>1 DEF Attempts
    <3>2. Attempts'
      BY <1>1, <1>2, <2>1, <3>1 DEF Attempts, Settled
    <3>3. OnRecord'
      BY <1>1, <1>2, <2>1, <3>1 DEF OnRecord
    <3> QED
      BY <3>2, <3>3
  <2> QED
    BY <1>1, <1>2, <1>4, <2>2, <2>3, <2>4, Frame
    DEF KindOfStep, BeforeOfStep, LoginOfStep, Refusals
<1> QED
  BY <1>9, <1>10

-----------------------------------------------------------------------------
(***************************************************************************)
(* One request.                                                            *)
(***************************************************************************)

\* A step of a request that leaves the lifecycle alone, and the session but for
\* a token nobody has seen.
LEMMA RequestStep ==
  ASSUME ClientInv, pc \in {"send", "request"},
         Rotate,
         UNCHANGED <<lifecycle, call, slot, job, saved, before, gen, refused,
                     loginFailed, rejected>>,
         pc' \in {"send", "request", "end"}, err' \in {"none"} \cup Failure,
         attempt' \in 0..MaxRetries, interrupts' \in 0..MaxInterrupts
  PROVE  ClientInv'
<1> USE DEF ClientInv
<1>1. /\ kind' = kind /\ Late' = Late /\ kind \in {"call", "snapshot"} /\ Worker'
  BY Frame DEF KindOfStep
<1>2. /\ session' \in Session /\ drawn' \in Token
      /\ 0..drawn \subseteq 0..drawn' /\ session'.token \in 0..drawn'
      /\ session'.user = session.user
      /\ session'.token = session.token \/ session'.token \notin 0..drawn
      /\ session.token = 0 => session' = session
      /\ session.token # 0 => session'.token # 0
  BY RotateFacts
<1>3. SharedTypeOK'
  BY <1>2 DEF SharedTypeOK, Step
<1>4. (Sessions /\ Unborn)'
  BY <1>2 DEF Sessions, Unborn, Backed, Blank, NoSession
<1>5. (KindOfStep /\ BeforeOfStep /\ LoginOfStep)'
  BY <1>1 DEF KindOfStep, BeforeOfStep, LoginOfStep
<1>6. (Attempts /\ OnRecord)'
  BY DEF Attempts, OnRecord, LoginOfStep
<1>7. Refusals'
  BY <1>1, <1>2 DEF Refusals, Sessions
<1> QED
  BY <1>1, <1>3, <1>4, <1>5, <1>6, <1>7

LEMMA SendAnswerStep == ClientInv /\ (Send \/ Answer \/ Transient) => ClientInv'
<1>1. ASSUME ClientInv, Send PROVE ClientInv'
  BY <1>1, RequestStep DEF Send, Rotate, Ends, Goto, Failure, history, ClientInv, SharedTypeOK
<1>2. ASSUME ClientInv, Answer PROVE ClientInv'
  BY <1>2, RequestStep DEF Answer, Ends, ClientInv, SharedTypeOK
<1>3. ASSUME ClientInv, Transient PROVE ClientInv'
  BY <1>3, RetryFacts, RequestStep
  DEF Transient, Rotate, Failure, history, ClientInv, SharedTypeOK
<1> QED
  BY <1>1, <1>2, <1>3

LEMMA RequestFailsStep ==
  ASSUME ClientInv, NEW e \in Failure, RequestFails(e) PROVE ClientInv'
BY RaiseFacts, RequestStep DEF RequestFails, ClientInv, SharedTypeOK

LEMMA BeginHiddenStep ==
  ASSUME ClientInv, NEW refusal \in BOOLEAN, BeginHidden(refusal) PROVE ClientInv'
<1> USE DEF ClientInv
<1>1. /\ pc = "request" /\ pc' = "hidden" /\ session.token # 0
      /\ kind' = kind /\ Late' = Late /\ Late \in BOOLEAN /\ Worker'
      /\ kind \in {"call", "snapshot"}
      /\ UNCHANGED <<session, call, slot, job, saved, gen, attempt, err, drawn,
                     loginFailed, rejected, interrupts>>
  BY Frame DEF BeginHidden, Goto, KindOfStep
<1>2. /\ lifecycle' \in Lifecycle /\ (~Late => lifecycle'.tx)
      /\ UNCHANGED <<lifecycle.client, lifecycle.authed, lifecycle.user,
                     lifecycle.state, lifecycle.failed, lifecycle.pending>>
  BY AttemptedFacts DEF BeginHidden, SharedTypeOK
<1>3. refused' \subseteq refused \cup {session.token}
  BY DEF BeginHidden
<1>4. /\ before' \in [s : Session, authed : BOOLEAN, late : BOOLEAN]
      /\ before'.s = session
  <2>1. before' = [before EXCEPT !.s = session, !.late = Late]
    BY DEF BeginHidden
  <2> QED
    BY <1>1, <2>1 DEF SharedTypeOK
<1>5. SharedTypeOK'
  <2>1. session.token \in Token
    BY DEF SharedTypeOK, Session
  <2> QED
    BY <1>1, <1>2, <1>3, <1>4, <2>1 DEF SharedTypeOK, Step
<1>6. (Sessions /\ Unborn)'
  BY <1>1, <1>2, <1>3, <1>4 DEF Sessions, Unborn, Backed, Blank
<1>7. (KindOfStep /\ BeforeOfStep /\ LoginOfStep)'
  BY <1>1, <1>2, <1>4 DEF KindOfStep, BeforeOfStep, LoginOfStep
<1>8. (Attempts /\ OnRecord)'
  BY <1>1, <1>2 DEF Attempts, OnRecord, LoginOfStep, Settled
<1>9. Refusals'
  BY <1>1, <1>2 DEF Refusals
<1> QED
  BY <1>1, <1>5, <1>6, <1>7, <1>8, <1>9

LEMMA HiddenLoginStep == ClientInv /\ HiddenLogin => ClientInv'
<1> SUFFICES ASSUME ClientInv, HiddenLogin PROVE ClientInv'
  OBVIOUS
<1> USE DEF ClientInv
<1>1. /\ pc = "hidden" /\ session.token # 0
      /\ kind' = kind /\ Late' = Late /\ Late \in BOOLEAN
      /\ kind \in {"call", "snapshot"}
      /\ UNCHANGED <<call, slot, job, saved, before, refused, loginFailed, rejected,
                     interrupts>>
  BY Frame DEF HiddenLogin, KindOfStep, BeforeOfStep
<1>2. /\ drawn' \in Token /\ drawn' # 0 /\ 0..drawn \subseteq 0..drawn'
      /\ drawn' \in 0..drawn' /\ drawn' \notin 0..drawn
      /\ session' \in Session /\ session'.token = drawn' /\ session'.user = drawn'
  BY TokenFacts DEF HiddenLogin, Authenticates, Session
<1>3. /\ attempt' \in 0..MaxRetries
      /\ \/ pc' = "send" /\ err' = err
         \/ pc' = "end" /\ err' \in {"deadline", "error"}
  BY RetryFacts DEF HiddenLogin
<1> DEFINE s == session'
           taken == Accepts(lifecycle, s)
<1>4. /\ lifecycle' = Succeeded(lifecycle, s) /\ s \in Session /\ lifecycle \in Lifecycle
      /\ gen' = IF taken THEN [job |-> TRUE, login |-> TRUE] ELSE gen
  BY <1>2 DEF HiddenLogin, SharedTypeOK
<1>5. taken <=> ~Late /\ lifecycle.tx
  BY <1>2 DEF Accepts
<1> HIDE DEF s, taken
<1>6. /\ lifecycle' \in Lifecycle /\ lifecycle'.client = lifecycle.client
      /\ taken => /\ lifecycle'.user = s.user /\ lifecycle'.state = "READY"
                  /\ ~lifecycle'.pending
      /\ ~taken => UNCHANGED <<lifecycle.authed, lifecycle.user, lifecycle.state,
                               lifecycle.failed, lifecycle.pending>>
  BY <1>1, <1>4, SucceededFacts DEF taken
<1>7. gen' \in [job : BOOLEAN, login : BOOLEAN] /\ (taken => gen'.job)
  BY <1>4 DEF SharedTypeOK
<1>8. s.user # 0
  BY <1>2 DEF s
<1>9. SharedTypeOK'
  BY <1>1, <1>2, <1>3, <1>6, <1>7 DEF SharedTypeOK, Step, Failure
<1>10. Sessions'
  BY <1>1, <1>2, <1>6, <1>8 DEF Sessions, Backed
<1>11. Unborn'
  BY <1>1, <1>6 DEF Unborn, Blank, NoSession
<1>12. Worker'
  BY <1>1, <1>3, Frame
<1>13. (KindOfStep /\ BeforeOfStep /\ LoginOfStep)'
  BY <1>1, <1>3 DEF KindOfStep, BeforeOfStep, LoginOfStep
<1>14. (Attempts /\ OnRecord)'
  BY <1>1, <1>3, <1>6 DEF Attempts, OnRecord, LoginOfStep, Settled
<1>15. Refusals'
  BY <1>1, <1>2, <1>3, <1>5, <1>7 DEF Refusals, Sessions
<1> QED
  BY <1>9, <1>10, <1>11, <1>12, <1>13, <1>14, <1>15

LEMMA HiddenLoginFailsStep ==
  ASSUME ClientInv, NEW e \in Failure, NEW h \in Heard, HiddenLoginFails(e, h)
  PROVE  ClientInv'
<1> USE DEF ClientInv
<1>1. /\ pc = "hidden" /\ session.token # 0 /\ before.s = session
      /\ kind' = kind /\ Late' = Late /\ Late \in BOOLEAN
      /\ kind \in {"call", "snapshot"}
      /\ session' = session
      /\ UNCHANGED <<call, slot, job, saved, before, attempt, drawn, refused,
                     loginFailed>>
      /\ rejected' = (rejected \/ h = "success") /\ rejected \in BOOLEAN
  BY Frame DEF HiddenLoginFails, SharedTypeOK, KindOfStep, BeforeOfStep
<1>2. /\ pc' = "end" /\ err' \in {"none", e} /\ interrupts' \in 0..MaxInterrupts
  BY RaiseFacts DEF HiddenLoginFails
<1> DEFINE n == Nested(lifecycle, h)
<1>3. /\ n \in Lifecycle /\ n.client = lifecycle.client
      /\ NestedAccepts(h) => n.user # 0 /\ session.user # 0 /\ n.state = "READY"
      /\ ~NestedAccepts(h) => /\ n.authed = lifecycle.authed /\ n.user = lifecycle.user
                              /\ n.state \in {lifecycle.state, "DEGRADED"}
      /\ h # "success" /\ lifecycle.tx /\ ~Late
           => n.state = "DEGRADED" \/ n.tx
  BY <1>1, NestedFacts DEF SharedTypeOK
<1>4. lifecycle' = HiddenFailed(n)
  BY DEF HiddenLoginFails
<1> HIDE DEF n
<1>5. /\ lifecycle' \in Lifecycle /\ lifecycle'.client = lifecycle.client
      /\ lifecycle'.authed = n.authed /\ lifecycle'.user = n.user
      /\ lifecycle'.state \in {n.state, "DEGRADED"}
      /\ ~Late /\ n.tx => lifecycle'.state = "DEGRADED"
  BY <1>1, <1>3, <1>4, FailedFacts
<1>6. gen' \in [job : BOOLEAN, login : BOOLEAN] /\ (gen.job => gen'.job)
  BY DEF HiddenLoginFails, SharedTypeOK
<1>7. SharedTypeOK'
  BY <1>1, <1>2, <1>5, <1>6 DEF SharedTypeOK, Step, Failure
<1>8. (Sessions /\ Unborn)'
  BY <1>1, <1>3, <1>5 DEF Sessions, Unborn, Backed, Blank, NoSession
<1>9. Worker'
  BY <1>1, <1>2, Frame
<1>10. (KindOfStep /\ BeforeOfStep /\ LoginOfStep)'
  BY <1>1, <1>2 DEF KindOfStep, BeforeOfStep, LoginOfStep
<1>11. (Attempts /\ OnRecord)'
  BY <1>1, <1>2, <1>3, <1>5 DEF Attempts, OnRecord, LoginOfStep, Settled
<1>12. Refusals'
  <2>1. ~rejected' /\ ~Late => lifecycle'.state = "DEGRADED"
    BY <1>1, <1>3, <1>5 DEF Refusals
  <2> QED
    BY <1>1, <1>2, <2>1 DEF Refusals
<1> QED
  BY <1>7, <1>8, <1>9, <1>10, <1>11, <1>12

-----------------------------------------------------------------------------
(***************************************************************************)
(* The job ends.                                                           *)
(***************************************************************************)

\* What guarded leaves: the state as it is, as the job found it, the failure of a
\* job that found no client, or the session rolled back.
Outcome ==
  \/ UNCHANGED <<lifecycle, session>>
  \/ lifecycle' = saved.l /\ session' = saved.s
  \/ /\ \E s \in {"FAILED", "DEGRADED"} : lifecycle' = RecordFailure(saved.l, s)
     /\ ~saved.l.client /\ session' = saved.s
  \/ lifecycle' = RolledBack /\ saved.l.client /\ session' = saved.s

LEMMA EndStep == ClientInv /\ End => ClientInv'
<1> SUFFICES ASSUME ClientInv, End PROVE ClientInv'
  OBVIOUS
<1> USE DEF ClientInv
<1>1. Finish /\ pc = "end"
  BY DEF End, EndAccepted, EndAbandoned, EndUnborn, EndRolledBack, EndKept
<1>2. Outcome
  BY DEF End, EndAccepted, EndAbandoned, EndUnborn, EndRolledBack, EndKept, Outcome
<1>3. /\ job \in Callers /\ job' = NoCaller /\ pc' = "idle"
      /\ call' = [call EXCEPT ![job] = Idle]
      /\ saved' = [l |-> FirstLifecycle, s |-> NoSession]
      /\ before' = [s |-> NoSession, authed |-> FALSE, late |-> FALSE]
      /\ gen' = [job |-> FALSE, login |-> FALSE]
      /\ attempt' = 0 /\ err' = "none" /\ refused' = {} /\ loginFailed' = FALSE /\ rejected' = FALSE
      /\ UNCHANGED <<slot, drawn, interrupts>>
  BY <1>1, Running DEF Finish, Forget, Goto
<1>4. /\ lifecycle \in Lifecycle /\ saved.l \in Lifecycle
      /\ session \in Session /\ saved.s \in Session
  BY DEF SharedTypeOK
<1>5. 0 \in Token /\ 0 \in 0..drawn
  BY ClientBoundsAssumption DEF Token, SharedTypeOK
<1>6. /\ lifecycle' \in Lifecycle /\ session' \in Session
      /\ session'.token \in 0..drawn /\ Backed(lifecycle', session')
      /\ ~lifecycle'.client => Blank(lifecycle', session')
  <2>1. CASE UNCHANGED <<lifecycle, session>>
    BY <1>4, <2>1 DEF Sessions, Unborn, Backed, Blank
  <2>2. CASE lifecycle' = saved.l /\ session' = saved.s
    BY <1>4, <2>2 DEF Sessions, Unborn, Backed, Blank
  <2>3. CASE /\ \E s \in {"FAILED", "DEGRADED"} : lifecycle' = RecordFailure(saved.l, s)
             /\ ~saved.l.client /\ session' = saved.s
    <3>1. /\ lifecycle' \in Lifecycle /\ UNCHANGED slot
          /\ lifecycle'.client = saved.l.client /\ lifecycle'.authed = saved.l.authed
          /\ lifecycle'.user = saved.l.user
      BY <1>3, <1>4, <2>3, RecordFacts DEF State
    <3> QED
      BY <1>4, <2>3, <3>1 DEF Sessions, Unborn, Backed, Blank
  <2>4. CASE lifecycle' = RolledBack /\ saved.l.client /\ session' = saved.s
    <3>1. /\ lifecycle' \in Lifecycle /\ lifecycle'.client = lifecycle.client
          /\ lifecycle'.authed = saved.l.authed /\ lifecycle'.user = saved.l.user
      BY <1>4, <2>4, RolledBackFacts
    <3>2. lifecycle.client
      BY <2>4 DEF Unborn
    <3> QED
      BY <1>4, <2>4, <3>1, <3>2 DEF Sessions, Unborn, Backed, Blank
  <2> QED
    BY <1>2, <2>1, <2>2, <2>3, <2>4 DEF Outcome
<1>7. SharedTypeOK'
  <2>1. FirstLifecycle \in Lifecycle /\ NoSession \in Session
    BY <1>5 DEF FirstLifecycle, NoSession, Lifecycle, Session, State
  <2>2. Idle \in CallRecord
    BY DEF Idle, CallRecord, Kind
  <2>3. call' \in [Callers -> CallRecord]
    BY <1>3, <2>2 DEF SharedTypeOK, CallRecord
  <2>4. /\ saved' \in [l : Lifecycle, s : Session]
        /\ before' \in [s : Session, authed : BOOLEAN, late : BOOLEAN]
        /\ gen' \in [job : BOOLEAN, login : BOOLEAN]
    BY <1>3, <2>1
  <2>5. attempt' \in 0..MaxRetries
    BY <1>3, ClientBoundsAssumption
  <2> QED
    BY <1>3, <1>6, <2>3, <2>4, <2>5 DEF SharedTypeOK, CallRecord, Step
<1>8. (Sessions /\ Unborn)'
  BY <1>3, <1>5, <1>6
  DEF Sessions, Unborn, Backed, Blank, FirstLifecycle, NoSession
<1>9. (Worker /\ KindOfStep /\ BeforeOfStep /\ LoginOfStep)'
  BY <1>3 DEF Worker, KindOfStep, BeforeOfStep, LoginOfStep
<1>10. (Attempts /\ OnRecord /\ Refusals)'
  BY <1>3 DEF Attempts, OnRecord, Refusals
<1> QED
  BY <1>7, <1>8, <1>9, <1>10

LEMMA NextInv == ClientInv /\ [Next]_vars => ClientInv'
<1> SUFFICES ASSUME ClientInv, [Next]_vars PROVE ClientInv'
  OBVIOUS
<1>1. ASSUME NEW c \in Callers,
             \/ \E k \in Kind : Ask(c, k)
             \/ Enqueue(c) \/ Reject(c) \/ Expire(c) \/ GiveUp(c)
      PROVE  ClientInv'
  BY <1>1, CallerStep
<1>2. CASE DropExpired
  <2>1. slot \in Callers
    BY <1>2 DEF DropExpired, ClientInv, SharedTypeOK
  <2> QED
    BY <1>2, <2>1, CallerStep
<1>3. CASE \/ Begin \/ InitializeClient \/ CommitClient \/ BeginLogin \/ CommitLogin
           \/ Send \/ Answer \/ Transient \/ HiddenLogin \/ End \/ BackoffOver
  BY <1>3, BeginStep, InitializeClientStep, CommitClientStep, BeginLoginStep,
    CommitLoginStep, SendAnswerStep, HiddenLoginStep, EndStep, BackoffStep
<1>4. ASSUME NEW e \in Failure, BuildFails(e) \/ RequestFails(e) PROVE ClientInv'
  BY <1>4, BuildFailsStep, RequestFailsStep
<1>5. ASSUME NEW e \in Failure, NEW h \in Heard,
             LoginFails(e, h) \/ HiddenLoginFails(e, h)
      PROVE  ClientInv'
  BY <1>5, LoginFailsStep, HiddenLoginFailsStep
<1>6. ASSUME NEW refusal \in BOOLEAN, BeginHidden(refusal) PROVE ClientInv'
  BY <1>6, BeginHiddenStep
<1>7. CASE UNCHANGED vars
  <2>1. kind' = kind /\ Late' = Late
    BY <1>7 DEF vars, worker, kind, Late
  <2> QED
    BY <1>7, <2>1 DEF vars, worker, history, ClientInv, SharedTypeOK, Sessions, Unborn,
      Worker, KindOfStep, BeforeOfStep, LoginOfStep, Attempts, OnRecord, Refusals
<1> QED
  BY <1>1, <1>2, <1>3, <1>4, <1>5, <1>6, <1>7 DEF Next

-----------------------------------------------------------------------------
(***************************************************************************)
(* The theorems.                                                           *)
(***************************************************************************)

\* Whatever the callers ask for, whenever they leave, and whatever the game
\* answers, the job, the session, the lifecycle and what the job goes back to
\* agree at every step of the worker.
THEOREM ClientInvariance == Spec => []ClientInv
<1> QED
  BY InitInv, NextInv, PTL DEF Spec

\* Every variable of the shared client has its type.
THEOREM ClientTypeCorrect == Spec => []SharedTypeOK
<1>1. ClientInv => SharedTypeOK
  BY DEF ClientInv
<1> QED
  BY <1>1, ClientInvariance, PTL

\* Whoever finds the client READY finds a token, a profile and a user behind it,
\* whichever of the nested roll-backs of a job, a login and a session came before.
THEOREM ReadinessBacked == Spec => []ReadyHasSession
<1>1. ClientInv => ReadyHasSession
  BY DEF ClientInv, Sessions, Backed, Ready, ReadyHasSession
<1> QED
  BY <1>1, ClientInvariance, PTL

\* A job ends by guarded alone.
LEMMA EndsByGuarded == ClientInv /\ [Next]_vars /\ JobEnds => End
<1> SUFFICES ASSUME ClientInv, [Next]_vars, pc = "end", pc' = "idle" PROVE End
  BY DEF JobEnds
<1>1. ASSUME NEW c \in Callers, NEW k \in Kind, Ask(c, k) PROVE FALSE
  BY <1>1 DEF Ask, worker
<1>2. ASSUME NEW c \in Callers, Enqueue(c) \/ Reject(c) \/ Expire(c) \/ GiveUp(c)
      PROVE  FALSE
  BY <1>2 DEF Enqueue, Reject, Expire, GiveUp, worker
<1>3. ~DropExpired /\ ~BackoffOver /\ ~UNCHANGED vars
  BY DEF DropExpired, BackoffOver, vars, worker
<1>4. ~Begin
  BY DEF Begin, ClientInv, Worker
<1>5. /\ ~InitializeClient /\ ~CommitClient /\ ~BeginLogin /\ ~CommitLogin
      /\ ~Send /\ ~Answer /\ ~Transient /\ ~HiddenLogin
  BY DEF InitializeClient, CommitClient, BeginLogin, CommitLogin, Send, Answer,
    Transient, HiddenLogin
<1>6. ASSUME NEW e \in Failure, NEW h \in Heard,
             BuildFails(e) \/ RequestFails(e) \/ LoginFails(e, h) \/ HiddenLoginFails(e, h)
      PROVE  FALSE
  BY <1>6 DEF BuildFails, RequestFails, LoginFails, HiddenLoginFails
<1>7. ASSUME NEW refusal \in BOOLEAN, BeginHidden(refusal) PROVE FALSE
  BY <1>7 DEF BeginHidden
<1>8. "nothing" \in Heard
  BY DEF Heard
<1> QED
  BY <1>1, <1>2, <1>3, <1>4, <1>5, <1>6, <1>7, <1>8 DEF Next

\* What a job that is over its deadline did to the session is undone when it ends,
\* however deep in a login or a request it was, unless the callback took an
\* authentication before the deadline.
THEOREM LateJobsRestore == Spec => LateRestores
<1> DEFINE A == JobEnds /\ (Abandoned \/ Late) /\ (err = "deadline" \/ ~gen.job) =>
                  /\ session' = saved.s
                  /\ lifecycle'.user = saved.l.user
                  /\ lifecycle'.authed = saved.l.authed
<1>1. ClientInv /\ [Next]_vars => [A]_vars
  <2> SUFFICES ASSUME ClientInv, [Next]_vars, JobEnds, Abandoned \/ Late,
                      err = "deadline" \/ ~gen.job
               PROVE  /\ session' = saved.s
                      /\ lifecycle'.user = saved.l.user
                      /\ lifecycle'.authed = saved.l.authed
    OBVIOUS
  <2>1. End
    BY EndsByGuarded
  <2>2. lifecycle \in Lifecycle /\ saved.l \in Lifecycle /\ err \in {"none"} \cup Failure
    BY DEF ClientInv, SharedTypeOK
  <2>3. CASE EndAccepted
    BY <2>3 DEF EndAccepted, Abandoned
  <2>4. CASE EndAbandoned
    BY <2>4 DEF EndAbandoned
  <2>5. CASE EndUnborn
    BY <2>2, <2>5, RecordFacts DEF EndUnborn, State
  <2>6. CASE EndRolledBack
    BY <2>2, <2>6, RolledBackFacts DEF EndRolledBack
  <2>7. CASE EndKept
    <3>1. /\ err # "deadline" /\ ~saved.l.client /\ err = "error"
          /\ UNCHANGED <<lifecycle, session>>
      BY <2>7 DEF EndKept
    <3>2. /\ session = saved.s /\ lifecycle.user = saved.l.user
          /\ ~lifecycle.authed /\ ~saved.l.authed
      BY <2>1, <3>1 DEF End, ClientInv, Unborn, Blank
    <3> QED
      BY <2>2, <3>1, <3>2 DEF Lifecycle
  <2> QED
    BY <2>1, <2>3, <2>4, <2>5, <2>6, <2>7 DEF End
<1>2. []ClientInv /\ [][Next]_vars => [][A]_vars
  BY <1>1, PTL
<1> QED
  BY <1>2, ClientInvariance, PTL DEF Spec, LateRestores

\* No job, however it is interrupted, leaves the state of an attempt behind.
THEOREM JobsSettle == Spec => SettledAfterJob
<1> DEFINE A == JobEnds /\ Settled(saved.l) /\ ~saved.l.pending => Settled(lifecycle')
<1>1. ClientInv /\ [Next]_vars => [A]_vars
  <2> SUFFICES ASSUME ClientInv, [Next]_vars, JobEnds, Settled(saved.l), ~saved.l.pending
               PROVE  Settled(lifecycle')
    OBVIOUS
  <2>1. End
    BY EndsByGuarded
  <2>2. lifecycle \in Lifecycle /\ saved.l \in Lifecycle
    BY DEF ClientInv, SharedTypeOK
  <2>3. Settled(lifecycle) \/ (err = "interrupt" /\ ~saved.l.client)
    BY <2>1 DEF End, ClientInv, Attempts
  <2>4. CASE EndAccepted
    BY <2>3, <2>4 DEF EndAccepted
  <2>5. CASE EndAbandoned
    BY <2>5 DEF EndAbandoned
  <2>6. CASE EndUnborn
    BY <2>2, <2>6, RecordFacts DEF EndUnborn, State, Settled
  <2>7. CASE EndRolledBack
    BY <2>2, <2>3, <2>7, RolledBackFacts DEF EndRolledBack, Settled
  <2>8. CASE EndKept
    BY <2>3, <2>8 DEF EndKept
  <2> QED
    BY <2>1, <2>4, <2>5, <2>6, <2>7, <2>8 DEF End
<1>2. []ClientInv /\ [][Next]_vars => [][A]_vars
  BY <1>1, PTL
<1> QED
  BY <1>2, ClientInvariance, PTL DEF Spec, SettledAfterJob

\* A job whose caller still waits, and in which no authentication was answered 426,
\* never ends in readiness on a token the game refused to it.
THEOREM RefusedTokensDropped == Spec => RefusedNotReady
<1> DEFINE A == JobEnds /\ ~Abandoned /\ ~Late /\ ~rejected /\ Ready(lifecycle')
                  => session'.token \notin refused
<1>1. ClientInv /\ [Next]_vars => [A]_vars
  <2> SUFFICES ASSUME ClientInv, [Next]_vars, JobEnds, ~Abandoned, ~Late,
                      ~rejected, Ready(lifecycle')
               PROVE  session'.token \notin refused
    OBVIOUS
  <2>1. End /\ pc = "end"
    BY EndsByGuarded DEF End
  <2>2. lifecycle \in Lifecycle /\ saved.l \in Lifecycle
    BY DEF ClientInv, SharedTypeOK
  <2>3. /\ session.token \notin refused \/ lifecycle.state = "DEGRADED"
        /\ refused = {} \/ gen.job \/ lifecycle.state = "DEGRADED"
    BY <2>1 DEF ClientInv, Refusals
  <2>4. CASE EndAccepted \/ EndKept
    BY <2>3, <2>4 DEF EndAccepted, EndKept, Ready
  <2>5. CASE EndAbandoned
    BY <2>5 DEF EndAbandoned
  <2>6. CASE EndUnborn
    BY <2>2, <2>6, RecordFacts DEF EndUnborn, Ready, State
  <2>7. CASE EndRolledBack
    BY <2>2, <2>3, <2>7, RolledBackFacts DEF EndRolledBack, Ready
  <2> QED
    BY <2>1, <2>4, <2>5, <2>6, <2>7 DEF End
<1>2. []ClientInv /\ [][Next]_vars => [][A]_vars
  BY <1>1, PTL
<1> QED
  BY <1>2, ClientInvariance, PTL DEF Spec, RefusedNotReady

\* In such a job a login that failed is on record when the job ends, with the
\* state DEGRADED, whether the callback, the login or the job recorded it.
THEOREM FailedLoginsRecorded == Spec => FailedLoginDegrades
<1> DEFINE A == JobEnds /\ loginFailed /\ ~rejected /\ ~Abandoned /\ ~saved.l.pending
                  => FailureOnRecord(lifecycle')
<1>1. ClientInv /\ [Next]_vars => [A]_vars
  <2> SUFFICES ASSUME ClientInv, [Next]_vars, JobEnds, loginFailed, ~rejected,
                      ~Abandoned, ~saved.l.pending
               PROVE  lifecycle'.state = "DEGRADED" /\ lifecycle'.failed
    BY DEF FailureOnRecord
  <2>1. End
    BY EndsByGuarded
  <2>2. lifecycle \in Lifecycle /\ saved.l \in Lifecycle
    BY DEF ClientInv, SharedTypeOK
  <2>3. lifecycle.state = "DEGRADED" /\ lifecycle.failed
    BY DEF ClientInv, OnRecord
  <2>4. CASE EndAccepted \/ EndKept
    BY <2>3, <2>4 DEF EndAccepted, EndKept
  <2>5. CASE EndAbandoned
    BY <2>5 DEF EndAbandoned
  <2>6. CASE EndUnborn
    <3>1. kind \in {"login", "relogin", "ensure_ready"}
      BY <2>6 DEF EndUnborn, ClientInv, LoginOfStep
    <3>2. lifecycle' = RecordFailure(saved.l, "DEGRADED")
      BY <2>6, <3>1 DEF EndUnborn, Authoritative
    <3> QED
      BY <2>2, <3>2, RecordFacts DEF State
  <2>7. CASE EndRolledBack
    BY <2>2, <2>3, <2>7, RolledBackFacts DEF EndRolledBack
  <2> QED
    BY <2>1, <2>4, <2>5, <2>6, <2>7 DEF End
<1>2. []ClientInv /\ [][Next]_vars => [][A]_vars
  BY <1>1, PTL
<1> QED
  BY <1>2, ClientInvariance, PTL DEF Spec, FailedLoginDegrades

=============================================================================
