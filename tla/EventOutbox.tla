----------------------------- MODULE EventOutbox -----------------------------
(***************************************************************************)
(* The durable outbox of event rankings (utils/event_outbox.py) and the    *)
(* tracking cycle that fills and drains it (event_tracker.py).             *)
(*                                                                         *)
(* A tracker is one event-tracker process.  The scheduler runs one cycle   *)
(* of it at a time (max_instances=1); two trackers share the table while a *)
(* restarted deployment overlaps the old one.  Every SQLite transaction is *)
(* one step, and so is every POST to the receiving API.                    *)
(*                                                                         *)
(* Abstractions.  A row is named by its key: the collection time, which    *)
(* orders the rows, and the data type.  Wall-clock deadlines are flags: a  *)
(* row is due when next_attempt_at has passed, a claim has lapsed when     *)
(* claim_expires_at has, a collection time is old when the retention       *)
(* window has.  A claim id is a fresh uuid: the number of the claim.       *)
(***************************************************************************)
EXTENDS Naturals, FiniteSets

CONSTANTS
  Trackers,
  Chapters,     \* the World Link chapters a collection may find
  MaxAttempts,  \* max_attempts of drain
  MaxTime,      \* bound: collections
  MaxFaults,    \* bound: crashes, storage errors, failed collections
  MaxSlow       \* bound: claims that lapse under a live delivery

ASSUME TrackersAssumption == Trackers # {}
ASSUME ChaptersAssumption == Chapters \subseteq {"aggregated", "current"}
ASSUME AttemptsAssumption == MaxAttempts \in Nat \ {0}
ASSUME OutboxBoundsAssumption == /\ MaxTime \in Nat \ {0} /\ MaxFaults \in Nat
                                 /\ MaxSlow \in Nat

VARIABLES
  row,       \* the table: the row of each key
  pc, stage, \* where the cycle of each tracker is
  time,      \* time[t]: the curr_time of the cycle
  held,      \* held[t]: what _claim returned, while drain works on it
  received,  \* keys the receiving API has stored
  clock,     \* the last collection time
  old,       \* collection times older than the retention window
  enqueued,  \* history: keys ever inserted
  claims,    \* history: claims ever made for a key
  lapses,    \* history: claims of a key that ran out unsettled
  faults, slow

vars == <<row, pc, stage, time, held, received, clock, old, enqueued, claims,
          lapses, faults, slow>>
history == <<enqueued, claims, lapses>>

DataType == {"ranking"} \cup Chapters
Key      == (1..MaxTime) \X DataType
Terminal == {"sent", "failed"}
Sending  == {"deliver", "ack", "reject"}
NoClaim  == 0
NoRow    == [status |-> "none", attempts |-> 0, claim |-> NoClaim, due |-> FALSE,
             lapsed |-> FALSE]
NewRow   == [NoRow EXCEPT !.status = "pending", !.due = TRUE]
NoHold   == [key |-> <<1, "ranking">>, claim |-> NoClaim, attempts |-> 0]

-----------------------------------------------------------------------------

\* ORDER BY collected_at, idempotency_key; a chapter's type is chapter:<id>.
Rank(type) == CASE type = "aggregated" -> 1 [] type = "current" -> 2
                [] type = "ranking" -> 3
Older(k, l) == \/ k[1] < l[1]
               \/ k[1] = l[1] /\ Rank(k[2]) < Rank(l[2])

\* Mutants: a claim never lapses; it lapses at once.
LapsedNever(k)     == FALSE
LapsedUnchecked(k) == row[k].status = "sending"

\* The rows _claim sees as pending: those that are, and those whose claim has
\* lapsed, which keep the next_attempt_at they were claimed at.
Lapsed(k)    == row[k].status = "sending" /\ row[k].lapsed
Claimable(k) == (row[k].status = "pending" /\ row[k].due) \/ Lapsed(k)

\* Mutant: retention looks at the age alone.
PrunableAny(k) == row[k].status # "none" /\ k[1] \in old

\* The rows past the retention window.
Prunable(k)    == row[k].status \in Terminal /\ k[1] \in old

\* Mutant: WHERE idempotency_key=?
OwnsUnchecked(t) == TRUE

\* WHERE idempotency_key=? AND claim_id=?
Owns(t) == row[held[t].key].claim = held[t].claim

\* Mutants: an attempt too many; a status the table does not have.
VerdictLate(t)     == IF held[t].attempts > MaxAttempts THEN "failed" ELSE "pending"
VerdictRetained(t) == IF held[t].attempts >= MaxAttempts THEN "failed" ELSE "retained"

\* What drain makes of a failed delivery.
Verdict(t) == IF held[t].attempts >= MaxAttempts THEN "failed" ELSE "pending"

At(t, step) == pc' = [pc EXCEPT ![t] = step]
Stage(t, s) == stage' = [stage EXCEPT ![t] = s]

LastDrain(t) == At(t, "prune") /\ Stage(t, "last")
EndCycle(t)  == At(t, "idle") /\ Stage(t, "first")

\* An exception in the body of the cycle: the collection is tried once more
\* with the same curr_time, then the cycle drains; in the final drain it ends.
Raise(t) ==
  \/ stage[t] = "first" /\ At(t, "collect") /\ Stage(t, "retry")
  \/ stage[t] = "retry" /\ LastDrain(t)
  \/ stage[t] = "last"  /\ EndCycle(t)

Fault == faults < MaxFaults /\ faults' = faults + 1

-----------------------------------------------------------------------------
(***************************************************************************)
(* The cycle: drain, collect, drain.                                       *)
(***************************************************************************)

\* The body of the cycle takes the time of the collection and drains.
BeginCycle(t) ==
  /\ pc[t] = "idle" /\ clock < MaxTime
  /\ clock' = clock + 1 /\ time' = [time EXCEPT ![t] = clock']
  /\ At(t, "prune") /\ UNCHANGED stage
  /\ UNCHANGED <<row, held, received, old, history, faults, slow>>

\* Maintenance, or the version check or the reload of the event fails: the
\* cycle only drains.
BeginIdleCycle(t) ==
  /\ pc[t] = "idle" /\ LastDrain(t)
  /\ UNCHANGED <<row, time, held, received, clock, old, history, faults, slow>>

\* Mutant: INSERT OR REPLACE.
EnqueueReplaces(k) ==
  /\ row' = [row EXCEPT ![k] = NewRow] /\ enqueued' = enqueued \cup {k}
  /\ UNCHANGED <<time, held, received, clock, old, claims, lapses, faults, slow>>

\* enqueue: INSERT OR IGNORE.
Enqueue(k) ==
  /\ row' = [row EXCEPT ![k] = IF @.status = "none" THEN NewRow ELSE @]
  /\ enqueued' = enqueued \cup {k}
  /\ UNCHANGED <<time, held, received, clock, old, claims, lapses, faults, slow>>

EnqueueRanking(t) ==
  /\ pc[t] = "collect" /\ Enqueue(<<time[t], "ranking">>)
  /\ \/ At(t, "current") /\ UNCHANGED stage
     \/ LastDrain(t)

\* The running chapter first, then the one being aggregated.
EnqueueChapter(t) ==
  /\ pc[t] \in Chapters /\ Enqueue(<<time[t], pc[t]>>)
  /\ \/ pc[t] = "current" /\ At(t, "aggregated") /\ UNCHANGED stage
     \/ pc[t] = "aggregated" /\ LastDrain(t)

\* The collection is skipped, or it finds no such chapter.
NothingToEnqueue(t) ==
  /\ \/ pc[t] = "current" /\ At(t, "aggregated") /\ UNCHANGED stage
     \/ pc[t] \in {"collect", "aggregated"} /\ LastDrain(t)
  /\ UNCHANGED <<row, time, held, received, clock, old, history, faults, slow>>

\* The snapshot, its validation, the chapter metadata or an INSERT fails.
CollectionFails(t) ==
  /\ pc[t] \in {"collect", "current", "aggregated"} /\ Raise(t) /\ Fault
  /\ UNCHANGED <<row, time, held, received, clock, old, history, slow>>

-----------------------------------------------------------------------------
(***************************************************************************)
(* drain: prune, then claim, deliver and settle one row after the other.   *)
(***************************************************************************)

\* Batches of the oldest rows, until none is left or the budget is spent.
Prune(t) ==
  /\ pc[t] = "prune" /\ At(t, "claim")
  /\ \E gone \in SUBSET {k \in Key : Prunable(k)} :
       /\ \A k \in gone : \A l \in Key : Prunable(l) /\ Older(l, k) => l \in gone
       /\ row' = [k \in Key |-> IF k \in gone THEN NoRow ELSE row[k]]
  /\ UNCHANGED <<stage, time, held, received, clock, old, history, faults, slow>>

\* _claim, one immediate transaction: lapsed claims return to pending, the
\* oldest row that is due is claimed.
Claim(t) ==
  /\ pc[t] = "claim" /\ At(t, "deliver")
  /\ \E k \in Key :
       LET attempts == row[k].attempts + 1
           id       == claims[k] + 1
       IN
       /\ Claimable(k) /\ \A l \in Key : Claimable(l) => ~Older(l, k)
       /\ row' = [l \in Key |->
            IF l = k THEN [status |-> "sending", attempts |-> attempts, claim |-> id,
                           due |-> TRUE, lapsed |-> FALSE]
            ELSE IF Lapsed(l) THEN [row[l] EXCEPT !.status = "pending",
                                                  !.claim = NoClaim, !.lapsed = FALSE]
            ELSE row[l]]
       /\ held' = [held EXCEPT ![t] = [key |-> k, claim |-> id, attempts |-> attempts]]
       /\ claims' = [claims EXCEPT ![k] = id]
  /\ UNCHANGED <<stage, time, received, clock, old, enqueued, lapses, faults, slow>>

\* Nothing is due, or the limit or the time budget of the drain is reached.
StopDrain(t) ==
  /\ pc[t] = "claim"
  /\ \/ stage[t] = "first" /\ At(t, "collect") /\ UNCHANGED stage
     \/ stage[t] = "last" /\ EndCycle(t)
  /\ UNCHANGED <<row, time, held, received, clock, old, history, faults, slow>>

\* Mutant: any answer counts as a confirmation.
DeliverUnconfirmed(t) ==
  /\ pc[t] = "deliver" /\ received' \in {received, received \cup {held[t].key}}
  /\ At(t, "ack")
  /\ UNCHANGED <<row, stage, time, held, clock, old, history, faults, slow>>

\* The POST: the receiving API stores the ranking under its key and the answer
\* says so, or an error is seen, whether the ranking was stored or not.
Deliver(t) ==
  /\ pc[t] = "deliver"
  /\ \/ received' = received \cup {held[t].key} /\ At(t, "ack")
     \/ received' \in {received, received \cup {held[t].key}} /\ At(t, "reject")
  /\ UNCHANGED <<row, stage, time, held, clock, old, history, faults, slow>>

\* _ack and _reject: the row is settled if the claim is still in it.
Settle(t, status, due) ==
  /\ row' = [row EXCEPT ![held[t].key] =
               IF Owns(t) THEN [@ EXCEPT !.status = status, !.claim = NoClaim,
                                         !.due = due, !.lapsed = FALSE]
               ELSE @]
  /\ held' = [held EXCEPT ![t] = NoHold]
  /\ At(t, "claim")
  /\ UNCHANGED <<stage, time, received, clock, old, history, faults, slow>>

Ack(t)    == pc[t] = "ack" /\ Settle(t, "sent", TRUE)
Reject(t) == pc[t] = "reject" /\ Settle(t, Verdict(t), FALSE)

\* A transaction of the drain fails: the exception leaves drain.
DrainFails(t) ==
  /\ pc[t] \in {"prune", "claim", "ack", "reject"} /\ Raise(t) /\ Fault
  /\ held' = [held EXCEPT ![t] = NoHold]
  /\ UNCHANGED <<row, time, received, clock, old, history, slow>>

-----------------------------------------------------------------------------
(***************************************************************************)
(* The environment.                                                        *)
(***************************************************************************)

\* The POST of a tracker that dies in it may still arrive.
Crash(t) ==
  /\ pc[t] # "idle" /\ EndCycle(t) /\ Fault
  /\ \/ UNCHANGED received
     \/ pc[t] = "deliver" /\ received' = received \cup {held[t].key}
  /\ held' = [held EXCEPT ![t] = NoHold]
  /\ UNCHANGED <<row, time, clock, old, history, slow>>

InDelivery(k) ==
  \E t \in Trackers : held[t].key = k /\ held[t].claim = row[k].claim

Lapse(k) ==
  /\ row[k].status = "sending" /\ ~row[k].lapsed
  /\ row' = [row EXCEPT ![k].lapsed = TRUE]
  /\ lapses' = [lapses EXCEPT ![k] = @ + 1]
  /\ UNCHANGED <<pc, stage, time, held, received, clock, old, enqueued, claims, faults>>

\* The claim of a tracker that died or gave up lapses in time.
ClaimLapses(k) == ~InDelivery(k) /\ Lapse(k) /\ UNCHANGED slow

\* A delivery outlives its claim, at most MaxSlow times.
SlowDelivery(k) == InDelivery(k) /\ Lapse(k) /\ slow < MaxSlow /\ slow' = slow + 1

BackoffOver(k) ==
  /\ row[k].status = "pending" /\ ~row[k].due
  /\ row' = [row EXCEPT ![k].due = TRUE]
  /\ UNCHANGED <<pc, stage, time, held, received, clock, old, history, faults, slow>>

\* The retention window is far longer than a cycle.
GrowsOld(c) ==
  /\ c \in (1..clock) \ old
  /\ \A t \in Trackers : pc[t] # "idle" => time[t] # c
  /\ old' = old \cup {c}
  /\ UNCHANGED <<row, pc, stage, time, held, received, clock, history, faults, slow>>

-----------------------------------------------------------------------------

Init ==
  /\ row = [k \in Key |-> NoRow]
  /\ pc = [t \in Trackers |-> "idle"] /\ stage = [t \in Trackers |-> "first"]
  /\ time = [t \in Trackers |-> 0] /\ held = [t \in Trackers |-> NoHold]
  /\ received = {} /\ clock = 0 /\ old = {} /\ enqueued = {}
  /\ claims = [k \in Key |-> 0] /\ lapses = [k \in Key |-> 0]
  /\ faults = 0 /\ slow = 0

Collect(t) == EnqueueRanking(t) \/ EnqueueChapter(t) \/ NothingToEnqueue(t)
Drain(t)   == Prune(t) \/ StopDrain(t) \/ Deliver(t) \/ Ack(t) \/ Reject(t)

Next ==
  \/ \E t \in Trackers : \/ BeginCycle(t) \/ BeginIdleCycle(t)
                         \/ Collect(t) \/ Claim(t) \/ Drain(t)
                         \/ CollectionFails(t) \/ DrainFails(t) \/ Crash(t)
  \/ \E k \in Key : ClaimLapses(k) \/ SlowDelivery(k) \/ BackoffOver(k)
  \/ \E c \in 1..MaxTime : GrowsOld(c)

Spec == Init /\ [][Next]_vars

\* The scheduler starts a cycle every three minutes and a cycle that has started
\* goes on; a drain may stop early, yet its limit and its budget leave room for
\* a row (limit 20, 30 seconds, 15 for a delivery); time passes.
FairSpec ==
  /\ Spec
  /\ \A t \in Trackers : /\ WF_vars(BeginIdleCycle(t))
                         /\ WF_vars(Collect(t) \/ Drain(t))
                         /\ SF_vars(Claim(t))
  /\ \A k \in Key : WF_vars(ClaimLapses(k)) /\ WF_vars(BackoffOver(k))

-----------------------------------------------------------------------------
(***************************************************************************)
(* Properties.                                                             *)
(***************************************************************************)

\* Every variable has its type.
OutboxTypeOK ==
  /\ row \in [Key -> [status : {"none", "pending", "sending"} \cup Terminal,
                      attempts : Nat, claim : Nat, due : BOOLEAN, lapsed : BOOLEAN]]
  /\ pc \in [Trackers -> {"idle", "prune", "claim", "collect", "current", "aggregated"}
                         \cup Sending]
  /\ stage \in [Trackers -> {"first", "retry", "last"}]
  /\ time \in [Trackers -> 0..MaxTime]
  /\ held \in [Trackers -> [key : Key, claim : Nat, attempts : Nat]]
  /\ received \subseteq Key /\ enqueued \subseteq Key
  /\ clock \in 0..MaxTime /\ old \subseteq 1..MaxTime
  /\ claims \in [Key -> Nat] /\ lapses \in [Key -> Nat]
  /\ faults \in 0..MaxFaults /\ slow \in 0..MaxSlow

\* A row is marked sent only when the receiving API has stored the ranking, even
\* if a second tracker reclaimed the row while the first was still delivering.
SentMeansReceived == \A k \in Key : row[k].status = "sent" => k \in received

\* A ranking that was enqueued is in the table until it is delivered or its
\* attempts are used up: retention, crashes and lapsed claims lose none.
NothingLost ==
  \A k \in enqueued : row[k].status \in {"none", "failed"} =>
    k \in received \/ claims[k] >= MaxAttempts

\* A row that reached sent or failed keeps that outcome until it is pruned: the
\* late answer of a tracker whose claim was taken over never reopens it.
SettledStaysSettled ==
  [][\A k \in Key : row[k].status \in Terminal => row'[k] \in {row[k], NoRow}]_vars

\* A row is attempted at most MaxAttempts times, and once more for every claim
\* that ran out unsettled, which _claim reopens without looking at attempts.
AttemptsAccounted == \A k \in Key : row[k].attempts <= MaxAttempts + lapses[k]

\* Two trackers work on one row only when a claim of it has run out.
OneSenderPerClaim ==
  \A k \in Key :
    Cardinality({t \in Trackers : pc[t] \in Sending /\ held[t].key = k}) <= 1 + lapses[k]

\* The outbox keeps its promise to each ranking: a collection that is tried again
\* reopens nothing that another tracker has settled in between, and a ranking that
\* retention has taken never comes back.
Fate(k) == CASE row[k].status = "none" ->
                  IF k \in enqueued THEN "forgotten" ELSE "unknown"
             [] row[k].status \in {"pending", "sending"} -> "open"
             [] OTHER -> row[k].status

Promise == INSTANCE OutboxPromise WITH
  Ranking <- Key, state <- [k \in Key |-> Fate(k)], delivered <- received

ImplementsPromise == Promise!PromiseSpec

\* Every ranking that was enqueued is sent, given up after its attempts, or
\* already pruned: neither a crash nor a lost answer leaves it in the table.
Settles ==
  \A k \in Key : k \in enqueued ~> row[k].status \in Terminal \cup {"none"}

=============================================================================
