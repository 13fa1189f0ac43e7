------------------------ MODULE EventOutboxRefinement ------------------------
(***************************************************************************)
(* EventOutbox implements OutboxPromise, for every value of the constants. *)
(***************************************************************************)
EXTENDS EventOutboxProofs

\* What retention has taken is old, and a cycle that may still enqueue is younger
\* than that.  Only rankings that were enqueued are ever claimed.
ForgottenIsOld == \A k \in enqueued : row[k].status = "none" => k[1] \in old
CycleIsYoung   == /\ old \subseteq 1..clock
                  /\ \A t \in Trackers :
                       pc[t] # "idle" /\ stage[t] # "last" => time[t] \notin old
ClaimedWasEnqueued == \A k \in Key : claims[k] # 0 => k \in enqueued

Retention == ForgottenIsOld /\ CycleIsYoung /\ ClaimedWasEnqueued

LEMMA InitRetention == Init => Retention
BY DEF Init, Retention, ForgottenIsOld, CycleIsYoung, ClaimedWasEnqueued

\* A step that neither empties a row nor enqueues or claims one, nor lets anything
\* grow old, and begins no cycle but one whose time is not old.
LEMMA RetentionKept ==
  ASSUME OutboxInv, Retention, UNCHANGED <<enqueued, claims>>,
         \A k \in Key : row'[k].status = "none" => row[k].status = "none" \/ k[1] \in old',
         old \subseteq old', CycleIsYoung'
  PROVE  Retention'
<1>1. enqueued \subseteq Key
  BY DEF OutboxInv, OutboxTypeOK
<1> QED
  BY <1>1 DEF Retention, ForgottenIsOld, ClaimedWasEnqueued

LEMMA TrackerRetains ==
  ASSUME OutboxInv, Retention, NEW t \in Trackers,
         \/ BeginCycle(t) \/ BeginIdleCycle(t) \/ NothingToEnqueue(t)
         \/ StopDrain(t) \/ Deliver(t)
         \/ CollectionFails(t) \/ DrainFails(t) \/ Crash(t)
  PROVE  Retention'
<1>1. UNCHANGED <<row, old, enqueued, claims>>
  BY DEF BeginCycle, BeginIdleCycle, NothingToEnqueue, StopDrain, Deliver,
         CollectionFails, DrainFails, Crash, history
<1>2. CycleIsYoung'
  <2>1. CASE BeginCycle(t)
    BY <2>1 DEF BeginCycle, At, Retention, CycleIsYoung, OutboxInv, OutboxTypeOK
  <2>2. CASE \/ BeginIdleCycle(t) \/ NothingToEnqueue(t)
             \/ StopDrain(t) \/ Deliver(t)
             \/ CollectionFails(t) \/ DrainFails(t) \/ Crash(t)
    <3>1. time' = time /\ clock' = clock /\ old' = old
      BY <2>2 DEF BeginIdleCycle, NothingToEnqueue, StopDrain, Deliver, CollectionFails,
                  DrainFails, Crash
    <3>2. ASSUME NEW u \in Trackers, pc'[u] # "idle", stage'[u] # "last"
          PROVE  pc[u] # "idle" /\ stage[u] # "last"
      BY <2>2, <3>2
         DEF BeginIdleCycle, NothingToEnqueue, StopDrain, Deliver, CollectionFails,
             DrainFails, Crash, Raise, LastDrain, EndCycle, At, Stage, OutboxInv,
             OutboxTypeOK
    <3> QED
      BY <3>1, <3>2 DEF Retention, CycleIsYoung
  <2> QED
    BY <2>1, <2>2
<1> QED
  BY <1>1, <1>2, RetentionKept

LEMMA WriteRetains ==
  ASSUME OutboxInv, Retention, NEW t \in Trackers,
         Prune(t) \/ Claim(t) \/ Ack(t) \/ Reject(t)
  PROVE  Retention'
<1>1. CycleIsYoung'
  BY DEF Prune, Claim, Ack, Reject, Settle, At, Retention, CycleIsYoung, OutboxInv,
         OutboxTypeOK
<1>2. row \in [Key -> RowType] /\ held \in [Trackers -> Hold] /\ enqueued \subseteq Key
      /\ claims \in [Key -> Nat]
  BY DEF OutboxInv, OutboxTypeOK, RowType, Hold
<1>3. CASE Prune(t)
  <2>1. \A k \in Key : row'[k].status = "none" => row[k].status = "none" \/ k[1] \in old'
    BY <1>3 DEF Prune, Prunable
  <2> QED
    BY <1>1, <1>3, <2>1, RetentionKept DEF Prune, history
<1>4. CASE Claim(t)
  <2>1. PICK k \in Key :
          /\ Claimable(k) /\ claims' = [claims EXCEPT ![k] = claims[k] + 1]
          /\ row' = [l \in Key |-> IF l = k THEN Claimed(k)
                                   ELSE IF Lapsed(l) THEN Reopened(l) ELSE row[l]]
    BY <1>4 DEF Claim, Claimed, Reopened
  <2>2. \A l \in Key : row'[l].status = "none" => row[l].status = "none"
    <3>1. \A l \in Key : Reopened(l).status = "pending"
      BY <1>2 DEF Reopened, RowType
    <3>2. Claimed(k).status = "sending"
      BY DEF Claimed
    <3> QED
      BY <2>1, <3>1, <3>2
  <2>3. k \in enqueued
    BY <2>1 DEF Claimable, Lapsed, OutboxInv, Rows, ClaimInRow
  <2>4. enqueued' = enqueued /\ old' = old
    BY <1>4 DEF Claim
  <2> QED
    BY <1>1, <1>2, <2>1, <2>2, <2>3, <2>4
       DEF Retention, ForgottenIsOld, ClaimedWasEnqueued
<1>5. CASE Ack(t) \/ Reject(t)
  <2>1. PICK status \in {"sent", "failed", "pending"}, due \in BOOLEAN :
          Settle(t, status, due)
    BY <1>5 DEF Ack, Reject, Verdict
  <2>2. \A k \in Key : row'[k].status = row[k].status \/ row'[k].status = status
    BY <1>2, <2>1 DEF Settle, Hold, RowType
  <2>3. UNCHANGED <<enqueued, claims, old>>
    BY <2>1 DEF Settle, history
  <2> QED
    BY <1>1, <2>2, <2>3, RetentionKept
<1> QED
  BY <1>3, <1>4, <1>5

\* A collection enqueues under its own time, which is not old.
LEMMA CollectsYoung ==
  ASSUME OutboxInv, Retention, NEW t \in Trackers, EnqueueRanking(t) \/ EnqueueChapter(t)
  PROVE  \E k \in Key : Enqueue(k) /\ k[1] \notin old
<1>1. time[t] \in 1..MaxTime /\ time[t] \notin old
  BY ChaptersAssumption
     DEF EnqueueRanking, EnqueueChapter, OutboxInv, OutboxTypeOK, Times, TimeOfStep,
         Collecting, Retention, CycleIsYoung
<1>2. CASE EnqueueRanking(t)
  <2>1. <<time[t], "ranking">> \in Key /\ Enqueue(<<time[t], "ranking">>)
    BY <1>1, <1>2 DEF EnqueueRanking, Key, DataType
  <2> QED
    BY <1>1, <2>1
<1>3. CASE EnqueueChapter(t)
  <2>1. <<time[t], pc[t]>> \in Key /\ Enqueue(<<time[t], pc[t]>>)
    BY <1>1, <1>3 DEF EnqueueChapter, Key, DataType
  <2> QED
    BY <1>1, <2>1
<1> QED
  BY <1>2, <1>3

LEMMA CollectRetains ==
  ASSUME OutboxInv, Retention, NEW t \in Trackers, EnqueueRanking(t) \/ EnqueueChapter(t)
  PROVE  Retention'
<1>1. PICK k \in Key : Enqueue(k)
  BY CollectsYoung
<1>2. row \in [Key -> RowType] /\ enqueued \subseteq Key
  BY DEF OutboxInv, OutboxTypeOK, RowType
<1>3. ASSUME NEW l \in Key
      PROVE  \/ row'[l] = row[l] /\ (l = k => row[l].status # "none")
             \/ row'[l] = NewRow /\ l = k
  BY <1>1, <1>2 DEF Enqueue
<1>4. NewRow.status = "pending"
  BY DEF NewRow, NoRow
<1>5. UNCHANGED <<old, claims, clock, time>> /\ enqueued' = enqueued \cup {k}
  BY <1>1 DEF Enqueue
<1>6. ASSUME NEW u \in Trackers, pc'[u] # "idle", stage'[u] # "last"
      PROVE  pc[u] # "idle" /\ stage[u] # "last"
  <2>1. CASE u = t
    BY <1>6, <2>1, ChaptersAssumption
       DEF EnqueueRanking, EnqueueChapter, LastDrain, At, Stage, OutboxInv,
           OutboxTypeOK, Times, TimeOfStep, Collecting
  <2>2. CASE u # t
    BY <1>6, <2>2 DEF EnqueueRanking, EnqueueChapter, LastDrain, At, Stage, OutboxInv,
                      OutboxTypeOK
  <2> QED
    BY <2>1, <2>2
<1> QED
  BY <1>2, <1>3, <1>4, <1>5, <1>6
     DEF Retention, ForgottenIsOld, CycleIsYoung, ClaimedWasEnqueued

\* A row keeps its status while time passes over it.
LEMMA AgesStatus ==
  ASSUME OutboxInv,
         NEW k \in Key, ClaimLapses(k) \/ SlowDelivery(k) \/ BackoffOver(k), NEW l \in Key
  PROVE  row'[l].status = row[l].status
<1>1. row \in [Key -> RowType]
  BY DEF OutboxInv, OutboxTypeOK, RowType
<1>2. Ages(k)
  BY DEF ClaimLapses, SlowDelivery, BackoffOver, Lapse, Ages, history
<1> QED
  BY <1>1, <1>2 DEF Ages, RowType

LEMMA StepRetains ==
  ASSUME OutboxInv, Retention, [Next]_vars
  PROVE  Retention'
<1>1. ASSUME NEW t \in Trackers,
             \/ BeginCycle(t) \/ BeginIdleCycle(t) \/ NothingToEnqueue(t)
             \/ StopDrain(t) \/ Deliver(t)
             \/ CollectionFails(t) \/ DrainFails(t) \/ Crash(t)
      PROVE  Retention'
  BY <1>1, TrackerRetains
<1>2. ASSUME NEW t \in Trackers, Prune(t) \/ Claim(t) \/ Ack(t) \/ Reject(t)
      PROVE  Retention'
  BY <1>2, WriteRetains
<1>3. ASSUME NEW t \in Trackers, EnqueueRanking(t) \/ EnqueueChapter(t)
      PROVE  Retention'
  BY <1>3, CollectRetains
<1>4. ASSUME NEW k \in Key, ClaimLapses(k) \/ SlowDelivery(k) \/ BackoffOver(k)
      PROVE  Retention'
  <2>1. UNCHANGED <<pc, stage, time, clock, old, enqueued, claims>>
    BY <1>4 DEF ClaimLapses, SlowDelivery, BackoffOver, Lapse, history
  <2>2. \A l \in Key : row'[l].status = row[l].status
    BY <1>4, AgesStatus
  <2>3. CycleIsYoung'
    BY <2>1 DEF Retention, CycleIsYoung
  <2> QED
    BY <2>1, <2>2, <2>3, RetentionKept
<1>5. ASSUME NEW c \in 1..MaxTime, GrowsOld(c) PROVE Retention'
  BY <1>5, RetentionKept
     DEF GrowsOld, history, Retention, CycleIsYoung, OutboxInv, OutboxTypeOK
<1>6. CASE UNCHANGED vars
  BY <1>6 DEF vars, Retention, ForgottenIsOld, CycleIsYoung, ClaimedWasEnqueued
<1> QED
  BY <1>1, <1>2, <1>3, <1>4, <1>5, <1>6 DEF Next, Collect, Drain

-----------------------------------------------------------------------------
(***************************************************************************)
(* The refinement.  Promised is the fate of every ranking.                 *)
(***************************************************************************)

Promised == [k \in Key |-> Fate(k)]

LEMMA FateOf ==
  ASSUME OutboxInv, NEW k \in Key
  PROVE  /\ row[k].status = "none" /\ k \in enqueued => Fate(k) = "forgotten"
         /\ row[k].status = "none" /\ k \notin enqueued => Fate(k) = "unknown"
         /\ row[k].status \in {"pending", "sending"} => Fate(k) = "open"
         /\ row[k].status \in Terminal => Fate(k) = row[k].status
BY DEF OutboxInv, OutboxTypeOK, Fate, Terminal

LEMMA FateNext ==
  ASSUME OutboxInv', NEW k \in Key
  PROVE  /\ row'[k].status = "none" /\ k \in enqueued' => Fate(k)' = "forgotten"
         /\ row'[k].status = "none" /\ k \notin enqueued' => Fate(k)' = "unknown"
         /\ row'[k].status \in {"pending", "sending"} => Fate(k)' = "open"
         /\ row'[k].status \in Terminal => Fate(k)' = row'[k].status
BY DEF OutboxInv, OutboxTypeOK, Fate, Terminal

\* A step that leaves every ranking as open, settled or empty as it was.
LEMMA FateKept ==
  ASSUME OutboxInv, OutboxInv', UNCHANGED enqueued,
         \A k \in Key : \/ row'[k].status = row[k].status
                        \/ {row[k].status, row'[k].status} \subseteq {"pending", "sending"}
  PROVE  UNCHANGED Promised
<1> SUFFICES ASSUME NEW k \in Key PROVE Fate(k)' = Fate(k)
  BY DEF Promised
<1>1. CASE row'[k].status = row[k].status
  BY <1>1 DEF Fate
<1>2. CASE {row[k].status, row'[k].status} \subseteq {"pending", "sending"}
  BY <1>2, FateOf, FateNext
<1> QED
  BY <1>1, <1>2

LEMMA InitPromised == Init => Promise!PromiseInit
<1> SUFFICES ASSUME Init PROVE [k \in Key |-> Fate(k)] = [k \in Key |-> "unknown"]
  BY DEF Init, Promise!PromiseInit
<1>1. \A k \in Key : row[k].status = "none" /\ k \notin enqueued
  BY DEF Init, NoRow
<1> QED
  BY <1>1, InitInv, FateOf

LEMMA AcceptOrNothing ==
  ASSUME OutboxInv, OutboxInv', Retention, NEW k \in Key, Enqueue(k), k[1] \notin old
  PROVE  Promise!Accept(k) \/ UNCHANGED <<Promised, received>>
<1>1. row \in [Key -> RowType] /\ received' = received /\ NewRow.status = "pending"
  BY DEF OutboxInv, OutboxTypeOK, RowType, Enqueue, NewRow, NoRow
<1>2. row' = [row EXCEPT ![k] = IF row[k].status = "none" THEN NewRow ELSE row[k]]
      /\ enqueued' = enqueued \cup {k}
  BY DEF Enqueue
<1>3. CASE row[k].status = "none"
  <2>1. k \notin enqueued
    BY <1>3 DEF Retention, ForgottenIsOld
  <2>2. Fate(k) = "unknown"
    BY <1>3, <2>1, FateOf
  <2>3. Fate(k)' = "open"
    BY <1>1, <1>2, <1>3, FateNext
  <2>4. \A l \in Key : l # k => Fate(l)' = Fate(l)
    BY <1>1, <1>2 DEF Fate
  <2>5. Promised' = [Promised EXCEPT ![k] = "open"] /\ Promised[k] = "unknown"
    BY <2>2, <2>3, <2>4 DEF Promised
  <2> QED
    BY <1>1, <2>5 DEF Promise!Accept, Promise!Becomes, Promised
<1>4. CASE row[k].status # "none"
  <2>1. k \in enqueued /\ row' = row
    BY <1>1, <1>2, <1>4 DEF OutboxInv, Rows, ClaimInRow
  <2> QED
    BY <1>1, <1>2, <2>1, FateKept
<1> QED
  BY <1>3, <1>4

LEMMA ForgetsSettled ==
  ASSUME OutboxInv, OutboxInv', NEW t \in Trackers, Prune(t)
  PROVE  \E gone \in SUBSET Key : Promise!Forget(gone)
<1>1. PICK gone \in SUBSET {k \in Key : Prunable(k)} :
        row' = [k \in Key |-> IF k \in gone THEN NoRow ELSE row[k]]
  BY DEF Prune
<1>2. received' = received /\ enqueued' = enqueued /\ NoRow.status = "none"
  BY DEF Prune, history, NoRow
<1>3. ASSUME NEW k \in gone
      PROVE  k \in Key /\ Fate(k) \in {"sent", "failed"} /\ Fate(k)' = "forgotten"
  <2>1. k \in Key /\ row[k].status \in Terminal
    BY <1>1 DEF Prunable
  <2>2. k \in enqueued /\ Fate(k) \in {"sent", "failed"}
    BY <2>1, FateOf DEF OutboxInv, Rows, ClaimInRow, Terminal
  <2>3. Fate(k)' = "forgotten"
    BY <1>1, <1>2, <2>1, <2>2, FateNext
  <2> QED
    BY <2>1, <2>2, <2>3
<1>4. ASSUME NEW k \in Key, k \notin gone PROVE Fate(k)' = Fate(k)
  BY <1>1, <1>2, <1>4 DEF Fate
<1>5. Promised' = [k \in Key |-> IF k \in gone THEN "forgotten" ELSE Promised[k]]
  BY <1>3, <1>4 DEF Promised
<1>6. \A k \in gone : Promised[k] \in {"sent", "failed"}
  BY <1>3 DEF Promised
<1> QED
  BY <1>1, <1>2, <1>5, <1>6 DEF Promise!Forget, Promised

\* A delivery is one of a ranking that was accepted.
LEMMA ArrivesOrNothing ==
  ASSUME OutboxInv, OutboxInv', Retention, NEW t \in Trackers, Deliver(t) \/ Crash(t)
  PROVE  (\E k \in Key : Promise!Arrive(k)) \/ UNCHANGED <<Promised, received>>
<1>1. row' = row /\ enqueued' = enqueued
  BY DEF Deliver, Crash, history
<1>2. UNCHANGED Promised
  BY <1>1, FateKept
<1>3. \/ received' = received
      \/ pc[t] = "deliver" /\ received' = received \cup {held[t].key}
  BY DEF Deliver, Crash
<1>4. CASE pc[t] = "deliver" /\ received' = received \cup {held[t].key}
  <2>1. held[t].key \in Key /\ held[t].claim \in Nat /\ held[t].claim # NoClaim
    BY <1>4 DEF OutboxInv, OutboxTypeOK, Holds, HoldOfStep, Sending
  <2>2. held[t].claim <= claims[held[t].key] /\ claims[held[t].key] \in Nat
    BY <2>1 DEF OutboxInv, OutboxTypeOK, Holds, HoldOfStep
  <2>3. held[t].key \in enqueued
    BY <2>1, <2>2 DEF Retention, ClaimedWasEnqueued, NoClaim
  <2>4. Fate(held[t].key) # "unknown"
    BY <2>1, <2>3, FateOf DEF OutboxInv, OutboxTypeOK, Terminal
  <2>5. Promise!Arrive(held[t].key)
    BY <1>2, <1>4, <2>1, <2>4 DEF Promise!Arrive, Promised
  <2> QED
    BY <2>1, <2>5
<1> QED
  BY <1>2, <1>3, <1>4

LEMMA SettlesOrNothing ==
  ASSUME OutboxInv, OutboxInv', NEW t \in Trackers, Ack(t) \/ Reject(t)
  PROVE  \/ \E k \in Key : Promise!Confirm(k) \/ Promise!GiveUp(k)
         \/ UNCHANGED <<Promised, received>>
<1>1. PICK status \in {"sent", "failed", "pending"}, due \in BOOLEAN :
        Settle(t, status, due) /\ (status = "sent" => pc[t] = "ack") /\ pc[t] \in Sending
  BY DEF Ack, Reject, Verdict, Sending
<1>0. PICK k \in Key : k = held[t].key
  BY DEF OutboxInv, OutboxTypeOK
<1>2. /\ row \in [Key -> RowType] /\ HoldOfStep(t)
      /\ received' = received /\ enqueued' = enqueued
  BY <1>1 DEF OutboxInv, OutboxTypeOK, RowType, Hold, Settle, history, Holds
<1>3. \A l \in Key : l # k \/ ~Owns(t) => row'[l] = row[l]
  BY <1>0, <1>1, <1>2 DEF Settle
<1>4. CASE ~Owns(t)
  BY <1>2, <1>3, <1>4, FateKept
<1>5. CASE Owns(t)
  <2>1. row[k].status = "sending"
    BY <1>0, <1>1, <1>2, <1>5 DEF HoldOfStep, Owns, OutboxInv, Rows, ClaimInRow
  <2>2. row'[k].status = status
    BY <1>0, <1>1, <1>2, <1>5 DEF Settle, RowType
  <2>3. CASE status = "pending"
    BY <1>2, <1>3, <2>1, <2>2, <2>3, FateKept
  <2>4. CASE status # "pending"
    <3>1. Fate(k) = "open" /\ Fate(k)' = status
      BY <1>1, <1>2, <2>1, <2>2, <2>4, FateOf, FateNext DEF Terminal
    <3>2. \A l \in Key : l # k => Fate(l)' = Fate(l)
      BY <1>2, <1>3 DEF Fate
    <3>3. Promised' = [Promised EXCEPT ![k] = status] /\ Promised[k] = "open"
      BY <1>2, <3>1, <3>2 DEF Promised
    <3>4. status = "sent" => k \in received
      BY <1>0, <1>1, <1>2 DEF HoldOfStep
    <3>5. CASE status = "sent"
      <4>1. Promise!Confirm(k)
        BY <1>2, <3>3, <3>4, <3>5 DEF Promise!Confirm, Promise!Becomes, Promised
      <4> QED
        BY <1>2, <4>1
    <3>6. CASE status = "failed"
      <4>1. Promise!GiveUp(k)
        BY <1>2, <3>3, <3>6 DEF Promise!GiveUp, Promise!Becomes, Promised
      <4> QED
        BY <1>2, <4>1
    <3> QED
      BY <1>1, <2>4, <3>5, <3>6
  <2> QED
    BY <2>3, <2>4
<1> QED
  BY <1>4, <1>5

LEMMA ClaimShowsNothing ==
  ASSUME OutboxInv, OutboxInv', NEW t \in Trackers, Claim(t)
  PROVE  UNCHANGED <<Promised, received>>
<1>1. PICK k \in Key :
        /\ Claimable(k)
        /\ row' = [l \in Key |-> IF l = k THEN Claimed(k)
                                 ELSE IF Lapsed(l) THEN Reopened(l) ELSE row[l]]
  BY DEF Claim, Claimed, Reopened
<1>2. row \in [Key -> RowType] /\ enqueued' = enqueued /\ received' = received
  BY DEF OutboxInv, OutboxTypeOK, RowType, Claim
<1>3. \A l \in Key : Reopened(l).status = "pending"
  BY <1>2 DEF Reopened, RowType
<1>4. Claimed(k).status = "sending"
  BY DEF Claimed
<1>5. \A l \in Key : \/ row'[l].status = row[l].status
                     \/ {row[l].status, row'[l].status} \subseteq {"pending", "sending"}
  BY <1>1, <1>3, <1>4 DEF Claimable, Lapsed
<1> QED
  BY <1>2, <1>5, FateKept

LEMMA StepPromised ==
  ASSUME OutboxInv, OutboxInv', Retention, [Next]_vars
  PROVE  [Promise!PromiseNext]_<<Promised, received>>
<1>1. ASSUME NEW t \in Trackers, EnqueueRanking(t) \/ EnqueueChapter(t)
      PROVE  [Promise!PromiseNext]_<<Promised, received>>
  BY <1>1, CollectsYoung, AcceptOrNothing DEF Promise!PromiseNext
<1>2. ASSUME NEW t \in Trackers, Prune(t)
      PROVE  [Promise!PromiseNext]_<<Promised, received>>
  BY <1>2, ForgetsSettled DEF Promise!PromiseNext
<1>3. ASSUME NEW t \in Trackers, Deliver(t) \/ Crash(t)
      PROVE  [Promise!PromiseNext]_<<Promised, received>>
  BY <1>3, ArrivesOrNothing DEF Promise!PromiseNext
<1>4. ASSUME NEW t \in Trackers, Ack(t) \/ Reject(t)
      PROVE  [Promise!PromiseNext]_<<Promised, received>>
  BY <1>4, SettlesOrNothing DEF Promise!PromiseNext
<1>5. ASSUME NEW t \in Trackers, Claim(t)
      PROVE  [Promise!PromiseNext]_<<Promised, received>>
  BY <1>5, ClaimShowsNothing
<1>6. ASSUME NEW k \in Key, ClaimLapses(k) \/ SlowDelivery(k) \/ BackoffOver(k)
      PROVE  [Promise!PromiseNext]_<<Promised, received>>
  <2>1. enqueued' = enqueued /\ received' = received
    BY <1>6 DEF ClaimLapses, SlowDelivery, BackoffOver, Lapse, history
  <2> QED
    BY <1>6, <2>1, AgesStatus, FateKept
<1>7. ASSUME NEW t \in Trackers,
             \/ BeginCycle(t) \/ BeginIdleCycle(t) \/ NothingToEnqueue(t)
             \/ StopDrain(t) \/ CollectionFails(t) \/ DrainFails(t)
      PROVE  [Promise!PromiseNext]_<<Promised, received>>
  <2>1. UNCHANGED <<row, enqueued, received>>
    BY <1>7 DEF BeginCycle, BeginIdleCycle, NothingToEnqueue, StopDrain,
                CollectionFails, DrainFails, history
  <2> QED
    BY <2>1, FateKept
<1>8. CASE (\E c \in 1..MaxTime : GrowsOld(c)) \/ UNCHANGED vars
  <2>1. UNCHANGED <<row, enqueued, received>>
    BY <1>8 DEF GrowsOld, history, vars
  <2> QED
    BY <2>1, FateKept
<1> QED
  BY <1>1, <1>2, <1>3, <1>4, <1>5, <1>6, <1>7, <1>8 DEF Next, Collect, Drain

\* enqueue, drain, _ack, _reject and prune keep the promise of the outbox for any
\* number of trackers: accepted once, sent only after it arrived, settled for good,
\* and never back once retention has taken it.
THEOREM OutboxImplementsPromise == Spec => ImplementsPromise
<1>1. Init => Retention /\ OutboxInv
  BY InitRetention, InitInv
<1>2. OutboxInv /\ OutboxInv' /\ Retention /\ [Next]_vars => Retention'
  BY StepRetains
<1>3. OutboxInv /\ OutboxInv' /\ Retention /\ [Next]_vars
        => [Promise!PromiseNext]_<<Promised, received>>
  BY StepPromised
<1>4. [Promise!PromiseNext]_<<Promised, received>>
        <=> [Promise!PromiseNext]_(Promise!promised)
  BY DEF Promised, Promise!promised
<1> QED
  BY <1>1, <1>2, <1>3, <1>4, InitPromised, OutboxInvariance, PTL
     DEF Spec, ImplementsPromise, Promise!PromiseSpec

=============================================================================
