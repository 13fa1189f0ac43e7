-------------------------- MODULE EventOutboxProofs --------------------------
(***************************************************************************)
(* Theorems about EventOutbox for any number of trackers, any chapters,    *)
(* any limit of attempts and any bounds.                                   *)
(***************************************************************************)
EXTENDS EventOutbox, FiniteSetTheorems, TLAPS

-----------------------------------------------------------------------------
(***************************************************************************)
(* The inductive invariant.                                                *)
(***************************************************************************)

\* A claim is in a row while it is being sent and at no other time; its number
\* is one that was given out.  Whatever is in the table was enqueued.
ClaimInRow(k) ==
  /\ row[k].status = "sending" \/ row[k].claim = NoClaim
  /\ row[k].lapsed => row[k].status = "sending"
  /\ row[k].claim <= claims[k]
  /\ row[k].attempts <= claims[k]
  /\ row[k].status # "none" => k \in enqueued

\* The attempts of a row that may be claimed are not yet used up, but for those
\* that claims which ran out have cost.
AttemptsLeft(k) ==
  /\ row[k].attempts <= MaxAttempts + lapses[k]
  /\ row[k].status = "pending" \/ row[k].lapsed
       => row[k].attempts < MaxAttempts + lapses[k]

\* A tracker holds a claim exactly while it delivers and settles; as long as the
\* row has the same claim it counts the same attempts.
HoldOfStep(t) ==
  LET h == held[t] IN
  /\ pc[t] \in Sending <=> h.claim # NoClaim
  /\ h.claim <= claims[h.key] /\ h.attempts <= claims[h.key]
  /\ h.claim # NoClaim /\ row[h.key].claim = h.claim => row[h.key].attempts = h.attempts
  /\ pc[t] = "ack" => h.key \in received

\* A cycle that collects has the time of a collection.
Collecting   == {"collect", "current", "aggregated"}
TimeOfStep(t) ==
  /\ pc[t] \in Collecting => stage[t] # "last"
  /\ pc[t] # "idle" /\ stage[t] # "last" => time[t] >= 1

\* What became of a ranking that is no longer to be delivered.
Outcome(k) ==
  /\ row[k].status = "sent" => k \in received
  /\ k \in enqueued /\ row[k].status \in {"none", "failed"} =>
       k \in received \/ claims[k] >= MaxAttempts

Rows  == \A k \in Key : ClaimInRow(k) /\ AttemptsLeft(k) /\ Outcome(k)
Holds == \A t \in Trackers : HoldOfStep(t)
Times == \A t \in Trackers : TimeOfStep(t)

OutboxInv == OutboxTypeOK /\ Rows /\ Holds /\ Times

-----------------------------------------------------------------------------
(***************************************************************************)
(* The initial states, and the steps that only move a cycle on.            *)
(***************************************************************************)

RowType == [status : {"none", "pending", "sending"} \cup Terminal,
            attempts : Nat, claim : Nat, due : BOOLEAN, lapsed : BOOLEAN]
Hold    == [key : Key, claim : Nat, attempts : Nat]
Stages  == {"first", "retry", "last"}
Steps   == {"idle", "prune", "claim", "collect", "current", "aggregated"} \cup Sending

LEMMA Values == /\ NoRow \in RowType /\ NewRow \in RowType /\ NoHold \in Hold
                /\ Chapters \subseteq Steps \ Sending
<1>1. NoRow \in RowType
  BY DEF NoRow, RowType, NoClaim
<1>2. NewRow \in RowType
  BY <1>1 DEF NewRow, RowType
<1>3. NoHold \in Hold
  BY OutboxBoundsAssumption DEF NoHold, Hold, NoClaim, Key, DataType
<1>4. Chapters \subseteq Steps \ Sending
  BY ChaptersAssumption DEF Steps, Sending
<1> QED
  BY <1>1, <1>2, <1>3, <1>4

LEMMA InitInv == Init => OutboxInv
<1> SUFFICES ASSUME Init PROVE OutboxInv
  OBVIOUS
<1>1. OutboxTypeOK
  BY Values, OutboxBoundsAssumption DEF Init, OutboxTypeOK, RowType, Hold
<1>2. Rows
  BY AttemptsAssumption
     DEF Init, Rows, ClaimInRow, AttemptsLeft, Outcome, NoRow, NoClaim
<1>3. Holds
  BY OutboxBoundsAssumption
     DEF Init, Holds, HoldOfStep, NoHold, NoClaim, Sending, Key, DataType
<1>4. Times
  BY DEF Init, Times, TimeOfStep, Collecting
<1> QED
  BY <1>1, <1>2, <1>3, <1>4 DEF OutboxInv

\* What the table and the claims look like stays; the cycle t moves between
\* steps outside of a delivery.
MovesOn(t) ==
  /\ UNCHANGED <<row, received, history>>
  /\ pc[t] \notin Sending /\ \E step \in Steps \ Sending : At(t, step)
  /\ held' \in {held, [held EXCEPT ![t] = NoHold]}

LEMMA MovesOnKeeps ==
  ASSUME OutboxInv, NEW t \in Trackers, MovesOn(t), OutboxTypeOK', Times'
  PROVE  OutboxInv'
<1>1. Rows'
  BY DEF OutboxInv, MovesOn, history, Rows, ClaimInRow, AttemptsLeft, Outcome, Key
<1>2. Holds'
  <2> SUFFICES ASSUME NEW u \in Trackers PROVE HoldOfStep(u)'
    BY DEF Holds
  <2>1. CASE u = t
    BY <2>1 DEF OutboxInv, OutboxTypeOK, MovesOn, At, history, Holds, HoldOfStep, NoHold, NoClaim
  <2>2. CASE u # t
    BY <2>2 DEF OutboxInv, OutboxTypeOK, MovesOn, At, history, Holds, HoldOfStep
  <2> QED
    BY <2>1, <2>2
<1> QED
  BY <1>1, <1>2 DEF OutboxInv

LEMMA CycleKeeps ==
  ASSUME OutboxInv, NEW t \in Trackers,
         BeginCycle(t) \/ BeginIdleCycle(t) \/ NothingToEnqueue(t)
           \/ CollectionFails(t) \/ StopDrain(t)
  PROVE  OutboxInv'
<1>1. CASE BeginCycle(t)
  <2>1. OutboxTypeOK'
    BY <1>1, OutboxBoundsAssumption
       DEF BeginCycle, At, history, OutboxInv, OutboxTypeOK
  <2>2. MovesOn(t)
    BY <1>1 DEF BeginCycle, MovesOn, Sending, Steps, history
  <2>3. Times'
    BY <1>1 DEF BeginCycle, At, OutboxInv, OutboxTypeOK, Times, TimeOfStep, Collecting
  <2> QED
    BY <2>1, <2>2, <2>3, MovesOnKeeps
<1>2. CASE BeginIdleCycle(t)
  <2>1. OutboxTypeOK'
    BY <1>2 DEF BeginIdleCycle, LastDrain, At, Stage, history, OutboxInv, OutboxTypeOK
  <2>2. MovesOn(t)
    BY <1>2 DEF BeginIdleCycle, LastDrain, MovesOn, Sending, Steps, history
  <2>3. Times'
    BY <1>2 DEF BeginIdleCycle, LastDrain, At, Stage, OutboxInv, OutboxTypeOK, Times, TimeOfStep, Collecting
  <2> QED
    BY <2>1, <2>2, <2>3, MovesOnKeeps
<1>3. CASE NothingToEnqueue(t)
  <2>1. OutboxTypeOK'
    BY <1>3 DEF NothingToEnqueue, LastDrain, At, Stage, history, OutboxInv, OutboxTypeOK
  <2>2. MovesOn(t)
    BY <1>3 DEF NothingToEnqueue, LastDrain, MovesOn, Sending, Steps, history
  <2>3. Times'
    BY <1>3 DEF NothingToEnqueue, LastDrain, At, Stage, OutboxInv, OutboxTypeOK, Times, TimeOfStep, Collecting
  <2> QED
    BY <2>1, <2>2, <2>3, MovesOnKeeps
<1>4. CASE CollectionFails(t)
  <2>1. OutboxTypeOK'
    <3>1. pc' \in [Trackers -> Steps] /\ stage' \in [Trackers -> Stages]
      BY <1>4 DEF CollectionFails, Raise, LastDrain, EndCycle, At, Stage,
                  OutboxInv, OutboxTypeOK, Steps, Stages
    <3>2. faults' \in 0..MaxFaults
      BY <1>4, OutboxBoundsAssumption DEF CollectionFails, Fault, OutboxInv, OutboxTypeOK
    <3> QED
      BY <1>4, <3>1, <3>2
         DEF CollectionFails, history, OutboxInv, OutboxTypeOK, Steps, Stages
  <2>2. MovesOn(t)
    BY <1>4 DEF CollectionFails, Raise, LastDrain, EndCycle, MovesOn, Sending, Steps, history
  <2>3. Times'
    BY <1>4 DEF CollectionFails, Raise, LastDrain, EndCycle, At, Stage, OutboxInv, OutboxTypeOK, Times, TimeOfStep, Collecting
  <2> QED
    BY <2>1, <2>2, <2>3, MovesOnKeeps
<1>5. CASE StopDrain(t)
  <2>1. OutboxTypeOK'
    BY <1>5 DEF StopDrain, EndCycle, At, Stage, history, OutboxInv, OutboxTypeOK
  <2>2. MovesOn(t)
    BY <1>5 DEF StopDrain, EndCycle, MovesOn, Sending, Steps, history
  <2>3. Times'
    BY <1>5 DEF StopDrain, EndCycle, At, Stage, OutboxInv, OutboxTypeOK, Times, TimeOfStep, Collecting
  <2> QED
    BY <2>1, <2>2, <2>3, MovesOnKeeps
<1> QED
  BY <1>1, <1>2, <1>3, <1>4, <1>5

-----------------------------------------------------------------------------
(***************************************************************************)
(* The steps that write the table.                                         *)
(***************************************************************************)

LEMMA EnqueueKeeps ==
  ASSUME OutboxInv, NEW t \in Trackers, NEW k \in Key, Enqueue(k),
         pc[t] \notin Sending,
         \E step \in Steps \ Sending : At(t, step),
         stage' \in [Trackers -> Stages], Times'
  PROVE  OutboxInv'
<1>1. OutboxTypeOK'
  <2>1. row' \in [Key -> RowType]
    BY Values DEF Enqueue, OutboxInv, OutboxTypeOK, RowType
  <2>2. pc' \in [Trackers -> Steps]
    BY DEF At, OutboxInv, OutboxTypeOK, Steps
  <2>3. enqueued' \subseteq Key
    BY DEF Enqueue, OutboxInv, OutboxTypeOK
  <2> QED
    BY <2>1, <2>2, <2>3 DEF Enqueue, Stages, Steps, OutboxInv, OutboxTypeOK, RowType
<1>2. Rows'
  <2> SUFFICES ASSUME NEW l \in Key
               PROVE  ClaimInRow(l)' /\ AttemptsLeft(l)' /\ Outcome(l)'
    BY DEF Rows
  <2>1. row'[l] = row[l] \/ (row[l].status = "none" /\ row'[l] = NewRow)
    <3>1. row \in [Key -> RowType]
      BY DEF OutboxInv, OutboxTypeOK, RowType
    <3>2. row' = [row EXCEPT ![k] = IF row[k].status = "none" THEN NewRow ELSE row[k]]
      BY DEF Enqueue
    <3> QED
      BY <3>1, <3>2
  <2>2. NewRow.status = "pending" /\ NewRow.attempts = 0 /\ NewRow.claim = 0 /\ ~NewRow.lapsed
    BY DEF NewRow, NoRow, NoClaim
  <2>3. claims[l] \in Nat /\ lapses[l] \in Nat
    BY DEF OutboxInv, OutboxTypeOK
  <2> QED
    BY <2>1, <2>2, <2>3, AttemptsAssumption
       DEF Enqueue, OutboxInv, OutboxTypeOK, Rows, ClaimInRow, AttemptsLeft, Outcome, NoClaim
<1>3. Holds'
  <2> SUFFICES ASSUME NEW u \in Trackers PROVE HoldOfStep(u)'
    BY DEF Holds
  <2>1. pc[u] \in Sending <=> pc'[u] \in Sending
    BY DEF At, OutboxInv, OutboxTypeOK
  <2>2. held[u] \in Hold /\ HoldOfStep(u)
    BY DEF OutboxInv, OutboxTypeOK, Hold, Holds
  <2>3. row'[held[u].key] = row[held[u].key] \/ row'[held[u].key].claim = NoClaim
    BY <2>2 DEF Enqueue, OutboxInv, OutboxTypeOK, Hold, NewRow, NoRow
  <2>4. pc'[u] = "ack" => pc[u] = "ack"
    BY DEF At, OutboxInv, OutboxTypeOK, Sending
  <2> QED
    BY <2>1, <2>2, <2>3, <2>4 DEF Enqueue, HoldOfStep
<1> QED
  BY <1>1, <1>2, <1>3 DEF OutboxInv

LEMMA CollectKeeps ==
  ASSUME OutboxInv, NEW t \in Trackers, EnqueueRanking(t) \/ EnqueueChapter(t)
  PROVE  OutboxInv'
<1>1. stage' \in [Trackers -> Stages]
  BY DEF EnqueueRanking, EnqueueChapter, LastDrain, Stage, Stages, OutboxInv, OutboxTypeOK
<1>2. pc[t] \notin Sending /\ \E step \in Steps \ Sending : At(t, step)
  BY Values DEF EnqueueRanking, EnqueueChapter, LastDrain, Sending, Steps
<1>3. \E k \in Key : Enqueue(k)
  <2>1. time[t] \in 1..MaxTime
    BY DEF EnqueueRanking, EnqueueChapter, OutboxInv, OutboxTypeOK, Times, TimeOfStep,
           Collecting
  <2> QED
    BY <2>1 DEF EnqueueRanking, EnqueueChapter, Key, DataType
<1>4. Times'
  BY ChaptersAssumption
     DEF EnqueueRanking, EnqueueChapter, Enqueue, LastDrain, At, Stage, OutboxInv,
         OutboxTypeOK, Times, TimeOfStep, Collecting
<1> QED
  BY <1>1, <1>2, <1>3, <1>4, EnqueueKeeps

\* A row that retention may take leaves an empty row that loses nothing.
LEMMA PruneKeeps ==
  ASSUME OutboxInv, NEW t \in Trackers, Prune(t)
  PROVE  OutboxInv'
<1>1. PICK gone \in SUBSET {k \in Key : Prunable(k)} :
        row' = [k \in Key |-> IF k \in gone THEN NoRow ELSE row[k]]
  BY DEF Prune
<1>2. OutboxTypeOK'
  <2>1. row' \in [Key -> RowType]
    BY <1>1, Values DEF OutboxInv, OutboxTypeOK, RowType
  <2> QED
    BY <2>1 DEF Prune, At, history, OutboxInv, OutboxTypeOK, RowType
<1>3. \A k \in Key : \/ row'[k] = row[k]
                     \/ row'[k] = NoRow /\ row[k].status \in Terminal
  BY <1>1 DEF Prunable
<1>4. NoRow.status = "none" /\ NoRow.attempts = 0 /\ NoRow.claim = NoClaim /\ ~NoRow.lapsed
  BY DEF NoRow
<1>5. Rows'
  <2> SUFFICES ASSUME NEW l \in Key
               PROVE  ClaimInRow(l)' /\ AttemptsLeft(l)' /\ Outcome(l)'
    BY DEF Rows
  <2>1. claims[l] \in Nat /\ lapses[l] \in Nat
    BY DEF OutboxInv, OutboxTypeOK
  <2> QED
    BY <1>3, <1>4, <2>1, AttemptsAssumption
       DEF Prune, history, OutboxInv, Rows, ClaimInRow, AttemptsLeft, Outcome, NoClaim, Terminal
<1>6. Holds'
  <2> SUFFICES ASSUME NEW u \in Trackers PROVE HoldOfStep(u)'
    BY DEF Holds
  <2>1. held[u] \in Hold /\ HoldOfStep(u)
    BY DEF OutboxInv, OutboxTypeOK, Hold, Holds
  <2>2. /\ pc[u] \in Sending <=> pc'[u] \in Sending
        /\ pc'[u] = "ack" => pc[u] = "ack"
    BY DEF Prune, At, OutboxInv, OutboxTypeOK, Sending
  <2>3. row'[held[u].key] = row[held[u].key] \/ row'[held[u].key].claim = NoClaim
    BY <1>3, <1>4, <2>1 DEF Hold
  <2> QED
    BY <2>1, <2>2, <2>3 DEF Prune, history, HoldOfStep
<1>7. Times'
  BY DEF Prune, At, OutboxInv, OutboxTypeOK, Times, TimeOfStep, Collecting
<1> QED
  BY <1>2, <1>5, <1>6, <1>7 DEF OutboxInv

\* What _claim makes of the row of a lapsed claim, and of the row it claims.
Reopened(l) == [row[l] EXCEPT !.status = "pending", !.claim = NoClaim, !.lapsed = FALSE]
Claimed(k)  == [status |-> "sending", attempts |-> row[k].attempts + 1,
                claim |-> claims[k] + 1, due |-> TRUE, lapsed |-> FALSE]

\* The new claim is greater than every one that a tracker holds.
LEMMA ClaimKeeps ==
  ASSUME OutboxInv, NEW t \in Trackers, Claim(t)
  PROVE  OutboxInv'
<1>1. PICK k \in Key :
        /\ Claimable(k)
        /\ row' = [l \in Key |-> IF l = k THEN Claimed(k)
                                 ELSE IF Lapsed(l) THEN Reopened(l) ELSE row[l]]
        /\ held' = [held EXCEPT ![t] = [key |-> k, claim |-> claims[k] + 1,
                                        attempts |-> row[k].attempts + 1]]
        /\ claims' = [claims EXCEPT ![k] = claims[k] + 1]
  BY DEF Claim, Claimed, Reopened
<1>2. /\ row \in [Key -> RowType] /\ claims \in [Key -> Nat] /\ lapses \in [Key -> Nat]
      /\ held \in [Trackers -> Hold] /\ pc \in [Trackers -> Steps]
  BY DEF OutboxInv, OutboxTypeOK, RowType, Hold, Steps
<1>3. /\ row'[k].status = "sending" /\ row'[k].attempts = row[k].attempts + 1
      /\ row'[k].claim = claims[k] + 1 /\ row'[k].lapsed = FALSE
      /\ row'[k].due = TRUE /\ row'[k] \in RowType
  <2>1. row'[k] = Claimed(k)
    BY <1>1
  <2> QED
    BY <1>2, <2>1 DEF Claimed, RowType
<1>4. ASSUME NEW l \in Key, l # k
      PROVE  \/ row'[l] = row[l]
             \/ /\ Lapsed(l) /\ row'[l] \in RowType
                /\ row'[l].status = "pending" /\ row'[l].claim = NoClaim
                /\ row'[l].lapsed = FALSE /\ row'[l].attempts = row[l].attempts
  <2>1. row'[l] = IF Lapsed(l) THEN Reopened(l) ELSE row[l]
    BY <1>1, <1>4
  <2>2. /\ Reopened(l) \in RowType
        /\ Reopened(l).status = "pending" /\ Reopened(l).claim = NoClaim
        /\ Reopened(l).lapsed = FALSE /\ Reopened(l).attempts = row[l].attempts
    BY <1>2 DEF Reopened, RowType, NoClaim
  <2> QED
    BY <2>1, <2>2
<1>5. OutboxTypeOK'
  <2>1. row' \in [Key -> RowType]
    BY <1>1, <1>2, <1>3, <1>4
  <2>2. held' \in [Trackers -> Hold] /\ claims' \in [Key -> Nat]
    BY <1>1, <1>2 DEF Hold, RowType
  <2>3. pc' \in [Trackers -> Steps]
    BY <1>2 DEF Claim, At, Steps, Sending
  <2> QED
    BY <2>1, <2>2, <2>3 DEF Claim, OutboxInv, OutboxTypeOK, RowType, Hold, Steps
<1>6. Rows'
  <2> SUFFICES ASSUME NEW l \in Key
               PROVE  ClaimInRow(l)' /\ AttemptsLeft(l)' /\ Outcome(l)'
    BY DEF Rows
  <2>1. ClaimInRow(l) /\ AttemptsLeft(l) /\ Outcome(l)
    BY DEF OutboxInv, Rows
  <2>2. /\ claims[l] \in Nat /\ lapses[l] \in Nat /\ row[l].attempts \in Nat
        /\ lapses' = lapses /\ enqueued' = enqueued /\ received' = received
    BY <1>2 DEF Claim, RowType
  <2>3. CASE l = k
    BY <1>1, <1>2, <1>3, <2>1, <2>2, <2>3, AttemptsAssumption
       DEF ClaimInRow, AttemptsLeft, Outcome, Claimable, Lapsed, NoClaim
  <2>4. CASE l # k
    <3>1. claims'[l] = claims[l] /\ lapses'[l] = lapses[l]
      BY <1>1, <1>2, <2>2, <2>4
    <3>2. CASE row'[l] = row[l]
      BY <2>1, <2>2, <3>1, <3>2 DEF ClaimInRow, AttemptsLeft, Outcome
    <3>3. CASE row'[l] # row[l]
      <4>1. /\ Lapsed(l) /\ row'[l].status = "pending" /\ row'[l].claim = NoClaim
            /\ row'[l].lapsed = FALSE /\ row'[l].attempts = row[l].attempts
        BY <1>4, <2>4, <3>3
      <4> QED
        BY <2>1, <2>2, <3>1, <4>1
           DEF ClaimInRow, AttemptsLeft, Outcome, Lapsed, NoClaim
    <3> QED
      BY <3>2, <3>3
  <2> QED
    BY <2>3, <2>4
<1>7. Holds'
  <2> SUFFICES ASSUME NEW u \in Trackers PROVE HoldOfStep(u)'
    BY DEF Holds
  <2>1. CASE u = t
    <3>1. held'[t].key = k /\ held'[t].claim = claims[k] + 1
          /\ held'[t].attempts = row[k].attempts + 1 /\ claims'[k] = claims[k] + 1
      BY <1>1, <1>2
    <3>2. pc'[t] = "deliver"
      BY <1>2 DEF Claim, At
    <3>3. row[k].attempts <= claims[k] /\ claims[k] \in Nat /\ row[k].attempts \in Nat
      BY <1>2 DEF OutboxInv, Rows, ClaimInRow, RowType
    <3> QED
      BY <1>3, <2>1, <3>1, <3>2, <3>3 DEF HoldOfStep, Sending, NoClaim
  <2>2. CASE u # t
    <3>1. held'[u] = held[u] /\ pc'[u] = pc[u] /\ received' = received
      BY <1>1, <1>2, <2>2 DEF Claim, At
    <3>2. held[u] \in Hold /\ HoldOfStep(u)
      BY <1>2 DEF OutboxInv, Holds
    <3>3. /\ claims'[held[u].key] >= claims[held[u].key] /\ claims'[held[u].key] \in Nat
          /\ claims[held[u].key] \in Nat
      BY <1>1, <1>2, <3>2 DEF Hold
    <3>4. CASE held[u].key = k
      BY <1>2, <1>3, <3>1, <3>2, <3>3, <3>4 DEF HoldOfStep, Hold
    <3>5. CASE held[u].key # k
      <4>1. held[u].key \in Key /\ held[u].claim \in Nat /\ held[u].attempts \in Nat
        BY <3>2 DEF Hold
      <4>2. \/ row'[held[u].key] = row[held[u].key]
            \/ row'[held[u].key].claim = NoClaim
        BY <1>4, <3>5, <4>1
      <4>3. held'[u].claim # NoClaim /\ row'[held'[u].key].claim = held'[u].claim
              => row'[held'[u].key].attempts = held'[u].attempts
        BY <3>1, <3>2, <4>1, <4>2 DEF HoldOfStep
      <4> QED
        BY <3>1, <3>2, <3>3, <4>1, <4>3 DEF HoldOfStep
    <3> QED
      BY <3>4, <3>5
  <2> QED
    BY <2>1, <2>2
<1>8. Times'
  BY DEF Claim, At, OutboxInv, OutboxTypeOK, Times, TimeOfStep, Collecting
<1> QED
  BY <1>5, <1>6, <1>7, <1>8 DEF OutboxInv

LEMMA DeliverKeeps ==
  ASSUME OutboxInv, NEW t \in Trackers, Deliver(t)
  PROVE  OutboxInv'
<1>1. /\ pc[t] = "deliver" /\ pc' \in {[pc EXCEPT ![t] = "ack"], [pc EXCEPT ![t] = "reject"]}
      /\ received' \in {received, received \cup {held[t].key}}
      /\ pc'[t] = "ack" => held[t].key \in received'
      /\ held \in [Trackers -> Hold] /\ pc \in [Trackers -> Steps]
  BY DEF Deliver, At, OutboxInv, OutboxTypeOK, Hold, Steps
<1>2. OutboxTypeOK'
  BY <1>1 DEF Deliver, history, OutboxInv, OutboxTypeOK, Sending, Steps, Hold
<1>3. Rows'
  BY <1>1 DEF Deliver, history, OutboxInv, Rows, ClaimInRow, AttemptsLeft, Outcome, Key
<1>4. Holds'
  <2> SUFFICES ASSUME NEW u \in Trackers PROVE HoldOfStep(u)'
    BY DEF Holds
  <2>1. HoldOfStep(u)
    BY DEF OutboxInv, Holds
  <2>2. CASE u = t
    BY <1>1, <2>1, <2>2 DEF Deliver, history, HoldOfStep, Sending
  <2>3. CASE u # t
    BY <1>1, <2>1, <2>3 DEF Deliver, history, HoldOfStep
  <2> QED
    BY <2>2, <2>3
<1>5. Times'
  BY <1>1 DEF Deliver, OutboxInv, Times, TimeOfStep, Collecting
<1> QED
  BY <1>2, <1>3, <1>4, <1>5 DEF OutboxInv

\* The answer of a delivery reaches the row only while the row still has the
\* claim, and then it finds the attempts the tracker counts.
LEMMA SettleKeeps ==
  ASSUME OutboxInv, NEW t \in Trackers, NEW status, NEW due \in BOOLEAN,
         Settle(t, status, due), pc[t] \in Sending,
         \/ status = "sent" /\ pc[t] = "ack"
         \/ status = "failed" /\ held[t].attempts >= MaxAttempts
         \/ status = "pending" /\ held[t].attempts < MaxAttempts
  PROVE  OutboxInv'
<1> DEFINE k == held[t].key
           settled == [row[k] EXCEPT !.status = status, !.claim = NoClaim,
                                     !.due = due, !.lapsed = FALSE]
<1>1. /\ row \in [Key -> RowType] /\ claims \in [Key -> Nat] /\ lapses \in [Key -> Nat]
      /\ held \in [Trackers -> Hold] /\ pc \in [Trackers -> Steps] /\ k \in Key
      /\ held[t].claim \in Nat /\ held[t].attempts \in Nat
  BY DEF OutboxInv, OutboxTypeOK, RowType, Hold, Steps
<1>2. HoldOfStep(t) /\ held[t].claim # NoClaim
  BY DEF OutboxInv, Holds, HoldOfStep
<1>3. /\ settled \in RowType /\ settled.status = status /\ settled.claim = NoClaim
      /\ settled.lapsed = FALSE /\ settled.attempts = row[k].attempts
  BY <1>1 DEF RowType, NoClaim, Terminal
<1>4. row' = [row EXCEPT ![k] = IF Owns(t) THEN settled ELSE row[k]]
  BY DEF Settle
<1> HIDE DEF settled
<1>5. /\ \A l \in Key : l # k => row'[l] = row[l]
      /\ ~Owns(t) => row'[k] = row[k]
      /\ Owns(t) => row'[k] = settled
  BY <1>1, <1>4
<1>6. OutboxTypeOK'
  <2>1. row' \in [Key -> RowType]
    BY <1>1, <1>3, <1>4
  <2>2. held' \in [Trackers -> Hold] /\ pc' \in [Trackers -> Steps]
    BY <1>1, Values DEF Settle, At, Steps
  <2> QED
    BY <2>1, <2>2 DEF Settle, history, OutboxInv, OutboxTypeOK, RowType, Hold, Steps
<1>7. Rows'
  <2> SUFFICES ASSUME NEW l \in Key
               PROVE  ClaimInRow(l)' /\ AttemptsLeft(l)' /\ Outcome(l)'
    BY DEF Rows
  <2>1. ClaimInRow(l) /\ AttemptsLeft(l) /\ Outcome(l)
    BY DEF OutboxInv, Rows
  <2>2. /\ claims' = claims /\ lapses' = lapses /\ enqueued' = enqueued
        /\ received' = received /\ claims[l] \in Nat /\ lapses[l] \in Nat
        /\ row[l].attempts \in Nat
    BY <1>1 DEF Settle, history, RowType
  <2>3. CASE l = k /\ Owns(t)
    <3>1. row'[l] = settled /\ row[l].claim = held[t].claim
      BY <1>5, <2>3 DEF Owns
    <3>2. row[l].status = "sending" /\ row[l].attempts = held[t].attempts
          /\ l \in enqueued
      BY <1>2, <2>1, <2>3, <3>1 DEF HoldOfStep, ClaimInRow
    <3>3. held[t].attempts <= claims[l]
      BY <1>2, <2>3 DEF HoldOfStep
    <3>4. status = "sent" => l \in received
      BY <1>2, <2>3 DEF HoldOfStep
    <3>5. /\ row'[l].status = status /\ row'[l].claim = NoClaim
          /\ row'[l].lapsed = FALSE /\ row'[l].attempts = row[l].attempts
      BY <1>3, <2>3, <3>1
    <3>6. ClaimInRow(l)'
      BY <2>1, <2>2, <3>2, <3>5 DEF ClaimInRow, NoClaim
    <3>7. AttemptsLeft(l)'
      BY <2>1, <2>2, <3>2, <3>5, AttemptsAssumption DEF AttemptsLeft
    <3>8. status = "failed" => claims[l] >= MaxAttempts
      BY <1>1, <2>2, <3>3, AttemptsAssumption
    <3>9. status # "none"
      OBVIOUS
    <3> QED
      BY <2>2, <3>4, <3>5, <3>6, <3>7, <3>8, <3>9 DEF Outcome
  <2>4. CASE l # k \/ ~Owns(t)
    BY <1>5, <2>1, <2>2, <2>4 DEF ClaimInRow, AttemptsLeft, Outcome
  <2> QED
    BY <2>3, <2>4
<1>8. Holds'
  <2> SUFFICES ASSUME NEW u \in Trackers PROVE HoldOfStep(u)'
    BY DEF Holds
  <2>1. HoldOfStep(u) /\ held[u] \in Hold
    BY <1>1 DEF OutboxInv, Holds
  <2>2. claims' = claims /\ received' = received
    BY DEF Settle, history
  <2>3. CASE u = t
    <3>1. held'[u] = NoHold /\ pc'[u] = "claim"
      BY <1>1, <2>3 DEF Settle, At
    <3>2. NoHold.claim = NoClaim /\ NoHold.attempts = 0 /\ NoHold.key \in Key
      BY Values DEF NoHold, Hold
    <3> QED
      BY <1>1, <2>2, <3>1, <3>2 DEF HoldOfStep, NoClaim, Sending
  <2>4. CASE u # t
    <3>1. held'[u] = held[u] /\ pc'[u] = pc[u]
      BY <1>1, <2>4 DEF Settle, At
    <3>2. row'[held[u].key] = row[held[u].key] \/ row'[held[u].key].claim = NoClaim
      BY <1>3, <1>5, <2>1 DEF Hold
    <3> QED
      BY <2>1, <2>2, <3>1, <3>2 DEF HoldOfStep
  <2> QED
    BY <2>3, <2>4
<1>9. Times'
  BY DEF Settle, At, Sending, OutboxInv, OutboxTypeOK, Times, TimeOfStep, Collecting
<1> QED
  BY <1>6, <1>7, <1>8, <1>9 DEF OutboxInv

LEMMA AnswerKeeps ==
  ASSUME OutboxInv, NEW t \in Trackers, Ack(t) \/ Reject(t)
  PROVE  OutboxInv'
<1>1. CASE Ack(t)
  BY <1>1, SettleKeeps DEF Ack, Sending
<1>2. CASE Reject(t)
  <2>1. held[t].attempts \in Nat
    BY DEF OutboxInv, OutboxTypeOK
  <2>2. CASE held[t].attempts >= MaxAttempts
    BY <1>2, <2>1, <2>2, SettleKeeps DEF Reject, Verdict, Sending
  <2>3. CASE held[t].attempts < MaxAttempts
    BY <1>2, <2>1, <2>3, SettleKeeps, AttemptsAssumption DEF Reject, Verdict, Sending
  <2> QED
    BY <2>1, <2>2, <2>3, AttemptsAssumption
<1> QED
  BY <1>1, <1>2

-----------------------------------------------------------------------------
(***************************************************************************)
(* Failures, crashes and the passing of time.                              *)
(***************************************************************************)

\* A tracker lets go of what it holds and is nowhere in a delivery.
LetsGo(t) ==
  /\ UNCHANGED <<row, history>> /\ received \subseteq received'
  /\ held' = [held EXCEPT ![t] = NoHold]
  /\ \E step \in Steps \ Sending : At(t, step)

LEMMA LetsGoKeeps ==
  ASSUME OutboxInv, NEW t \in Trackers, LetsGo(t), OutboxTypeOK', Times'
  PROVE  OutboxInv'
<1>1. Rows'
  BY DEF OutboxInv, LetsGo, history, Rows, ClaimInRow, AttemptsLeft, Outcome
<1>2. Holds'
  <2> SUFFICES ASSUME NEW u \in Trackers PROVE HoldOfStep(u)'
    BY DEF Holds
  <2>1. /\ held \in [Trackers -> Hold] /\ pc \in [Trackers -> Steps]
        /\ claims \in [Key -> Nat] /\ claims' = claims /\ HoldOfStep(u)
    BY DEF OutboxInv, OutboxTypeOK, Hold, Steps, LetsGo, history, Holds
  <2>2. CASE u = t
    <3>1. held'[u] = NoHold /\ pc'[u] \notin Sending
      BY <2>1, <2>2 DEF LetsGo, At
    <3>2. NoHold.claim = NoClaim /\ NoHold.attempts = 0 /\ NoHold.key \in Key
      BY Values DEF NoHold, Hold
    <3> QED
      BY <2>1, <3>1, <3>2 DEF HoldOfStep, NoClaim, Sending
  <2>3. CASE u # t
    <3>1. held'[u] = held[u] /\ pc'[u] = pc[u]
      BY <2>1, <2>3 DEF LetsGo, At
    <3> QED
      BY <2>1, <3>1 DEF LetsGo, HoldOfStep
  <2> QED
    BY <2>2, <2>3
<1> QED
  BY <1>1, <1>2 DEF OutboxInv

LEMMA StopsKeep ==
  ASSUME OutboxInv, NEW t \in Trackers, DrainFails(t) \/ Crash(t)
  PROVE  OutboxInv'
<1>1. pc' \in [Trackers -> Steps] /\ stage' \in [Trackers -> Stages]
  BY DEF DrainFails, Crash, Raise, LastDrain, EndCycle, At, Stage,
         OutboxInv, OutboxTypeOK, Steps, Stages
<1>2. faults' \in 0..MaxFaults
  BY OutboxBoundsAssumption DEF DrainFails, Crash, Fault, OutboxInv, OutboxTypeOK
<1>3. held' \in [Trackers -> Hold] /\ received' \subseteq Key
  BY Values DEF DrainFails, Crash, OutboxInv, OutboxTypeOK, Hold
<1>4. OutboxTypeOK'
  BY <1>1, <1>2, <1>3
     DEF DrainFails, Crash, history, OutboxInv, OutboxTypeOK, Steps, Stages, Hold
<1>5. LetsGo(t)
  BY DEF DrainFails, Crash, Raise, LastDrain, EndCycle, LetsGo, Steps, Sending, history
<1>6. Times'
  BY DEF DrainFails, Crash, Raise, LastDrain, EndCycle, At, Stage,
         OutboxInv, OutboxTypeOK, Times, TimeOfStep, Collecting
<1> QED
  BY <1>4, <1>5, <1>6, LetsGoKeeps

\* Time passes over one row: it may lapse or become due, and nothing else of it
\* changes; a claim that lapses is counted.
Ages(k) ==
  \/ /\ row[k].status = "sending" /\ row' = [row EXCEPT ![k].lapsed = TRUE]
     /\ lapses' = [lapses EXCEPT ![k] = @ + 1]
  \/ /\ row[k].status = "pending" /\ row' = [row EXCEPT ![k].due = TRUE]
     /\ UNCHANGED lapses

LEMMA AgesKeeps ==
  ASSUME OutboxInv, NEW k \in Key, Ages(k),
         UNCHANGED <<pc, stage, time, held, received, clock, old, enqueued, claims, faults>>,
         slow' \in 0..MaxSlow
  PROVE  OutboxInv'
<1>1. row \in [Key -> RowType] /\ lapses \in [Key -> Nat]
  BY DEF OutboxInv, OutboxTypeOK, RowType
<1>2. row' \in [Key -> RowType] /\ lapses' \in [Key -> Nat]
  <2>1. lapses' \in [Key -> Nat]
    <3>1. lapses' = lapses \/ lapses' = [lapses EXCEPT ![k] = lapses[k] + 1]
      BY DEF Ages
    <3>2. lapses[k] + 1 \in Nat
      BY <1>1
    <3> QED
      BY <1>1, <3>1, <3>2
  <2>2. CASE row' = [row EXCEPT ![k].lapsed = TRUE]
    BY <1>1, <2>1, <2>2 DEF RowType
  <2>3. CASE row' = [row EXCEPT ![k].due = TRUE]
    BY <1>1, <2>1, <2>3 DEF RowType
  <2> QED
    BY <2>2, <2>3 DEF Ages
<1>3. OutboxTypeOK'
  BY <1>2 DEF OutboxInv, OutboxTypeOK, RowType
<1>4. ASSUME NEW l \in Key
      PROVE  /\ row'[l].status = row[l].status /\ row'[l].claim = row[l].claim
             /\ row'[l].attempts = row[l].attempts
             /\ \/ row'[l].lapsed = row[l].lapsed /\ lapses'[l] = lapses[l]
                \/ /\ row[l].status = "sending" /\ row'[l].lapsed = TRUE
                   /\ lapses'[l] = lapses[l] + 1
  BY <1>1 DEF Ages, RowType
<1>5. Rows'
  <2> SUFFICES ASSUME NEW l \in Key
               PROVE  ClaimInRow(l)' /\ AttemptsLeft(l)' /\ Outcome(l)'
    BY DEF Rows
  <2>1. ClaimInRow(l) /\ AttemptsLeft(l) /\ Outcome(l)
    BY DEF OutboxInv, Rows
  <2>2. lapses[l] \in Nat /\ row[l].attempts \in Nat /\ MaxAttempts \in Nat
    BY <1>1, AttemptsAssumption DEF RowType
  <2>3. /\ enqueued' = enqueued /\ received' = received /\ claims' = claims
    OBVIOUS
  <2>4. CASE row'[l].lapsed = row[l].lapsed /\ lapses'[l] = lapses[l]
    BY <1>4, <2>1, <2>3, <2>4 DEF ClaimInRow, AttemptsLeft, Outcome
  <2>5. CASE /\ row[l].status = "sending" /\ row'[l].lapsed = TRUE
             /\ lapses'[l] = lapses[l] + 1
    <3>1. /\ row'[l].status = "sending" /\ row'[l].claim = row[l].claim
          /\ row'[l].attempts = row[l].attempts
      BY <1>4, <2>5
    <3>2. ClaimInRow(l)' /\ Outcome(l)'
      BY <2>1, <2>3, <2>5, <3>1 DEF ClaimInRow, Outcome
    <3>3. row'[l].attempts < MaxAttempts + lapses'[l]
      BY <2>1, <2>2, <2>5, <3>1 DEF AttemptsLeft
    <3> QED
      BY <2>2, <2>5, <3>1, <3>2, <3>3 DEF AttemptsLeft
  <2> QED
    BY <1>4, <2>4, <2>5
<1>6. Holds'
  <2>1. \A u \in Trackers : held[u].key \in Key
    BY DEF OutboxInv, OutboxTypeOK
  <2> QED
    BY <1>4, <2>1 DEF OutboxInv, Holds, HoldOfStep
<1>7. Times'
  BY DEF OutboxInv, Times, TimeOfStep
<1> QED
  BY <1>3, <1>5, <1>6, <1>7 DEF OutboxInv

LEMMA TimeKeeps ==
  ASSUME OutboxInv,
         NEW k \in Key, ClaimLapses(k) \/ SlowDelivery(k) \/ BackoffOver(k)
  PROVE  OutboxInv'
<1>1. slow' \in 0..MaxSlow
  BY OutboxBoundsAssumption
     DEF ClaimLapses, SlowDelivery, BackoffOver, OutboxInv, OutboxTypeOK
<1>2. Ages(k)
  BY DEF ClaimLapses, SlowDelivery, BackoffOver, Lapse, Ages, history
<1>3. UNCHANGED <<pc, stage, time, held, received, clock, old, enqueued, claims, faults>>
  BY DEF ClaimLapses, SlowDelivery, BackoffOver, Lapse, history
<1> QED
  BY <1>1, <1>2, <1>3, AgesKeeps

LEMMA OldKeeps ==
  ASSUME OutboxInv,
         (\E c \in 1..MaxTime : GrowsOld(c)) \/ UNCHANGED vars
  PROVE  OutboxInv'
<1>1. UNCHANGED <<row, pc, stage, time, held, received, clock, history, faults, slow>>
  BY DEF GrowsOld, vars, history
<1>2. OutboxTypeOK'
  BY <1>1 DEF GrowsOld, vars, history, OutboxInv, OutboxTypeOK
<1>3. Rows' /\ Holds' /\ Times'
  BY <1>1 DEF history, OutboxInv, Rows, ClaimInRow, AttemptsLeft, Outcome, Holds,
              HoldOfStep, Times, TimeOfStep
<1> QED
  BY <1>2, <1>3 DEF OutboxInv

-----------------------------------------------------------------------------
(***************************************************************************)
(* The theorems.                                                           *)
(***************************************************************************)

LEMMA StepKeeps == OutboxInv /\ [Next]_vars => OutboxInv'
<1> SUFFICES ASSUME OutboxInv, [Next]_vars PROVE OutboxInv'
  OBVIOUS
<1>1. ASSUME NEW t \in Trackers,
             BeginCycle(t) \/ BeginIdleCycle(t) \/ NothingToEnqueue(t)
               \/ CollectionFails(t) \/ StopDrain(t)
      PROVE  OutboxInv'
  BY <1>1, CycleKeeps
<1>2. ASSUME NEW t \in Trackers, EnqueueRanking(t) \/ EnqueueChapter(t)
      PROVE  OutboxInv'
  BY <1>2, CollectKeeps
<1>3. ASSUME NEW t \in Trackers, Prune(t) PROVE OutboxInv'
  BY <1>3, PruneKeeps
<1>4. ASSUME NEW t \in Trackers, Claim(t) PROVE OutboxInv'
  BY <1>4, ClaimKeeps
<1>5. ASSUME NEW t \in Trackers, Deliver(t) PROVE OutboxInv'
  BY <1>5, DeliverKeeps
<1>6. ASSUME NEW t \in Trackers, Ack(t) \/ Reject(t) PROVE OutboxInv'
  BY <1>6, AnswerKeeps
<1>7. ASSUME NEW t \in Trackers, DrainFails(t) \/ Crash(t) PROVE OutboxInv'
  BY <1>7, StopsKeep
<1>8. ASSUME NEW k \in Key, ClaimLapses(k) \/ SlowDelivery(k) \/ BackoffOver(k)
      PROVE  OutboxInv'
  BY <1>8, TimeKeeps
<1>9. CASE (\E c \in 1..MaxTime : GrowsOld(c)) \/ UNCHANGED vars
  BY <1>9, OldKeeps
<1> QED
  BY <1>1, <1>2, <1>3, <1>4, <1>5, <1>6, <1>7, <1>8, <1>9 DEF Next, Collect, Drain

\* Every reachable state satisfies the inductive invariant: the table, the
\* claims trackers hold and the receiving API agree as described above.
THEOREM OutboxInvariance == Spec => []OutboxInv
<1> QED
  BY InitInv, StepKeeps, PTL DEF Spec

\* Every variable of the outbox and of its trackers has its type; a tracker that
\* delivers or settles holds the key of a row (ClaimedOutboxItem in drain).
THEOREM OutboxTypeCorrect == Spec => []OutboxTypeOK
<1>1. OutboxInv => OutboxTypeOK
  BY DEF OutboxInv
<1> QED
  BY <1>1, OutboxInvariance, PTL

\* _ack marks a row sent only when the receiving API has stored the ranking, for
\* any number of trackers that reclaim the row from each other.
THEOREM SentReceived == Spec => []SentMeansReceived
<1>1. OutboxInv => SentMeansReceived
  BY DEF OutboxInv, Rows, Outcome, SentMeansReceived
<1> QED
  BY <1>1, OutboxInvariance, PTL

\* A ranking that enqueue stored leaves the table, or is given up by _reject,
\* only after it arrived or after as many claims as drain allows attempts.
THEOREM NothingEverLost == Spec => []NothingLost
<1>1. OutboxInv => NothingLost
  BY DEF OutboxInv, OutboxTypeOK, Rows, Outcome, NothingLost
<1> QED
  BY <1>1, OutboxInvariance, PTL

\* The attempts of a row go beyond max_attempts only by the claims that ran out
\* unsettled, which _claim returns to pending without looking at attempts.
THEOREM AttemptsCounted == Spec => []AttemptsAccounted
<1>1. OutboxInv => AttemptsAccounted
  BY DEF OutboxInv, Rows, AttemptsLeft, AttemptsAccounted
<1> QED
  BY <1>1, OutboxInvariance, PTL

\* A row that is settled has no claim, so no tracker that holds one owns it.
LEMMA SettledIsOwnedByNobody ==
  ASSUME OutboxInv, NEW t \in Trackers, pc[t] \in Sending, Owns(t)
  PROVE  row[held[t].key].status \notin Terminal
<1>1. held[t].key \in Key /\ held[t].claim # NoClaim
  BY DEF OutboxInv, OutboxTypeOK, Holds, HoldOfStep
<1>2. row[held[t].key].status = "sending"
  BY <1>1 DEF Owns, OutboxInv, Rows, ClaimInRow
<1> QED
  BY <1>2 DEF Terminal

LEMMA StepSettles ==
  ASSUME OutboxInv, [Next]_vars, NEW k \in Key, row[k].status \in Terminal
  PROVE  row'[k] \in {row[k], NoRow}
<1>1. row \in [Key -> RowType]
  BY DEF OutboxInv, OutboxTypeOK, RowType
<1>2. CASE UNCHANGED row
  BY <1>2
<1>3. ASSUME NEW t \in Trackers, EnqueueRanking(t) \/ EnqueueChapter(t)
      PROVE  row'[k] = row[k]
  BY <1>1, <1>3 DEF EnqueueRanking, EnqueueChapter, Enqueue, Terminal
<1>4. ASSUME NEW t \in Trackers, Prune(t) PROVE row'[k] \in {row[k], NoRow}
  BY <1>4 DEF Prune
<1>5. ASSUME NEW t \in Trackers, Claim(t) PROVE row'[k] = row[k]
  <2>1. ~Claimable(k) /\ ~Lapsed(k)
    BY DEF Claimable, Lapsed, Terminal
  <2> QED
    BY <1>5, <2>1 DEF Claim
<1>6. ASSUME NEW t \in Trackers, Ack(t) \/ Reject(t) PROVE row'[k] = row[k]
  <2>1. pc[t] \in Sending /\ \E status, due : Settle(t, status, due)
    BY <1>6 DEF Ack, Reject, Sending
  <2>2. Owns(t) => held[t].key # k
    BY <2>1, SettledIsOwnedByNobody
  <2> QED
    BY <1>1, <2>1, <2>2 DEF Settle
<1>7. ASSUME NEW l \in Key, ClaimLapses(l) \/ SlowDelivery(l) \/ BackoffOver(l)
      PROVE  row'[k] = row[k]
  <2>1. Ages(l)
    BY <1>7 DEF ClaimLapses, SlowDelivery, BackoffOver, Lapse, Ages, history
  <2>2. l # k
    BY <2>1 DEF Ages, Terminal
  <2> QED
    BY <1>1, <2>1, <2>2 DEF Ages
<1>8. ASSUME NEW t \in Trackers,
             \/ BeginCycle(t) \/ BeginIdleCycle(t) \/ NothingToEnqueue(t)
             \/ StopDrain(t) \/ Deliver(t)
             \/ CollectionFails(t) \/ DrainFails(t) \/ Crash(t)
      PROVE  UNCHANGED row
  BY <1>8 DEF BeginCycle, BeginIdleCycle, NothingToEnqueue, StopDrain, Deliver,
              CollectionFails, DrainFails, Crash
<1>9. CASE (\E c \in 1..MaxTime : GrowsOld(c)) \/ UNCHANGED vars
  BY <1>9 DEF GrowsOld, vars
<1> QED
  BY <1>2, <1>3, <1>4, <1>5, <1>6, <1>7, <1>8, <1>9 DEF Next, Collect, Drain

\* The outcome of a row, sent or failed, is final until retention removes it: a
\* late _ack or _reject of a claim that was taken over does not change it.
THEOREM SettledStays == Spec => SettledStaysSettled
<1>1. OutboxInv /\ [Next]_vars
        => [\A k \in Key : row[k].status \in Terminal => row'[k] \in {row[k], NoRow}]_vars
  BY StepSettles
<1> QED
  BY <1>1, OutboxInvariance, PTL DEF Spec, SettledStaysSettled

-----------------------------------------------------------------------------
(***************************************************************************)
(* How many trackers work on one row.                                      *)
(***************************************************************************)

\* Part of a finite set and at most one thing more.
LEMMA OneMore ==
  ASSUME NEW S, IsFiniteSet(S), NEW n \in Nat, Cardinality(S) <= n,
         NEW u, NEW T \in SUBSET (S \cup {u})
  PROVE  IsFiniteSet(T) /\ Cardinality(T) <= n + 1
<1>1. /\ IsFiniteSet(S \cup {u})
      /\ Cardinality(S \cup {u}) = IF u \in S THEN Cardinality(S) ELSE Cardinality(S) + 1
  BY FS_AddElement
<1>2. IsFiniteSet(T) /\ Cardinality(T) <= Cardinality(S \cup {u})
  BY <1>1, FS_Subset
<1>3. Cardinality(S) \in Nat
  BY FS_CardinalityType
<1>4. Cardinality(T) \in Nat
  BY <1>2, FS_CardinalityType
<1> QED
  BY <1>1, <1>2, <1>3, <1>4

\* Who delivers or settles a row, and who does so under a claim that has run out.
Sender(t, k) == pc[t] \in Sending /\ held[t].key = k
Overdue(t, k) == Sender(t, k) /\ (row[k].lapsed \/ row[k].claim # held[t].claim)
Stale(k) == {t \in Trackers : Overdue(t, k)}

\* No two trackers hold the same claim of a row.
ClaimsDistinct ==
  \A t, u \in Trackers, k \in Key :
    t # u /\ Sender(t, k) /\ Sender(u, k) => held[t].claim # held[u].claim

\* Each of the trackers that are late has had a claim that ran out.
StaleCounted ==
  \A k \in Key : IsFiniteSet(Stale(k)) /\ Cardinality(Stale(k)) <= lapses[k]

LEMMA SendersTyped ==
  ASSUME OutboxInv
  PROVE  /\ row \in [Key -> RowType] /\ held \in [Trackers -> Hold]
         /\ pc \in [Trackers -> Steps]
         /\ claims \in [Key -> Nat] /\ lapses \in [Key -> Nat]
BY DEF OutboxInv, OutboxTypeOK, RowType, Hold, Steps

\* Apart from a claim, and from one that runs out, no tracker begins to work on a
\* row, and whoever had the claim of a row keeps it.
Leaves ==
  /\ lapses' = lapses
  /\ \A t \in Trackers, k \in Key :
       Sender(t, k)' => Sender(t, k) /\ held'[t] = held[t]
  /\ \A t \in Trackers, k \in Key : Overdue(t, k)' => Overdue(t, k)

LEMMA FewerStale ==
  ASSUME OutboxInv, StaleCounted, lapses' = lapses,
         NEW k \in Key, Stale(k)' \in SUBSET Stale(k)
  PROVE  IsFiniteSet(Stale(k)') /\ Cardinality(Stale(k)') <= lapses'[k]
<1>1. IsFiniteSet(Stale(k)) /\ Cardinality(Stale(k)) <= lapses[k]
  BY DEF StaleCounted
<1>2. IsFiniteSet(Stale(k)') /\ Cardinality(Stale(k)') <= Cardinality(Stale(k))
  BY <1>1, FS_Subset
<1>3. /\ lapses[k] \in Nat /\ Cardinality(Stale(k)) \in Nat
      /\ Cardinality(Stale(k)') \in Nat
  BY <1>1, <1>2, SendersTyped, FS_CardinalityType
<1> QED
  BY <1>1, <1>2, <1>3

LEMMA LeavesKeeps ==
  ASSUME OutboxInv, ClaimsDistinct, StaleCounted, Leaves
  PROVE  ClaimsDistinct' /\ StaleCounted'
<1>1. ClaimsDistinct'
  BY DEF ClaimsDistinct, Leaves
<1>2. ASSUME NEW k \in Key PROVE Stale(k)' \in SUBSET Stale(k)
  BY DEF Stale, Leaves
<1> QED
  BY <1>1, <1>2, FewerStale DEF StaleCounted, Leaves

\* The step of one tracker that is not a claim.
LEMMA TrackerLeaves ==
  ASSUME OutboxInv, NEW t \in Trackers,
         \A u \in Trackers \ {t} : pc'[u] = pc[u] /\ held'[u] = held[u],
         pc'[t] \in Sending => pc[t] \in Sending /\ held'[t] = held[t],
         lapses' = lapses,
         \A k \in Key : \/ row'[k] = row[k]
                        \/ row[k].claim = NoClaim
                        \/ ~row[k].lapsed /\ row'[k].claim = row[k].claim
                             /\ ~row'[k].lapsed
                        \/ pc'[t] \notin Sending /\ Sender(t, k)
                             /\ row[k].claim = held[t].claim,
         ClaimsDistinct
  PROVE  Leaves
<1>1. ASSUME NEW u \in Trackers, NEW k \in Key, Sender(u, k)'
      PROVE  Sender(u, k) /\ held'[u] = held[u]
  BY <1>1 DEF Sender
<1>2. ASSUME NEW u \in Trackers, NEW k \in Key, Overdue(u, k)'
      PROVE  Overdue(u, k)
  <2>1. Sender(u, k) /\ held'[u] = held[u] /\ pc'[u] \in Sending
    BY <1>1, <1>2 DEF Overdue, Sender
  <2>2. held[u].claim # NoClaim
    BY <2>1 DEF OutboxInv, Holds, HoldOfStep, Sender
  <2>3. CASE row'[k] = row[k]
    BY <1>2, <2>1, <2>3 DEF Overdue
  <2>4. CASE row[k].claim = NoClaim
    BY <2>1, <2>2, <2>4 DEF Overdue
  <2>5. CASE ~row[k].lapsed /\ row'[k].claim = row[k].claim /\ ~row'[k].lapsed
    BY <1>2, <2>1, <2>5 DEF Overdue
  <2>6. CASE /\ pc'[t] \notin Sending /\ Sender(t, k)
             /\ row[k].claim = held[t].claim
    BY <2>1, <2>6 DEF ClaimsDistinct, Overdue
  <2> QED
    BY <2>3, <2>4, <2>5, <2>6
<1> QED
  BY <1>1, <1>2 DEF Leaves

LEMMA StepLeaves ==
  ASSUME OutboxInv, ClaimsDistinct, NEW t \in Trackers,
         \/ BeginCycle(t) \/ BeginIdleCycle(t) \/ Collect(t) \/ Drain(t)
         \/ CollectionFails(t) \/ DrainFails(t) \/ Crash(t)
  PROVE  Leaves
<1>1. /\ row \in [Key -> RowType] /\ held \in [Trackers -> Hold]
      /\ pc \in [Trackers -> Steps]
  BY SendersTyped
<1>2. \A k \in Key : row[k].status = "sending" \/ row[k].claim = NoClaim
  BY DEF OutboxInv, Rows, ClaimInRow
<1>3. lapses' = lapses
  BY DEF BeginCycle, BeginIdleCycle, Collect, EnqueueRanking, EnqueueChapter, Enqueue,
         NothingToEnqueue, Drain, Prune, StopDrain, Deliver, Ack, Reject, Settle,
         CollectionFails, DrainFails, Crash, history
<1>4. CASE \/ BeginCycle(t) \/ BeginIdleCycle(t) \/ NothingToEnqueue(t) \/ StopDrain(t)
           \/ CollectionFails(t) \/ DrainFails(t) \/ Crash(t)
  <2>1. row' = row /\ held' \in {held, [held EXCEPT ![t] = NoHold]}
    BY <1>4 DEF BeginCycle, BeginIdleCycle, NothingToEnqueue, StopDrain,
                CollectionFails, DrainFails, Crash
  <2>2. \E step \in Steps \ Sending : At(t, step)
    BY <1>4 DEF BeginCycle, BeginIdleCycle, NothingToEnqueue, StopDrain,
                CollectionFails, DrainFails, Crash, Raise, LastDrain, EndCycle,
                Steps, Sending
  <2> QED
    BY <1>1, <1>3, <2>1, <2>2, TrackerLeaves DEF At
<1>5. CASE EnqueueRanking(t) \/ EnqueueChapter(t)
  <2>1. \E k \in Key : Enqueue(k)
    <3>1. time[t] \in 1..MaxTime
      BY <1>5 DEF EnqueueRanking, EnqueueChapter, OutboxInv, OutboxTypeOK, Times, TimeOfStep,
             Collecting
    <3> QED
      BY <1>5, <3>1 DEF EnqueueRanking, EnqueueChapter, Key, DataType
  <2>2. \A k \in Key : row'[k] = row[k] \/ row[k].status = "none"
    BY <1>1, <2>1 DEF Enqueue
  <2>3. held' = held /\ \E step \in Steps \ Sending : At(t, step)
    BY <1>5, Values DEF EnqueueRanking, EnqueueChapter, Enqueue, LastDrain, Steps, Sending
  <2> QED
    BY <1>1, <1>2, <1>3, <2>2, <2>3, TrackerLeaves DEF At
<1>6. CASE Prune(t)
  <2>1. \A k \in Key : row'[k] = row[k] \/ row[k].status \in Terminal
    BY <1>6 DEF Prune, Prunable
  <2>2. held' = held /\ pc' = [pc EXCEPT ![t] = "claim"]
    BY <1>6 DEF Prune, At
  <2>3. \A k \in Key : row'[k] = row[k] \/ row[k].claim = NoClaim
    BY <1>2, <2>1 DEF Terminal
  <2> QED
    BY <1>1, <1>3, <2>2, <2>3, TrackerLeaves DEF Sending
<1>7. CASE Deliver(t)
  <2>1. /\ row' = row /\ held' = held /\ pc[t] \in Sending
        /\ \A u \in Trackers \ {t} : pc'[u] = pc[u]
    BY <1>1, <1>7 DEF Deliver, At, Sending
  <2> QED
    BY <1>3, <2>1, TrackerLeaves
<1>8. CASE Ack(t) \/ Reject(t)
  <2>1. /\ \A l \in Key : l # held[t].key \/ ~Owns(t) => row'[l] = row[l]
        /\ held' = [held EXCEPT ![t] = NoHold] /\ pc' = [pc EXCEPT ![t] = "claim"]
        /\ pc[t] \in Sending
    BY <1>1, <1>8 DEF Ack, Reject, Settle, At, Sending
  <2>2. ASSUME NEW k \in Key, row'[k] # row[k]
        PROVE  Sender(t, k) /\ row[k].claim = held[t].claim
    BY <2>1, <2>2 DEF Owns, Sender
  <2>3. /\ \A u \in Trackers \ {t} : pc'[u] = pc[u] /\ held'[u] = held[u]
        /\ pc'[t] \notin Sending
    BY <1>1, <2>1 DEF Sending
  <2> QED
    BY <1>3, <2>2, <2>3, TrackerLeaves
<1> QED
  BY <1>4, <1>5, <1>6, <1>7, <1>8 DEF Collect, Drain

\* Time passes over a row that is not being sent, or the retention window over all.
LEMMA TimeLeaves ==
  ASSUME OutboxInv,
         \/ \E k \in Key : BackoffOver(k)
         \/ \E c \in 1..MaxTime : GrowsOld(c)
         \/ UNCHANGED vars
  PROVE  Leaves
<1>1. row \in [Key -> RowType] /\ held' = held /\ pc' = pc /\ lapses' = lapses
  BY SendersTyped DEF BackoffOver, GrowsOld, vars, history
<1>2. \A l \in Key : row'[l] = row[l] \/ row'[l] = [row[l] EXCEPT !.due = TRUE]
  BY <1>1 DEF BackoffOver, GrowsOld, vars
<1>3. \A l \in Key : row'[l].claim = row[l].claim /\ row'[l].lapsed = row[l].lapsed
  BY <1>1, <1>2 DEF RowType
<1> QED
  BY <1>1, <1>3 DEF Leaves, Sender, Overdue

\* A row that may be claimed has no claim that still runs: its senders are late.
LEMMA ClaimCounts ==
  ASSUME OutboxInv, ClaimsDistinct, StaleCounted, NEW t \in Trackers, Claim(t)
  PROVE  ClaimsDistinct' /\ StaleCounted'
<1>1. PICK k \in Key :
        /\ Claimable(k)
        /\ row' = [l \in Key |-> IF l = k THEN Claimed(k)
                                 ELSE IF Lapsed(l) THEN Reopened(l) ELSE row[l]]
        /\ held' = [held EXCEPT ![t] = [key |-> k, claim |-> claims[k] + 1,
                                        attempts |-> row[k].attempts + 1]]
  BY DEF Claim, Claimed, Reopened
<1>2. /\ row \in [Key -> RowType] /\ held \in [Trackers -> Hold]
      /\ pc \in [Trackers -> Steps]
      /\ claims \in [Key -> Nat] /\ lapses' = lapses
  BY SendersTyped DEF Claim
<1>3. /\ pc[t] \notin Sending /\ Sender(t, k)' /\ held'[t].key = k
      /\ held'[t].claim = claims[k] + 1
  BY <1>1, <1>2 DEF Claim, At, Sender, Sending
<1>4. ASSUME NEW u \in Trackers, u # t
      PROVE  held'[u] = held[u] /\ pc'[u] = pc[u]
  BY <1>1, <1>2, <1>4 DEF Claim, At
<1>5. ASSUME NEW u \in Trackers, NEW l \in Key, Sender(u, l)
      PROVE  held[u].claim # NoClaim /\ held[u].claim < claims[l] + 1
  <2>1. /\ held[u].claim # NoClaim /\ held[u].claim <= claims[l]
        /\ held[u].claim \in Nat /\ claims[l] \in Nat
    BY <1>2, <1>5 DEF OutboxInv, Holds, HoldOfStep, Sender, Hold
  <2> QED
    BY <2>1
<1>6. ClaimsDistinct'
  <2> SUFFICES ASSUME NEW u \in Trackers, NEW v \in Trackers, NEW l \in Key,
                      u # v, Sender(u, l)', Sender(v, l)'
               PROVE  held'[u].claim # held'[v].claim
    BY DEF ClaimsDistinct
  <2>1. CASE u # t /\ v # t
    BY <1>4, <2>1 DEF ClaimsDistinct, Sender
  <2>2. ASSUME NEW w \in Trackers, w # t, Sender(w, l)', Sender(t, l)'
        PROVE  held'[w].claim # held'[t].claim
    <3>1. l = k /\ Sender(w, k)
      BY <1>3, <1>4, <2>2 DEF Sender
    <3>2. held[w].claim < claims[k] + 1 /\ held[w].claim \in Nat /\ claims[k] \in Nat
      BY <1>2, <1>5, <3>1 DEF Hold
    <3> QED
      BY <1>3, <1>4, <2>2, <3>2
  <2> QED
    BY <2>1, <2>2
<1>7. ASSUME NEW l \in Key PROVE Stale(l)' \in SUBSET Stale(l)
  <2> SUFFICES ASSUME NEW u \in Trackers, Overdue(u, l)' PROVE Overdue(u, l)
    BY DEF Stale
  <2>1. CASE u = t
    <3>1. l = k /\ row'[k].claim = claims[k] + 1 /\ row'[k].lapsed = FALSE
      BY <1>1, <1>3, <2>1 DEF Overdue, Sender, Claimed
    <3> QED
      BY <1>3, <2>1, <3>1 DEF Overdue
  <2>2. CASE u # t
    <3>1. Sender(u, l) /\ held'[u] = held[u] /\ held[u].claim # NoClaim
      BY <1>4, <1>5, <2>2 DEF Overdue, Sender
    <3>2. row[l].status = "sending" \/ row[l].claim = NoClaim
      BY DEF OutboxInv, Rows, ClaimInRow
    <3>3. CASE l = k \/ Lapsed(l)
      BY <1>1, <3>1, <3>2, <3>3 DEF Overdue, Claimable, Lapsed
    <3>4. CASE l # k /\ ~Lapsed(l)
      BY <1>1, <3>1, <3>4 DEF Overdue
    <3> QED
      BY <3>3, <3>4
  <2> QED
    BY <2>1, <2>2
<1>8. ASSUME NEW l \in Key
      PROVE  IsFiniteSet(Stale(l)') /\ Cardinality(Stale(l)') <= lapses'[l]
  BY <1>2, <1>7, FewerStale
<1> QED
  BY <1>6, <1>8 DEF StaleCounted

\* The claim that runs out is one tracker's, and it is counted.
LEMMA LapseCounts ==
  ASSUME OutboxInv, ClaimsDistinct, StaleCounted, NEW k \in Key, Lapse(k)
  PROVE  ClaimsDistinct' /\ StaleCounted'
<1>1. /\ row \in [Key -> RowType] /\ lapses \in [Key -> Nat]
      /\ held' = held /\ pc' = pc
      /\ row' = [row EXCEPT ![k].lapsed = TRUE]
      /\ lapses' = [lapses EXCEPT ![k] = lapses[k] + 1]
  BY SendersTyped DEF Lapse
<1>2. ClaimsDistinct'
  BY <1>1 DEF ClaimsDistinct, Sender
<1>3. ASSUME NEW l \in Key, l # k
      PROVE  IsFiniteSet(Stale(l)') /\ Cardinality(Stale(l)') <= lapses'[l]
  <2>1. row'[l] = row[l] /\ lapses'[l] = lapses[l]
    BY <1>1, <1>3
  <2>2. Stale(l)' = Stale(l)
    BY <1>1, <2>1 DEF Stale, Overdue, Sender
  <2> QED
    BY <2>1, <2>2 DEF StaleCounted
<1>4. IsFiniteSet(Stale(k)') /\ Cardinality(Stale(k)') <= lapses'[k]
  <2>1. /\ IsFiniteSet(Stale(k)) /\ Cardinality(Stale(k)) <= lapses[k]
        /\ lapses'[k] = lapses[k] + 1 /\ lapses[k] \in Nat
        /\ Cardinality(Stale(k)) \in Nat
    BY <1>1, FS_CardinalityType DEF StaleCounted
  <2> DEFINE late == Stale(k)'
             before == Stale(k)
  <2>2. PICK u : late \in SUBSET (before \cup {u})
    <3>1. ASSUME NEW u \in Trackers, Overdue(u, k)', u \notin Stale(k),
                 NEW v \in Trackers, Overdue(v, k)', v \notin Stale(k)
          PROVE  u = v
      BY <1>1, <3>1 DEF Stale, Overdue, Sender, ClaimsDistinct
    <3>2. ASSUME NEW u \in late, NEW v \in late, u \notin before, v \notin before
          PROVE  u = v
      BY <3>1, <3>2 DEF Stale
    <3> HIDE DEF late, before
    <3>3. ASSUME NEW u \in late, u \notin before
          PROVE  late \in SUBSET (before \cup {u})
      BY <3>2, <3>3
    <3>4. CASE late \in SUBSET before
      BY <3>4
    <3> QED
      BY <3>3, <3>4
  <2>3. IsFiniteSet(before) /\ Cardinality(before) <= lapses[k] /\ lapses[k] \in Nat
    BY <2>1
  <2> HIDE DEF late, before
  <2>4. IsFiniteSet(late) /\ Cardinality(late) <= lapses[k] + 1
    BY <2>2, <2>3, OneMore
  <2> QED
    BY <2>1, <2>4 DEF late
<1> QED
  BY <1>2, <1>3, <1>4 DEF StaleCounted

\* The trackers of a row are the late ones and at most one whose claim still runs.
LEMMA SendersCounted ==
  ASSUME OutboxInv, ClaimsDistinct, StaleCounted
  PROVE  OneSenderPerClaim
<1> SUFFICES ASSUME NEW k \in Key
             PROVE  Cardinality({t \in Trackers : pc[t] \in Sending /\ held[t].key = k})
                      <= 1 + lapses[k]
  BY DEF OneSenderPerClaim
<1> DEFINE senders == {t \in Trackers : pc[t] \in Sending /\ held[t].key = k}
<1>1. /\ IsFiniteSet(Stale(k)) /\ Cardinality(Stale(k)) <= lapses[k]
      /\ lapses[k] \in Nat /\ Cardinality(Stale(k)) \in Nat
  BY SendersTyped, FS_CardinalityType DEF StaleCounted
<1>2. PICK u : senders \in SUBSET (Stale(k) \cup {u})
  <2>1. ASSUME NEW u \in senders, u \notin Stale(k), NEW v \in senders, v \notin Stale(k)
        PROVE  u = v
    BY <2>1 DEF Stale, Overdue, Sender, ClaimsDistinct
  <2> HIDE DEF senders
  <2>2. ASSUME NEW u \in senders, u \notin Stale(k)
        PROVE  senders \in SUBSET (Stale(k) \cup {u})
    BY <2>1, <2>2
  <2>3. CASE senders \in SUBSET Stale(k)
    BY <2>3
  <2> QED
    BY <2>2, <2>3
<1> HIDE DEF senders
<1>3. Cardinality(senders) <= lapses[k] + 1
  BY <1>1, <1>2, OneMore
<1>4. Cardinality(senders) \in Nat
  BY <1>1, <1>2, OneMore, FS_CardinalityType
<1> QED
  BY <1>1, <1>3, <1>4 DEF senders

\* Two trackers work on one row only when a claim of it has run out, for any
\* number of trackers and however often a row is claimed again: a restarted
\* deployment beside the old one sends a ranking twice only then.
THEOREM SendersPerClaim == Spec => []OneSenderPerClaim
<1> DEFINE Counted == ClaimsDistinct /\ StaleCounted
<1>1. Init => Counted
  <2> SUFFICES ASSUME Init PROVE ClaimsDistinct /\ StaleCounted
    OBVIOUS
  <2>1. \A t \in Trackers : pc[t] \notin Sending
    BY DEF Init, Sending
  <2>2. ASSUME NEW k \in Key PROVE Stale(k) = {} /\ lapses[k] = 0
    BY <2>1 DEF Init, Stale, Overdue, Sender
  <2> QED
    BY <2>1, <2>2, FS_EmptySet DEF ClaimsDistinct, StaleCounted, Sender
<1>2. OutboxInv /\ Counted /\ [Next]_vars => Counted'
  <2> SUFFICES ASSUME OutboxInv, ClaimsDistinct, StaleCounted, [Next]_vars
               PROVE  ClaimsDistinct' /\ StaleCounted'
    OBVIOUS
  <2>1. ASSUME NEW t \in Trackers, Claim(t) PROVE ClaimsDistinct' /\ StaleCounted'
    BY <2>1, ClaimCounts
  <2>2. ASSUME NEW t \in Trackers,
               \/ BeginCycle(t) \/ BeginIdleCycle(t) \/ Collect(t) \/ Drain(t)
               \/ CollectionFails(t) \/ DrainFails(t) \/ Crash(t)
        PROVE  ClaimsDistinct' /\ StaleCounted'
    BY <2>2, StepLeaves, LeavesKeeps
  <2>3. ASSUME NEW k \in Key, ClaimLapses(k) \/ SlowDelivery(k)
        PROVE  ClaimsDistinct' /\ StaleCounted'
    BY <2>3, LapseCounts DEF ClaimLapses, SlowDelivery
  <2>4. CASE \/ \E k \in Key : BackoffOver(k)
             \/ \E c \in 1..MaxTime : GrowsOld(c)
             \/ UNCHANGED vars
    BY <2>4, TimeLeaves, LeavesKeeps
  <2> QED
    BY <2>1, <2>2, <2>3, <2>4 DEF Next
<1>3. OutboxInv /\ Counted => OneSenderPerClaim
  BY SendersCounted
<1> HIDE DEF Counted
<1> QED
  BY <1>1, <1>2, <1>3, OutboxInvariance, PTL DEF Spec

=============================================================================
