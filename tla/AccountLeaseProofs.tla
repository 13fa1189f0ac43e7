------------------------- MODULE AccountLeaseProofs -------------------------
(***************************************************************************)
(* Theorems about AccountLease for any lifetime of a lease, any number of  *)
(* calls at the end of a process, and any bounds.                          *)
(***************************************************************************)
EXTENDS AccountLease, TLAPS

-----------------------------------------------------------------------------
(***************************************************************************)
(* The inductive invariant.                                                *)
(***************************************************************************)

\* One live lease for a key, none without, none for a key that is not drawn.
Given ==
  /\ \A l \in Live : l <= issued /\ keyOf[l] # 0 /\ keyOf[l] <= keys
  /\ \A l, m \in Live : keyOf[l] = keyOf[m] => l = m

\* The leases the journal must not forget,
Kept == {l \in Live : known[l] > 0 /\ keyOf[l] \notin contested}

\* and a key under which there is none, recorded or not.
Void(k) == k \in contested \/ \A l \in Live : keyOf[l] # k

\* An operation of key k and lease i in memory names a lease the service gave for
\* that key, and the only one that may be live for it.
Known(k, i) ==
  /\ k <= keys /\ (k = 0 <=> i = 0)
  /\ i # 0 => i <= issued /\ keyOf[i] = k
  /\ k # 0 /\ k \notin contested => \A l \in Live : keyOf[l] = k => l = i

Held(lease, o) == Known(o.key, o.id) /\ lease.id = o.id /\ ~o.pending

Memory ==
  /\ Held(active, op) /\ Held(prev.lease, prev.op)
  /\ \A t \in Thread : /\ Known(release[t].op.key, release[t].op.id)
                       /\ release[t].op.key # 0 => release[t].op.id = release[t].lease.id

\* What is on disk covers every lease it must not forget, for as long as its record
\* is to last.
Recorded ==
  \A l \in Kept : /\ journal.key = keyOf[l] /\ (journal.pending => journal.id = l)
                  /\ journal.id = 0 \/ known[l] <= journal.left

\* A release may write its operation over whatever is on disk, even after the other
\* thread did, and it may clear it only when its lease is not held any more.
ReleaseOfStep ==
  /\ \A t \in Thread :
       /\ release[t].at = "off" => release[t] = NoRelease
       /\ release[t].at = "mark" => /\ release[t].op.key # 0
                                    /\ \A l \in Kept : keyOf[l] = release[t].op.key
       /\ release[t].at = "clear" => /\ release[t].op.key # 0
                                     /\ release[t].lease.id \notin Live
  /\ pc = "reported" => release["worker"].lease.id \notin Live
  /\ release["worker"].at = "mark" /\ journal.key # release["worker"].op.key
       => Void(release["worker"].op.key)

\* What get_account_info works on, beside the thread of the shutdown.
Acquiring == {"acquire", "acquired"}

WorkOfStep ==
  /\ journal.key <= keys
  /\ pc \in {"flush", "flushed"} \cup Acquiring => work.key # 0 /\ work.key <= keys
  /\ pc \in {"flush", "flushed"} => \A l \in Kept : l = work.id
  /\ pc = "flushed" => work.id \notin Live
  /\ pc \in Acquiring => \A l \in Kept : keyOf[l] = work.key
  /\ pc \in Acquiring /\ journal.key # work.key => Void(work.key)
  /\ pc \in {"renew", "renewed"} => op.id # 0
  /\ pc = "renewed" => got.id = active.id
  /\ pc = "acquired" => /\ got.id \in 1..issued /\ keyOf[got.id] = work.key
                        /\ \A l \in Live : keyOf[l] = work.key => l = got.id

\* When the shutdown is about to write, nothing it would write over has a lease.
ExitOfStep ==
  release["exit"].at = "mark" =>
    /\ journal.key # release["exit"].op.key => Void(journal.key)
    /\ pc \in Acquiring /\ work.key # release["exit"].op.key => Void(work.key)

\* A login has the operation it began with, if any, until it has another, and
\* gives nothing back before its outcome is settled.
Informing == {"info"} \cup LockHeld

LoginOfStep ==
  /\ pc \in Informing => op = prev.op \/ op = NoOp
  /\ pc \in {"idle", "login", "raised"} \cup Informing => release["worker"] = NoRelease
  /\ pc \in {"report", "reported", "failed"} => release["worker"].at = "kept"

LeaseInv ==
  /\ LeaseTypeOK /\ Given /\ Memory /\ Recorded
  /\ ReleaseOfStep /\ WorkOfStep /\ ExitOfStep /\ LoginOfStep

-----------------------------------------------------------------------------
(***************************************************************************)
(* The type invariant by the part of the state it is about.                *)
(***************************************************************************)

ServiceTyped == /\ left \in [1..MaxKeys -> 0..TTL] /\ keyOf \in [1..MaxKeys -> KeyId]
                /\ issued \in LeaseId /\ keys \in KeyId /\ contested \subseteq KeyId
                /\ known \in [1..MaxKeys -> 0..TTL]
DiskTyped    == journal \in Op /\ (journal.pending => journal.id # 0)
MemoryTyped  == /\ op \in Op /\ active \in Lease /\ prev \in [lease : Lease, op : Op]
                /\ release \in [Thread -> OfRelease]
LocalTyped   == /\ work \in Op /\ got \in Lease /\ pc \in Step
                /\ holdoff \in BOOLEAN /\ replaced \in BOOLEAN
                /\ exits \in 0..ExitCalls /\ faults \in 0..MaxFaults

\* LeaseTypeOK is the conjunction of its parts.
LEMMA TypedParts ==
  LeaseTypeOK <=> ServiceTyped /\ DiskTyped /\ MemoryTyped /\ LocalTyped
BY DEF LeaseTypeOK, ServiceTyped, DiskTyped, MemoryTyped, LocalTyped

\* The parts of the type invariant after a step make it up.
LEMMA TypedNext ==
  ASSUME ServiceTyped', DiskTyped', MemoryTyped', LocalTyped'
  PROVE  LeaseTypeOK'
BY DEF LeaseTypeOK, ServiceTyped, DiskTyped, MemoryTyped, LocalTyped

\* What the invariant says about types.
LEMMA Typed ==
  ASSUME LeaseInv
  PROVE  /\ ServiceTyped /\ DiskTyped /\ MemoryTyped /\ LocalTyped
         /\ TTL \in Nat \ {0} /\ MaxKeys \in Nat /\ MaxFaults \in Nat /\ ExitCalls \in Nat
BY TypedParts, LeaseTimesAssumption, LeaseBoundsAssumption DEF LeaseInv

\* The fields of the empty values.
LEMMA Values == /\ NoLease \in Lease /\ NoOp \in Op /\ NoPrev \in [lease : Lease, op : Op]
                /\ NoRelease \in OfRelease
                /\ NoLease.id = 0 /\ NoLease.left = 0 /\ NoOp.key = 0 /\ NoOp.id = 0
                /\ NoOp.left = 0 /\ ~NoOp.pending
                /\ NoPrev.lease = NoLease /\ NoPrev.op = NoOp
                /\ NoRelease.at = "off" /\ NoRelease.lease = NoLease /\ NoRelease.op = NoOp
<1>1. NoLease \in Lease /\ NoOp \in Op
  BY LeaseTimesAssumption, LeaseBoundsAssumption
     DEF NoLease, NoOp, Lease, Op, LeaseId, KeyId
<1> QED
  BY <1>1 DEF NoLease, NoOp, NoPrev, NoRelease, OfRelease, ReleaseAt

\* What a release in a thread is made of.
LEMMA ReleaseFields ==
  ASSUME MemoryTyped, NEW t \in Thread
  PROVE  /\ release[t] \in OfRelease /\ release[t].at \in ReleaseAt
         /\ release[t].lease \in Lease /\ release[t].op \in Op
         /\ release[t] = [at |-> release[t].at, lease |-> release[t].lease,
                          op |-> release[t].op]
BY DEF MemoryTyped, OfRelease

-----------------------------------------------------------------------------
(***************************************************************************)
(* A step at which the service gives no lease and none is recorded anew.   *)
(***************************************************************************)

Calm ==
  /\ left' \in [1..MaxKeys -> 0..TTL] /\ known' \in [1..MaxKeys -> 0..TTL]
  /\ UNCHANGED <<keyOf, issued, contested>> /\ keys <= keys' /\ keys' \in KeyId
  /\ Live' \subseteq Live /\ \A l \in Live' : known'[l] <= known[l]

KnownNext(k, i) ==
  /\ k <= keys' /\ (k = 0 <=> i = 0)
  /\ i # 0 => i <= issued' /\ keyOf'[i] = k
  /\ k # 0 /\ k \notin contested' => \A l \in Live' : keyOf'[l] = k => l = i

\* Such a step leaves what was given and what is known as it was.
LEMMA CalmKeeps ==
  ASSUME LeaseInv, Calm
  PROVE  /\ ServiceTyped' /\ Given' /\ Kept' \subseteq Kept /\ (journal' = journal => Recorded')
         /\ \A k, i \in Nat : Known(k, i) => KnownNext(k, i)
         /\ \A k \in Nat : Void(k) => k \in contested' \/ \A l \in Live' : keyOf'[l] # k
<1>0. /\ ServiceTyped /\ DiskTyped /\ MemoryTyped /\ TTL \in Nat \ {0} /\ MaxKeys \in Nat
  BY Typed
<1> USE <1>0
<1>1. ServiceTyped'
  BY DEF Calm, ServiceTyped
<1>2. Live \subseteq 1..MaxKeys /\ Live' \subseteq 1..MaxKeys
  BY DEF Live
<1>3. \A l \in 1..MaxKeys : known[l] \in Nat /\ known'[l] \in Nat /\ keyOf[l] \in Nat
  BY DEF Calm, ServiceTyped, KeyId
<1>4. keys \in Nat /\ keys' \in Nat /\ issued \in Nat
  BY DEF Calm, ServiceTyped, KeyId, LeaseId
<1>5. Given'
  <2>1. ASSUME NEW l \in Live' PROVE l <= issued' /\ keyOf'[l] # 0 /\ keyOf'[l] <= keys'
    <3>1. l \in Live /\ keyOf'[l] = keyOf[l] /\ issued' = issued /\ keys <= keys'
      BY DEF Calm
    <3>2. keyOf[l] \in Nat /\ l <= issued /\ keyOf[l] # 0 /\ keyOf[l] <= keys
      BY <1>2, <1>3, <3>1 DEF LeaseInv, Given
    <3> QED
      BY <1>4, <3>1, <3>2
  <2>2. ASSUME NEW l \in Live', NEW m \in Live', keyOf'[l] = keyOf'[m] PROVE l = m
    BY <2>2 DEF Calm, LeaseInv, Given
  <2> QED
    BY <2>1, <2>2 DEF Given
<1>6. ASSUME NEW l \in Kept' PROVE l \in Kept
  <2>1. l \in Live' /\ known'[l] > 0 /\ keyOf'[l] \notin contested'
    BY DEF Kept
  <2>2. l \in Live /\ known[l] > 0
    BY <1>2, <1>3, <2>1 DEF Calm
  <2> QED
    BY <2>1, <2>2 DEF Calm, Kept
<1>7. ASSUME journal' = journal PROVE Recorded'
  <2>1. journal.left \in Nat
    BY DEF DiskTyped, Op
  <2>2. \A l \in Kept' : known'[l] <= known[l] /\ known[l] \in Nat /\ known'[l] \in Nat
    BY <1>2, <1>3 DEF Calm, Kept
  <2> QED
    BY <1>6, <1>7, <2>1, <2>2 DEF Calm, LeaseInv, Recorded
<1>8. \A k, i \in Nat : Known(k, i) => KnownNext(k, i)
  BY <1>4 DEF Calm, Known, KnownNext
<1>9. \A k \in Nat : Void(k) => k \in contested' \/ \A l \in Live' : keyOf'[l] # k
  BY DEF Calm, Void
<1> QED
  BY <1>1, <1>5, <1>6, <1>7, <1>8, <1>9

\* A lease that is ended is the only one that is.
LEMMA EndsOne ==
  ASSUME LeaseInv, NEW l \in LeaseId, End(l), UNCHANGED <<keys, known, contested>>
  PROVE  Calm /\ l \notin Live'
<1>0. /\ ServiceTyped /\ DiskTyped /\ MemoryTyped /\ TTL \in Nat \ {0} /\ MaxKeys \in Nat
  BY Typed
<1> USE <1>0
<1>1. left' = [left EXCEPT ![l] = 0] /\ UNCHANGED <<keyOf, issued>>
  BY DEF End
<1>2. \A m \in 1..MaxKeys : left'[m] = IF m = l THEN 0 ELSE left[m]
  BY <1>1 DEF ServiceTyped
<1>3. left' \in [1..MaxKeys -> 0..TTL]
  <2>1. left' = [m \in 1..MaxKeys |-> IF m = l THEN 0 ELSE left[m]]
    BY <1>1 DEF ServiceTyped
  <2> QED
    BY <2>1 DEF ServiceTyped
<1>4. Live' = Live \ {l}
  BY <1>2 DEF Live
<1>5. \A m \in Live' : known'[m] <= known[m]
  BY DEF ServiceTyped, Live
<1> QED
  BY <1>1, <1>3, <1>4, <1>5 DEF Calm, ServiceTyped, KeyId

\* A lease that is extended lives on; what is recorded of it is as it was.
LEMMA ExtendsOne ==
  ASSUME LeaseInv, NEW l \in Live, Extend(l), UNCHANGED <<keys, known, contested>>
  PROVE  Calm /\ left'[l] \in 0..TTL
<1>0. /\ ServiceTyped /\ DiskTyped /\ MemoryTyped /\ TTL \in Nat \ {0} /\ MaxKeys \in Nat
  BY Typed
<1> USE <1>0
<1>1. l \in 1..MaxKeys /\ TTL \in 0..TTL
  BY DEF Live
<1>2. left' \in [1..MaxKeys -> 0..TTL]
  BY <1>1 DEF Extend, ServiceTyped
<1>3. Live' = Live
  BY <1>1 DEF Extend, ServiceTyped, Live
<1>4. \A m \in Live' : known'[m] <= known[m]
  BY <1>3 DEF ServiceTyped, Live
<1> QED
  BY <1>1, <1>2, <1>3, <1>4 DEF Extend, Calm, ServiceTyped, KeyId

\* Leaving the service alone is such a step.
LEMMA ServiceStays ==
  ASSUME LeaseInv, UNCHANGED <<service, keys, known, contested>>
  PROVE  Calm /\ Live' = Live /\ Kept' = Kept
<1>0. /\ ServiceTyped /\ DiskTyped /\ MemoryTyped /\ TTL \in Nat \ {0} /\ MaxKeys \in Nat
  BY Typed
<1> USE <1>0
<1>1. Live' = Live /\ Kept' = Kept
  BY DEF service, Live, Kept
<1>2. \A m \in Live' : known'[m] <= known[m]
  BY <1>1 DEF ServiceTyped, Live
<1> QED
  BY <1>1, <1>2 DEF Calm, ServiceTyped, KeyId, service

\* The memory after such a step, when it is made of what was there.
OwnNext  == \/ active' = active /\ op' = op
            \/ active' = prev.lease /\ op' = prev.op
            \/ active' = NoLease /\ op' = NoOp
PrevNext == \/ prev' = prev
            \/ prev'.lease = active /\ prev'.op = op
            \/ prev' = NoPrev
ReleaseNext(t) == \/ /\ release'[t].lease = release[t].lease
                     /\ release'[t].op.key = release[t].op.key
                     /\ release'[t].op.id = release[t].op.id
                  \/ release'[t].op = NoOp
                  \/ release'[t].lease = active /\ release'[t].op = op
                  \/ release'[t].lease = prev.lease /\ release'[t].op = prev.op

\* It is in order.
LEMMA MemoryKeeps ==
  ASSUME LeaseInv, Calm, OwnNext, PrevNext, \A t \in Thread : ReleaseNext(t)
  PROVE  Memory'
<1>0. /\ ServiceTyped /\ DiskTyped /\ MemoryTyped /\ TTL \in Nat \ {0} /\ MaxKeys \in Nat
  BY Typed
<1> USE <1>0, Values
<1>1. KnownNext(0, 0) /\ \A k, i \in Nat : Known(k, i) => KnownNext(k, i)
  <2>1. keys' \in Nat
    BY DEF Calm, KeyId
  <2> QED
    BY <2>1, CalmKeeps DEF KnownNext
<1>2. op.key \in Nat /\ op.id \in Nat /\ prev.op.key \in Nat /\ prev.op.id \in Nat
  BY DEF MemoryTyped, Op, KeyId, LeaseId
<1>3. ASSUME NEW t \in Thread
      PROVE  release[t].op.key \in Nat /\ release[t].op.id \in Nat
  <2>1. release[t].op \in Op
    BY ReleaseFields
  <2> QED
    BY <2>1 DEF Op, KeyId, LeaseId
<1>4. Held(active, op) /\ Held(prev.lease, prev.op)
  BY DEF LeaseInv, Memory
<1>5. KnownNext(op.key, op.id) /\ KnownNext(prev.op.key, prev.op.id)
  BY <1>1, <1>2, <1>4 DEF Held
<1>6. /\ KnownNext(op'.key, op'.id) /\ op'.id = active'.id /\ ~op'.pending
      /\ KnownNext(prev'.op.key, prev'.op.id) /\ prev'.op.id = prev'.lease.id
      /\ ~prev'.op.pending
  BY <1>1, <1>4, <1>5 DEF OwnNext, PrevNext, Held
<1>7. ASSUME NEW t \in Thread
      PROVE  /\ KnownNext(release'[t].op.key, release'[t].op.id)
             /\ release'[t].op.key # 0 => release'[t].op.id = release'[t].lease.id
  <2>1. /\ KnownNext(release[t].op.key, release[t].op.id)
        /\ release[t].op.key # 0 => release[t].op.id = release[t].lease.id
    BY <1>1, <1>3 DEF LeaseInv, Memory
  <2>2. ReleaseNext(t)
    OBVIOUS
  <2> QED
    BY <1>1, <1>4, <1>5, <2>1, <2>2 DEF ReleaseNext, Held
<1> QED
  BY <1>6, <1>7 DEF Memory, Held, Known, KnownNext

\* A thread that does not come to write to the journal.
Resting(t) == \/ release'[t] = release[t] \/ release'[t] = NoRelease
              \/ release'[t].at \in {"kept", "load", "delete"}

\* A release that is not at a decisive step, or was there before, is in order.
LEMMA ReleaseKeeps ==
  ASSUME LeaseInv, Calm,
         \A t \in Thread : Resting(t), journal' = journal \/ release'["worker"].at # "mark",
         pc' = "reported" => release'["worker"].lease.id \notin Live'
  PROVE  ReleaseOfStep'
<1>1. Kept' \subseteq Kept /\ Live' \subseteq Live /\ keyOf' = keyOf
  BY CalmKeeps DEF Calm
<1>2. ASSUME NEW t \in Thread
      PROVE  /\ release'[t].at = "off" => release'[t] = NoRelease
             /\ release'[t].at = "mark" => /\ release'[t].op.key # 0
                                           /\ \A l \in Kept' : keyOf'[l] = release'[t].op.key
             /\ release'[t].at = "clear" => /\ release'[t].op.key # 0
                                            /\ release'[t].lease.id \notin Live'
  <2>1. Resting(t)
    OBVIOUS
  <2>2. CASE release'[t] = release[t]
    BY <1>1, <2>2 DEF LeaseInv, ReleaseOfStep
  <2> QED
    BY <2>1, <2>2, Values DEF Resting
<1>3. release'["worker"].at = "mark" /\ journal'.key # release'["worker"].op.key
        => Void(release["worker"].op.key)'
  <2>1. "worker" \in Thread /\ Resting("worker")
    BY DEF Thread
  <2>2. release["worker"].op.key \in Nat
    <3>1. release["worker"].op \in Op
      BY <2>1, Typed, ReleaseFields
    <3> QED
      BY <3>1 DEF Op, KeyId
  <2>3. \A k \in Nat : Void(k) => k \in contested' \/ \A l \in Live' : keyOf'[l] # k
    BY CalmKeeps
  <2>4. CASE release'["worker"] = release["worker"] /\ journal' = journal
    BY <2>2, <2>3, <2>4 DEF LeaseInv, ReleaseOfStep, Void
  <2> QED
    BY <2>1, <2>4, Values DEF Resting
<1> QED
  BY <1>2, <1>3 DEF ReleaseOfStep

\* So is the shutdown, as long as the journal says what it said or nothing.
LEMMA ExitKeeps ==
  ASSUME LeaseInv, Calm, release'["exit"] = release["exit"] \/ release'["exit"].at # "mark",
         journal'.key \in {journal.key, 0}, pc' \in Acquiring => pc \in Acquiring /\ work' = work
  PROVE  ExitOfStep'
<1>1. CASE release'["exit"].at # "mark"
  BY <1>1 DEF ExitOfStep
<1>2. CASE release'["exit"] = release["exit"] /\ release["exit"].at = "mark"
  <2>1. /\ journal.key \in Nat /\ work.key \in Nat
        /\ \A k \in Nat : Void(k) => k \in contested' \/ \A l \in Live' : keyOf'[l] # k
        /\ \A l \in Live' : keyOf'[l] # 0
    BY CalmKeeps, Typed DEF DiskTyped, LocalTyped, Op, KeyId, Given
  <2>2. /\ journal.key # release["exit"].op.key => Void(journal.key)
        /\ pc \in Acquiring /\ work.key # release["exit"].op.key => Void(work.key)
    BY <1>2 DEF LeaseInv, ExitOfStep
  <2>3. journal'.key # release'["exit"].op.key => Void(journal.key)'
    BY <1>2, <2>1, <2>2 DEF Void
  <2>4. pc' \in Acquiring /\ work'.key # release'["exit"].op.key => Void(work.key)'
    BY <1>2, <2>1, <2>2 DEF Void
  <2> QED
    BY <2>3, <2>4 DEF ExitOfStep
<1> QED
  BY <1>1, <1>2

\* What get_account_info works on is in order where it works on nothing,
LEMMA WorkRests ==
  ASSUME pc' \notin LockHeld, journal'.key <= keys'
  PROVE  WorkOfStep'
BY DEF WorkOfStep, Acquiring, LockHeld

\* and where another thread takes the step.
LEMMA WorkKeeps ==
  ASSUME LeaseInv, Calm, UNCHANGED <<pc, work, op, active, got>>, journal'.key <= keys',
         pc \in Acquiring /\ journal'.key # work.key => journal'.key = journal.key \/ Void(work.key)
  PROVE  WorkOfStep'
<1>1. /\ Kept' \subseteq Kept /\ Live' \subseteq Live /\ keyOf' = keyOf /\ issued' = issued
      /\ work.key \in Nat /\ keys \in Nat /\ keys' \in Nat /\ keys <= keys'
      /\ \A k \in Nat : Void(k) => k \in contested' \/ \A l \in Live' : keyOf'[l] # k
  BY CalmKeeps, Typed DEF Calm, LocalTyped, ServiceTyped, Op, KeyId
<1>2. pc' \in {"flush", "flushed"} \cup Acquiring => work'.key # 0 /\ work'.key <= keys'
  BY <1>1 DEF LeaseInv, WorkOfStep
<1>3. /\ pc' \in {"flush", "flushed"} => \A l \in Kept' : l = work'.id
      /\ pc' = "flushed" => work'.id \notin Live'
      /\ pc' \in Acquiring => \A l \in Kept' : keyOf'[l] = work'.key
  BY <1>1 DEF LeaseInv, WorkOfStep
<1>4. pc' \in Acquiring /\ journal'.key # work'.key => Void(work.key)'
  BY <1>1 DEF LeaseInv, WorkOfStep, Void
<1>5. /\ pc' \in {"renew", "renewed"} => op'.id # 0
      /\ pc' = "renewed" => got'.id = active'.id
      /\ pc' = "acquired" => /\ got'.id \in 1..issued' /\ keyOf'[got'.id] = work'.key
                             /\ \A l \in Live' : keyOf'[l] = work'.key => l = got'.id
  BY <1>1 DEF LeaseInv, WorkOfStep
<1> QED
  BY <1>2, <1>3, <1>4, <1>5 DEF WorkOfStep

\* The parts of the invariant after a step make it up.
LEMMA InvNext ==
  ASSUME ServiceTyped', DiskTyped', MemoryTyped', LocalTyped', Given', Memory', Recorded',
         ReleaseOfStep', WorkOfStep', ExitOfStep', LoginOfStep'
  PROVE  LeaseInv'
BY TypedNext DEF LeaseInv

-----------------------------------------------------------------------------
(***************************************************************************)
(* The steps of a login.                                                   *)
(***************************************************************************)

\* A step that leaves the journal alone is in order if the steps of the threads are.
LEMMA CalmStep ==
  ASSUME LeaseInv, Calm, journal' = journal, MemoryTyped', LocalTyped',
         OwnNext, PrevNext, \A t \in Thread : ReleaseNext(t),
         ReleaseOfStep', WorkOfStep', ExitOfStep', LoginOfStep'
  PROVE  LeaseInv'
<1>1. ServiceTyped' /\ Given' /\ Recorded'
  BY CalmKeeps
<1>2. Memory'
  BY MemoryKeeps
<1>3. DiskTyped'
  BY Typed DEF DiskTyped
<1> QED
  BY <1>1, <1>2, <1>3, InvNext

\* The same where no thread comes to write to the journal.
LEMMA QuietStep ==
  ASSUME LeaseInv, Calm, journal' = journal, MemoryTyped', LocalTyped',
         OwnNext, PrevNext, \A t \in Thread : ReleaseNext(t),
         \A t \in Thread : Resting(t), pc' = "reported" => release'["worker"].lease.id \notin Live',
         pc' \notin Acquiring, WorkOfStep', LoginOfStep'
  PROVE  LeaseInv'
<1>1. "exit" \in Thread
  BY DEF Thread
<1>2. ReleaseOfStep'
  BY ReleaseKeeps
<1>3. ExitOfStep'
  BY <1>1, Values, ExitKeeps DEF Resting
<1> QED
  BY <1>2, <1>3, CalmStep

\* A release of the thread that is set.
LEMMA SetRelease ==
  ASSUME MemoryTyped, NEW t \in Thread, NEW r, release' = [release EXCEPT ![t] = r]
  PROVE  /\ release'[t] = r /\ \A u \in Thread \ {t} : release'[u] = release[u]
         /\ r \in OfRelease => release' \in [Thread -> OfRelease]
<1>1. release' = [u \in Thread |-> IF u = t THEN r ELSE release[u]]
  BY DEF MemoryTyped
<1> QED
  BY <1>1 DEF MemoryTyped

\* A journal that has not changed names a key that was drawn.
LEMMA JournalKey ==
  ASSUME LeaseInv, Calm
  PROVE  journal.key <= keys'
<1>1. journal.key \in Nat /\ keys \in Nat /\ keys' \in Nat /\ keys <= keys'
  BY Typed DEF Calm, DiskTyped, ServiceTyped, Op, KeyId
<1> QED
  BY <1>1 DEF LeaseInv, WorkOfStep

\* BeginLogin keeps the invariant: the lease before the login is remembered.
LEMMA BeginLoginKeeps ==
  ASSUME LeaseInv, BeginLogin
  PROVE  LeaseInv'
<1>0. MemoryTyped /\ LocalTyped
  BY Typed
<1>1. /\ pc = "idle" /\ pc' = "info" /\ prev' = [lease |-> active, op |-> op]
      /\ replaced' = FALSE
      /\ UNCHANGED <<service, journal, active, op, holdoff, exits, release, work, got,
                     keys, known, contested, faults>>
  BY DEF BeginLogin, Goto, history
<1>2. Calm
  BY <1>1, ServiceStays
<1>3. MemoryTyped' /\ LocalTyped'
  BY <1>0, <1>1 DEF MemoryTyped, LocalTyped, Step
<1>4. OwnNext /\ PrevNext /\ \A t \in Thread : ReleaseNext(t)
  BY <1>1 DEF OwnNext, PrevNext, ReleaseNext
<1>5. WorkOfStep'
  BY <1>1, <1>2, JournalKey, WorkRests DEF LockHeld
<1>6. LoginOfStep'
  BY <1>1 DEF LeaseInv, LoginOfStep
<1> QED
  BY <1>1, <1>2, <1>3, <1>4, <1>5, <1>6, QuietStep DEF Acquiring, Resting

\* GetAccountInfo keeps the invariant: a lease that is renewed has an operation.
LEMMA GetAccountInfoKeeps ==
  ASSUME LeaseInv, GetAccountInfo
  PROVE  LeaseInv'
<1>0. MemoryTyped /\ LocalTyped
  BY Typed
<1>1. /\ pc = "info" /\ pc' \in {"journal", "renew", "login"}
      /\ pc' = "renew" => RenewalDue
      /\ UNCHANGED <<service, journal, active, op, holdoff, exits, release, prev, replaced,
                     work, got, keys, known, contested, faults>>
  BY DEF GetAccountInfo, Goto, memory, local, history
<1>2. Calm
  BY <1>1, ServiceStays
<1>3. MemoryTyped' /\ LocalTyped'
  BY <1>0, <1>1 DEF MemoryTyped, LocalTyped, Step
<1>4. OwnNext /\ PrevNext /\ \A t \in Thread : ReleaseNext(t)
  BY <1>1 DEF OwnNext, PrevNext, ReleaseNext
<1>5. WorkOfStep'
  BY <1>1, <1>2, JournalKey DEF WorkOfStep, Acquiring, RenewalDue
<1>6. LoginOfStep'
  BY <1>1 DEF LeaseInv, LoginOfStep, Informing, LockHeld
<1> QED
  BY <1>1, <1>2, <1>3, <1>4, <1>5, <1>6, QuietStep DEF Acquiring, Resting

\* Renew keeps the invariant: the service may extend a lease on record.
LEMMA RenewKeeps ==
  ASSUME LeaseInv, Renew
  PROVE  LeaseInv'
<1>0. MemoryTyped /\ LocalTyped /\ ServiceTyped /\ TTL \in Nat \ {0} /\ MaxKeys \in Nat
  BY Typed
<1>1. /\ pc = "renew" /\ pc' = "renewed" /\ active.id \in Live /\ Extend(active.id)
      /\ got' = [id |-> active.id, left |-> left'[active.id]]
      /\ UNCHANGED <<journal, active, op, holdoff, exits, release, prev, replaced, work,
                     keys, known, contested, faults>>
  BY DEF Renew, Goto, history
<1>2. Calm /\ left'[active.id] \in 0..TTL
  BY <1>1, ExtendsOne
<1>3. got' \in Lease
  BY <1>0, <1>1, <1>2 DEF MemoryTyped, Lease
<1>4. MemoryTyped' /\ LocalTyped'
  BY <1>0, <1>1, <1>3 DEF MemoryTyped, LocalTyped, Step
<1>5. OwnNext /\ PrevNext /\ \A t \in Thread : ReleaseNext(t)
  BY <1>1 DEF OwnNext, PrevNext, ReleaseNext
<1>6. WorkOfStep'
  BY <1>1, <1>2, JournalKey DEF LeaseInv, WorkOfStep, Acquiring
<1>7. LoginOfStep'
  BY <1>1 DEF LeaseInv, LoginOfStep, Informing, LockHeld
<1> QED
  BY <1>1, <1>2, <1>4, <1>5, <1>6, <1>7, QuietStep DEF Acquiring, Resting

\* RenewInvalid keeps the invariant: a lease that is gone is acquired again.
LEMMA RenewInvalidKeeps ==
  ASSUME LeaseInv, RenewInvalid
  PROVE  LeaseInv'
<1>0. MemoryTyped /\ LocalTyped
  BY Typed
<1>1. /\ pc = "renew" /\ pc' = "journal"
      /\ UNCHANGED <<service, journal, active, op, holdoff, exits, release, prev, replaced,
                     work, got, keys, known, contested, faults>>
  BY DEF RenewInvalid, Goto, memory, local, history
<1>2. Calm
  BY <1>1, ServiceStays
<1>3. MemoryTyped' /\ LocalTyped'
  BY <1>0, <1>1 DEF MemoryTyped, LocalTyped, Step
<1>4. OwnNext /\ PrevNext /\ \A t \in Thread : ReleaseNext(t)
  BY <1>1 DEF OwnNext, PrevNext, ReleaseNext
<1>5. WorkOfStep'
  BY <1>1, <1>2, JournalKey DEF WorkOfStep, Acquiring
<1>6. LoginOfStep'
  BY <1>1 DEF LeaseInv, LoginOfStep, Informing, LockHeld
<1> QED
  BY <1>1, <1>2, <1>3, <1>4, <1>5, <1>6, QuietStep DEF Acquiring, Resting

\* RenewFails keeps the invariant, whether the service acted or not.
LEMMA RenewFailsKeeps ==
  ASSUME LeaseInv, RenewFails
  PROVE  LeaseInv'
<1>0. /\ MemoryTyped /\ LocalTyped /\ ServiceTyped /\ TTL \in Nat \ {0}
      /\ MaxFaults \in Nat
  BY Typed
<1>1. /\ pc = "renew" /\ pc' \in {"login", "journal"} /\ holdoff' \in {TRUE, holdoff}
      /\ faults < MaxFaults /\ faults' = faults + 1
      /\ \/ UNCHANGED service
         \/ active.id \in Live /\ Extend(active.id)
      /\ UNCHANGED <<journal, active, op, exits, release, prev, replaced, work, got,
                     keys, known, contested>>
  BY DEF RenewFails, Goto, Fault, local, history
<1>2. Calm
  BY <1>1, ServiceStays, ExtendsOne
<1>3. faults' \in 0..MaxFaults
  BY <1>0, <1>1 DEF LocalTyped
<1>4. MemoryTyped' /\ LocalTyped'
  BY <1>0, <1>1, <1>3 DEF MemoryTyped, LocalTyped, Step
<1>5. OwnNext /\ PrevNext /\ \A t \in Thread : ReleaseNext(t)
  BY <1>1 DEF OwnNext, PrevNext, ReleaseNext
<1>6. WorkOfStep'
  BY <1>1, <1>2, JournalKey DEF WorkOfStep, Acquiring
<1>7. LoginOfStep'
  BY <1>1 DEF LeaseInv, LoginOfStep, Informing, LockHeld
<1> QED
  BY <1>1, <1>2, <1>4, <1>5, <1>6, <1>7, QuietStep DEF Acquiring, Resting

-----------------------------------------------------------------------------
(***************************************************************************)
(* The outcome of a login.                                                 *)
(***************************************************************************)

\* Both threads are there, and different.
LEMMA Threads == "worker" \in Thread /\ "exit" \in Thread \ {"worker"}
BY DEF Thread

\* LoginSucceeds keeps the invariant: the previous lease goes with its operation.
LEMMA LoginSucceedsKeeps ==
  ASSUME LeaseInv, LoginSucceeds
  PROVE  LeaseInv'
<1>0. MemoryTyped /\ LocalTyped
  BY Typed
<1> USE <1>0, Threads
<1> DEFINE r == [at |-> "load", lease |-> prev.lease, op |-> prev.op]
<1>1. /\ pc = "login"
      /\ UNCHANGED <<service, journal, active, op, holdoff, exits, work, got,
                     keys, known, contested, faults>>
      /\ \/ /\ pc' = "releasing" /\ UNCHANGED <<prev, replaced>>
            /\ release' = [release EXCEPT !["worker"] = r]
         \/ pc' = "idle" /\ prev' = NoPrev /\ replaced' = FALSE /\ release' = release
  BY DEF LoginSucceeds, LoginReturns, Releasing, Goto, local, history
<1>2. Calm
  BY <1>1, ServiceStays
<1>3. r \in OfRelease
  BY DEF MemoryTyped, OfRelease, ReleaseAt
<1>4. /\ release' \in [Thread -> OfRelease]
      /\ \A t \in Thread : release'[t] = release[t] \/ (t = "worker" /\ release'[t] = r)
  BY <1>1, <1>3, SetRelease DEF MemoryTyped
<1>5. MemoryTyped' /\ LocalTyped'
  BY <1>1, <1>4, Values DEF MemoryTyped, LocalTyped, Step
<1>6. OwnNext /\ PrevNext /\ \A t \in Thread : ReleaseNext(t)
  BY <1>1, <1>4 DEF OwnNext, PrevNext, ReleaseNext
<1>7. \A t \in Thread : Resting(t)
  BY <1>4 DEF Resting
<1>8. WorkOfStep'
  BY <1>1, <1>2, JournalKey, WorkRests DEF LockHeld
<1>9. LoginOfStep'
  BY <1>1 DEF LeaseInv, LoginOfStep, Informing, LockHeld
<1> QED
  BY <1>1, <1>2, <1>5, <1>6, <1>7, <1>8, <1>9, QuietStep DEF Acquiring

\* LoginFails keeps the invariant: the failed lease is the active one.
LEMMA LoginFailsKeeps ==
  ASSUME LeaseInv, LoginFails
  PROVE  LeaseInv'
<1>0. MemoryTyped /\ LocalTyped
  BY Typed
<1> USE <1>0, Threads
<1> DEFINE r == [at |-> "kept", lease |-> active, op |-> op]
<1>1. /\ pc' \in {"report", "failed"} /\ release' = [release EXCEPT !["worker"] = r]
      /\ UNCHANGED <<service, journal, active, op, holdoff, exits, prev, replaced, work, got,
                     keys, known, contested, faults>>
  BY DEF LoginFails, Releasing, Goto, local, history
<1>2. Calm
  BY <1>1, ServiceStays
<1>3. r \in OfRelease
  BY DEF MemoryTyped, OfRelease, ReleaseAt
<1>4. /\ release' \in [Thread -> OfRelease]
      /\ release'["worker"] = r
      /\ \A t \in Thread : release'[t] = release[t] \/ (t = "worker" /\ release'[t] = r)
  BY <1>1, <1>3, SetRelease DEF MemoryTyped
<1>5. MemoryTyped' /\ LocalTyped'
  BY <1>1, <1>4, Values DEF MemoryTyped, LocalTyped, Step
<1>6. OwnNext /\ PrevNext /\ \A t \in Thread : ReleaseNext(t)
  BY <1>1, <1>4 DEF OwnNext, PrevNext, ReleaseNext
<1>7. \A t \in Thread : Resting(t)
  BY <1>4 DEF Resting
<1>8. WorkOfStep'
  BY <1>1, <1>2, JournalKey, WorkRests DEF LockHeld
<1>9. LoginOfStep'
  BY <1>1, <1>4 DEF MemoryTyped, LoginOfStep, Informing, LockHeld
<1> QED
  BY <1>1, <1>2, <1>5, <1>6, <1>7, <1>8, <1>9, QuietStep DEF Acquiring

\* The lease a thread holds is one of the leases there are, or none.
LEMMA HeldLease ==
  ASSUME MemoryTyped, LocalTyped, NEW t \in Thread
  PROVE  release[t].lease.id \in LeaseId /\ work.id \in LeaseId
<1>1. release[t].lease \in Lease
  BY ReleaseFields
<1> QED
  BY <1>1 DEF LocalTyped, Lease, Op

\* ReportInvalid keeps the invariant: a lease that is reported is over.
LEMMA ReportInvalidKeeps ==
  ASSUME LeaseInv, ReportInvalid
  PROVE  LeaseInv'
<1>0. MemoryTyped /\ LocalTyped
  BY Typed
<1> USE <1>0, Threads
<1>1. /\ pc = "report" /\ pc' \in {"reported", "failed"}
      /\ pc' = "reported" => End(release["worker"].lease.id)
      /\ pc' = "failed" => UNCHANGED service
      /\ UNCHANGED <<journal, active, op, holdoff, exits, prev, replaced, work, got,
                     release, keys, known, contested, faults>>
  BY DEF ReportInvalid, Failed, Goto, memory, local, history
<1>2. Calm /\ (pc' = "reported" => release'["worker"].lease.id \notin Live')
  BY <1>1, ServiceStays, EndsOne, HeldLease
<1>3. MemoryTyped' /\ LocalTyped'
  BY <1>1 DEF MemoryTyped, LocalTyped, Step
<1>4. OwnNext /\ PrevNext /\ \A t \in Thread : ReleaseNext(t)
  BY <1>1 DEF OwnNext, PrevNext, ReleaseNext
<1>5. WorkOfStep'
  BY <1>1, <1>2, JournalKey, WorkRests DEF LockHeld
<1>6. LoginOfStep'
  BY <1>1 DEF LeaseInv, LoginOfStep, Informing, LockHeld
<1> QED
  BY <1>1, <1>2, <1>3, <1>4, <1>5, <1>6, QuietStep DEF Acquiring, Resting

\* ReportFails keeps the invariant, whether the service ended the lease or not.
LEMMA ReportFailsKeeps ==
  ASSUME LeaseInv, ReportFails
  PROVE  LeaseInv'
<1>0. MemoryTyped /\ LocalTyped /\ MaxFaults \in Nat
  BY Typed
<1> USE <1>0, Threads
<1>1. /\ pc = "report" /\ pc' = "failed"
      /\ UNCHANGED service \/ End(release["worker"].lease.id)
      /\ faults < MaxFaults /\ faults' = faults + 1
      /\ UNCHANGED <<journal, active, op, holdoff, exits, prev, replaced, work, got,
                     release, keys, known, contested>>
  BY DEF ReportFails, Failed, Fault, Goto, memory, local, history
<1>2. Calm
  BY <1>1, ServiceStays, EndsOne, HeldLease
<1>3. faults' \in 0..MaxFaults
  BY <1>1 DEF LocalTyped
<1>4. MemoryTyped' /\ LocalTyped'
  BY <1>1, <1>3 DEF MemoryTyped, LocalTyped, Step
<1>5. OwnNext /\ PrevNext /\ \A t \in Thread : ReleaseNext(t)
  BY <1>1 DEF OwnNext, PrevNext, ReleaseNext
<1>6. WorkOfStep'
  BY <1>1, <1>2, JournalKey, WorkRests DEF LockHeld
<1>7. LoginOfStep'
  BY <1>1 DEF LeaseInv, LoginOfStep, Informing, LockHeld
<1> QED
  BY <1>1, <1>2, <1>4, <1>5, <1>6, <1>7, QuietStep DEF Acquiring, Resting

\* What a failed login puts back was there, or is nothing.
LEMMA DropNext ==
  ASSUME Drop
  PROVE  OwnNext
BY DEF Drop, Restore, OwnNext

\* It has its types.
LEMMA OwnTyped ==
  ASSUME MemoryTyped, OwnNext
  PROVE  active' \in Lease /\ op' \in Op
BY Values DEF OwnNext, MemoryTyped

\* ReportedNotCleared keeps the invariant.
LEMMA ReportedNotClearedKeeps ==
  ASSUME LeaseInv, ReportedNotCleared
  PROVE  LeaseInv'
<1>0. MemoryTyped /\ LocalTyped /\ MaxFaults \in Nat
  BY Typed
<1> USE <1>0, Threads
<1>1. /\ pc = "reported" /\ pc' = "idle" /\ Drop /\ prev' = NoPrev /\ replaced' = FALSE
      /\ release' = [release EXCEPT !["worker"] = NoRelease]
      /\ faults < MaxFaults /\ faults' = faults + 1
      /\ UNCHANGED <<service, journal, holdoff, exits, work, got, keys, known, contested>>
  BY DEF ReportedNotCleared, Released, LoginReturns, Fault, Goto, history
<1>2. Calm /\ OwnNext
  BY <1>1, ServiceStays, DropNext
<1>3. faults' \in 0..MaxFaults
  BY <1>1 DEF LocalTyped
<1>4. /\ release' \in [Thread -> OfRelease] /\ release'["worker"] = NoRelease
      /\ \A t \in Thread : release'[t] = release[t] \/ release'[t] = NoRelease
  BY <1>1, Values, SetRelease DEF MemoryTyped
<1>5. MemoryTyped' /\ LocalTyped'
  BY <1>1, <1>2, <1>3, <1>4, Values, OwnTyped DEF MemoryTyped, LocalTyped, Step
<1>6. PrevNext /\ \A t \in Thread : ReleaseNext(t)
  BY <1>1, <1>4, Values DEF PrevNext, ReleaseNext
<1>7. \A t \in Thread : Resting(t)
  BY <1>4, Values DEF Resting
<1>8. WorkOfStep'
  BY <1>1, <1>2, JournalKey, WorkRests DEF LockHeld
<1>9. LoginOfStep'
  BY <1>1, <1>4 DEF LoginOfStep, Informing, LockHeld
<1> QED
  BY <1>1, <1>2, <1>5, <1>6, <1>7, <1>8, <1>9, QuietStep DEF Acquiring

\* LoginFailed keeps the invariant: the lease of a failed login is given back.
LEMMA LoginFailedKeeps ==
  ASSUME LeaseInv, LoginFailed
  PROVE  LeaseInv'
<1>0. MemoryTyped /\ LocalTyped
  BY Typed
<1> USE <1>0, Threads
<1> DEFINE r == IF replaced /\ Failed # NoLease THEN [release["worker"] EXCEPT !.at = "load"]
                                                ELSE NoRelease
<1>1. /\ pc = "failed" /\ pc' = "restoring"
      /\ release' = [release EXCEPT !["worker"] = r]
      /\ UNCHANGED <<service, journal, active, op, holdoff, exits, prev, replaced, work, got,
                     keys, known, contested, faults>>
  BY DEF LoginFailed, Goto, local, history
<1>2. Calm
  BY <1>1, ServiceStays
<1>3. /\ r \in OfRelease /\ (r = NoRelease \/ r.at = "load")
      /\ r.op = NoOp \/ (r.op = release["worker"].op /\ r.lease = release["worker"].lease)
  BY Values, ReleaseFields DEF OfRelease, ReleaseAt
<1> HIDE DEF r
<1>4. /\ release' \in [Thread -> OfRelease]
      /\ \A t \in Thread : release'[t] = release[t] \/ (t = "worker" /\ release'[t] = r)
  BY <1>1, <1>3, SetRelease DEF MemoryTyped
<1>5. MemoryTyped' /\ LocalTyped'
  BY <1>1, <1>4 DEF MemoryTyped, LocalTyped, Step
<1>6. OwnNext /\ PrevNext /\ \A t \in Thread : ReleaseNext(t)
  BY <1>1, <1>3, <1>4 DEF OwnNext, PrevNext, ReleaseNext
<1>7. \A t \in Thread : Resting(t)
  BY <1>3, <1>4 DEF Resting
<1>8. WorkOfStep'
  BY <1>1, <1>2, JournalKey, WorkRests DEF LockHeld
<1>9. LoginOfStep'
  BY <1>1 DEF LoginOfStep, Informing, LockHeld
<1> QED
  BY <1>1, <1>2, <1>5, <1>6, <1>7, <1>8, <1>9, QuietStep DEF Acquiring

\* LoginOver keeps the invariant.
LEMMA LoginOverKeeps ==
  ASSUME LeaseInv, LoginOver
  PROVE  LeaseInv'
<1>0. MemoryTyped /\ LocalTyped
  BY Typed
<1> USE <1>0, Threads
<1>1. /\ pc \in {"releasing", "restoring"} /\ pc' = "idle" /\ release["worker"].at = "off"
      /\ prev' = NoPrev /\ replaced' = FALSE
      /\ UNCHANGED <<service, journal, holdoff, exits, release, work, got, keys, known,
                     contested, faults>>
  BY DEF LoginOver, LoginReturns, Goto, history
<1>2. Calm /\ OwnNext
  BY <1>1, ServiceStays DEF LoginOver, Restore, OwnNext
<1>3. MemoryTyped' /\ LocalTyped'
  BY <1>1, <1>2, Values, OwnTyped DEF MemoryTyped, LocalTyped, Step
<1>4. PrevNext /\ \A t \in Thread : ReleaseNext(t)
  BY <1>1 DEF PrevNext, ReleaseNext
<1>5. WorkOfStep'
  BY <1>1, <1>2, JournalKey, WorkRests DEF LockHeld
<1>6. LoginOfStep'
  BY <1>1 DEF LeaseInv, ReleaseOfStep, LoginOfStep, Informing, LockHeld
<1> QED
  BY <1>1, <1>2, <1>3, <1>4, <1>5, <1>6, QuietStep DEF Acquiring, Resting

-----------------------------------------------------------------------------
(***************************************************************************)
(* The acquire path.                                                       *)
(***************************************************************************)

\* A journal that is cleared forgets no lease that counts.
LEMMA ClearStep ==
  ASSUME LeaseInv, Calm, journal' = journal \/ (journal' = NoOp /\ Kept = {}),
         MemoryTyped', LocalTyped', OwnNext, PrevNext, \A t \in Thread : ReleaseNext(t),
         ReleaseOfStep', WorkOfStep', ExitOfStep', LoginOfStep'
  PROVE  LeaseInv'
<1>1. CASE journal' = journal
  BY <1>1, CalmStep
<1>2. CASE journal' = NoOp /\ Kept = {}
  <2>1. ServiceTyped' /\ Given' /\ Recorded'
    BY <1>2, CalmKeeps DEF Recorded
  <2>2. Memory'
    BY MemoryKeeps
  <2>3. DiskTyped'
    BY <1>2, Values DEF DiskTyped
  <2> QED
    BY <2>1, <2>2, <2>3, InvNext
<1> QED
  BY <1>1, <1>2

\* Nothing that counts is left under an operation of which the lease has ended.
LEMMA EndedOp ==
  ASSUME LeaseInv, NEW o \in Op, Known(o.key, o.id), o.key # 0, o.id \notin Live
  PROVE  Void(o.key) /\ (journal.key = o.key => Kept = {})
<1>1. Void(o.key)
  BY DEF Known, Void
<1>2. ASSUME journal.key = o.key, NEW l \in Kept
      PROVE  FALSE
  <2>1. keyOf[l] = o.key /\ l \in Live /\ keyOf[l] \notin contested
    BY <1>2 DEF LeaseInv, Recorded, Kept
  <2> QED
    BY <1>1, <2>1 DEF Void
<1> QED
  BY <1>1, <1>2

\* The operation load_or_create takes up covers every lease that counts; a new one
\* is made only where there is none.
LEMMA TakeUpEffect ==
  ASSUME LeaseInv, TakeUp, UNCHANGED <<service, known, contested>>
  PROVE  /\ Calm /\ DiskTyped' /\ work' = journal' /\ work' \in Op /\ Recorded'
         /\ work'.key # 0 /\ work'.key <= keys'
         /\ \A l \in Kept' : keyOf'[l] = work'.key /\ (work'.pending => l = work'.id)
         /\ journal' = journal \/ Void(journal.key)'
<1>0. /\ ServiceTyped /\ DiskTyped /\ TTL \in Nat \ {0} /\ MaxKeys \in Nat
  BY Typed
<1> USE <1>0
<1>a. CASE journal.key # 0 /\ ~Over(journal)
  <2>1. work' = journal /\ journal' = journal /\ keys' = keys
    BY <1>a DEF TakeUp
  <2>2. Calm /\ Kept' = Kept /\ keyOf' = keyOf
    BY <2>1, ServiceStays DEF service
  <2>3. Recorded'
    BY <2>1, <2>2, CalmKeeps
  <2>4. journal.key <= keys
    BY DEF LeaseInv, WorkOfStep
  <2>5. \A l \in Kept' : keyOf'[l] = work'.key /\ (work'.pending => l = work'.id)
    BY <2>1, <2>2 DEF LeaseInv, Recorded
  <2> QED
    BY <1>a, <2>1, <2>2, <2>3, <2>4, <2>5 DEF DiskTyped
<1>b. CASE ~(journal.key # 0 /\ ~Over(journal))
  <2>1. /\ keys < MaxKeys /\ keys' = keys + 1
        /\ journal' = [NoOp EXCEPT !.key = keys'] /\ work' = journal'
    BY <1>b DEF TakeUp
  <2>2. /\ keys \in Nat /\ keys' \in Nat /\ keys' \in KeyId /\ keys' # 0 /\ keys <= keys'
    BY <2>1 DEF ServiceTyped, KeyId
  <2>3. /\ journal' \in Op /\ journal'.key = keys' /\ journal'.id = 0 /\ ~journal'.pending
    BY <2>1, <2>2, Values DEF Op, NoOp
  <2>4. Live' = Live /\ keyOf' = keyOf /\ contested' = contested /\ Kept' = Kept
    BY DEF service, Live, Kept
  <2>5. Calm
    <3>1. \A m \in Live' : known'[m] <= known[m]
      BY <2>4 DEF ServiceTyped, Live
    <3> QED
      BY <2>2, <2>4, <3>1 DEF Calm, ServiceTyped, service
  <2>6. Kept = {}
    <3>1. ASSUME NEW l \in Kept PROVE FALSE
      <4>1. journal.key = keyOf[l] /\ (journal.id = 0 \/ known[l] <= journal.left)
        BY DEF LeaseInv, Recorded
      <4>2. l \in Live /\ keyOf[l] # 0 /\ known[l] > 0 /\ known[l] \in Nat
        BY DEF LeaseInv, Given, Kept, Live, ServiceTyped
      <4>3. journal.id # 0 /\ journal.left = 0
        BY <1>b, <4>1, <4>2 DEF Over
      <4> QED
        BY <4>1, <4>2, <4>3
    <3> QED
      BY <3>1
  <2>7. Recorded' /\ \A l \in Kept' : FALSE
    BY <2>4, <2>6 DEF Recorded
  <2>8. \A l \in Live' : keyOf'[l] # journal'.key
    <3>1. \A l \in Live : keyOf[l] \in Nat /\ keyOf[l] <= keys
      BY DEF LeaseInv, Given, Live, ServiceTyped, KeyId
    <3> QED
      BY <2>1, <2>2, <2>3, <2>4, <3>1
  <2>9. Void(journal.key)'
    BY <2>8 DEF Void
  <2> QED
    BY <2>1, <2>2, <2>3, <2>5, <2>7, <2>9 DEF DiskTyped
<1> QED
  BY <1>a, <1>b

\* What the two calls of load_or_create have in common.
LEMMA TakeUpKeeps ==
  ASSUME LeaseInv, TakeUp, pc \in {"journal", "again"},
         pc' \in {"flush", "acquire"}, pc' = "flush" => work'.pending,
         UNCHANGED <<service, active, op, holdoff, exits, release, prev, replaced, got,
                     known, contested, faults>>
  PROVE  LeaseInv'
<1>0. MemoryTyped /\ LocalTyped
  BY Typed
<1> USE <1>0, Threads
<1>1. /\ Calm /\ DiskTyped' /\ work' = journal' /\ work' \in Op /\ Recorded'
      /\ work'.key # 0 /\ work'.key <= keys'
      /\ \A l \in Kept' : keyOf'[l] = work'.key /\ (work'.pending => l = work'.id)
      /\ journal' = journal \/ Void(journal.key)'
  BY TakeUpEffect
<1>2. MemoryTyped' /\ LocalTyped'
  BY <1>1 DEF MemoryTyped, LocalTyped, Step
<1>3. OwnNext /\ PrevNext /\ \A t \in Thread : ReleaseNext(t)
  BY DEF OwnNext, PrevNext, ReleaseNext
<1>4. ServiceTyped' /\ Given' /\ Memory'
  BY <1>1, <1>3, CalmKeeps, MemoryKeeps
<1>5. release'["worker"] = NoRelease
  BY DEF LeaseInv, LoginOfStep, Informing, LockHeld
<1>6. ReleaseOfStep'
  BY <1>1, <1>5, Values, ReleaseKeeps DEF Resting
<1>7. WorkOfStep'
  BY <1>1 DEF WorkOfStep, Acquiring
<1>8. ExitOfStep'
  <2>1. CASE release["exit"].at # "mark"
    BY <2>1 DEF ExitOfStep
  <2>2. CASE release["exit"].at = "mark"
    <3>1. journal.key \in Nat /\ (journal.key # release["exit"].op.key => Void(journal.key))
      BY <2>2, Typed DEF LeaseInv, ExitOfStep, DiskTyped, Op, KeyId
    <3>2. journal'.key # release'["exit"].op.key => Void(journal.key)'
      BY <1>1, <3>1, CalmKeeps DEF Void
    <3>3. work'.key # release'["exit"].op.key => Void(work.key)'
      BY <1>1, <3>2 DEF Void
    <3> QED
      BY <3>2, <3>3 DEF ExitOfStep
  <2> QED
    BY <2>1, <2>2
<1>9. LoginOfStep'
  BY DEF LeaseInv, LoginOfStep, Informing, LockHeld
<1> QED
  BY <1>1, <1>2, <1>4, <1>6, <1>7, <1>8, <1>9, InvNext

\* LoadOrCreate keeps the invariant.
LEMMA LoadOrCreateKeeps ==
  ASSUME LeaseInv, LoadOrCreate
  PROVE  LeaseInv'
BY TakeUpKeeps DEF LoadOrCreate, Goto

\* LoadOrCreateAgain keeps the invariant.
LEMMA LoadOrCreateAgainKeeps ==
  ASSUME LeaseInv, LoadOrCreateAgain
  PROVE  LeaseInv'
BY TakeUpKeeps DEF LoadOrCreateAgain, Goto

\* FlushRelease keeps the invariant: the lease of the operation is over.
LEMMA FlushReleaseKeeps ==
  ASSUME LeaseInv, FlushRelease
  PROVE  LeaseInv'
<1>0. MemoryTyped /\ LocalTyped
  BY Typed
<1> USE <1>0, Threads
<1>1. /\ pc = "flush" /\ pc' = "flushed" /\ End(work.id)
      /\ UNCHANGED <<journal, active, op, holdoff, exits, release, prev, replaced, work, got,
                     keys, known, contested, faults>>
  BY DEF FlushRelease, Goto, memory, local, history
<1>2. Calm /\ work.id \notin Live'
  BY <1>1, EndsOne, HeldLease
<1>3. MemoryTyped' /\ LocalTyped'
  BY <1>1 DEF MemoryTyped, LocalTyped, Step
<1>4. OwnNext /\ PrevNext /\ \A t \in Thread : ReleaseNext(t)
  BY <1>1 DEF OwnNext, PrevNext, ReleaseNext
<1>5. WorkOfStep'
  <2>1. Kept' \subseteq Kept /\ keys \in Nat /\ keys' = keys
    BY <1>1, <1>2, CalmKeeps, Typed DEF ServiceTyped, KeyId
  <2> QED
    BY <1>1, <1>2, <2>1 DEF LeaseInv, WorkOfStep, Acquiring
<1>6. LoginOfStep'
  BY <1>1 DEF LeaseInv, LoginOfStep, Informing, LockHeld
<1> QED
  BY <1>1, <1>2, <1>3, <1>4, <1>5, <1>6, QuietStep DEF Acquiring, Resting

\* FlushClear keeps the invariant: only the operation that was released goes.
LEMMA FlushClearKeeps ==
  ASSUME LeaseInv, FlushClear
  PROVE  LeaseInv'
<1>0. MemoryTyped /\ LocalTyped
  BY Typed
<1> USE <1>0, Threads
<1>1. /\ pc = "flushed" /\ pc' = "again" /\ journal' = Cleared(work)
      /\ UNCHANGED <<service, active, op, holdoff, exits, release, prev, replaced, work, got,
                     keys, known, contested, faults>>
  BY DEF FlushClear, Goto, memory, local, history
<1>2. Calm
  BY <1>1, ServiceStays
<1>3. MemoryTyped' /\ LocalTyped'
  BY <1>1 DEF MemoryTyped, LocalTyped, Step
<1>4. OwnNext /\ PrevNext /\ \A t \in Thread : ReleaseNext(t)
  BY <1>1 DEF OwnNext, PrevNext, ReleaseNext
<1>5. Kept = {}
  BY <1>1 DEF LeaseInv, WorkOfStep, Kept
<1>6. journal' = journal \/ journal' = NoOp
  BY <1>1 DEF Cleared
<1>7. journal'.key \in {journal.key, 0} /\ journal'.key <= keys'
  <2>1. 0 <= keys'
    BY <1>1, Typed DEF ServiceTyped, KeyId
  <2> QED
    BY <1>2, <1>6, <2>1, Values, JournalKey
<1>8. WorkOfStep'
  BY <1>1, <1>7 DEF WorkOfStep, Acquiring
<1>9. release'["worker"] = NoRelease
  BY <1>1 DEF LeaseInv, LoginOfStep, Informing, LockHeld
<1>10. ReleaseOfStep'
  BY <1>1, <1>2, <1>9, Values, ReleaseKeeps DEF Resting
<1>11. ExitOfStep'
  BY <1>1, <1>2, <1>7, ExitKeeps DEF Acquiring
<1>12. LoginOfStep'
  BY <1>1 DEF LeaseInv, LoginOfStep, Informing, LockHeld
<1> QED
  BY <1>2, <1>3, <1>4, <1>5, <1>6, <1>8, <1>10, <1>11, <1>12, ClearStep

-----------------------------------------------------------------------------
(***************************************************************************)
(* The release of a lease, and the end of the process.                     *)
(***************************************************************************)

\* Reported keeps the invariant: the journal forgets the lease that was reported.
LEMMA ReportedKeeps ==
  ASSUME LeaseInv, Reported
  PROVE  LeaseInv'
<1>0. MemoryTyped /\ LocalTyped
  BY Typed
<1> USE <1>0, Threads
<1> DEFINE o == release["worker"].op
<1>1. /\ pc = "reported" /\ pc' = "idle" /\ journal' = Cleared(o)
      /\ Drop /\ prev' = NoPrev /\ replaced' = FALSE
      /\ release' = [release EXCEPT !["worker"] = NoRelease]
      /\ UNCHANGED <<service, holdoff, exits, work, got, keys, known, contested, faults>>
  BY DEF Reported, Released, LoginReturns, Goto, history
<1>2. Calm /\ OwnNext
  BY <1>1, ServiceStays, DropNext
<1>3. /\ release' \in [Thread -> OfRelease] /\ release'["worker"] = NoRelease
      /\ \A t \in Thread : release'[t] = release[t] \/ release'[t] = NoRelease
      /\ release'["exit"] = release["exit"]
  BY <1>1, Values, SetRelease DEF MemoryTyped
<1>4. MemoryTyped' /\ LocalTyped'
  BY <1>1, <1>2, <1>3, Values, OwnTyped DEF MemoryTyped, LocalTyped, Step
<1>5. PrevNext /\ \A t \in Thread : ReleaseNext(t)
  BY <1>1, <1>3, Values DEF PrevNext, ReleaseNext
<1>6. journal' = journal \/ (journal' = NoOp /\ Kept = {})
  <2>1. o \in Op /\ Known(o.key, o.id) /\ (o.key # 0 => o.id = release["worker"].lease.id)
    BY ReleaseFields DEF LeaseInv, Memory
  <2>2. release["worker"].lease.id \notin Live
    BY <1>1 DEF LeaseInv, ReleaseOfStep
  <2>3. CASE o.key # 0
    BY <1>1, <2>1, <2>2, <2>3, EndedOp DEF Cleared
  <2>4. CASE o.key = 0
    <3>1. ASSUME journal.key = 0, NEW l \in Kept PROVE FALSE
      BY <3>1 DEF LeaseInv, Recorded, Given, Kept
    <3> QED
      BY <1>1, <2>4, <3>1 DEF Cleared
  <2> QED
    BY <2>3, <2>4
<1>7. journal'.key \in {journal.key, 0} /\ journal'.key <= keys'
  <2>1. 0 <= keys'
    BY <1>1, Typed DEF ServiceTyped, KeyId
  <2> QED
    BY <1>2, <1>6, <2>1, Values, JournalKey
<1>8. WorkOfStep'
  BY <1>1, <1>7, WorkRests DEF LockHeld
<1>9. ReleaseOfStep'
  BY <1>1, <1>2, <1>3, Values, ReleaseKeeps DEF Resting
<1>10. ExitOfStep'
  BY <1>1, <1>2, <1>3, <1>7, ExitKeeps DEF Acquiring
<1>11. LoginOfStep'
  BY <1>1, <1>3 DEF LoginOfStep, Informing, LockHeld
<1> QED
  BY <1>2, <1>4, <1>5, <1>6, <1>8, <1>9, <1>10, <1>11, ClearStep

\* The worker gives a lease back only after the outcome of a login.
LEMMA WorkerReleases ==
  ASSUME LeaseInv, release["worker"].at \notin {"off", "kept"}
  PROVE  pc \in {"releasing", "restoring"}
BY Typed, Values DEF LeaseInv, LoginOfStep, Informing, LockHeld, LocalTyped, Step

\* A step of a release is in order if the thread that takes it is.
LEMMA ReleaseStep ==
  ASSUME LeaseInv, Calm, NEW t \in Thread, release[t].at \notin {"off", "kept"},
         \A u \in Thread \ {t} : release'[u] = release[u], UNCHANGED <<pc, op, prev>>,
         release'[t].at = "off" => release'[t] = NoRelease,
         release'[t].at = "mark" => /\ release'[t].op.key # 0
                                    /\ \A l \in Kept' : keyOf'[l] = release'[t].op.key,
         release'[t].at = "clear" => /\ release'[t].op.key # 0
                                     /\ release'[t].lease.id \notin Live',
         release'["worker"].at = "mark" /\ journal'.key # release'["worker"].op.key
           => Void(release["worker"].op.key)'
  PROVE  ReleaseOfStep' /\ LoginOfStep' /\ (t = "worker" => pc \in {"releasing", "restoring"})
<1>0. Kept' \subseteq Kept /\ Live' \subseteq Live /\ keyOf' = keyOf
  BY CalmKeeps DEF Calm
<1>1. ASSUME NEW u \in Thread
      PROVE  /\ release'[u].at = "off" => release'[u] = NoRelease
             /\ release'[u].at = "mark" => /\ release'[u].op.key # 0
                                           /\ \A l \in Kept' : keyOf'[l] = release'[u].op.key
             /\ release'[u].at = "clear" => /\ release'[u].op.key # 0
                                            /\ release'[u].lease.id \notin Live'
  <2>1. CASE u # t
    BY <1>0, <2>1 DEF LeaseInv, ReleaseOfStep
  <2> QED
    BY <2>1
<1>2. t = "worker" => pc \in {"releasing", "restoring"}
  BY WorkerReleases
<1>3. pc' = "reported" => release'["worker"].lease.id \notin Live'
  BY <1>0, <1>2, Threads DEF LeaseInv, ReleaseOfStep
<1>4. LoginOfStep'
  BY <1>2, Threads DEF LeaseInv, LoginOfStep, Informing, LockHeld
<1> QED
  BY <1>1, <1>2, <1>3, <1>4 DEF ReleaseOfStep

\* ReleaseLoad keeps the invariant: what may be written over is what was read, or
\* what has no lease.
LEMMA ReleaseLoadKeeps ==
  ASSUME LeaseInv, NEW t \in Thread, ReleaseLoad(t)
  PROVE  LeaseInv'
<1>0. MemoryTyped /\ LocalTyped
  BY Typed
<1> USE <1>0, Threads
<1> DEFINE o == release[t].op
           r == IF o.key # 0 /\ journal.key = o.key
                THEN [release[t] EXCEPT !.at = "mark"]
                ELSE [release[t] EXCEPT !.at = "delete", !.op = NoOp]
<1>1. /\ release[t].at = "load" /\ release' = [release EXCEPT ![t] = r]
      /\ UNCHANGED <<service, journal, active, op, holdoff, exits, prev, replaced, work, got,
                     pc, keys, known, contested, faults>>
  <2>1. \/ /\ o.key # 0 /\ journal.key = o.key
           /\ release' = [release EXCEPT ![t].at = "mark"]
        \/ /\ ~(o.key # 0 /\ journal.key = o.key)
           /\ release' = [release EXCEPT ![t].at = "delete", ![t].op = NoOp]
    BY DEF ReleaseLoad
  <2>2. ASSUME o.key # 0 /\ journal.key = o.key
        PROVE  release' = [release EXCEPT ![t] = r]
    BY <2>1, <2>2
  <2>3. ASSUME ~(o.key # 0 /\ journal.key = o.key)
        PROVE  release' = [release EXCEPT ![t] = r]
    BY <2>1, <2>3
  <2> QED
    BY <2>2, <2>3 DEF ReleaseLoad, local, history
<1>2. Calm /\ Kept' \subseteq Kept /\ keyOf' = keyOf
  BY <1>1, ServiceStays, CalmKeeps DEF Calm
<1>3. release[t] \in OfRelease /\ o \in Op
  BY ReleaseFields
<1>4. /\ r \in OfRelease
      /\ \/ r.at = "mark" /\ r.op = o /\ r.lease = release[t].lease /\ o.key # 0 /\ journal.key = o.key
         \/ r.at = "delete" /\ r.op = NoOp
  BY <1>3, Values DEF OfRelease, ReleaseAt
<1> HIDE DEF r
<1>5. /\ release' \in [Thread -> OfRelease] /\ release'[t] = r
      /\ \A u \in Thread \ {t} : release'[u] = release[u]
  BY <1>1, <1>4, SetRelease
<1>6. MemoryTyped' /\ LocalTyped'
  BY <1>1, <1>5 DEF MemoryTyped, LocalTyped
<1>7. OwnNext /\ PrevNext /\ \A u \in Thread : ReleaseNext(u)
  BY <1>1, <1>4, <1>5 DEF OwnNext, PrevNext, ReleaseNext
<1>8. ReleaseOfStep' /\ LoginOfStep'
  <2>1. release'[t].at = "mark" => /\ release'[t].op.key # 0
                                   /\ \A l \in Kept' : keyOf'[l] = release'[t].op.key
    BY <1>2, <1>4, <1>5 DEF LeaseInv, Recorded
  <2>2. release'["worker"].at = "mark" /\ journal'.key # release'["worker"].op.key
          => Void(release["worker"].op.key)'
    <3>1. CASE t = "worker"
      BY <1>1, <1>4, <1>5, <3>1
    <3>2. CASE t # "worker"
      BY <1>1, <1>2, <1>5, <3>2, ServiceStays DEF LeaseInv, ReleaseOfStep, Void, Calm
    <3> QED
      BY <3>1, <3>2
  <2>3. release'[t].at \in {"mark", "delete"}
    BY <1>4, <1>5
  <2> QED
    BY <1>1, <1>2, <1>5, <2>1, <2>2, <2>3, ReleaseStep
<1>9. WorkOfStep'
  BY <1>1, <1>2, JournalKey, WorkKeeps
<1>10. ExitOfStep'
  <2>1. CASE t = "worker"
    BY <1>1, <1>2, <1>5, <2>1, ExitKeeps DEF Acquiring
  <2>2. CASE t = "exit" /\ r.at = "mark"
    <3>1. journal'.key = release'["exit"].op.key
      BY <1>1, <1>4, <1>5, <2>2
    <3>2. pc \in Acquiring /\ journal.key # work.key => Void(work.key)
      BY DEF LeaseInv, WorkOfStep
    <3>3. pc' \in Acquiring /\ work'.key # release'["exit"].op.key => Void(work.key)'
      BY <1>1, <1>2, <3>1, <3>2, ServiceStays DEF Void, Calm
    <3> QED
      BY <3>1, <3>3 DEF ExitOfStep
  <2>3. CASE t = "exit" /\ r.at # "mark"
    BY <1>5, <2>3 DEF ExitOfStep
  <2> QED
    BY <2>1, <2>2, <2>3 DEF Thread
<1> QED
  BY <1>1, <1>2, <1>6, <1>7, <1>8, <1>9, <1>10, CalmStep

\* An operation that is marked is the same operation.
LEMMA PendingOp ==
  ASSUME NEW o \in Op
  PROVE  LET p == [o EXCEPT !.pending = TRUE]
         IN  /\ p \in Op /\ p.key = o.key /\ p.id = o.id /\ p.left = o.left /\ p.pending
             /\ o.left \in 0..TTL /\ o.key \in Nat /\ o.id \in Nat
<1> DEFINE p == [o EXCEPT !.pending = TRUE]
<1>1. o.key \in KeyId /\ o.id \in LeaseId /\ o.left \in 0..TTL
  BY DEF Op
<1>2. p.key = o.key /\ p.id = o.id /\ p.left = o.left /\ p.pending
  BY DEF Op
<1>3. p \in Op
  BY DEF Op
<1> HIDE DEF p
<1>4. o.key \in Nat /\ o.id \in Nat
  BY <1>1 DEF KeyId, LeaseId
<1> QED
  BY <1>1, <1>2, <1>3, <1>4 DEF p

\* ReleaseMark keeps the invariant: it records less of the lease, or as much, and
\* writes over no other lease.
LEMMA ReleaseMarkKeeps ==
  ASSUME LeaseInv, NEW t \in Thread, ReleaseMark(t)
  PROVE  LeaseInv'
<1>0. /\ ServiceTyped /\ DiskTyped /\ MemoryTyped /\ LocalTyped
      /\ TTL \in Nat \ {0} /\ MaxKeys \in Nat
  BY Typed
<1> USE <1>0, Threads
<1> DEFINE o == release[t].op
           p == [o EXCEPT !.pending = TRUE]
           r == [at |-> "delete", lease |-> release[t].lease, op |-> p]
<1>1. /\ release[t].at = "mark" /\ journal' = p /\ release' = [release EXCEPT ![t] = r]
      /\ known' = [known EXCEPT ![p.id] = IF p.left < @ THEN p.left ELSE @]
      /\ UNCHANGED <<service, active, op, holdoff, exits, prev, replaced, work, got,
                     pc, keys, contested, faults>>
  BY DEF ReleaseMark, Releasing, local
<1>2. release[t] \in OfRelease /\ o \in Op /\ release[t].lease \in Lease
  BY ReleaseFields
<1>3. /\ p \in Op /\ p.key = o.key /\ p.id = o.id /\ p.left = o.left /\ p.pending
      /\ o.left \in 0..TTL /\ o.key \in Nat /\ o.id \in Nat
  BY <1>2, PendingOp
<1>4. /\ o.key # 0 /\ \A l \in Kept : keyOf[l] = o.key
      /\ Known(o.key, o.id) /\ o.id = release[t].lease.id
  BY <1>1 DEF LeaseInv, ReleaseOfStep, Memory
<1>5. o.id \in 1..MaxKeys
  BY <1>2, <1>3, <1>4 DEF Known, Op, LeaseId, KeyId
<1> HIDE DEF p
<1>6. \A l \in 1..MaxKeys : known'[l] = IF l = o.id THEN IF o.left < known[l] THEN o.left
                                                                             ELSE known[l]
                                                   ELSE known[l]
  BY <1>1, <1>3, <1>5 DEF ServiceTyped
<1>7. Calm
  <2>1. known' \in [1..MaxKeys -> 0..TTL]
    BY <1>1, <1>3, <1>5 DEF ServiceTyped
  <2>2. Live' = Live
    BY <1>1 DEF service, Live
  <2>3. \A l \in 1..MaxKeys : known[l] \in Nat
    BY DEF ServiceTyped
  <2>4. \A l \in Live' : known'[l] <= known[l]
    BY <1>3, <1>6, <2>3 DEF Live
  <2> QED
    BY <1>1, <2>1, <2>2, <2>4 DEF Calm, ServiceTyped, service, KeyId
<1>8. r \in OfRelease
  BY <1>2, <1>3 DEF OfRelease, ReleaseAt
<1>9. /\ release' \in [Thread -> OfRelease] /\ release'[t] = r
      /\ \A u \in Thread \ {t} : release'[u] = release[u]
  BY <1>1, <1>8, SetRelease
<1>10. MemoryTyped' /\ LocalTyped' /\ DiskTyped'
  BY <1>1, <1>3, <1>4, <1>9 DEF MemoryTyped, LocalTyped, DiskTyped, Known
<1>11. OwnNext /\ PrevNext /\ \A u \in Thread : ReleaseNext(u)
  BY <1>1, <1>3, <1>9 DEF OwnNext, PrevNext, ReleaseNext
<1>12. /\ ServiceTyped' /\ Given' /\ Memory' /\ Kept' \subseteq Kept
       /\ \A k \in Nat : Void(k) => k \in contested' \/ \A l \in Live' : keyOf'[l] # k
  BY <1>7, <1>11, CalmKeeps, MemoryKeeps
<1>13. Recorded'
  <2>1. ASSUME NEW l \in Kept'
        PROVE  /\ journal'.key = keyOf'[l] /\ (journal'.pending => journal'.id = l)
               /\ known'[l] <= journal'.left
    <3>1. l \in Kept /\ keyOf[l] = o.key /\ l \in 1..MaxKeys /\ known[l] \in Nat
      BY <1>4, <1>12 DEF Kept, Live, ServiceTyped
    <3>2. l = o.id
      BY <1>4, <3>1 DEF Known, Kept
    <3>3. known'[l] <= o.left
      BY <1>3, <1>6, <3>1, <3>2
    <3> QED
      BY <1>1, <1>3, <3>1, <3>2, <3>3 DEF service
  <2> QED
    BY <2>1 DEF Recorded
<1>14. ReleaseOfStep' /\ LoginOfStep' /\ (t = "worker" => pc \in {"releasing", "restoring"})
  <2>1. release'["worker"].at = "mark" /\ journal'.key # release'["worker"].op.key
          => Void(release["worker"].op.key)'
    <3>1. CASE t = "worker"
      BY <1>9, <3>1
    <3>2. CASE t = "exit"
      <4>1. release'["worker"] = release["worker"] /\ release["worker"].op.key \in Nat
        <5>1. release["worker"].op \in Op
          BY ReleaseFields
        <5> QED
          BY <1>9, <3>2, <5>1 DEF Op, KeyId
      <4>2. journal.key # o.key => Void(journal.key)
        BY <1>1, <3>2 DEF LeaseInv, ExitOfStep
      <4>3. release["worker"].at = "mark" /\ journal.key # release["worker"].op.key
              => Void(release["worker"].op.key)
        BY DEF LeaseInv, ReleaseOfStep
      <4>4. release["worker"].at = "mark" /\ release["worker"].op.key # o.key
              => Void(release["worker"].op.key)
        BY <4>2, <4>3
      <4> QED
        BY <1>1, <1>3, <1>12, <4>1, <4>4 DEF Void
    <3> QED
      BY <3>1, <3>2 DEF Thread
  <2> QED
    BY <1>1, <1>7, <1>9, <2>1, ReleaseStep
<1>15. WorkOfStep'
  <2>1. journal'.key <= keys'
    BY <1>1, <1>3, <1>4 DEF Known
  <2>2. pc \in Acquiring /\ journal'.key # work.key => journal'.key = journal.key \/ Void(work.key)
    <3>1. CASE t = "worker"
      BY <1>14, <3>1 DEF Acquiring
    <3>2. CASE t = "exit"
      BY <1>1, <1>3, <3>2 DEF LeaseInv, ExitOfStep
    <3> QED
      BY <3>1, <3>2 DEF Thread
  <2> QED
    BY <1>1, <1>7, <2>1, <2>2, WorkKeeps
<1>16. ExitOfStep'
  <2>1. CASE t = "exit"
    BY <1>9, <2>1 DEF ExitOfStep
  <2>2. CASE t = "worker" /\ release["exit"].at # "mark"
    BY <1>9, <2>2 DEF ExitOfStep
  <2>3. CASE t = "worker" /\ release["exit"].at = "mark"
    <3>1. pc' \notin Acquiring /\ release'["exit"] = release["exit"]
      BY <1>1, <1>9, <1>14, <2>3 DEF Acquiring
    <3>2. journal.key # release["exit"].op.key => Void(journal.key)
      BY <2>3 DEF LeaseInv, ExitOfStep
    <3>3. journal.key # o.key => Void(o.key)
      BY <1>1, <2>3 DEF LeaseInv, ReleaseOfStep
    <3>4. o.key # release["exit"].op.key => Void(o.key)
      BY <3>2, <3>3
    <3> QED
      BY <1>1, <1>3, <1>12, <3>1, <3>4 DEF ExitOfStep, Void
  <2> QED
    BY <2>1, <2>2, <2>3 DEF Thread
<1> QED
  BY <1>10, <1>12, <1>13, <1>14, <1>15, <1>16, InvNext

\* What the end of a release leaves in order.
LEMMA ReleaseEnds ==
  ASSUME LeaseInv, Calm, NEW t \in Thread, release[t].at \notin {"off", "kept"},
         NEW r \in OfRelease, release' = [release EXCEPT ![t] = r],
         \/ r = NoRelease
         \/ r = [release[t] EXCEPT !.at = "clear"] /\ r.op.key # 0 /\ r.lease.id \notin Live',
         journal' = journal \/ (journal' = NoOp /\ Kept = {}),
         journal' = journal \/ Void(journal.key),
         UNCHANGED <<active, op, holdoff, exits, prev, replaced, work, got, pc>>,
         faults' \in 0..MaxFaults
  PROVE  LeaseInv'
<1>0. /\ ServiceTyped /\ DiskTyped /\ MemoryTyped /\ LocalTyped
      /\ TTL \in Nat \ {0} /\ MaxKeys \in Nat
  BY Typed
<1> USE <1>0, Threads
<1>1. /\ release' \in [Thread -> OfRelease] /\ release'[t] = r
      /\ \A u \in Thread \ {t} : release'[u] = release[u]
  BY SetRelease
<1>2. /\ \/ r = NoRelease /\ r.at = "off"
         \/ r.at = "clear" /\ r.op = release[t].op /\ r.lease = release[t].lease
      /\ r.at = "clear" => r.op.key # 0 /\ r.lease.id \notin Live'
  BY Values, ReleaseFields
<1>3. MemoryTyped' /\ LocalTyped'
  BY <1>1 DEF MemoryTyped, LocalTyped
<1>4. OwnNext /\ PrevNext /\ \A u \in Thread : ReleaseNext(u)
  BY <1>1, <1>2, Values DEF OwnNext, PrevNext, ReleaseNext
<1>5. \A k \in Nat : Void(k) => k \in contested' \/ \A l \in Live' : keyOf'[l] # k
  BY CalmKeeps
<1>6. ReleaseOfStep' /\ LoginOfStep' /\ (t = "worker" => pc \in {"releasing", "restoring"})
  <2>1. release'["worker"].at = "mark" /\ journal'.key # release'["worker"].op.key
          => Void(release["worker"].op.key)'
    <3>1. CASE t = "worker"
      BY <1>1, <1>2, <3>1
    <3>2. CASE t = "exit"
      <4>1. release'["worker"] = release["worker"] /\ release["worker"].op.key \in Nat
        <5>1. release["worker"].op \in Op
          BY ReleaseFields
        <5> QED
          BY <1>1, <3>2, <5>1 DEF Op, KeyId
      <4>2. release["worker"].at = "mark" /\ journal.key # release["worker"].op.key
              => Void(release["worker"].op.key)
        BY DEF LeaseInv, ReleaseOfStep
      <4>3. journal' = journal \/ journal.key # release["worker"].op.key
            \/ Void(release["worker"].op.key)
        OBVIOUS
      <4> QED
        BY <1>5, <4>1, <4>2, <4>3 DEF Void
    <3> QED
      BY <3>1, <3>2 DEF Thread
  <2> QED
    BY <1>1, <1>2, <2>1, ReleaseStep
<1>7. journal'.key \in {journal.key, 0} /\ journal'.key <= keys'
  <2>1. 0 <= keys' /\ journal.key <= keys'
    BY JournalKey DEF Calm, KeyId
  <2> QED
    BY <2>1, Values
<1>8. WorkOfStep'
  <2>1. pc \in Acquiring /\ journal'.key # work.key => journal'.key = journal.key \/ Void(work.key)
    BY DEF LeaseInv, WorkOfStep
  <2> QED
    BY <1>7, <2>1, WorkKeeps
<1>9. ExitOfStep'
  <2>1. release'["exit"] = release["exit"] \/ release'["exit"].at # "mark"
    BY <1>1, <1>2
  <2> QED
    BY <1>7, <2>1, ExitKeeps
<1> QED
  BY <1>3, <1>4, <1>6, <1>8, <1>9, ClearStep

\* ReleaseDelete keeps the invariant: the lease is over before the record goes.
LEMMA ReleaseDeleteKeeps ==
  ASSUME LeaseInv, NEW t \in Thread, ReleaseDelete(t)
  PROVE  LeaseInv'
<1>0. MemoryTyped /\ LocalTyped
  BY Typed
<1> USE <1>0
<1> DEFINE r == [release[t] EXCEPT !.at = "clear"]
<1>1. /\ release[t].at = "delete"
      /\ UNCHANGED <<journal, active, op, holdoff, exits, prev, replaced, work, got,
                     pc, keys, known, contested, faults>>
  BY DEF ReleaseDelete, local, history
<1>2. /\ r \in OfRelease /\ r.op = release[t].op /\ r.lease = release[t].lease
      /\ NoRelease \in OfRelease
  BY Values, ReleaseFields DEF OfRelease, ReleaseAt
<1>a. CASE End(release[t].lease.id) /\ release[t].op.key # 0
           /\ release' = [release EXCEPT ![t].at = "clear"]
  <2>1. Calm /\ release[t].lease.id \notin Live'
    BY <1>1, <1>a, EndsOne, HeldLease
  <2>2. release' = [release EXCEPT ![t] = r]
    BY <1>a
  <2> HIDE DEF r
  <2> QED
    BY <1>1, <1>2, <1>a, <2>1, <2>2, ReleaseEnds DEF r, LocalTyped
<1>b. CASE End(release[t].lease.id) /\ release' = [release EXCEPT ![t] = NoRelease]
  <2>1. Calm
    BY <1>1, <1>b, EndsOne, HeldLease
  <2> QED
    BY <1>1, <1>2, <1>b, <2>1, ReleaseEnds DEF LocalTyped
<1>c. CASE UNCHANGED service /\ release' = [release EXCEPT ![t] = NoRelease]
  <2>1. Calm
    BY <1>1, <1>c, ServiceStays
  <2> QED
    BY <1>1, <1>2, <1>c, <2>1, ReleaseEnds DEF LocalTyped
<1> QED
  BY <1>a, <1>b, <1>c DEF ReleaseDelete, Released

\* ReleaseFails keeps the invariant, whether the service ended the lease or not.
LEMMA ReleaseFailsKeeps ==
  ASSUME LeaseInv, NEW t \in Thread, ReleaseFails(t)
  PROVE  LeaseInv'
<1>0. MemoryTyped /\ LocalTyped /\ MaxFaults \in Nat
  BY Typed
<1> USE <1>0
<1>1. /\ release[t].at \in {"load", "mark", "delete", "clear"}
      /\ release' = [release EXCEPT ![t] = NoRelease]
      /\ UNCHANGED service \/ End(release[t].lease.id)
      /\ faults' = faults \/ (faults < MaxFaults /\ faults' = faults + 1)
      /\ UNCHANGED <<journal, active, op, holdoff, exits, prev, replaced, work, got,
                     pc, keys, known, contested>>
  BY DEF ReleaseFails, Released, Fault, local, history
<1>2. faults' \in 0..MaxFaults
  BY <1>1 DEF LocalTyped
<1>3. Calm
  BY <1>1, ServiceStays, EndsOne, HeldLease
<1> QED
  BY <1>1, <1>2, <1>3, Values, ReleaseEnds

\* ReleaseClear keeps the invariant: the lease of the operation is over.
LEMMA ReleaseClearKeeps ==
  ASSUME LeaseInv, NEW t \in Thread, ReleaseClear(t)
  PROVE  LeaseInv'
<1>0. MemoryTyped /\ LocalTyped
  BY Typed
<1> USE <1>0
<1> DEFINE o == release[t].op
<1>1. /\ release[t].at = "clear" /\ journal' = Cleared(o)
      /\ release' = [release EXCEPT ![t] = NoRelease]
      /\ UNCHANGED <<service, active, op, holdoff, exits, prev, replaced, work, got,
                     pc, keys, known, contested, faults>>
  BY DEF ReleaseClear, Released, local, history
<1>2. /\ o \in Op /\ o.key # 0 /\ Known(o.key, o.id) /\ o.id = release[t].lease.id
      /\ release[t].lease.id \notin Live
  BY <1>1, ReleaseFields DEF LeaseInv, Memory, ReleaseOfStep
<1>3. Void(o.key) /\ (journal.key = o.key => Kept = {})
  BY <1>2, EndedOp
<1>4. /\ journal' = journal \/ (journal' = NoOp /\ Kept = {})
      /\ journal' = journal \/ Void(journal.key)
  BY <1>1, <1>3 DEF Cleared
<1>5. Calm
  BY <1>1, ServiceStays
<1> QED
  BY <1>1, <1>4, <1>5, Values, ReleaseEnds DEF LocalTyped

\* Shutdown keeps the invariant: what is in memory is given back.
LEMMA ShutdownKeeps ==
  ASSUME LeaseInv, Shutdown
  PROVE  LeaseInv'
<1>0. MemoryTyped /\ LocalTyped /\ ExitCalls \in Nat
  BY Typed
<1> USE <1>0, Threads
<1> DEFINE r == [at |-> "load", lease |-> active, op |-> op]
<1>1. /\ exits < ExitCalls /\ exits' = exits + 1 /\ pc \notin LockHeld
      /\ active' = NoLease /\ op' = NoOp
      /\ release' = release \/ release' = [release EXCEPT !["exit"] = r]
      /\ UNCHANGED <<service, journal, holdoff, prev, work, got, pc, keys, known,
                     contested, faults>>
  BY DEF Shutdown, Releasing, history
<1>2. replaced' \in BOOLEAN
  BY DEF Shutdown, LocalTyped
<1>3. exits' \in 0..ExitCalls
  BY <1>1 DEF LocalTyped
<1>4. Calm
  BY <1>1, ServiceStays
<1>5. r \in OfRelease
  BY DEF MemoryTyped, OfRelease, ReleaseAt
<1>6. /\ release' \in [Thread -> OfRelease] /\ release'["worker"] = release["worker"]
      /\ \A t \in Thread : release'[t] = release[t] \/ (t = "exit" /\ release'[t] = r)
  BY <1>1, <1>5, SetRelease DEF MemoryTyped
<1>7. MemoryTyped' /\ LocalTyped'
  BY <1>1, <1>2, <1>3, <1>6, Values DEF MemoryTyped, LocalTyped
<1>8. OwnNext /\ PrevNext /\ \A t \in Thread : ReleaseNext(t)
  BY <1>1, <1>6 DEF OwnNext, PrevNext, ReleaseNext
<1>9. /\ \A t \in Thread : Resting(t)
      /\ pc' = "reported" => release'["worker"].lease.id \notin Live'
  BY <1>1, <1>6, ServiceStays DEF Resting, LeaseInv, ReleaseOfStep
<1>10. WorkOfStep'
  BY <1>1, <1>4, JournalKey, WorkRests
<1>11. LoginOfStep'
  BY <1>1, <1>6 DEF LeaseInv, LoginOfStep, Informing
<1>12. pc' \notin Acquiring
  BY <1>1 DEF Acquiring, LockHeld
<1> QED
  BY <1>1, <1>4, <1>7, <1>8, <1>9, <1>10, <1>11, <1>12, QuietStep

-----------------------------------------------------------------------------
(***************************************************************************)
(* A lease is recorded, or given.                                          *)
(***************************************************************************)

\* An operation with another expiry, or with a lease, is an operation.
LEMMA RecordedOp ==
  ASSUME NEW o \in Op, NEW lease \in Lease
  PROVE  /\ LET p == [o EXCEPT !.left = lease.left]
            IN  /\ p \in Op /\ p.key = o.key /\ p.id = o.id /\ p.left = lease.left
                /\ p.pending = o.pending
         /\ LET p == [o EXCEPT !.id = lease.id, !.left = lease.left, !.pending = FALSE]
            IN  /\ p \in Op /\ p.key = o.key /\ p.id = lease.id /\ p.left = lease.left
                /\ ~p.pending
         /\ lease.left \in 0..TTL /\ lease.id \in LeaseId
<1> DEFINE p == [o EXCEPT !.left = lease.left]
           q == [o EXCEPT !.id = lease.id, !.left = lease.left, !.pending = FALSE]
<1>1. lease.left \in 0..TTL /\ lease.id \in LeaseId
  BY DEF Lease
<1>2. p \in Op /\ p.key = o.key /\ p.id = o.id /\ p.left = lease.left /\ p.pending = o.pending
  BY <1>1 DEF Op
<1>3. q \in Op /\ q.key = o.key /\ q.id = lease.id /\ q.left = lease.left /\ ~q.pending
  BY <1>1 DEF Op
<1> QED
  BY <1>1, <1>2, <1>3

\* The journal may record the expiry of the lease it has for the operation.
LEMMA RecordingKeeps ==
  ASSUME LeaseInv, NEW o \in Op, Known(o.key, o.id), o.key # 0, ~o.pending,
         journal' = o, op' = o, active' = got, got.id = o.id, got.left = o.left,
         \A l \in Kept : keyOf[l] = o.key,
         release["exit"].at = "mark" /\ o.key # release["exit"].op.key => Void(o.key),
         release["worker"] = NoRelease, pc' = "login", work' = NoOp, got' = NoLease,
         replaced' \in BOOLEAN, holdoff' \in BOOLEAN,
         known' = [known EXCEPT ![o.id] = o.left],
         UNCHANGED <<service, exits, release, prev, keys, contested, faults>>
  PROVE  LeaseInv'
<1>0. /\ ServiceTyped /\ DiskTyped /\ MemoryTyped /\ LocalTyped
      /\ TTL \in Nat \ {0} /\ MaxKeys \in Nat
  BY Typed
<1> USE <1>0, Threads
<1>1. o.id \in 1..MaxKeys /\ o.left \in 0..TTL
  BY DEF Known, Op, LeaseId, KeyId
<1>2. /\ known' \in [1..MaxKeys -> 0..TTL] /\ known'[o.id] = o.left
      /\ \A l \in 1..MaxKeys : l # o.id => known'[l] = known[l]
  BY <1>1 DEF ServiceTyped
<1>3. Live' = Live /\ keyOf' = keyOf /\ issued' = issued /\ Live \subseteq 1..MaxKeys
  BY DEF service, Live
<1>4. ServiceTyped' /\ Given'
  <2>1. ServiceTyped'
    BY <1>2 DEF service, ServiceTyped
  <2>2. Given'
    BY <1>3 DEF LeaseInv, Given
  <2> QED
    BY <2>1, <2>2
<1>5. DiskTyped' /\ MemoryTyped' /\ LocalTyped'
  BY Values DEF DiskTyped, MemoryTyped, LocalTyped, Step
<1>6. Memory'
  <2>1. Held(active, op)'
    BY <1>3 DEF Held, Known
  <2>2. Held(prev.lease, prev.op)'
    BY <1>3 DEF LeaseInv, Memory, Held, Known
  <2>3. \A t \in Thread : /\ Known(release[t].op.key, release[t].op.id)'
                          /\ release'[t].op.key # 0 => release'[t].op.id = release'[t].lease.id
    BY <1>3 DEF LeaseInv, Memory, Known
  <2> QED
    BY <2>1, <2>2, <2>3 DEF Memory
<1>7. \A l \in Kept' : l \in Live /\ l = o.id /\ keyOf[l] = o.key
                       /\ o.key \notin contested
  <2>1. ASSUME NEW l \in Kept' PROVE l \in Live /\ l = o.id /\ keyOf[l] = o.key
                                     /\ o.key \notin contested
    <3>1. l \in Live /\ l \in 1..MaxKeys /\ keyOf[l] \notin contested /\ known'[l] > 0
      BY <1>3 DEF Kept
    <3>2. l = o.id
      <4>1. CASE l \in Kept
        BY <3>1, <4>1 DEF Known
      <4>2. CASE l \notin Kept /\ l # o.id
        BY <1>2, <3>1, <4>2 DEF Kept
      <4> QED
        BY <4>1, <4>2
    <3> QED
      BY <3>1, <3>2 DEF Known
  <2> QED
    BY <2>1
<1>8. Recorded'
  BY <1>2, <1>3, <1>7 DEF Recorded, Op
<1>9. ReleaseOfStep'
  <2>1. ASSUME NEW t \in Thread
        PROVE  /\ release'[t].at = "off" => release'[t] = NoRelease
               /\ release'[t].at = "mark" => /\ release'[t].op.key # 0
                                             /\ \A l \in Kept' : keyOf'[l] = release'[t].op.key
               /\ release'[t].at = "clear" => /\ release'[t].op.key # 0
                                              /\ release'[t].lease.id \notin Live'
    <3>1. release'[t].at = "mark" => \A l \in Kept' : keyOf'[l] = release'[t].op.key
      <4>1. CASE t = "worker"
        BY <4>1, Values
      <4>2. CASE t = "exit"
        BY <1>3, <1>7, <4>2 DEF Void
      <4> QED
        BY <4>1, <4>2 DEF Thread
    <3> QED
      BY <1>3, <3>1 DEF LeaseInv, ReleaseOfStep
  <2> QED
    BY <2>1, Values DEF ReleaseOfStep
<1>10. WorkOfStep'
  BY WorkRests DEF Known, LockHeld
<1>11. ExitOfStep'
  BY <1>3 DEF ExitOfStep, Acquiring, Void
<1>12. LoginOfStep'
  BY DEF LoginOfStep, Informing, LockHeld
<1> QED
  BY <1>4, <1>5, <1>6, <1>8, <1>9, <1>10, <1>11, <1>12, InvNext

\* MarkRenewed keeps the invariant.
LEMMA MarkRenewedKeeps ==
  ASSUME LeaseInv, MarkRenewed
  PROVE  LeaseInv'
<1>0. MemoryTyped /\ LocalTyped /\ DiskTyped
  BY Typed
<1> USE <1>0, Threads
<1> DEFINE Fits == journal.key = op.key /\ journal.id = op.id /\ ~journal.pending
           o    == [op EXCEPT !.left = got.left]
<1>1. pc = "renewed" /\ UNCHANGED <<service, exits, release, prev, keys, contested, faults>>
  BY DEF MarkRenewed
<1>2. release["worker"] = NoRelease
  BY <1>1 DEF LeaseInv, LoginOfStep, Informing, LockHeld
<1>a. CASE Fits
  <2>1. /\ journal' = o /\ op' = o /\ active' = got /\ replaced' = TRUE /\ holdoff' = FALSE
        /\ known' = [known EXCEPT ![op.id] = got.left] /\ pc' = "login"
        /\ work' = NoOp /\ got' = NoLease
    BY <1>a DEF MarkRenewed, Goto, InfoOver
  <2>2. /\ o \in Op /\ o.key = op.key /\ o.id = op.id /\ o.left = got.left
        /\ o.pending = op.pending
    BY RecordedOp DEF MemoryTyped, LocalTyped
  <2>3. /\ Known(op.key, op.id) /\ ~op.pending /\ op.key # 0 /\ got.id = op.id
    BY <1>1 DEF LeaseInv, Memory, Held, WorkOfStep, Known
  <2>4. \A l \in Kept : keyOf[l] = op.key
    BY <1>a DEF LeaseInv, Recorded
  <2>5. release["exit"].at = "mark" /\ op.key # release["exit"].op.key => Void(op.key)
    BY <1>a DEF LeaseInv, ExitOfStep
  <2> HIDE DEF o
  <2> QED
    BY <1>1, <1>2, <2>1, <2>2, <2>3, <2>4, <2>5, RecordingKeeps
<1>b. CASE ~Fits
  <2>1. /\ pc' = "journal"
        /\ UNCHANGED <<journal, op, active, replaced, holdoff, known, work, got>>
    BY <1>b DEF MarkRenewed, Goto
  <2>2. Calm
    BY <1>1, <2>1, ServiceStays
  <2>3. MemoryTyped' /\ LocalTyped'
    BY <1>1, <2>1 DEF MemoryTyped, LocalTyped, Step
  <2>4. OwnNext /\ PrevNext /\ \A t \in Thread : ReleaseNext(t)
    BY <1>1, <2>1 DEF OwnNext, PrevNext, ReleaseNext
  <2>5. WorkOfStep'
    BY <2>1, <2>2, JournalKey DEF WorkOfStep, Acquiring
  <2>6. LoginOfStep'
    BY <1>1, <2>1 DEF LeaseInv, LoginOfStep, Informing, LockHeld
  <2> QED
    BY <1>1, <2>1, <2>2, <2>3, <2>4, <2>5, <2>6, QuietStep DEF Acquiring, Resting
<1> QED
  BY <1>a, <1>b

\* MarkAcquired keeps the invariant.
LEMMA MarkAcquiredKeeps ==
  ASSUME LeaseInv, MarkAcquired
  PROVE  LeaseInv'
<1>0. MemoryTyped /\ LocalTyped /\ ServiceTyped
  BY Typed
<1> USE <1>0, Threads
<1> DEFINE o == [work EXCEPT !.id = got.id, !.left = got.left, !.pending = FALSE]
<1>1. /\ pc = "acquired" /\ journal' = o /\ op' = o /\ active' = got /\ replaced' = TRUE
      /\ holdoff' = FALSE /\ known' = [known EXCEPT ![got.id] = got.left] /\ pc' = "login"
      /\ work' = NoOp /\ got' = NoLease
      /\ UNCHANGED <<service, exits, release, prev, keys, contested, faults>>
  BY DEF MarkAcquired, Goto, InfoOver
<1>2. release["worker"] = NoRelease
  BY <1>1 DEF LeaseInv, LoginOfStep, Informing, LockHeld
<1>3. o \in Op /\ o.key = work.key /\ o.id = got.id /\ o.left = got.left /\ ~o.pending
  BY RecordedOp DEF LocalTyped
<1>4. /\ work.key # 0 /\ work.key <= keys /\ \A l \in Kept : keyOf[l] = work.key
      /\ got.id \in 1..issued /\ keyOf[got.id] = work.key
      /\ \A l \in Live : keyOf[l] = work.key => l = got.id
  BY <1>1 DEF LeaseInv, WorkOfStep, Acquiring
<1>5. Known(work.key, got.id)
  BY <1>4 DEF Known, ServiceTyped, LeaseId
<1>6. release["exit"].at = "mark" /\ work.key # release["exit"].op.key => Void(work.key)
  BY <1>1 DEF LeaseInv, ExitOfStep, Acquiring
<1> HIDE DEF o
<1> QED
  BY <1>1, <1>2, <1>3, <1>4, <1>5, <1>6, RecordingKeeps

\* A lease given anew is the only one that counts, and counts only if the journal
\* has the operation it is given for and no other thread can take that away.
LEMMA GiveEffect ==
  ASSUME LeaseInv, pc = "acquire", Give(work), UNCHANGED <<journal, keys>>
  PROVE  \/ UNCHANGED <<service, known, contested>>
         \/ /\ ServiceTyped' /\ Given' /\ issued' \in Live' /\ Live' = Live \cup {issued'}
            /\ issued' \notin 0..issued /\ issued' > issued
            /\ keyOf'[issued'] = work.key /\ \A l \in 1..issued : keyOf'[l] = keyOf[l]
            /\ contested' = IF Contested(work) THEN contested \cup {work.key} ELSE contested
            /\ \A l \in Live : keyOf[l] # work.key
            /\ \A l \in Kept' : l = issued' /\ ~Contested(work)
                                /\ known'[l] = IF work.id = 0 THEN TTL ELSE work.left
<1>0. /\ ServiceTyped /\ DiskTyped /\ LocalTyped /\ TTL \in Nat \ {0} /\ MaxKeys \in Nat
  BY Typed
<1> USE <1>0
<1> DEFINE n == issued + 1
           r == IF work.id = 0 THEN TTL ELSE work.left
<1>1. CASE \E l \in Live : keyOf[l] = work.key
  BY <1>1 DEF Give
<1>2. CASE ~\E l \in Live : keyOf[l] = work.key
  <2>1. /\ issued < MaxKeys /\ issued' = n /\ left' = [left EXCEPT ![n] = TTL]
        /\ keyOf' = [keyOf EXCEPT ![n] = work.key] /\ known' = [known EXCEPT ![n] = r]
        /\ contested' = IF Contested(work) THEN contested \cup {work.key} ELSE contested
    BY <1>2 DEF Give
  <2>2. /\ issued \in Nat /\ n \in 1..MaxKeys /\ n \in LeaseId /\ n \notin 0..issued /\ n > issued
    BY <2>1 DEF ServiceTyped, LeaseId
  <2>3. r \in 0..TTL /\ work.key \in KeyId /\ work.key # 0 /\ work.key <= keys
    BY DEF LocalTyped, Op, LeaseInv, WorkOfStep, Acquiring
  <2> HIDE DEF r
  <2>4. /\ left' \in [1..MaxKeys -> 0..TTL] /\ keyOf' \in [1..MaxKeys -> KeyId]
        /\ known' \in [1..MaxKeys -> 0..TTL]
    BY <2>1, <2>2, <2>3 DEF ServiceTyped
  <2>5. /\ left'[n] = TTL /\ keyOf'[n] = work.key /\ known'[n] = r
        /\ \A l \in 1..MaxKeys \ {n} : /\ left'[l] = left[l] /\ keyOf'[l] = keyOf[l]
                                       /\ known'[l] = known[l]
    BY <2>1, <2>2 DEF ServiceTyped
  <2>6. ServiceTyped'
    BY <2>1, <2>2, <2>3, <2>4 DEF ServiceTyped
  <2>7. Live' = Live \cup {n}
    BY <2>2, <2>5 DEF Live
  <2>8. \A l \in Live : l \in 1..MaxKeys /\ l <= issued /\ l # n
    BY <2>2 DEF LeaseInv, Given, Live
  <2>9. Given'
    <3>1. ASSUME NEW l \in Live' PROVE l <= issued' /\ keyOf'[l] # 0 /\ keyOf'[l] <= keys'
      BY <2>1, <2>2, <2>3, <2>5, <2>7, <2>8 DEF LeaseInv, Given
    <3>2. ASSUME NEW l \in Live', NEW m \in Live', keyOf'[l] = keyOf'[m] PROVE l = m
      BY <1>2, <2>5, <2>7, <2>8, <3>2 DEF LeaseInv, Given
    <3> QED
      BY <3>1, <3>2 DEF Given
  <2>10. \A l \in 1..issued : keyOf'[l] = keyOf[l]
    BY <2>2, <2>5 DEF ServiceTyped, LeaseId
  <2>11. ASSUME NEW l \in Kept'
         PROVE  l = n /\ ~Contested(work) /\ known'[l] = r
    <3>1. l \in Live' /\ known'[l] > 0 /\ keyOf'[l] \notin contested'
      BY DEF Kept
    <3>2. l = n
      <4>1. ASSUME l \in Live PROVE FALSE
        <5>1. l \in 1..MaxKeys \ {n} /\ keyOf[l] \notin contested
          BY <2>1, <2>5, <2>8, <3>1, <4>1
        <5>2. l \in Kept
          BY <2>5, <3>1, <4>1, <5>1 DEF Kept
        <5>3. keyOf[l] = work.key
          BY <5>2 DEF LeaseInv, WorkOfStep, Acquiring
        <5> QED
          BY <1>2, <4>1, <5>3
      <4> QED
        BY <2>7, <3>1, <4>1
    <3>3. work.key \notin contested'
      BY <2>5, <3>1, <3>2
    <3> QED
      BY <2>1, <2>5, <3>2, <3>3
  <2> QED
    BY <1>2, <2>1, <2>2, <2>5, <2>6, <2>7, <2>9, <2>10, <2>11 DEF r
<1> QED
  BY <1>1, <1>2

\* What it leaves of the invariant, wherever the login goes from there.
LEMMA GivenKeeps ==
  ASSUME LeaseInv, pc = "acquire", Give(work), ~UNCHANGED <<service, known, contested>>,
         UNCHANGED <<journal, active, op, holdoff, exits, release, prev, replaced, keys>>,
         pc' \in {"acquired", "raised"}, pc' = "acquired" => work' = work
  PROVE  /\ ServiceTyped' /\ DiskTyped' /\ MemoryTyped' /\ Given' /\ Memory' /\ Recorded'
         /\ ReleaseOfStep' /\ ExitOfStep' /\ LoginOfStep'
         /\ \A l \in Kept' : keyOf'[l] = work.key
         /\ journal.key # work.key => work.key \in contested'
<1>0. /\ ServiceTyped /\ DiskTyped /\ MemoryTyped /\ LocalTyped
      /\ TTL \in Nat \ {0} /\ MaxKeys \in Nat
  BY Typed
<1> USE <1>0, Threads
<1>1. /\ ServiceTyped' /\ Given' /\ issued' \in Live' /\ Live' = Live \cup {issued'}
      /\ issued' \notin 0..issued /\ issued' > issued
      /\ keyOf'[issued'] = work.key /\ \A l \in 1..issued : keyOf'[l] = keyOf[l]
      /\ contested' = IF Contested(work) THEN contested \cup {work.key} ELSE contested
      /\ \A l \in Live : keyOf[l] # work.key
      /\ \A l \in Kept' : l = issued' /\ ~Contested(work)
                          /\ known'[l] = IF work.id = 0 THEN TTL ELSE work.left
  BY GiveEffect
<1>2. DiskTyped' /\ MemoryTyped'
  BY DEF DiskTyped, MemoryTyped
<1>3. /\ release["worker"] = NoRelease /\ (op = prev.op \/ op = NoOp)
      /\ work.key # 0 /\ work.key <= keys
  BY DEF LeaseInv, LoginOfStep, WorkOfStep, Informing, LockHeld, Acquiring
<1>4. issued \in Nat /\ issued' \in Nat /\ Live \subseteq 1..issued
  <2>1. issued \in Nat /\ issued' \in Nat
    BY <1>1 DEF ServiceTyped, LeaseId
  <2> QED
    BY <2>1 DEF LeaseInv, Given, Live
<1>5. ASSUME NEW k \in Nat, NEW i \in Nat, Known(k, i),
             k = work.key => Contested(work) \/ k = 0
      PROVE  Known(k, i)'
  <2>1. i # 0 => i <= issued' /\ keyOf'[i] = k
    BY <1>1, <1>4, <1>5 DEF Known
  <2>2. ASSUME k # 0, k \notin contested', NEW l \in Live', keyOf'[l] = k PROVE l = i
    <3>1. k # work.key /\ k \notin contested
      BY <1>1, <1>5, <2>2
    <3>2. l \in Live /\ l \in 1..issued
      BY <1>1, <1>4, <2>2, <3>1
    <3> QED
      BY <1>1, <1>5, <2>2, <3>1, <3>2 DEF Known
  <2> QED
    BY <1>5, <2>1, <2>2 DEF Known
<1>6. Memory'
  <2>1. /\ prev.op.key \in Nat /\ prev.op.id \in Nat /\ op.key \in Nat /\ op.id \in Nat
        /\ release["exit"].op.key \in Nat /\ release["exit"].op.id \in Nat
    <3>1. release["exit"].op \in Op
      BY ReleaseFields
    <3> QED
      BY <3>1 DEF MemoryTyped, Op, KeyId, LeaseId
  <2>2. /\ prev.op.key = work.key => Contested(work)
        /\ release["exit"].op.key = work.key => Contested(work)
        /\ op.key = work.key => Contested(work)
    BY <1>3, Values DEF Contested
  <2>3. Known(prev.op.key, prev.op.id)'
    BY <1>5, <2>1, <2>2 DEF LeaseInv, Memory, Held
  <2>4. Known(op.key, op.id)'
    BY <1>5, <2>1, <2>2 DEF LeaseInv, Memory, Held
  <2>5. Known(release["exit"].op.key, release["exit"].op.id)'
    BY <1>5, <2>1, <2>2 DEF LeaseInv, Memory
  <2>6. Known(release["worker"].op.key, release["worker"].op.id)'
    <3>1. release'["worker"].op.key = 0 /\ release'["worker"].op.id = 0
      BY <1>3, Values
    <3>2. 0 <= keys'
      BY DEF ServiceTyped, KeyId
    <3> QED
      BY <3>1, <3>2 DEF Known
  <2>7. Held(active, op)' /\ Held(prev.lease, prev.op)'
    BY <2>3, <2>4 DEF LeaseInv, Memory, Held
  <2>8. \A t \in Thread : /\ Known(release[t].op.key, release[t].op.id)'
                          /\ release'[t].op.key # 0 => release'[t].op.id = release'[t].lease.id
    BY <2>5, <2>6 DEF Thread, LeaseInv, Memory
  <2> QED
    BY <2>7, <2>8 DEF Memory
<1>7. Recorded'
  BY <1>1, <1>3 DEF Recorded, Contested, DiskTyped, Op
<1>8. ReleaseOfStep'
  <2>1. ASSUME NEW t \in Thread
        PROVE  /\ release'[t].at = "off" => release'[t] = NoRelease
               /\ release'[t].at = "mark" => /\ release'[t].op.key # 0
                                             /\ \A l \in Kept' : keyOf'[l] = release'[t].op.key
               /\ release'[t].at = "clear" => /\ release'[t].op.key # 0
                                              /\ release'[t].lease.id \notin Live'
    <3>1. CASE t = "worker"
      BY <1>3, <3>1, Values
    <3>2. CASE t = "exit"
      <4>1. release'["exit"].at = "mark" => Kept' = {}
        BY <1>1 DEF Contested
      <4>2. release["exit"].at = "clear" => /\ release["exit"].op.key # 0
                                            /\ release["exit"].lease.id \notin Live
                                            /\ release["exit"].lease.id <= issued
        BY DEF LeaseInv, ReleaseOfStep, Memory, Known
      <4>3. release["exit"].lease.id \in Nat
        <5>1. release["exit"].lease \in Lease
          BY ReleaseFields
        <5> QED
          BY <5>1 DEF Lease, LeaseId
      <4>4. release["exit"].at = "clear" => release["exit"].lease.id \notin Live'
        BY <1>1, <1>4, <4>2, <4>3
      <4> QED
        BY <3>2, <4>1, <4>2, <4>4 DEF LeaseInv, ReleaseOfStep
    <3> QED
      BY <3>1, <3>2 DEF Thread
  <2> QED
    BY <1>3, <2>1, Values DEF ReleaseOfStep
<1>9. ExitOfStep'
  <2>1. CASE release["exit"].at # "mark"
    BY <2>1 DEF ExitOfStep
  <2>2. CASE release["exit"].at = "mark"
    <3>1. work.key \in contested' /\ contested \subseteq contested'
      BY <1>1, <2>2 DEF Contested
    <3>2. journal.key # release["exit"].op.key => Void(journal.key)
      BY <2>2 DEF LeaseInv, ExitOfStep
    <3>3. Void(journal.key) => Void(journal.key)'
      <4>1. ASSUME \A l \in Live : keyOf[l] # journal.key, journal.key # work.key
            PROVE  \A l \in Live' : keyOf'[l] # journal.key
        BY <1>1, <1>4, <4>1
      <4> QED
        BY <3>1, <4>1 DEF Void
    <3>4. pc' \in Acquiring => Void(work.key)'
      BY <3>1 DEF Void, Acquiring
    <3> QED
      BY <3>2, <3>3, <3>4 DEF ExitOfStep
  <2> QED
    BY <2>1, <2>2
<1>10. LoginOfStep'
  BY <1>3 DEF LoginOfStep, Informing, LockHeld
<1>11. /\ \A l \in Kept' : keyOf'[l] = work.key
       /\ journal.key # work.key => work.key \in contested'
  BY <1>1 DEF Contested
<1> QED
  BY <1>1, <1>2, <1>6, <1>7, <1>8, <1>9, <1>10, <1>11

\* Acquire keeps the invariant.
LEMMA AcquireKeeps ==
  ASSUME LeaseInv, Acquire
  PROVE  LeaseInv'
<1>0. MemoryTyped /\ LocalTyped /\ ServiceTyped /\ TTL \in Nat \ {0} /\ MaxKeys \in Nat
  BY Typed
<1> USE <1>0, Threads
<1>1. /\ pc = "acquire" /\ pc' = "acquired" /\ Give(work)
      /\ UNCHANGED <<journal, active, op, holdoff, exits, release, prev, replaced, work,
                     keys, faults>>
  BY DEF Acquire, Goto
<1>2. PICK l \in Live' : keyOf'[l] = work.key /\ got' = [id |-> l, left |-> left'[l]]
  BY DEF Acquire
<1>3. /\ work.key # 0 /\ work.key <= keys /\ \A m \in Kept : keyOf[m] = work.key
      /\ journal.key # work.key => Void(work.key)
      /\ journal.key <= keys
  BY <1>1 DEF LeaseInv, WorkOfStep, Acquiring
<1>4. ASSUME ServiceTyped', Given', \A m \in Kept' : keyOf'[m] = work.key,
             journal.key # work.key => Void(work.key)'
      PROVE  LocalTyped' /\ WorkOfStep'
  <2>1. l \in 1..MaxKeys /\ left'[l] \in 0..TTL /\ l <= issued' /\ issued' \in Nat
    BY <1>4 DEF Live, ServiceTyped, Given, LeaseId
  <2>2. got' \in Lease /\ got'.id = l
    BY <1>2, <2>1 DEF Lease, LeaseId
  <2>3. LocalTyped'
    BY <1>1, <2>2 DEF LocalTyped, Step
  <2>4. /\ got'.id \in 1..issued' /\ keyOf'[got'.id] = work.key
        /\ \A m \in Live' : keyOf'[m] = work.key => m = got'.id
    BY <1>2, <1>4, <2>1, <2>2 DEF Given
  <2> QED
    BY <1>1, <1>3, <1>4, <2>3, <2>4 DEF WorkOfStep, Acquiring, Void
<1>a. CASE UNCHANGED <<service, known, contested>>
  <2>1. Calm /\ Live' = Live /\ Kept' = Kept
    BY <1>1, <1>a, ServiceStays
  <2>2. ServiceTyped' /\ Given' /\ keyOf' = keyOf /\ contested' = contested
    BY <2>1, CalmKeeps DEF Calm
  <2>3. LocalTyped' /\ WorkOfStep'
    BY <1>3, <1>4, <1>1, <2>1, <2>2 DEF Void
  <2>4. MemoryTyped'
    BY <1>1 DEF MemoryTyped
  <2>5. OwnNext /\ PrevNext /\ \A t \in Thread : ReleaseNext(t)
    BY <1>1 DEF OwnNext, PrevNext, ReleaseNext
  <2>6. ReleaseOfStep'
    BY <1>1, <2>1, ReleaseKeeps DEF Resting
  <2>7. ExitOfStep'
    BY <1>1, <2>1, ExitKeeps DEF Acquiring
  <2>8. LoginOfStep'
    BY <1>1 DEF LeaseInv, LoginOfStep, Informing, LockHeld
  <2> QED
    BY <1>1, <2>1, <2>3, <2>4, <2>5, <2>6, <2>7, <2>8, CalmStep
<1>b. CASE ~UNCHANGED <<service, known, contested>>
  <2>1. /\ ServiceTyped' /\ DiskTyped' /\ MemoryTyped' /\ Given' /\ Memory' /\ Recorded'
        /\ ReleaseOfStep' /\ ExitOfStep' /\ LoginOfStep'
        /\ \A m \in Kept' : keyOf'[m] = work.key
        /\ journal.key # work.key => work.key \in contested'
    BY <1>1, <1>b, GivenKeeps
  <2>2. journal.key # work.key => Void(work.key)'
    BY <1>1, <2>1 DEF Void
  <2>3. LocalTyped' /\ WorkOfStep'
    BY <1>4, <2>1, <2>2
  <2> QED
    BY <2>1, <2>3, InvNext
<1> QED
  BY <1>a, <1>b

\* InfoFails keeps the invariant, whether the service acted or not.
LEMMA InfoFailsKeeps ==
  ASSUME LeaseInv, InfoFails
  PROVE  LeaseInv'
<1>0. MemoryTyped /\ LocalTyped /\ MaxFaults \in Nat
  BY Typed
<1> USE <1>0, Threads
<1>1. /\ pc \in LockHeld /\ pc' = "raised" /\ work' = NoOp /\ got' = NoLease
      /\ faults' = faults \/ (faults < MaxFaults /\ faults' = faults + 1)
      /\ \/ UNCHANGED <<service, known, contested>>
         \/ End(work.id) /\ UNCHANGED <<known, contested>>
         \/ pc = "acquire" /\ Give(work)
      /\ UNCHANGED <<journal, active, op, holdoff, exits, release, prev, replaced, keys>>
  BY DEF InfoFails, Goto, InfoOver, Fault, LockHeld
<1>2. faults' \in 0..MaxFaults
  BY <1>1 DEF LocalTyped
<1>3. MemoryTyped' /\ LocalTyped'
  BY <1>1, <1>2, Values DEF MemoryTyped, LocalTyped, Step
<1>4. OwnNext /\ PrevNext /\ \A t \in Thread : ReleaseNext(t)
  BY <1>1 DEF OwnNext, PrevNext, ReleaseNext
<1>5. WorkOfStep' /\ LoginOfStep'
  <2>1. journal.key <= keys
    BY DEF LeaseInv, WorkOfStep
  <2>2. release["worker"] = NoRelease
    BY <1>1 DEF LeaseInv, LoginOfStep, Informing
  <2> QED
    BY <1>1, <2>1, <2>2, WorkRests DEF LoginOfStep, Informing, LockHeld
<1>a. CASE UNCHANGED <<service, known, contested>> \/ (End(work.id) /\ UNCHANGED <<known, contested>>)
  <2>1. Calm
    BY <1>1, <1>a, ServiceStays, EndsOne, HeldLease
  <2> QED
    BY <1>1, <1>3, <1>4, <1>5, <2>1, QuietStep DEF Acquiring, Resting
<1>b. CASE pc = "acquire" /\ Give(work) /\ ~UNCHANGED <<service, known, contested>>
  <2>1. /\ ServiceTyped' /\ DiskTyped' /\ Given' /\ Memory' /\ Recorded'
        /\ ReleaseOfStep' /\ ExitOfStep'
    BY <1>1, <1>b, GivenKeeps
  <2> QED
    BY <1>3, <1>5, <2>1, InvNext
<1> QED
  BY <1>1, <1>a, <1>b

-----------------------------------------------------------------------------
(***************************************************************************)
(* The end of a process, time, and the theorems.                           *)
(***************************************************************************)

\* The process that begins knows nothing, and finds the journal as it was left.
LEMMA ForgetKeeps ==
  ASSUME LeaseInv, Forget, faults' \in 0..MaxFaults
  PROVE  LeaseInv'
<1>0. MemoryTyped /\ LocalTyped /\ ExitCalls \in Nat
  BY Typed
<1> USE <1>0, Threads
<1>1. /\ active' = NoLease /\ op' = NoOp /\ holdoff' = FALSE /\ exits' = 0
      /\ release' = [t \in Thread |-> NoRelease]
      /\ prev' = NoPrev /\ replaced' = FALSE /\ work' = NoOp /\ got' = NoLease
      /\ pc' = "idle" /\ UNCHANGED <<service, journal, keys, known, contested>>
  BY DEF Forget, Goto, history
<1>2. Calm
  BY <1>1, ServiceStays
<1>3. \A t \in Thread : release'[t] = NoRelease
  BY <1>1
<1>4. MemoryTyped' /\ LocalTyped'
  <2>1. MemoryTyped'
    BY <1>1, Values DEF MemoryTyped
  <2>2. exits' \in 0..ExitCalls
    BY <1>1
  <2>3. holdoff' \in BOOLEAN /\ replaced' \in BOOLEAN
    BY <1>1
  <2> QED
    BY <1>1, <2>1, <2>2, <2>3, Values DEF LocalTyped, Step
<1>5. OwnNext /\ PrevNext /\ \A t \in Thread : ReleaseNext(t)
  BY <1>1, <1>3, Values DEF OwnNext, PrevNext, ReleaseNext
<1>6. WorkOfStep'
  BY <1>1, <1>2, JournalKey, WorkRests DEF LockHeld
<1>7. LoginOfStep'
  BY <1>1, <1>3 DEF LoginOfStep, Informing, LockHeld
<1> QED
  BY <1>1, <1>2, <1>3, <1>4, <1>5, <1>6, <1>7, QuietStep DEF Acquiring, Resting

\* Exit and Crash keep the invariant.
LEMMA ExitKeepsAll ==
  ASSUME LeaseInv, Exit \/ Crash
  PROVE  LeaseInv'
<1>1. faults' \in 0..MaxFaults
  BY Typed DEF Exit, Crash, Fault, LocalTyped
<1> QED
  BY <1>1, ForgetKeeps DEF Exit, Crash

\* An operation that ages is the same operation, a tick nearer its expiry.
LEMMA AgedOp ==
  ASSUME NEW o \in Op
  PROVE  /\ Aged(o) \in Op /\ Aged(o).key = o.key /\ Aged(o).id = o.id
         /\ Aged(o).pending = o.pending
         /\ Aged(o).left = IF o.left > 0 THEN o.left - 1 ELSE 0
BY LeaseTimesAssumption DEF Aged, Op

\* So is a lease.
LEMMA AgedLease ==
  ASSUME NEW lease \in Lease
  PROVE  Aged(lease) \in Lease /\ Aged(lease).id = lease.id
BY LeaseTimesAssumption DEF Aged, Lease

\* Nothing ages into something.
LEMMA AgedNone == Aged(NoOp) = NoOp /\ Aged(NoLease) = NoLease
BY DEF Aged, NoOp, NoLease

\* Tick keeps the invariant: what is recorded of a lease counts down like its
\* record in the journal.
LEMMA TickKeeps ==
  ASSUME LeaseInv, Tick
  PROVE  LeaseInv'
<1>0. /\ ServiceTyped /\ DiskTyped /\ MemoryTyped /\ LocalTyped
      /\ TTL \in Nat \ {0} /\ MaxKeys \in Nat
  BY Typed
<1> USE <1>0, Threads
<1>1. /\ left' = [l \in 1..MaxKeys |-> IF left[l] > 0 THEN left[l] - 1 ELSE 0]
      /\ known' = [l \in 1..MaxKeys |-> IF known[l] > 0 THEN known[l] - 1 ELSE 0]
      /\ journal' = Aged(journal) /\ active' = Aged(active) /\ op' = Aged(op)
      /\ prev' = [lease |-> Aged(prev.lease), op |-> Aged(prev.op)]
      /\ work' = Aged(work) /\ got' = Aged(got) /\ holdoff' = FALSE
      /\ UNCHANGED <<keyOf, issued, exits, pc, replaced, keys, contested, faults>>
  BY DEF Tick
<1>2. /\ \A l \in 1..MaxKeys : /\ left[l] \in 0..TTL /\ known[l] \in 0..TTL
                               /\ left'[l] = IF left[l] > 0 THEN left[l] - 1 ELSE 0
                               /\ known'[l] = IF known[l] > 0 THEN known[l] - 1 ELSE 0
      /\ left' \in [1..MaxKeys -> 0..TTL] /\ known' \in [1..MaxKeys -> 0..TTL]
  BY <1>1 DEF ServiceTyped
<1>3. Live' \subseteq Live /\ Live \subseteq 1..MaxKeys
  BY <1>2 DEF Live
<1>4. Calm
  <2>1. \A l \in Live' : known'[l] <= known[l]
    BY <1>2, <1>3
  <2> QED
    BY <1>1, <1>2, <1>3, <2>1 DEF Calm, ServiceTyped, KeyId
<1>5. /\ ServiceTyped' /\ Given' /\ Kept' \subseteq Kept
      /\ \A k, i \in Nat : Known(k, i) => KnownNext(k, i)
      /\ \A k \in Nat : Void(k) => k \in contested' \/ \A l \in Live' : keyOf'[l] # k
  BY <1>4, CalmKeeps
<1>6. /\ journal' \in Op /\ journal'.key = journal.key /\ journal'.id = journal.id
      /\ journal'.pending = journal.pending
      /\ journal'.left = IF journal.left > 0 THEN journal.left - 1 ELSE 0
  BY <1>1, AgedOp DEF DiskTyped
<1>7. /\ op' \in Op /\ op'.key = op.key /\ op'.id = op.id /\ op'.pending = op.pending
      /\ active' \in Lease /\ active'.id = active.id
  BY <1>1, AgedOp, AgedLease DEF MemoryTyped
<1>8. /\ prev'.op \in Op /\ prev'.op.key = prev.op.key /\ prev'.op.id = prev.op.id
      /\ prev'.op.pending = prev.op.pending
      /\ prev'.lease \in Lease /\ prev'.lease.id = prev.lease.id
      /\ prev' \in [lease : Lease, op : Op]
  BY <1>1, AgedOp, AgedLease DEF MemoryTyped
<1>9. /\ work' \in Op /\ work'.key = work.key /\ work'.id = work.id
      /\ got' \in Lease /\ got'.id = got.id
  BY <1>1, AgedOp, AgedLease DEF LocalTyped
<1>10. ASSUME NEW t \in Thread
       PROVE  /\ release'[t] \in OfRelease /\ release'[t].at = release[t].at
              /\ release'[t].op = Aged(release[t].op)
              /\ release'[t].lease = Aged(release[t].lease)
              /\ release'[t].op.key = release[t].op.key /\ release'[t].op.id = release[t].op.id
              /\ release'[t].lease.id = release[t].lease.id
              /\ release[t] = NoRelease => release'[t] = NoRelease
  <2>1. /\ release[t] \in OfRelease /\ release[t].at \in ReleaseAt
        /\ release[t].lease \in Lease /\ release[t].op \in Op
    BY ReleaseFields
  <2>2. release'[t] = [at |-> release[t].at, lease |-> Aged(release[t].lease),
                       op |-> Aged(release[t].op)]
    <3>1. release'[t] = [release[t] EXCEPT !.lease = Aged(@), !.op = Aged(@)]
      BY DEF Tick
    <3> QED
      BY <2>1, <3>1 DEF OfRelease
  <2>3. /\ release'[t].at = release[t].at /\ release'[t].op = Aged(release[t].op)
        /\ release'[t].lease = Aged(release[t].lease)
    BY <2>2
  <2>4. /\ Aged(release[t].op) \in Op /\ Aged(release[t].op).key = release[t].op.key
        /\ Aged(release[t].op).id = release[t].op.id
        /\ Aged(release[t].lease) \in Lease /\ Aged(release[t].lease).id = release[t].lease.id
    BY <2>1, AgedOp, AgedLease
  <2>5. release'[t] \in OfRelease
    BY <2>1, <2>2, <2>4 DEF OfRelease
  <2>6. release[t] = NoRelease => release'[t] = NoRelease
    BY <2>2, Values, AgedNone DEF NoRelease
  <2> QED
    BY <2>3, <2>4, <2>5, <2>6
<1>11. DiskTyped' /\ MemoryTyped' /\ LocalTyped'
  <2>1. release' \in [Thread -> OfRelease]
    BY <1>10 DEF Tick
  <2>2. DiskTyped' /\ MemoryTyped'
    BY <1>6, <1>7, <1>8, <2>1 DEF DiskTyped, MemoryTyped
  <2> QED
    BY <1>1, <1>9, <2>2 DEF LocalTyped
<1>12. Memory'
  <2>1. /\ op.key \in Nat /\ op.id \in Nat /\ prev.op.key \in Nat /\ prev.op.id \in Nat
    BY DEF MemoryTyped, Op, KeyId, LeaseId
  <2>2. KnownNext(op.key, op.id) /\ KnownNext(prev.op.key, prev.op.id)
    BY <1>5, <2>1 DEF LeaseInv, Memory, Held
  <2>3. Held(active, op)' /\ Held(prev.lease, prev.op)'
    BY <1>7, <1>8, <2>2 DEF LeaseInv, Memory, Held, Known, KnownNext
  <2>4. ASSUME NEW t \in Thread
        PROVE  /\ Known(release[t].op.key, release[t].op.id)'
               /\ release'[t].op.key # 0 => release'[t].op.id = release'[t].lease.id
    <3>1. release[t].op \in Op
      BY ReleaseFields
    <3>2. KnownNext(release[t].op.key, release[t].op.id)
      BY <1>5, <3>1 DEF LeaseInv, Memory, Op, KeyId, LeaseId
    <3> QED
      BY <1>10, <3>2 DEF LeaseInv, Memory, Known, KnownNext
  <2> QED
    BY <2>3, <2>4 DEF Memory
<1>13. Recorded'
  <2>1. ASSUME NEW l \in Kept'
        PROVE  /\ journal'.key = keyOf'[l] /\ (journal'.pending => journal'.id = l)
               /\ journal'.id = 0 \/ known'[l] <= journal'.left
    <3>1. l \in Kept /\ l \in 1..MaxKeys
      BY <1>3, <1>5 DEF Kept
    <3>2. journal.left \in Nat
      BY DEF DiskTyped, Op
    <3>3. /\ journal.key = keyOf[l] /\ (journal.pending => journal.id = l)
          /\ journal.id = 0 \/ known[l] <= journal.left
      BY <3>1 DEF LeaseInv, Recorded
    <3>4. known[l] <= journal.left => known'[l] <= journal'.left
      BY <1>2, <1>6, <3>1, <3>2
    <3> QED
      BY <1>1, <1>6, <3>3, <3>4
  <2> QED
    BY <2>1 DEF Recorded
<1>14. ReleaseOfStep'
  <2>1. ASSUME NEW t \in Thread
        PROVE  /\ release'[t].at = "off" => release'[t] = NoRelease
               /\ release'[t].at = "mark" => /\ release'[t].op.key # 0
                                             /\ \A l \in Kept' : keyOf'[l] = release'[t].op.key
               /\ release'[t].at = "clear" => /\ release'[t].op.key # 0
                                              /\ release'[t].lease.id \notin Live'
    BY <1>1, <1>3, <1>5, <1>10 DEF LeaseInv, ReleaseOfStep
  <2>2. pc' = "reported" => release'["worker"].lease.id \notin Live'
    BY <1>1, <1>3, <1>10 DEF LeaseInv, ReleaseOfStep
  <2>3. release'["worker"].at = "mark" /\ journal'.key # release'["worker"].op.key
          => Void(release["worker"].op.key)'
    <3>1. release["worker"].op \in Op
      BY ReleaseFields
    <3> QED
      BY <1>5, <1>6, <1>10, <3>1 DEF LeaseInv, ReleaseOfStep, Void, Op, KeyId
  <2> QED
    BY <2>1, <2>2, <2>3 DEF ReleaseOfStep
<1>15. WorkOfStep'
  <2>1. pc' \in Acquiring /\ journal'.key # work'.key => Void(work.key)'
    BY <1>1, <1>5, <1>6, <1>9 DEF LeaseInv, WorkOfStep, Void, Op, KeyId
  <2> QED
    BY <1>1, <1>3, <1>5, <1>6, <1>7, <1>9, <2>1 DEF LeaseInv, WorkOfStep
<1>16. ExitOfStep'
  <2>1. CASE release["exit"].at = "mark"
    <3>1. /\ journal.key # release["exit"].op.key => Void(journal.key)
          /\ pc \in Acquiring /\ work.key # release["exit"].op.key => Void(work.key)
          /\ journal.key \in Nat /\ work.key \in Nat
      BY <2>1 DEF LeaseInv, ExitOfStep, DiskTyped, LocalTyped, Op, KeyId
    <3>2. journal'.key # release'["exit"].op.key => Void(journal.key)'
      BY <1>5, <1>6, <1>10, <3>1 DEF Void
    <3>3. pc' \in Acquiring /\ work'.key # release'["exit"].op.key => Void(work.key)'
      BY <1>1, <1>5, <1>9, <1>10, <3>1 DEF Void
    <3> QED
      BY <3>2, <3>3 DEF ExitOfStep
  <2> QED
    BY <1>10, <2>1 DEF ExitOfStep
<1>17. LoginOfStep'
  <2>1. pc' \in Informing => op' = prev'.op \/ op' = NoOp
    BY <1>1, <1>8, AgedNone DEF LeaseInv, LoginOfStep
  <2> QED
    BY <1>1, <1>10, <2>1 DEF LeaseInv, LoginOfStep
<1> QED
  BY <1>5, <1>11, <1>12, <1>13, <1>14, <1>15, <1>16, <1>17, InvNext

\* Every step, a stutter included, preserves the invariant.
LEMMA StepKeeps ==
  ASSUME LeaseInv, [Next]_vars
  PROVE  LeaseInv'
<1>1. CASE UNCHANGED vars
  <2>1. UNCHANGED <<service, journal, active, op, holdoff, exits, release, prev, replaced,
                    work, got, pc, keys, known, contested, faults>>
    BY <1>1 DEF vars, memory, local, history
  <2>2. Calm /\ Live' = Live /\ Kept' = Kept
    BY <2>1, ServiceStays
  <2>3. MemoryTyped' /\ LocalTyped'
    BY <2>1, Typed DEF MemoryTyped, LocalTyped
  <2>4. OwnNext /\ PrevNext /\ \A t \in Thread : ReleaseNext(t)
    BY <2>1 DEF OwnNext, PrevNext, ReleaseNext
  <2>5. ReleaseOfStep' /\ WorkOfStep' /\ ExitOfStep' /\ LoginOfStep'
    BY <2>1, <2>2 DEF LeaseInv, ReleaseOfStep, WorkOfStep, ExitOfStep, LoginOfStep, Void,
                      service
  <2> QED
    BY <2>1, <2>2, <2>3, <2>4, <2>5, CalmStep
<1>2. CASE Account
  BY <1>2, GetAccountInfoKeeps, RenewKeeps, RenewInvalidKeeps, MarkRenewedKeeps,
     LoadOrCreateKeeps, FlushReleaseKeeps, FlushClearKeeps, LoadOrCreateAgainKeeps,
     AcquireKeeps, MarkAcquiredKeeps
     DEF Account
<1>3. CASE Outcome
  BY <1>3, LoginSucceedsKeeps, LoginFailsKeeps, ReportInvalidKeeps, ReportedKeeps,
     LoginFailedKeeps, LoginOverKeeps
     DEF Outcome
<1>4. CASE \E t \in Thread : Release(t)
  BY <1>4, ReleaseLoadKeeps, ReleaseMarkKeeps, ReleaseDeleteKeeps, ReleaseClearKeeps
     DEF Release
<1>5. CASE Faults
  BY <1>5, RenewFailsKeeps, InfoFailsKeeps, ReportFailsKeeps, ReportedNotClearedKeeps,
     ReleaseFailsKeeps, ExitKeepsAll
     DEF Faults
<1>6. CASE Shutdown \/ Exit \/ Tick
  BY <1>6, ShutdownKeeps, ExitKeepsAll, TickKeeps
<1> QED
  BY <1>1, <1>2, <1>3, <1>4, <1>5, <1>6, BeginLoginKeeps DEF Next

\* Nothing is held or recorded at first.
LEMMA InitInv ==
  ASSUME Init
  PROVE  LeaseInv
<1>0. /\ TTL \in Nat \ {0} /\ MaxKeys \in Nat /\ MaxFaults \in Nat /\ ExitCalls \in Nat
  BY LeaseTimesAssumption, LeaseBoundsAssumption
<1> USE <1>0, Threads, Values
<1>1. Live = {} /\ Kept = {}
  BY DEF Init, Live, Kept
<1>2. ServiceTyped
  BY DEF Init, ServiceTyped, LeaseId, KeyId
<1>3. DiskTyped /\ MemoryTyped
  BY DEF Init, DiskTyped, MemoryTyped
<1>4. LocalTyped
  <2>1. exits \in 0..ExitCalls /\ faults \in 0..MaxFaults
    BY DEF Init
  <2>2. holdoff \in BOOLEAN /\ replaced \in BOOLEAN
    BY Zenon DEF Init
  <2>3. work \in Op /\ got \in Lease /\ pc \in Step
    BY DEF Init, Step
  <2> QED
    BY <2>1, <2>2, <2>3 DEF LocalTyped
<1>5. \A t \in Thread : release[t] = NoRelease
  BY DEF Init
<1>6. Memory
  BY <1>1, <1>5 DEF Init, Memory, Held, Known
<1>7. Given /\ Recorded
  BY <1>1 DEF Given, Recorded
<1>8. ReleaseOfStep /\ ExitOfStep
  BY <1>5 DEF Init, ReleaseOfStep, ExitOfStep
<1>9. WorkOfStep
  BY DEF Init, WorkOfStep, Acquiring
<1>10. LoginOfStep
  BY <1>5 DEF Init, LoginOfStep, Informing, LockHeld
<1> QED
  BY <1>2, <1>3, <1>4, <1>6, <1>7, <1>8, <1>9, <1>10, TypedParts DEF LeaseInv

\* The inductive invariant holds in every behaviour, whatever the lifetime of a
\* lease, the margin of renewal, the region, the number of faults and the number of
\* times the hooks at the end of a process release the active lease.
THEOREM LeaseInvariance == Spec => []LeaseInv
<1>1. Init => LeaseInv
  BY InitInv
<1>2. LeaseInv /\ [Next]_vars => LeaseInv'
  BY StepKeeps
<1> QED
  BY <1>1, <1>2, PTL DEF Spec

\* Every variable has its type, and the journal never owes a release without
\* the lease it owes it for, which LeaseJournal._load would refuse to read.
THEOREM LeaseTypeCorrect == Spec => []LeaseTypeOK
<1>1. LeaseInv => LeaseTypeOK
  BY DEF LeaseInv
<1> QED
  BY <1>1, LeaseInvariance, PTL

\* Whatever crashes, failed requests, failed writes and shutdowns come between, the
\* journal of get_account_info and _release_account_lease covers each lease the
\* service still counts as held, until the last expiry recorded for it; all but
\* those given under a key that is contested.
THEOREM NoLeaseOrphaned == Spec => []NoOrphanLease
<1>1. LeaseInv => NoOrphanLease
  <2>1. ASSUME LeaseInv, NEW l \in Live, known[l] > 0, keyOf[l] \notin contested
        PROVE  Recoverable(l)
    <3>1. l \in Kept
      BY <2>1 DEF Kept
    <3> QED
      BY <2>1, <3>1 DEF LeaseInv, Recorded, Recoverable
  <2> QED
    BY <2>1 DEF NoOrphanLease
<1> QED
  BY <1>1, LeaseInvariance, PTL

=============================================================================
