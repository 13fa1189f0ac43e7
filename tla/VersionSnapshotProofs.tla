------------------------ MODULE VersionSnapshotProofs ------------------------
(***************************************************************************)
(* Theorems about VersionSnapshot, for any versions of the game, whichever *)
(* of them /system announces in full, for any number of splits and any     *)
(* number of faults: the files beside versions.json are of the version it  *)
(* names, and no cycle goes back to an earlier one.                        *)
(***************************************************************************)
EXTENDS VersionSnapshot, SequenceTheorems, TLAPS

-----------------------------------------------------------------------------
(***************************************************************************)
(* The inductive invariant.                                                *)
(***************************************************************************)

\* The requests on the way of a recovery or a login.
Way == {"recheck", "login", "suite", "home"}

\* Who waits for the job, and where a recovery goes back to.
CallOfJob ==
  /\ job.of = "cycle" => pc # "idle"
  /\ job.at \in Way => back # "none" \/ job.do = "login"

\* The splits a client knows are of a version the game has run, no earlier than
\* the snapshot of the cycle; without /system nothing else changes the version
\* document.
ContextKnown(c) ==
  /\ c.context.data \in 1..game /\ c.context = Version(c.context.data)
  /\ snapshot.candidate.data <= c.context.data
  /\ region = "nuverse" => c.info = c.context

\* The headers are those of the context, or /system has announced their data
\* version, in the version document as well.
HeadersKnown(c) ==
  c.headers.data # c.context.data =>
    c.headers.data <= system /\ c.headers.data <= c.info.data

\* Between these requests the headers are those of the feed.
OnTheWay == job.at \in {"recheck", "login", "refresh"}

Clients ==
  /\ ContextKnown(client) /\ ContextKnown(saved) /\ ContextKnown(restore)
  /\ HeadersKnown(saved) /\ HeadersKnown(restore)
  /\ ~OnTheWay => HeadersKnown(client)

\* The snapshot is of the context its digest names, with headers that are not
\* ahead of it, and no earlier than what is published.
SnapshotKnown ==
  /\ snapshot.candidate = snapshot.digest[1]
  /\ snapshot.candidate.data \in Versions
  /\ snapshot.candidate = Version(snapshot.candidate.data)
  /\ snapshot.digest[2].data <= snapshot.candidate.data
  /\ published.candidate.data <= snapshot.candidate.data

\* The splits fetched so far are of the snapshot.
PartsOfSnapshot == \A i \in DOMAIN parts : parts[i] = snapshot.candidate.data

SnapshotInv ==
  /\ SnapshotTypeOK /\ CallOfJob /\ Clients /\ SnapshotKnown /\ PartsOfSnapshot
  /\ PublishedTogether

-----------------------------------------------------------------------------
(***************************************************************************)
(* The versions a client may name.                                         *)
(***************************************************************************)

\* A client that a job may end with, or go back to.
Sound(c) == c \in Client /\ ContextKnown(c) /\ HeadersKnown(c)

LEMMA VersionFacts ==
  ASSUME NEW n \in Versions
  PROVE  /\ Version(n) \in Named /\ Version(n).data = n /\ Version(n).build = Builds[n]
         /\ n \in Nat
BY SnapshotAssumption DEF Version, Named, Versions

\* The first version exists.
LEMMA FirstVersion == 1 \in Versions /\ Len(Builds) \in Nat
BY SnapshotAssumption, EmptySeq DEF Versions

LEMMA NamedFacts ==
  ASSUME NEW v \in Named
  PROVE  v.data \in Nat
BY VersionFacts DEF Named, Unknown

LEMMA EntryFacts ==
  ASSUME system \in Versions
  PROVE  /\ Entry \in Named /\ Entry.build = Builds[system]
         /\ Entry.data \in {system, Unknown}
BY DEF Entry, Named

\* What the feed says changes the headers alone.
LEMMA FeedFacts ==
  ASSUME feed \in Versions, NEW c \in Client
  PROVE  /\ FromFeed(c) \in Client /\ FromFeed(c).context = c.context
         /\ FromFeed(c).info = c.info
<1>1. CASE region = "suite"
  BY <1>1, VersionFacts DEF FromFeed, Client
<1>2. CASE region # "suite"
  <2>1. FromFeed(c) = [c EXCEPT !.headers = [c.headers EXCEPT !.build = Builds[feed]]]
    BY <1>2 DEF FromFeed
  <2>2. [c.headers EXCEPT !.build = Builds[feed]] \in Named
    BY DEF Client, Named
  <2> DEFINE h == [c.headers EXCEPT !.build = Builds[feed]]
  <2> HIDE DEF h
  <2>3. FromFeed(c) = [c EXCEPT !.headers = h] /\ h \in Named
    BY <2>1, <2>2 DEF h
  <2> QED
    BY <2>3 DEF Client
<1> QED
  BY <1>1, <1>2

\* Everything an authentication says is of the version the game runs.
LEMMA AuthenticatedFacts ==
  ASSUME game \in Versions, snapshot.candidate.data <= game, NEW b \in BOOLEAN
  PROVE  Sound(AuthenticatedAs(b)) /\ AuthenticatedAs(b).context = Version(game)
<1>1. AuthenticatedAs(b) \in Client
  BY VersionFacts DEF AuthenticatedAs, Client
<1> QED
  BY <1>1, VersionFacts DEF AuthenticatedAs, Sound, ContextKnown, HeadersKnown, Versions

LEMMA OverFacts ==
  ASSUME system \in Versions, NEW v \in Named
  PROVE  Over(v) \in Named /\ Over(v).data = IF Entry.data = Unknown THEN v.data ELSE system
BY EntryFacts DEF Over, Named, Unknown

LEMMA CompletedFacts ==
  ASSUME NEW a \in Named, NEW v \in Named
  PROVE  Completed(a, v) \in Named
<1>1. v.data \in Versions \cup {Unknown}
  BY DEF Named
<1> HIDE DEF Unknown
<1>2. [a EXCEPT !.data = v.data] \in Named
  BY <1>1 DEF Named
<1> QED
  BY <1>2 DEF Completed

\* check_versions keeps what it leaves out, and follows /system with the version
\* document whenever it does with the headers.
LEMMA CheckedFacts ==
  ASSUME SnapshotTypeOK, ContextKnown(client), NEW down
  PROVE  /\ Checked(down) \in Client /\ ContextKnown(Checked(down))
         /\ HeadersKnown(client) => HeadersKnown(Checked(down))
<1>1. /\ client \in Client /\ client.headers \in Named /\ client.info \in Named
      /\ system \in Versions /\ system \in Nat /\ client.context.data \in Nat
      /\ client.headers.data \in Nat /\ client.info.data \in Nat
  <2>1. /\ client \in Client /\ client.headers \in Named /\ client.info \in Named
        /\ client.context \in Named /\ system \in Versions
    BY DEF SnapshotTypeOK, Client
  <2> QED
    BY <2>1, NamedFacts, VersionFacts
<1>2. CASE region # "suite"
  BY <1>1, <1>2 DEF Checked
<1>3. CASE region = "suite"
  <2> DEFINE h == IF IsNew(down) THEN Over(client.headers) ELSE client.headers
             i == Over(client.info)
  <2>1. h \in Named /\ i \in Named
    BY <1>1, OverFacts
  <2>2. Checked(down) = [client EXCEPT !.headers = h, !.info = i]
    BY <1>3 DEF Checked
  <2>3. HeadersKnown(client) =>
          (h.data # client.context.data => h.data <= system /\ h.data <= i.data)
    BY <1>1, OverFacts, EntryFacts DEF HeadersKnown, IsNew, Unknown
  <2> HIDE DEF h, i
  <2>4. /\ Checked(down) \in Client /\ Checked(down).context = client.context
        /\ Checked(down).headers = h /\ Checked(down).info = i
    BY <1>1, <2>1, <2>2 DEF Client
  <2> QED
    BY <1>3, <2>3, <2>4 DEF ContextKnown, HeadersKnown
<1> QED
  BY <1>2, <1>3

-----------------------------------------------------------------------------
(***************************************************************************)
(* Every step keeps the invariant: how a job begins, goes on and ends.     *)
(***************************************************************************)

\* The clients of a job that is over are one.
LEMMA ForgetFacts ==
  ASSUME ForgetJob
  PROVE  /\ job' = NoJob /\ back' = "none" /\ committed' = FALSE
         /\ saved' = client' /\ restore' = client'
         /\ found' \in Named
BY FirstVersion DEF ForgetJob, JobOver, NoCandidate, NothingSaved, Named, Unknown

\* A job ends with a sound client, and the cycle where it was or with its files.
LEMMA JobEnds ==
  ASSUME SnapshotInv, ForgetJob, Sound(client)', UNCHANGED world,
         faults' \in 0..MaxFaults, UNCHANGED snapshot,
         pc' \in {"idle", "snapshot", "fetch"}, call' \in {"first", "ready", "second"},
         pc' = "idle" => call' = "first",
         \/ UNCHANGED published
         \/ /\ published'.candidate = snapshot.candidate
            /\ published'.files \in Seq(Versions)
            /\ \A i \in DOMAIN published'.files :
                 published'.files[i] = snapshot.candidate.data,
         parts' \in Seq(Versions), Len(parts') < Splits,
         \A i \in DOMAIN parts' : parts'[i] = snapshot.candidate.data
  PROVE  SnapshotInv'
<1> USE DEF SnapshotInv, NoJob
<1>1. SnapshotTypeOK'
  BY ForgetFacts DEF SnapshotTypeOK, SnapshotKnown, Sound, world
<1>2. CallOfJob' /\ Clients'
  BY ForgetFacts DEF CallOfJob, Clients, Sound, ContextKnown, HeadersKnown, Way
<1>3. SnapshotKnown'
  <2>1. snapshot.candidate.data \in Nat
    BY VersionFacts DEF SnapshotKnown
  <2> QED
    BY <2>1 DEF SnapshotKnown
<1>4. PartsOfSnapshot'
  BY DEF PartsOfSnapshot
<1>5. PublishedTogether'
  BY DEF PublishedTogether, SnapshotKnown
<1> QED
  BY <1>1, <1>2, <1>3, <1>4, <1>5

\* A job that fails: the cycle calls again or gives up.
LEMMA FailsStep ==
  ASSUME SnapshotInv, ForgetJob, CallFails, Sound(client)', UNCHANGED world,
         faults' \in 0..MaxFaults
  PROVE  SnapshotInv'
<1>1. /\ snapshot' = snapshot /\ published' = published
      /\ pc' \in {"idle", "snapshot", "fetch"} /\ call' \in {"first", "ready", "second"}
      /\ pc' = "idle" => call' = "first"
      /\ parts' = parts \/ parts' = << >>
  BY DEF CallFails, SnapshotInv, SnapshotTypeOK, CallOfJob
<1>2. /\ parts' \in Seq(Versions) /\ Len(parts') < Splits
      /\ \A i \in DOMAIN parts' : parts'[i] = snapshot.candidate.data
  <2>1. CASE parts' = parts
    BY <2>1 DEF SnapshotInv, SnapshotTypeOK, PartsOfSnapshot
  <2>2. CASE parts' = << >>
    BY <2>2, SnapshotAssumption
  <2> QED
    BY <1>1, <2>1, <2>2
<1> QED
  BY <1>1, <1>2, JobEnds

\* What a failure and a deadline go back to is sound.
LEMMA BackIsSound ==
  ASSUME SnapshotInv
  PROVE  /\ Sound(saved) /\ Sound(restore)
         /\ ~OnTheWay => Sound(client)
BY DEF SnapshotInv, SnapshotTypeOK, Clients, Sound

LEMMA RollBackStep ==
  ASSUME SnapshotInv, JobFails, UNCHANGED world, faults' \in 0..MaxFaults
  PROVE  SnapshotInv'
<1>1. client' = restore /\ ForgetJob /\ CallFails
  BY DEF JobFails, RolledBack
<1>2. Sound(client)'
  BY <1>1, BackIsSound
  DEF Sound, ContextKnown, HeadersKnown, world, CallFails
<1> QED
  BY <1>1, <1>2, FailsStep

\* A step within a job.
LEMMA WorkStep ==
  ASSUME SnapshotInv, job # NoJob, UNCHANGED <<world, cycle, saved>>,
         faults' \in 0..MaxFaults,
         NEW at \in Request, Goto(at),
         back' \in {"none", "discover", "split", "get"},
         back' # "none" => at \in Way,
         at \in Way => back' # "none" \/ job.do = "login",
         found' \in Named, committed' \in BOOLEAN,
         client' \in Client, ContextKnown(client)',
         at \in {"recheck", "login", "refresh"} \/ HeadersKnown(client)',
         UNCHANGED restore \/ (restore' = client' /\ HeadersKnown(client)')
  PROVE  SnapshotInv'
<1> USE DEF SnapshotInv
<1>1. job \in Job /\ job' \in Job /\ job'.at = at /\ job'.of = job.of /\ job'.do = job.do
  BY DEF SnapshotTypeOK, Goto, Job
<1>2. SnapshotTypeOK'
  BY <1>1 DEF SnapshotTypeOK, Way, world, cycle
<1>3. CallOfJob'
  BY <1>1 DEF CallOfJob, cycle
<1>4. Clients'
  BY <1>1 DEF Clients, ContextKnown, HeadersKnown, OnTheWay, world, cycle
<1>5. (SnapshotKnown /\ PartsOfSnapshot /\ PublishedTogether)'
  BY DEF SnapshotKnown, PartsOfSnapshot, PublishedTogether, cycle
<1> QED
  BY <1>2, <1>3, <1>4, <1>5

\* A job begins.
LEMMA BeginStep ==
  ASSUME SnapshotInv, UNCHANGED <<world, cycle, faults>>,
         NEW of \in {"cycle", "other"}, of = "cycle" => pc # "idle",
         NEW do \in {"snapshot", "split", "check", "login", "get"},
         NEW at \in Request, at \in Way => do = "login",
         NEW c \in Client, ContextKnown(c),
         at \in {"recheck", "login", "refresh"} \/ HeadersKnown(c),
         Begins(of, do, at, c)
  PROVE  SnapshotInv'
<1> USE DEF SnapshotInv
<1>1. /\ job = NoJob /\ client' = c /\ saved' = client /\ restore' = client
      /\ job' = [of |-> of, do |-> do, at |-> at] /\ committed' = FALSE
      /\ UNCHANGED <<back, found>>
  BY DEF Begins
<1>2. ~OnTheWay /\ back = "none"
  BY <1>1 DEF OnTheWay, NoJob, SnapshotTypeOK
<1>3. job' \in Job /\ job'.of = of /\ job'.do = do /\ job'.at = at
  BY <1>1 DEF Job
<1>4. SnapshotTypeOK'
  BY <1>1, <1>2, <1>3 DEF SnapshotTypeOK, world, cycle
<1>5. CallOfJob'
  BY <1>1, <1>3 DEF CallOfJob, cycle
<1>6. Clients'
  BY <1>1, <1>2, <1>3 DEF Clients, ContextKnown, HeadersKnown, OnTheWay, world, cycle
<1>7. (SnapshotKnown /\ PartsOfSnapshot /\ PublishedTogether)'
  BY DEF SnapshotKnown, PartsOfSnapshot, PublishedTogether, cycle
<1> QED
  BY <1>4, <1>5, <1>6, <1>7

\* What the invariant says of the world and of the clients.
LEMMA InvFacts ==
  ASSUME SnapshotInv
  PROVE  /\ game \in Versions /\ system \in Versions /\ feed \in Versions
         /\ client \in Client /\ ContextKnown(client)
         /\ snapshot.candidate.data <= game /\ snapshot.candidate.data \in Nat
         /\ job = NoJob \/ job \in Job
         /\ faults \in 0..MaxFaults
<1>1. /\ game \in Versions /\ system \in Versions /\ feed \in Versions
      /\ client \in Client /\ ContextKnown(client)
      /\ job = NoJob \/ job \in Job
      /\ faults \in 0..MaxFaults
  BY DEF SnapshotInv, SnapshotTypeOK, Clients
<1>2. snapshot.candidate.data \in Nat
  BY VersionFacts DEF SnapshotInv, SnapshotKnown
<1> QED
  BY <1>1, <1>2, VersionFacts DEF ContextKnown

\* What is published is no later than the snapshot.
LEMMA PublishedFacts ==
  ASSUME SnapshotInv
  PROVE  /\ published.candidate.data \in Nat /\ snapshot.candidate.data \in Nat
         /\ published.candidate.data <= snapshot.candidate.data
<1>1. published.candidate \in Named
  BY DEF SnapshotInv, SnapshotTypeOK
<1> QED
  BY <1>1, InvFacts, NamedFacts DEF SnapshotInv, SnapshotKnown

\* A fault is one more of the bounded number.
LEMMA FaultFacts ==
  ASSUME SnapshotInv, Fault
  PROVE  faults' \in 0..MaxFaults
BY SnapshotAssumption DEF SnapshotInv, SnapshotTypeOK, Fault

\* A client stays sound while neither the game nor the cycle moves.
LEMMA StaysSound ==
  ASSUME NEW c, Sound(c), client' = c, UNCHANGED <<world, snapshot>>
  PROVE  Sound(client)' /\ ContextKnown(client)' /\ HeadersKnown(client)'
BY DEF Sound, ContextKnown, HeadersKnown, world

-----------------------------------------------------------------------------
(***************************************************************************)
(* The world and the callers.                                              *)
(***************************************************************************)

LEMMA WorldStep ==
  ASSUME SnapshotInv, GameMoves \/ SystemMoves \/ FeedMoves
  PROVE  SnapshotInv'
<1> USE DEF SnapshotInv
<1>1. /\ game \in Nat /\ system \in Nat /\ feed \in Nat
      /\ game' \in Nat /\ system' \in Nat /\ feed' \in Nat
      /\ game <= game' /\ system <= system'
      /\ game' \in Versions /\ system' \in Versions /\ feed' \in Versions
      /\ UNCHANGED <<region, client, jobs, cycle, faults>>
  <2>1. game \in Versions /\ system \in Versions /\ feed \in Versions
    BY DEF SnapshotTypeOK
  <2>2. Versions = {n \in Nat : 1 <= n /\ n <= Len(Builds)}
    BY FirstVersion DEF Versions
  <2>3. CASE GameMoves
    BY <2>1, <2>2, <2>3, FirstVersion DEF GameMoves
  <2>4. CASE SystemMoves
    BY <2>1, <2>2, <2>4, FirstVersion DEF SystemMoves
  <2>5. CASE FeedMoves
    BY <2>1, <2>2, <2>5, FirstVersion DEF FeedMoves
  <2> QED
    BY <2>3, <2>4, <2>5
<1>2. SnapshotTypeOK'
  BY <1>1 DEF SnapshotTypeOK, jobs, cycle
<1>3. CallOfJob' /\ SnapshotKnown' /\ PartsOfSnapshot' /\ PublishedTogether'
  BY <1>1 DEF CallOfJob, SnapshotKnown, PartsOfSnapshot, PublishedTogether, jobs, cycle
<1>4. ASSUME NEW c \in Client, ContextKnown(c) PROVE ContextKnown(c)'
  BY <1>1, <1>4 DEF ContextKnown, cycle
<1>5. ASSUME NEW c \in Client, HeadersKnown(c) PROVE HeadersKnown(c)'
  <2>1. c.headers.data \in Nat
    BY VersionFacts DEF Client, Named, Unknown
  <2> QED
    BY <1>1, <1>5, <2>1 DEF HeadersKnown
<1>6. client' = client /\ saved' = saved /\ restore' = restore /\ job' = job
  BY <1>1 DEF jobs
<1>7. client \in Client /\ saved \in Client /\ restore \in Client
  BY DEF SnapshotTypeOK
<1>8. Clients'
  BY <1>4, <1>5, <1>6, <1>7 DEF Clients, OnTheWay, ContextKnown, HeadersKnown
<1> QED
  BY <1>2, <1>3, <1>8

LEMMA CycleBeginsStep ==
  ASSUME SnapshotInv, CycleBegins
  PROVE  SnapshotInv'
<1> USE DEF SnapshotInv
<1>1. /\ pc' = "snapshot"
      /\ UNCHANGED <<world, client, jobs, call, snapshot, parts, published, faults>>
  BY DEF CycleBegins
<1>2. SnapshotTypeOK' /\ CallOfJob'
  BY <1>1 DEF SnapshotTypeOK, CallOfJob, world, jobs
<1>3. Clients'
  BY <1>1 DEF Clients, ContextKnown, HeadersKnown, OnTheWay, world, jobs
<1>4. (SnapshotKnown /\ PartsOfSnapshot /\ PublishedTogether)'
  BY <1>1 DEF SnapshotKnown, PartsOfSnapshot, PublishedTogether
<1> QED
  BY <1>2, <1>3, <1>4

\* A job that begins with the client as it is finds its headers known.
LEMMA BetweenJobs ==
  ASSUME SnapshotInv, job = NoJob
  PROVE  HeadersKnown(client)
BY BackIsSound DEF OnTheWay, NoJob, Sound

LEMMA CallsStep ==
  ASSUME SnapshotInv, CycleCalls
  PROVE  SnapshotInv'
<1>1. client \in Client /\ ContextKnown(client) /\ feed \in Versions
  BY InvFacts
<1>2. FromFeed(client) \in Client /\ ContextKnown(FromFeed(client))
  BY <1>1, FeedFacts DEF ContextKnown
<1>3. CASE CallSnapshot
  <2>1. job = NoJob /\ Begins("cycle", "snapshot", "discover", client)
    BY <1>3 DEF CallSnapshot, Begins
  <2> QED
    BY <1>1, <1>3, <2>1, BetweenJobs, BeginStep DEF CallSnapshot, Request, Way
<1>4. CASE CallSplit
  <2>1. CASE Begins("cycle", "split", "split", client)
    <3>1. job = NoJob
      BY <2>1 DEF Begins
    <3> QED
      BY <1>1, <1>4, <2>1, <3>1, BetweenJobs, BeginStep DEF CallSplit, Request, Way
  <2>2. CASE Begins("cycle", "split", "refresh", FromFeed(client))
    BY <1>2, <1>4, <2>2, BeginStep DEF CallSplit, Request, Way
  <2> QED
    BY <1>4, <2>1, <2>2 DEF CallSplit
<1>5. CASE CallDownload
  <2>1. job = NoJob /\ Begins("cycle", "split", "download", client)
    BY <1>5 DEF CallDownload, Begins
  <2> QED
    BY <1>1, <1>5, <2>1, BetweenJobs, BeginStep DEF CallDownload, Request, Way
<1>6. CASE EnsureReady
  <2>1. CASE call' = "second" /\ UNCHANGED <<client, jobs, pc, snapshot, parts, published>>
    <3> USE DEF SnapshotInv
    <3>1. pc # "idle" /\ UNCHANGED <<world, faults>>
      BY <1>6 DEF EnsureReady
    <3>2. SnapshotTypeOK' /\ CallOfJob'
      BY <2>1, <3>1 DEF SnapshotTypeOK, CallOfJob, world, jobs
    <3>3. Clients'
      BY <2>1, <3>1 DEF Clients, ContextKnown, HeadersKnown, OnTheWay, world, jobs
    <3>4. (SnapshotKnown /\ PartsOfSnapshot /\ PublishedTogether)'
      BY <2>1 DEF SnapshotKnown, PartsOfSnapshot, PublishedTogether
    <3> QED
      BY <3>2, <3>3, <3>4
  <2>2. CASE Begins("cycle", "login", "login", FromFeed(client)) /\ UNCHANGED cycle
    BY <1>2, <1>6, <2>2, BeginStep DEF EnsureReady, Request, Way
  <2> QED
    BY <1>6, <2>1, <2>2 DEF EnsureReady
<1> QED
  BY <1>3, <1>4, <1>5, <1>6 DEF CycleCalls

LEMMA OtherCallsStep ==
  ASSUME SnapshotInv, TrackerChecks \/ ReadsGame \/ DailyLogin
  PROVE  SnapshotInv'
<1>1. client \in Client /\ ContextKnown(client) /\ feed \in Versions
  BY InvFacts
<1>2. FromFeed(client) \in Client /\ ContextKnown(FromFeed(client))
  BY <1>1, FeedFacts DEF ContextKnown
<1>3. job = NoJob
  BY DEF TrackerChecks, ReadsGame, DailyLogin, Begins
<1>4. CASE TrackerChecks
  BY <1>1, <1>3, <1>4, BetweenJobs, BeginStep DEF TrackerChecks, Request, Way
<1>5. CASE ReadsGame
  BY <1>1, <1>3, <1>5, BetweenJobs, BeginStep DEF ReadsGame, Request, Way
<1>6. CASE DailyLogin
  BY <1>2, <1>6, BeginStep DEF DailyLogin, Request, Way
<1> QED
  BY <1>4, <1>5, <1>6

-----------------------------------------------------------------------------
(***************************************************************************)
(* The requests of a job.                                                  *)
(***************************************************************************)

LEMMA RefusedStep ==
  ASSUME SnapshotInv, Refused
  PROVE  SnapshotInv'
<1>1. job # NoJob /\ UNCHANGED <<world, faults>> /\ faults' \in 0..MaxFaults
  BY InvFacts DEF Refused
<1>2. CASE JobFails
  BY <1>1, <1>2, RollBackStep
<1>3. CASE /\ job.at \in {"discover", "split", "get"}
           /\ back' = job.at /\ client' = FromFeed(client) /\ Goto("recheck")
           /\ UNCHANGED <<found, saved, restore, committed, cycle>>
  <2>1. client' \in Client /\ client'.context = client.context /\ client'.info = client.info
    BY <1>3, InvFacts, FeedFacts
  <2>2. ContextKnown(client)'
    BY <1>1, <1>3, <2>1, InvFacts DEF ContextKnown, world, cycle
  <2>3. found \in Named /\ committed \in BOOLEAN
    BY DEF SnapshotInv, SnapshotTypeOK
  <2> QED
    BY <1>1, <1>3, <2>1, <2>2, <2>3, WorkStep DEF Request, Way
<1> QED
  BY <1>2, <1>3 DEF Refused

LEMMA SessionRefusedStep ==
  ASSUME SnapshotInv, SessionRefused
  PROVE  SnapshotInv'
<1>1. /\ job # NoJob /\ UNCHANGED world /\ faults' \in 0..MaxFaults
      /\ back' = job.at /\ client' = FromFeed(client) /\ Goto("login")
      /\ job.at \in {"split", "get"}
      /\ UNCHANGED <<found, saved, restore, committed, cycle>>
  BY FaultFacts DEF SessionRefused, NoJob
<1>2. client' \in Client /\ client'.context = client.context /\ client'.info = client.info
  BY <1>1, InvFacts, FeedFacts
<1>3. ContextKnown(client)'
  BY <1>1, <1>2, InvFacts DEF ContextKnown, world, cycle
<1>4. found \in Named /\ committed \in BOOLEAN
  BY DEF SnapshotInv, SnapshotTypeOK
<1> QED
  BY <1>1, <1>2, <1>3, <1>4, WorkStep DEF Request, Way

LEMMA RecheckStep ==
  ASSUME SnapshotInv, Recheck
  PROVE  SnapshotInv'
<1>1. /\ job # NoJob /\ job \in Job /\ job.at = "recheck" /\ Goto("login")
      /\ UNCHANGED <<world, back, found, saved, restore, committed, cycle, faults>>
  BY InvFacts DEF Recheck, Running, NoJob
<1>2. /\ found \in Named /\ committed \in BOOLEAN /\ faults \in 0..MaxFaults
      /\ back \in {"none", "discover", "split", "get"}
      /\ back # "none" \/ job.do = "login"
  BY <1>1 DEF SnapshotInv, SnapshotTypeOK, CallOfJob, Way
<1>3. client' \in Client /\ ContextKnown(client')
  <2>1. CASE region = "suite" /\ \E down \in Outage : client' = FromFeed(Checked(down))
    <3>1. PICK down \in Outage : client' = FromFeed(Checked(down))
      BY <2>1
    <3>2. Checked(down) \in Client /\ ContextKnown(Checked(down))
      BY CheckedFacts, InvFacts DEF SnapshotInv
    <3> QED
      BY <3>1, <3>2, InvFacts, FeedFacts DEF ContextKnown
  <2>2. CASE region = "nuverse" /\ \E c \in Probed : client' = FromFeed(c)
    <3>1. PICK c \in Probed : client' = FromFeed(c)
      BY <2>2
    <3>2. client \in Client /\ client.headers \in Named /\ system \in Versions
      BY InvFacts DEF Client
    <3>3. Over(client.headers) \in Named
      BY <3>2, OverFacts
    <3>4. c \in Client /\ c.context = client.context /\ c.info = client.info
      BY <3>1, <3>2, <3>3 DEF Probed, Client
    <3> QED
      BY <3>1, <3>4, InvFacts, FeedFacts DEF ContextKnown
  <2> QED
    BY <2>1, <2>2 DEF Recheck
<1>4. ContextKnown(client)'
  BY <1>1, <1>3 DEF ContextKnown, world, cycle
<1> QED
  BY <1>1, <1>2, <1>3, <1>4, WorkStep DEF Request, Way

LEMMA LoginStep ==
  ASSUME SnapshotInv, Login
  PROVE  SnapshotInv'
<1>1. /\ job # NoJob /\ job \in Job /\ job.at = "login" /\ Goto("suite")
      /\ UNCHANGED <<world, back, found, saved, restore, committed, cycle, faults>>
  BY InvFacts DEF Login, Running, NoJob
<1>2. /\ found \in Named /\ committed \in BOOLEAN /\ faults \in 0..MaxFaults
      /\ back \in {"none", "discover", "split", "get"}
      /\ back # "none" \/ job.do = "login"
  BY <1>1 DEF SnapshotInv, SnapshotTypeOK, CallOfJob, Way
<1>3. PICK down \in Outage : client' = AuthenticatedAs(region = "nuverse" /\ down = "entry")
  BY DEF Login
<1>4. (region = "nuverse" /\ down = "entry") \in BOOLEAN
  OBVIOUS
<1>5. Sound(client')
  BY <1>3, <1>4, AuthenticatedFacts, InvFacts
<1>6. client' \in Client /\ ContextKnown(client)' /\ HeadersKnown(client)'
  BY <1>1, <1>5 DEF Sound, ContextKnown, HeadersKnown, world, cycle
<1> QED
  BY <1>1, <1>2, <1>6, WorkStep DEF Request, Way

LEMMA SuiteStep ==
  ASSUME SnapshotInv, Suite
  PROVE  SnapshotInv'
<1>1. /\ job # NoJob /\ job \in Job /\ job.at = "suite" /\ Goto("home")
      /\ UNCHANGED <<world, client, back, found, saved, restore, committed, cycle, faults>>
  BY InvFacts DEF Suite, Running, NoJob
<1>2. /\ found \in Named /\ committed \in BOOLEAN /\ faults \in 0..MaxFaults
      /\ back \in {"none", "discover", "split", "get"}
      /\ back # "none" \/ job.do = "login"
  BY <1>1 DEF SnapshotInv, SnapshotTypeOK, CallOfJob, Way
<1>3. Sound(client) /\ snapshot' = snapshot
  BY <1>1, BackIsSound DEF OnTheWay, cycle
<1>4. client' \in Client /\ ContextKnown(client)' /\ HeadersKnown(client)'
  BY <1>1, <1>3, StaysSound DEF Sound
<1> QED
  BY <1>1, <1>2, <1>4, WorkStep DEF Request, Way

\* A job that ends well and leaves the cycle its files, snapshot and splits.
LEMMA EndsStep ==
  ASSUME SnapshotInv, ForgetJob, Sound(client)', UNCHANGED <<world, faults>>,
         UNCHANGED <<pc, snapshot, parts, published>>,
         call' \in {"first", "ready", "second"}, pc = "idle" => call' = "first"
  PROVE  SnapshotInv'
<1>1. /\ pc' \in {"idle", "snapshot", "fetch"} /\ parts' \in Seq(Versions)
      /\ Len(parts') < Splits /\ faults' \in 0..MaxFaults
      /\ \A i \in DOMAIN parts' : parts'[i] = snapshot.candidate.data
  BY DEF SnapshotInv, SnapshotTypeOK, PartsOfSnapshot
<1> QED
  BY <1>1, JobEnds

\* The tracker, the server or a login of its own leave the cycle as it was.
LEMMA QuietStep ==
  ASSUME SnapshotInv, ForgetJob, Sound(client)', UNCHANGED <<world, cycle, faults>>
  PROVE  SnapshotInv'
<1>1. /\ UNCHANGED <<pc, snapshot, parts, published>>
      /\ call' \in {"first", "ready", "second"} /\ (pc = "idle" => call' = "first")
  BY DEF SnapshotInv, SnapshotTypeOK, cycle
<1> QED
  BY <1>1, EndsStep

LEMMA HomeStep ==
  ASSUME SnapshotInv, Home
  PROVE  SnapshotInv'
<1>1. /\ job # NoJob /\ job \in Job /\ job.at = "home" /\ client' = client
      /\ UNCHANGED <<world, faults>> /\ faults' \in 0..MaxFaults
  BY InvFacts DEF Home, Running, NoJob
<1>2. Sound(client)
  BY <1>1, BackIsSound DEF OnTheWay
<1>3. CASE job.do = "login"
  <2>1. /\ ForgetJob /\ UNCHANGED <<pc, snapshot, parts, published>>
        /\ call' = IF job.of = "cycle" THEN "second" ELSE call
    BY <1>3 DEF Home, LoginDone
  <2>2. Sound(client)'
    BY <1>1, <1>2, <2>1, StaysSound
  <2>3. /\ call' \in {"first", "ready", "second"}
        /\ pc = "idle" => call' = "first"
    BY <2>1 DEF SnapshotInv, SnapshotTypeOK, CallOfJob
  <2> QED
    BY <1>1, <2>1, <2>2, <2>3, EndsStep
<1>4. CASE job.do # "login"
  <2>1. /\ Goto(back) /\ back' = "none" /\ restore' = client' /\ committed' = TRUE
        /\ UNCHANGED <<found, saved, cycle>>
    BY <1>1, <1>4 DEF Home
  <2>2. back \in {"discover", "split", "get"} /\ found \in Named
    BY <1>1, <1>4 DEF SnapshotInv, SnapshotTypeOK, CallOfJob, Way
  <2>3. client' \in Client /\ ContextKnown(client)' /\ HeadersKnown(client)'
    BY <1>1, <1>2, <2>1, StaysSound DEF Sound, cycle
  <2> QED
    BY <1>1, <2>1, <2>2, <2>3, WorkStep DEF Request, Way
<1> QED
  BY <1>3, <1>4

\* A snapshot names the context it was taken with, and headers no later.
LEMMA TakenStep ==
  ASSUME SnapshotInv, UNCHANGED <<world, faults>>,
         NEW c, Sound(c), client' = c, NEW candidate, NEW down,
         SnapshotTaken(candidate, down),
         down = "none" =>
           candidate = c.context /\ c.headers.data <= c.context.data
  PROVE  SnapshotInv'
<1>1. ForgetJob /\ call' = "first" /\ faults' \in 0..MaxFaults
  BY InvFacts DEF SnapshotTaken
<1>2. CASE /\ pc' = "idle" /\ UNCHANGED <<snapshot, parts, published>>
  <2>1. Sound(client)'
    BY <1>2, StaysSound
  <2>2. /\ parts \in Seq(Versions) /\ Len(parts) < Splits
        /\ \A i \in DOMAIN parts : parts[i] = snapshot.candidate.data
    BY DEF SnapshotInv, SnapshotTypeOK, PartsOfSnapshot
  <2> QED
    BY <1>1, <1>2, <2>1, <2>2, JobEnds
<1>3. CASE /\ down = "none" /\ pc' = "fetch" /\ parts' = << >>
           /\ snapshot' = [candidate |-> candidate, digest |-> Digest(client')]
           /\ UNCHANGED published
  <2>1. /\ snapshot'.candidate = c.context /\ snapshot'.digest = <<c.context, c.headers>>
        /\ c.context \in Named /\ c.headers \in Named
        /\ snapshot' = [candidate |-> c.context, digest |-> <<c.context, c.headers>>]
    BY <1>3 DEF Sound, Client, Digest
  <2>2. SnapshotTypeOK'
    BY <1>1, <1>3, <2>1, ForgetFacts, SnapshotAssumption
    DEF SnapshotInv, SnapshotTypeOK, world, Sound, NoJob
  <2>3. /\ c.context.data \in Versions /\ c.context.data \in Nat
        /\ c.context = Version(c.context.data)
        /\ snapshot.candidate.data <= c.context.data
    <3>1. game \in Versions /\ Versions \subseteq Nat
      BY InvFacts DEF Versions
    <3> QED
      BY <3>1, FirstVersion DEF Sound, ContextKnown, Versions
  <2>4. CallOfJob' /\ Clients'
    BY <1>1, <2>1, <2>3, ForgetFacts
    DEF CallOfJob, Clients, Sound, ContextKnown, HeadersKnown, Way, NoJob, world
  <2>5. SnapshotKnown'
    BY <1>3, <2>1, <2>3, PublishedFacts DEF SnapshotKnown
  <2>6. PartsOfSnapshot' /\ PublishedTogether'
    BY <1>3 DEF SnapshotInv, PartsOfSnapshot, PublishedTogether
  <2> QED
    BY <2>2, <2>4, <2>5, <2>6 DEF SnapshotInv
<1> QED
  BY <1>2, <1>3 DEF SnapshotTaken

\* A candidate that matches the context is no earlier than the headers: they
\* are the context's, or of a data version that /system or the version document
\* has announced.
LEMMA MatchesFacts ==
  ASSUME SnapshotInv, Sound(client), Matches(client.context, Completed(Entry, client.info))
  PROVE  client.headers.data <= client.context.data
<1>1. /\ client.headers.data \in Nat /\ client.context.data \in Nat
      /\ client.info \in Named /\ client.info.data \in Nat
  BY VersionFacts DEF Sound, Client, Named, Unknown
<1>2. Entry \in Named /\ Entry.data \in {system, Unknown}
  BY InvFacts, EntryFacts
<1>3. /\ client.context = Completed(Entry, client.info)
      /\ client.context.data # Unknown
  BY DEF Matches
<1>4. client.context.data = system \/ client.context.data = client.info.data
  BY <1>1, <1>2, <1>3 DEF Completed, Named
<1> QED
  BY <1>1, <1>4 DEF Sound, HeadersKnown

LEMMA DiscoverStep ==
  ASSUME SnapshotInv, Discover
  PROVE  SnapshotInv'
<1>1. /\ job # NoJob /\ job \in Job /\ job.at = "discover"
      /\ UNCHANGED <<world, faults>> /\ faults' \in 0..MaxFaults
  BY InvFacts DEF Discover, Running, NoJob
<1>2. Sound(client) /\ back = "none"
  BY <1>1, BackIsSound DEF OnTheWay, SnapshotInv, SnapshotTypeOK
<1> DEFINE candidate == Completed(Entry, client.info)
<1>3. PICK down \in Outage :
        \/ /\ job.do = "check" /\ client' = Checked(down)
           /\ ForgetJob /\ UNCHANGED cycle
        \/ /\ job.do = "snapshot" /\ (down # "none" \/ Matches(client.context, candidate))
           /\ UNCHANGED client
           /\ SnapshotTaken(candidate, down)
        \/ /\ job.do = "snapshot" /\ down = "none" /\ ~Matches(client.context, candidate)
           /\ found' = candidate /\ client' = FromFeed(client) /\ Goto("refresh")
           /\ UNCHANGED <<back, saved, restore, committed, cycle>>
  BY DEF Discover
<1>4. CASE client' = Checked(down) /\ ForgetJob /\ UNCHANGED cycle
  <2>1. Sound(Checked(down))
    BY <1>2, CheckedFacts DEF SnapshotInv, Sound
  <2>2. Sound(client)'
    BY <1>1, <1>4, <2>1, StaysSound DEF cycle
  <2> QED
    BY <1>1, <1>4, <2>2, QuietStep
<1>5. CASE /\ down # "none" \/ Matches(client.context, candidate)
           /\ UNCHANGED client
           /\ SnapshotTaken(candidate, down)
  <2>1. CASE down # "none"
    BY <1>1, <1>2, <1>5, <2>1, TakenStep
  <2>2. CASE down = "none"
    <3>1. Matches(client.context, candidate) /\ SnapshotTaken(candidate, "none")
      BY <1>5, <2>2
    <3>2. client.headers.data <= client.context.data /\ candidate = client.context
      BY <1>2, <3>1, MatchesFacts DEF Matches
    <3> HIDE DEF candidate
    <3> QED
      BY <1>1, <1>2, <1>5, <3>1, <3>2, TakenStep
  <2> QED
    BY <2>1, <2>2
<1>6. CASE /\ found' = candidate /\ client' = FromFeed(client) /\ Goto("refresh")
           /\ UNCHANGED <<back, saved, restore, committed, cycle>>
  <2>1. client' \in Client /\ client'.context = client.context /\ client'.info = client.info
    BY <1>6, InvFacts, FeedFacts
  <2>2. ContextKnown(client)'
    BY <1>1, <1>6, <2>1, InvFacts DEF ContextKnown, world, cycle
  <2>3. found' \in Named /\ committed \in BOOLEAN
    BY <1>2, <1>6, InvFacts, EntryFacts, CompletedFacts
    DEF SnapshotInv, SnapshotTypeOK, Sound, Client
  <2> QED
    BY <1>1, <1>2, <1>6, <2>1, <2>2, <2>3, WorkStep DEF Request, Way
<1> QED
  BY <1>3, <1>4, <1>5, <1>6

LEMMA DiscoverLocalStep ==
  ASSUME SnapshotInv, DiscoverLocal
  PROVE  SnapshotInv'
<1>1. /\ job # NoJob /\ job.at = "discover" /\ region = "nuverse"
      /\ UNCHANGED <<world, client, faults>>
  BY DEF DiscoverLocal, Running, NoJob
<1>2. Sound(client)
  BY <1>1, BackIsSound DEF OnTheWay
<1>3. CASE ForgetJob /\ UNCHANGED cycle
  <2>1. Sound(client)'
    BY <1>1, <1>2, <1>3, StaysSound DEF cycle
  <2> QED
    BY <1>1, <1>3, <2>1, QuietStep
<1>4. CASE SnapshotTaken(client.info, IF client.closed THEN "entry" ELSE "none")
  <2>1. client.info = client.context
    BY <1>1, <1>2 DEF Sound, ContextKnown
  <2>2. client.headers.data <= client.context.data
    <3>1. client.headers.data \in Nat /\ client.context.data \in Nat
      BY <1>2, VersionFacts DEF Sound, Client, Named, Unknown
    <3> QED
      BY <1>2, <2>1, <3>1 DEF Sound, HeadersKnown
  <2> QED
    BY <1>1, <1>2, <1>4, <2>1, <2>2, TakenStep
<1> QED
  BY <1>3, <1>4 DEF DiscoverLocal

LEMMA RefreshForSnapshotStep ==
  ASSUME SnapshotInv, RefreshForSnapshot
  PROVE  SnapshotInv'
<1>1. UNCHANGED <<world, faults>> /\ faults' \in 0..MaxFaults
  BY InvFacts DEF RefreshForSnapshot
<1>2. /\ Sound(Authenticated) /\ Authenticated.context = Version(game)
      /\ Authenticated.headers = Version(game)
  BY InvFacts, AuthenticatedFacts DEF Authenticated, AuthenticatedAs
<1> DEFINE candidate == Completed(found, Version(game))
<1>3. CASE /\ Matches(Version(game), candidate)
           /\ client' = Authenticated /\ SnapshotTaken(candidate, "none")
  <2>1. candidate = Authenticated.context
    BY <1>2, <1>3 DEF Matches
  <2>2. Authenticated.headers.data <= Authenticated.context.data
    BY <1>2, InvFacts, VersionFacts
  <2> HIDE DEF candidate
  <2> QED
    BY <1>1, <1>2, <1>3, <2>1, <2>2, TakenStep
<1>4. CASE /\ client' = IF committed THEN Authenticated ELSE RolledBack
           /\ ForgetJob /\ CallFails
  <2>1. snapshot' = snapshot
    BY <1>4 DEF CallFails
  <2>2. Sound(client)'
    BY <1>1, <1>2, <1>4, <2>1, BackIsSound, StaysSound DEF RolledBack
  <2> QED
    BY <1>1, <1>4, <2>2, FailsStep
<1> QED
  BY <1>3, <1>4 DEF RefreshForSnapshot

LEMMA RefreshForSplitStep ==
  ASSUME SnapshotInv, RefreshForSplit
  PROVE  SnapshotInv'
<1>1. /\ job # NoJob /\ job.at = "refresh"
      /\ UNCHANGED <<world, faults>> /\ faults' \in 0..MaxFaults
  BY InvFacts DEF RefreshForSplit, Running, NoJob
<1>2. CASE JobFails
  BY <1>1, <1>2, RollBackStep
<1>3. CASE /\ client' = Authenticated /\ Goto("split")
           /\ UNCHANGED <<back, found, saved, restore, committed, cycle>>
  <2>1. back = "none" /\ found \in Named /\ committed \in BOOLEAN
    BY <1>1 DEF SnapshotInv, SnapshotTypeOK
  <2>2. Sound(Authenticated) /\ snapshot' = snapshot
    BY <1>3, InvFacts, AuthenticatedFacts DEF Authenticated, cycle
  <2>3. client' \in Client /\ ContextKnown(client)' /\ HeadersKnown(client)'
    BY <1>1, <1>3, <2>2, StaysSound DEF Sound
  <2> QED
    BY <1>1, <1>3, <2>1, <2>3, WorkStep DEF Request, Way
<1> QED
  BY <1>2, <1>3 DEF RefreshForSplit

\* A split that passes both looks at the digest is of the candidate: the context
\* is not ahead of the game, nor the headers of the digest of its context.
LEMMA FreshFacts ==
  ASSUME SnapshotInv, Fresh, StillTheSnapshot
  PROVE  game = snapshot.candidate.data
<1>1. game \in Versions /\ game \in Nat /\ snapshot.candidate.data \in Nat
  BY InvFacts, VersionFacts
<1>2. client.headers = Version(game) /\ snapshot.digest = <<client.context, client.headers>>
  BY DEF Fresh, StillTheSnapshot, Digest
<1>3. snapshot.digest[2].data = game
  BY <1>1, <1>2, VersionFacts
<1>4. snapshot.digest[2].data <= snapshot.candidate.data
  BY DEF SnapshotInv, SnapshotKnown
<1> QED
  BY <1>1, <1>3, <1>4, InvFacts

LEMMA FetchSplitStep ==
  ASSUME SnapshotInv, FetchSplit
  PROVE  SnapshotInv'
<1>1. /\ job # NoJob /\ job.at = "split" /\ Fresh
      /\ UNCHANGED <<world, faults>> /\ faults' \in 0..MaxFaults
  BY InvFacts DEF FetchSplit, Running, NoJob, Accepted
<1>2. CASE JobFails
  BY <1>1, <1>2, RollBackStep
<1>3. CASE StillTheSnapshot /\ UNCHANGED client /\ ForgetJob /\ PartFetched
  <2>1. game = snapshot.candidate.data /\ game \in Versions
    BY <1>1, <1>3, FreshFacts, InvFacts
  <2>2. /\ parts \in Seq(Versions) /\ Len(parts) < Splits
        /\ pc \in {"idle", "snapshot", "fetch"}
        /\ \A i \in DOMAIN parts : parts[i] = snapshot.candidate.data
    BY DEF SnapshotInv, SnapshotTypeOK, PartsOfSnapshot
  <2> DEFINE more == Append(parts, game)
  <2>3. /\ more \in Seq(Versions) /\ Len(more) = Len(parts) + 1
        /\ \A i \in DOMAIN more : more[i] = snapshot.candidate.data
    BY <2>1, <2>2
  <2>4. /\ Sound(client)' /\ call' = "first" /\ snapshot' = snapshot
    BY <1>1, <1>3, BackIsSound, StaysSound DEF OnTheWay, PartFetched
  <2> HIDE DEF more
  <2>5. CASE /\ Len(parts) + 1 < Splits
             /\ parts' = more /\ UNCHANGED <<pc, published>>
    BY <1>1, <1>3, <2>2, <2>3, <2>4, <2>5, JobEnds
  <2>6. CASE /\ published' = [candidate |-> snapshot.candidate, files |-> more]
             /\ pc' = "idle" /\ parts' = << >>
    <3>1. /\ published'.candidate = snapshot.candidate /\ published'.files = more
          /\ parts' \in Seq(Versions) /\ Len(parts') < Splits
          /\ \A i \in DOMAIN parts' : parts'[i] = snapshot.candidate.data
      BY <2>6, SnapshotAssumption
    <3> QED
      BY <1>1, <1>3, <2>3, <2>4, <2>6, <3>1, JobEnds
  <2> QED
    BY <1>3, <2>5, <2>6 DEF PartFetched, more
<1> QED
  BY <1>1, <1>2, <1>3 DEF FetchSplit

LEMMA DownloadStep ==
  ASSUME SnapshotInv, Download
  PROVE  SnapshotInv'
<1>1. /\ job # NoJob /\ job.at = "download" /\ ForgetJob
      /\ UNCHANGED <<world, client, snapshot, faults>> /\ faults' \in 0..MaxFaults
      /\ pc' = "idle" /\ call' = "first" /\ parts' = << >>
      /\ published' = [candidate |-> snapshot.candidate,
                       files     |-> <<snapshot.candidate.data>>]
  BY InvFacts DEF Download, Running, NoJob
<1>2. Sound(client)'
  BY <1>1, BackIsSound, StaysSound DEF OnTheWay
<1>3. snapshot.candidate.data \in Versions
  BY DEF SnapshotInv, SnapshotKnown
<1>4. /\ published'.candidate = snapshot.candidate
      /\ published'.files \in Seq(Versions)
      /\ \A i \in DOMAIN published'.files :
           published'.files[i] = snapshot.candidate.data
      /\ parts' \in Seq(Versions) /\ Len(parts') < Splits
      /\ \A i \in DOMAIN parts' : parts'[i] = snapshot.candidate.data
  BY <1>1, <1>3, SnapshotAssumption
<1> QED
  BY <1>1, <1>2, <1>4, JobEnds

LEMMA GetStep ==
  ASSUME SnapshotInv, Get
  PROVE  SnapshotInv'
<1>1. /\ job # NoJob /\ job.at = "get" /\ ForgetJob
      /\ UNCHANGED <<world, client, cycle, faults>>
  BY DEF Get, Running, NoJob
<1>2. Sound(client)'
  BY <1>1, BackIsSound, StaysSound DEF OnTheWay, cycle
<1> QED
  BY <1>1, <1>2, QuietStep

LEMMA FaultsStep ==
  ASSUME SnapshotInv, RequestFails \/ AnswerLost \/ Abandoned
  PROVE  SnapshotInv'
<1>1. faults' \in 0..MaxFaults /\ UNCHANGED world
  BY FaultFacts DEF RequestFails, AnswerLost, Abandoned
<1>2. CASE RequestFails
  BY <1>1, <1>2, RollBackStep DEF RequestFails
<1>3. CASE AnswerLost
  <2>1. /\ client' = client /\ ForgetJob /\ CallFails /\ snapshot' = snapshot
        /\ ~OnTheWay
    BY <1>3 DEF AnswerLost, CallFails, Running, OnTheWay
  <2>2. Sound(client)'
    BY <1>1, <2>1, BackIsSound, StaysSound
  <2> QED
    BY <1>1, <2>1, <2>2, FailsStep
<1>4. CASE Abandoned
  <2>1. client' = saved /\ ForgetJob /\ CallFails /\ snapshot' = snapshot
    BY <1>4 DEF Abandoned, CallFails
  <2>2. Sound(client)'
    BY <1>1, <2>1, BackIsSound, StaysSound
  <2> QED
    BY <1>1, <2>1, <2>2, FailsStep
<1> QED
  BY <1>2, <1>3, <1>4

-----------------------------------------------------------------------------
(***************************************************************************)
(* The theorems.                                                           *)
(***************************************************************************)

LEMMA SnapshotInit ==
  ASSUME Init
  PROVE  SnapshotInv
<1>1. /\ 1 \in Versions /\ game = 1 /\ system = 1 /\ feed = 1
      /\ Version(1) \in Named /\ Version(1).data = 1
      /\ [build |-> Builds[1], data |-> Unknown] \in Named
  BY FirstVersion, VersionFacts DEF Init, Named
<1>2. client = [headers |-> Version(1), info |-> Version(1), context |-> Version(1),
                closed |-> FALSE]
  BY <1>1 DEF Init, Authenticated, AuthenticatedAs
<1>3. /\ snapshot = [candidate |-> Version(1), digest |-> <<Version(1), Version(1)>>]
      /\ published = [candidate |-> Version(1), files |-> << >>]
      /\ saved = client /\ restore = client /\ job = NoJob /\ parts = << >>
  BY <1>2 DEF Init, Digest
<1>4. client \in Client
  BY <1>1, <1>2 DEF Client
<1>5. SnapshotTypeOK
  <2>1. /\ parts \in Seq(Versions) /\ Len(parts) < Splits
        /\ published.candidate \in Named /\ published.files \in Seq(Versions)
    BY <1>1, <1>3, SnapshotAssumption
  <2>2. snapshot \in [candidate : Named, digest : Named \X Named]
    BY <1>1, <1>3
  <2>3. faults \in 0..MaxFaults
    BY SnapshotAssumption DEF Init
  <2> QED
    BY <1>1, <1>3, <1>4, <2>1, <2>2, <2>3 DEF Init, SnapshotTypeOK
<1>6. CallOfJob /\ Clients
  BY <1>1, <1>2, <1>3
  DEF CallOfJob, Clients, ContextKnown, HeadersKnown, NoJob, Way
<1>7. SnapshotKnown /\ PartsOfSnapshot /\ PublishedTogether
  BY <1>1, <1>3 DEF SnapshotKnown, PartsOfSnapshot, PublishedTogether
<1> QED
  BY <1>5, <1>6, <1>7 DEF SnapshotInv

LEMMA SnapshotStep ==
  ASSUME SnapshotInv, [Next]_all
  PROVE  SnapshotInv'
<1>1. CASE UNCHANGED all
  <2> USE <1>1 DEF SnapshotInv, all, world, jobs, cycle
  <2>1. SnapshotTypeOK' /\ CallOfJob'
    BY DEF SnapshotTypeOK, CallOfJob
  <2>2. Clients'
    BY DEF Clients, ContextKnown, HeadersKnown, OnTheWay
  <2>3. (SnapshotKnown /\ PartsOfSnapshot /\ PublishedTogether)'
    BY DEF SnapshotKnown, PartsOfSnapshot, PublishedTogether
  <2> QED
    BY <2>1, <2>2, <2>3
<1>2. CASE CycleBegins \/ CycleCalls \/ TrackerChecks \/ ReadsGame \/ DailyLogin
  BY <1>2, CycleBeginsStep, CallsStep, OtherCallsStep
<1>3. CASE Refused \/ Recheck \/ Login \/ Suite \/ Home \/ SessionRefused
  BY <1>3, RefusedStep, RecheckStep, LoginStep, SuiteStep, HomeStep, SessionRefusedStep
<1>4. CASE Discover \/ DiscoverLocal \/ RefreshForSnapshot \/ RefreshForSplit
  BY <1>4, DiscoverStep, DiscoverLocalStep, RefreshForSnapshotStep, RefreshForSplitStep
<1>5. CASE FetchSplit \/ Download \/ Get
  BY <1>5, FetchSplitStep, DownloadStep, GetStep
<1>6. CASE RequestFails \/ AnswerLost \/ Abandoned
  BY <1>6, FaultsStep
<1>7. CASE GameMoves \/ SystemMoves \/ FeedMoves
  BY <1>7, WorldStep
<1> QED
  BY <1>1, <1>2, <1>3, <1>4, <1>5, <1>6, <1>7 DEF Next, JobStep

\* The invariant of the client between two versions: the splits it knows, the
\* headers it sends and the snapshot of the cycle are related as update_snapshot
\* and fetch_master_split leave them.
THEOREM SnapshotInvariance == Spec => []SnapshotInv
<1>1. Init => SnapshotInv
  BY SnapshotInit
<1>2. SnapshotInv /\ [Next]_all => SnapshotInv'
  BY SnapshotStep
<1> QED
  BY <1>1, <1>2, PTL DEF Spec

\* The client, the job and the cycle keep their types; in particular a recovery
\* has somewhere to go back to, and a cycle never holds all of its splits.
THEOREM SnapshotTypeCorrect == Spec => []SnapshotTypeOK
<1>1. SnapshotInv => SnapshotTypeOK
  BY DEF SnapshotInv
<1> QED
  BY <1>1, SnapshotInvariance, PTL

\* The files published beside versions.json are of the version it names, for
\* any number of splits and however the game, /system and the feed move while
\* the splits are fetched one by one.
THEOREM PublishedAsNamed == Spec => []PublishedTogether
<1>1. SnapshotInv => PublishedTogether
  BY DEF SnapshotInv
<1> QED
  BY <1>1, SnapshotInvariance, PTL

\* What a cycle publishes is what its snapshot named, or what it was before.
LEMMA PublishesSnapshot ==
  ASSUME SnapshotInv, Next
  PROVE  published' = published \/ published'.candidate = snapshot.candidate
BY DEF Next, CycleBegins, CycleCalls, CallSnapshot, CallSplit, CallDownload, EnsureReady,
  TrackerChecks, ReadsGame, DailyLogin, JobStep, Refused, Recheck, Login, Suite, Home,
  LoginDone, Discover, DiscoverLocal, SnapshotTaken, RefreshForSnapshot, RefreshForSplit,
  FetchSplit, PartFetched, Download, Get, SessionRefused, RequestFails, AnswerLost,
  Abandoned, JobFails, CallFails, GameMoves, SystemMoves, FeedMoves, cycle

\* No cycle replaces a published version by an earlier one, although a deadline
\* puts back the session of before and the snapshot is taken from it.
THEOREM NeverGoesBack == Spec => NeverBackwards
<1> DEFINE Onward == published'.candidate.data >= published.candidate.data
<1>1. ASSUME SnapshotInv, [Next]_all PROVE [Onward]_published
  <2>1. CASE Next
    BY <1>1, <2>1, PublishedFacts, PublishesSnapshot
  <2>2. CASE UNCHANGED all
    BY <2>2 DEF all, cycle
  <2> QED
    BY <1>1, <2>1, <2>2
<1>2. []SnapshotInv /\ [][Next]_all => [][Onward]_published
  BY <1>1, PTL
<1> QED
  BY <1>2, SnapshotInvariance, PTL DEF Spec, NeverBackwards

=============================================================================
