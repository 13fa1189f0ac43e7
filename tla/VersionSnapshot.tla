--------------------------- MODULE VersionSnapshot ---------------------------
(***************************************************************************)
(* One published version, several sources.  For the regions jp and en a    *)
(* cycle of check_update.py asks the shared client for a snapshot          *)
(* (APIClient.update_snapshot): the candidate version that /system         *)
(* announces and the master data splits that the last authentication       *)
(* named.  It then fetches the splits one call at a time, while the        *)
(* tracker and the daily login use the same client between its calls and   *)
(* the game moves to the next version whenever it likes.                   *)
(*                                                                         *)
(* The client runs one job at a time, and a job is a sequence of requests  *)
(* to the game: a request with stale version headers is answered 426, and  *)
(* the recovery takes the headers of a public feed, asks /system, logs in  *)
(* and repeats the request.  How a job is queued and how the lifecycle     *)
(* follows a login is in SharedClient; how a cycle publishes its files is  *)
(* in UpdateTransaction.                                                   *)
(*                                                                         *)
(* In the other regions (cn, tw, kr) /system is no source of versions: the *)
(* candidate is what the last authentication said, and the files come in   *)
(* one piece from a CDN, by the version of the candidate.                  *)
(***************************************************************************)
EXTENDS Naturals, Sequences

CONSTANTS
  Builds,     \* Builds[n]: the app and asset version of the game's version n
  Announced,  \* versions whose /system entry has a dataVersion
  Splits,     \* how many splits the master data has
  MaxFaults   \* bound: jobs that fail or are abandoned, answers that are lost

Versions == 1..Len(Builds)

ASSUME SnapshotAssumption ==
  /\ Builds \in Seq(Nat) /\ Builds # << >>
  /\ Announced \subseteq Versions
  /\ Splits \in Nat \ {0} /\ MaxFaults \in Nat

VARIABLES
  region,     \* "suite" (jp, en) or "nuverse" (cn, tw, kr)
  \* outside of the program
  game,       \* the version the game servers run
  system,     \* the version /system announces
  feed,       \* the version the public feed names
  \* the shared client
  client,     \* headers, version_info, the identity of master_split_paths and
              \* whether version_info has the status of a maintenance
  job,        \* the job that runs: for whom, which, and its next request
  back,       \* the request a recovery or a hidden login goes back to
  found,      \* the candidate of a running update_snapshot
  saved,      \* the client when the job began
  restore,    \* the client a failure of the job goes back to
  committed,  \* an authentication of this job has raised auth_generation
  \* the update cycle
  pc,         \* "idle", "snapshot" or "fetch": the call it is at
  call,       \* "first", "ready" (recovering the client) or "second"
  snapshot,   \* the snapshot of the cycle
  parts,      \* the versions of the splits it has fetched
  published,  \* versions.json, and the versions of the files beside it
  faults

world == <<region, game, system, feed>>
jobs  == <<job, back, found, saved, restore, committed>>
cycle == <<pc, call, snapshot, parts, published>>
all   == <<world, client, jobs, cycle, faults>>

Unknown    == 0
Version(n) == [build |-> Builds[n], data |-> n]
Named      == [build : {Builds[n] : n \in Versions}, data : Versions \cup {Unknown}]
Client     == [headers : Named, info : Named, context : Named, closed : BOOLEAN]
NoJob      == [of |-> "nobody", do |-> "none", at |-> "none"]
Request    == {"discover", "refresh", "split", "download", "get", "recheck",
               "login", "suite", "home"}
Job        == [of : {"cycle", "other"},
               do : {"snapshot", "split", "check", "login", "get"}, at : Request]

SnapshotTypeOK ==
  /\ region \in {"suite", "nuverse"} /\ {game, system, feed} \subseteq Versions
  /\ client \in Client /\ {saved, restore} \subseteq Client
  /\ job \in Job \cup {NoJob}
  /\ back \in {"none", "discover", "split", "get"}
  /\ back # "none" => job.at \in {"recheck", "login", "suite", "home"}
  /\ found \in Named /\ committed \in BOOLEAN
  /\ pc \in {"idle", "snapshot", "fetch"}
  /\ call \in {"first", "ready", "second"} /\ (pc = "idle" => call = "first")
  /\ snapshot \in [candidate : Named, digest : Named \X Named]
  /\ parts \in Seq(Versions) /\ Len(parts) < Splits
  /\ published.candidate \in Named /\ published.files \in Seq(Versions)
  /\ faults \in 0..MaxFaults

Fault == faults < MaxFaults /\ faults' = faults + 1

-----------------------------------------------------------------------------
(***************************************************************************)
(* The game and its two announcements.                                     *)
(***************************************************************************)

\* /system may be one version before or behind the game.
GameMoves ==
  /\ game < Len(Builds) /\ game <= system /\ game' = game + 1
  /\ UNCHANGED <<region, system, feed, client, jobs, cycle, faults>>

SystemMoves ==
  /\ system < Len(Builds) /\ system <= game /\ system' = system + 1
  /\ UNCHANGED <<region, game, feed, client, jobs, cycle, faults>>

FeedMoves ==
  /\ feed < game /\ feed' = feed + 1
  /\ UNCHANGED <<region, game, system, client, jobs, cycle, faults>>

\* While the game changes its version it may be in maintenance: as a whole, or
\* by the status of the announced entry.
Outage == IF system # game THEN {"none", "server", "entry"} ELSE {"none"}

Fresh == client.headers = Version(game)

\* Which requests the game takes: an authentication asks for the app version
\* alone, /system may overlook stale headers, everything else may not.
Accepted(at) ==
  CASE at \in {"refresh", "login"}                -> client.headers.build = Builds[game]
    [] at \in {"discover", "recheck", "download"} -> TRUE
    [] at \in {"split", "get", "suite", "home"}   -> Fresh

-----------------------------------------------------------------------------
(***************************************************************************)
(* APIClient.                                                              *)
(***************************************************************************)

\* Mutant: what /system leaves out stays unknown.
CompletedNever(candidate, info) == candidate

\* _candidate_for_version_identity: fields /system left out are those of the
\* version document, if that is about the same app version.
Completed(candidate, info) ==
  IF candidate.data = Unknown /\ candidate.build = info.build
  THEN [candidate EXCEPT !.data = info.data] ELSE candidate

Entry == [build |-> Builds[system],
          data  |-> IF system \in Announced THEN system ELSE Unknown]

\* Mutant: the build is enough.
MatchesBuild(context, candidate) == context.build = candidate.build

\* _candidate_matches_split_path_identity.
Matches(context, candidate) ==
  context.data # Unknown /\ context = candidate

\* _split_path_context_digest: the paths with their identity, and the headers.
Digest(c) == <<c.context, c.headers>>

\* _refresh_suite_version_headers and _refresh_tw_kr_app_identity: what the
\* feed says, in the other regions of the app alone.
FromFeed(c) == IF region = "suite" THEN [c EXCEPT !.headers = Version(feed)]
               ELSE [c EXCEPT !.headers.build = Builds[feed]]

\* _apply_auth_headers_and_version_info and the split paths of an
\* authentication: everything is of the version the game runs.
AuthenticatedAs(closed) ==
  [headers |-> Version(game), info |-> Version(game), context |-> Version(game),
   closed  |-> closed]

Authenticated == AuthenticatedAs(FALSE)

\* _discover_version_candidate: an entry in maintenance is taken for want of a
\* better one and is never new; an available one is new when it is of another
\* app version or its dataVersion differs.
IsNew(down) ==
  /\ down # "entry"
  /\ \/ Entry.build # client.headers.build
     \/ Entry.data \notin {Unknown, client.headers.data}

Over(old) ==
  [build |-> Entry.build, data |-> IF Entry.data = Unknown THEN old.data ELSE Entry.data]

\* check_versions: the headers follow a new version, the version document
\* always; in the other regions it does nothing.
Checked(down) ==
  IF region = "suite"
  THEN [client EXCEPT !.headers = IF IsNew(down) THEN Over(@) ELSE @, !.info = Over(@)]
  ELSE client

\* _refresh_tw_kr_asset_data_versions: a best effort; what it does to the version
\* document is overwritten or undone by the login that follows.
Probed == {client, [client EXCEPT !.headers = Over(@)]}

-----------------------------------------------------------------------------
(***************************************************************************)
(* Jobs of the shared client.                                              *)
(***************************************************************************)

Goto(at) == job' = [job EXCEPT !.at = at]

Running(at) == job.at = at

\* A job begins with a client c on its way to the request at.
Begins(of, do, at, c) ==
  /\ job = NoJob
  /\ job' = [of |-> of, do |-> do, at |-> at] /\ client' = c
  /\ saved' = client /\ restore' = client /\ committed' = FALSE
  /\ UNCHANGED <<back, found>>

JobOver == job' = NoJob /\ back' = "none" /\ committed' = FALSE

NoCandidate == found' = [build |-> Builds[1], data |-> Unknown]
NothingSaved == saved' = client' /\ restore' = client'
ForgetJob == JobOver /\ NoCandidate /\ NothingSaved

\* The cycle learns that its call has failed: request_with_recovery asks for
\* readiness and calls once more, then gives up.
CallFails ==
  /\ IF job.of = "cycle"
     THEN /\ call' = IF call = "first" THEN "ready" ELSE "first"
          /\ pc' = IF call = "first" THEN pc ELSE "idle"
          /\ parts' = IF call = "first" THEN parts ELSE << >>
     ELSE UNCHANGED <<pc, call, parts>>
  /\ UNCHANGED <<snapshot, published>>

\* Where the transactions and _client_job leave the client when a job fails:
\* as it was, or as its last committed authentication left it.
RolledBack == restore

JobFails == client' = RolledBack /\ ForgetJob /\ CallFails

\* A request is refused.  426 on an authentication is never repeated, within a
\* recovery or a login it is not recovered from (_handle_http_error_retry).
Refused ==
  /\ job # NoJob
  /\ ~Fresh
  /\ ~Accepted(job.at) \/ (region = "suite" /\ job.at \in {"discover", "recheck"})
  /\ \/ /\ job.at \in {"discover", "split", "get"}
        /\ back' = job.at /\ client' = FromFeed(client) /\ Goto("recheck")
        /\ UNCHANGED <<found, saved, restore, committed, cycle>>
     \/ job.at \notin {"discover", "split", "get"} /\ JobFails
  /\ UNCHANGED <<world, faults>>

\* A session the game no longer knows: the hidden login of session_error.
SessionRefused ==
  /\ job.at \in {"split", "get"} /\ Fault
  /\ back' = job.at /\ client' = FromFeed(client) /\ Goto("login")
  /\ UNCHANGED <<world, found, saved, restore, committed, cycle>>

\* check_versions within the recovery, then the login begins.
Recheck ==
  /\ Running("recheck")
  /\ \/ region = "suite" /\ \E down \in Outage : client' = FromFeed(Checked(down))
     \/ region = "nuverse" /\ \E c \in Probed : client' = FromFeed(c)
  /\ Goto("login")
  /\ UNCHANGED <<world, back, found, saved, restore, committed, cycle, faults>>

\* The authentication of a login; in the other regions its answer names the
\* status of the app version as well.
Login ==
  /\ Running("login") /\ Accepted("login")
  /\ \E down \in Outage :
       client' = AuthenticatedAs(region = "nuverse" /\ down = "entry")
  /\ Goto("suite")
  /\ UNCHANGED <<world, back, found, saved, restore, committed, cycle, faults>>

\* A login that stands on its own ends; the cycle, whose ensure_ready it was,
\* calls again.
LoginDone ==
  /\ ForgetJob
  /\ call' = IF job.of = "cycle" THEN "second" ELSE call
  /\ UNCHANGED <<pc, snapshot, parts, published>>

\* fetch_suite_user.
Suite ==
  /\ Running("suite") /\ Accepted("suite") /\ Goto("home")
  /\ UNCHANGED <<world, client, back, found, saved, restore, committed, cycle, faults>>

\* What follows a login: the tutorial, the invitation, the login bonus.  A
\* hidden login commits, and the request that was refused is repeated.
Home ==
  /\ Running("home") /\ Accepted("home")
  /\ UNCHANGED client
  /\ IF job.do = "login" THEN LoginDone
     ELSE /\ Goto(back) /\ back' = "none"
          /\ restore' = client /\ committed' = TRUE
          /\ UNCHANGED <<found, saved, cycle>>
  /\ UNCHANGED <<world, faults>>

\* update_snapshot has its answer and the gate of the cycle looks at it; only
\* a daily cycle goes on with a version that is published already.
SnapshotTaken(candidate, down) ==
  /\ ForgetJob
  /\ call' = "first"
  /\ \/ /\ down = "none"
        /\ pc' = "fetch" /\ parts' = << >>
        /\ snapshot' = [candidate |-> candidate, digest |-> Digest(client')]
        /\ UNCHANGED published
     \/ /\ down # "none" \/ candidate = published.candidate
        /\ pc' = "idle" /\ UNCHANGED <<snapshot, parts, published>>

\* GET /system for check_versions and for update_snapshot.
Discover ==
  /\ Running("discover") /\ region = "suite"
  /\ \E down \in Outage :
       LET candidate == Completed(Entry, client.info) IN
       \/ /\ job.do = "check"
          /\ client' = Checked(down)
          /\ ForgetJob /\ UNCHANGED cycle
       \/ /\ job.do = "snapshot" /\ (down # "none" \/ Matches(client.context, candidate))
          /\ UNCHANGED client
          /\ SnapshotTaken(candidate, down)
       \/ /\ job.do = "snapshot" /\ down = "none" /\ ~Matches(client.context, candidate)
          /\ found' = candidate /\ client' = FromFeed(client) /\ Goto("refresh")
          /\ UNCHANGED <<back, saved, restore, committed, cycle>>
  /\ UNCHANGED <<world, faults>>

\* The other regions ask nobody: the candidate is the version document.
DiscoverLocal ==
  /\ Running("discover") /\ region = "nuverse"
  /\ UNCHANGED client
  /\ \/ job.do = "check" /\ ForgetJob /\ UNCHANGED cycle
     \/ /\ job.do = "snapshot"
        /\ SnapshotTaken(client.info, IF client.closed THEN "entry" ELSE "none")
  /\ UNCHANGED <<world, faults>>

\* refresh_master_split_paths: it is not a login and raises no generation.
RefreshForSnapshot ==
  LET candidate == Completed(found, Version(game)) IN
  /\ Running("refresh") /\ job.do = "snapshot" /\ Accepted("refresh")
  /\ IF Matches(Version(game), candidate)
     THEN client' = Authenticated /\ SnapshotTaken(candidate, "none")
     ELSE /\ client' = IF committed THEN Authenticated ELSE RolledBack
          /\ ForgetJob /\ CallFails
  /\ UNCHANGED <<world, faults>>

RefreshForSplit ==
  /\ Running("refresh") /\ job.do = "split" /\ Accepted("refresh")
  /\ IF Digest(Authenticated) = snapshot.digest
     THEN /\ client' = Authenticated /\ Goto("split")
          /\ UNCHANGED <<back, found, saved, restore, committed, cycle>>
     ELSE JobFails
  /\ UNCHANGED <<world, faults>>

\* Mutant: what has been fetched is not checked against the snapshot.
StillTheSnapshotUnchecked == TRUE

\* fetch_master_split looks at the digest once more after the request.
StillTheSnapshot == Digest(client) = snapshot.digest

\* Mutant: the splits of a cycle outlive it.
PartFetchedKept ==
  /\ call' = "first" /\ parts' = Append(parts, game)
  /\ IF Len(parts) + 1 < Splits
     THEN UNCHANGED <<pc, snapshot, published>>
     ELSE /\ published' = [candidate |-> snapshot.candidate, files |-> parts']
          /\ pc' = "idle" /\ UNCHANGED snapshot

\* get_splitted_master_data has every split: the files are published.
PartFetched ==
  /\ call' = "first" /\ UNCHANGED snapshot
  /\ IF Len(parts) + 1 < Splits
     THEN parts' = Append(parts, game) /\ UNCHANGED <<pc, published>>
     ELSE /\ published' = [candidate |-> snapshot.candidate,
                           files     |-> Append(parts, game)]
          /\ pc' = "idle" /\ parts' = << >>

FetchSplit ==
  /\ Running("split") /\ Accepted("split")
  /\ IF StillTheSnapshot
     THEN UNCHANGED client /\ ForgetJob /\ PartFetched
     ELSE JobFails
  /\ UNCHANGED <<world, faults>>

\* request_and_decrypt for download_nuverse_master_data.
Download ==
  /\ Running("download")
  /\ UNCHANGED <<client, snapshot>> /\ ForgetJob
  /\ published' = [candidate |-> snapshot.candidate,
                   files     |-> <<snapshot.candidate.data>>]
  /\ pc' = "idle" /\ call' = "first" /\ parts' = << >>
  /\ UNCHANGED <<world, faults>>

\* A request of the tracker or of the public server.
Get ==
  /\ Running("get") /\ Accepted("get")
  /\ UNCHANGED client /\ ForgetJob
  /\ UNCHANGED <<world, cycle, faults>>

\* A request fails for good, or the answer of a finished job is lost on the way.
RequestFails == job # NoJob /\ Fault /\ JobFails /\ UNCHANGED world

AnswerLost ==
  /\ (Running("split") /\ Fresh) \/ Running("download")
  /\ Fault
  /\ UNCHANGED client /\ ForgetJob /\ CallFails
  /\ UNCHANGED world

\* The deadline passes: _restore_runtime_locked undoes a committed
\* authentication as well.
Abandoned ==
  /\ job # NoJob /\ Fault
  /\ client' = saved /\ ForgetJob /\ CallFails
  /\ UNCHANGED world

-----------------------------------------------------------------------------
(***************************************************************************)
(* The callers.                                                            *)
(***************************************************************************)

\* A cycle of check_update.py begins; it holds no job between two calls.
CycleBegins ==
  /\ pc = "idle" /\ pc' = "snapshot"
  /\ UNCHANGED <<world, client, jobs, call, snapshot, parts, published, faults>>

CallSnapshot ==
  /\ pc = "snapshot" /\ call # "ready"
  /\ Begins("cycle", "snapshot", "discover", client)
  /\ UNCHANGED <<world, cycle, faults>>

\* fetch_master_split authenticates first when the context of the client is not
\* that of the snapshot.
CallSplit ==
  /\ region = "suite" /\ pc = "fetch" /\ call # "ready"
  /\ IF Digest(client) = snapshot.digest
     THEN Begins("cycle", "split", "split", client)
     ELSE Begins("cycle", "split", "refresh", FromFeed(client))
  /\ UNCHANGED <<world, cycle, faults>>

CallDownload ==
  /\ region = "nuverse" /\ pc = "fetch" /\ call # "ready"
  /\ Begins("cycle", "split", "download", client)
  /\ UNCHANGED <<world, cycle, faults>>

\* ensure_ready: the client is ready, or it logs in.
EnsureReady ==
  /\ pc # "idle" /\ call = "ready" /\ job = NoJob
  /\ \/ call' = "second" /\ UNCHANGED <<client, jobs, pc, snapshot, parts, published>>
     \/ Begins("cycle", "login", "login", FromFeed(client)) /\ UNCHANGED cycle
  /\ UNCHANGED <<world, faults>>

CycleCalls == CallSnapshot \/ CallSplit \/ CallDownload \/ EnsureReady

\* The tracker checks the version at the start of a cycle.
TrackerChecks ==
  /\ Begins("other", "check", "discover", client)
  /\ UNCHANGED <<world, cycle, faults>>

\* The tracker reads rankings, the public server profiles and rankings.
ReadsGame ==
  /\ Begins("other", "get", "get", client)
  /\ UNCHANGED <<world, cycle, faults>>

\* day_change_func; the user information updater and the refresh of the public
\* server do the same.
DailyLogin ==
  /\ Begins("other", "login", "login", FromFeed(client))
  /\ UNCHANGED <<world, cycle, faults>>

Init ==
  /\ region \in {"suite", "nuverse"}
  /\ game = 1 /\ system = 1 /\ feed = 1
  /\ client = Authenticated
  /\ job = NoJob /\ back = "none" /\ committed = FALSE
  /\ found = [build |-> Builds[1], data |-> Unknown]
  /\ saved = client /\ restore = client
  /\ pc = "idle" /\ call = "first" /\ parts = << >>
  /\ snapshot = [candidate |-> Version(1), digest |-> Digest(client)]
  /\ published = [candidate |-> Version(1), files |-> << >>]
  /\ faults = 0

JobStep == \/ Refused \/ Recheck \/ Login \/ Suite \/ Home
           \/ Discover \/ DiscoverLocal \/ RefreshForSnapshot \/ RefreshForSplit
           \/ FetchSplit \/ Download \/ Get

Next ==
  \/ CycleBegins \/ CycleCalls \/ TrackerChecks \/ ReadsGame \/ DailyLogin
  \/ JobStep \/ SessionRefused \/ RequestFails \/ AnswerLost \/ Abandoned
  \/ GameMoves \/ SystemMoves \/ FeedMoves

Spec == Init /\ [][Next]_all

\* The worker runs its job, every caller gets the client again and again, the
\* daily login among them, and the game and its announcements come to rest at
\* one version.
FairSpec ==
  /\ Spec
  /\ WF_all(JobStep) /\ WF_all(CycleBegins)
  /\ SF_all(CycleCalls) /\ SF_all(DailyLogin)
  /\ WF_all(GameMoves) /\ WF_all(SystemMoves) /\ WF_all(FeedMoves)

-----------------------------------------------------------------------------
(***************************************************************************)
(* Properties                                                              *)
(***************************************************************************)

\* The files that are published beside versions.json are of the version it
\* names, however the game, the tracker and the recoveries moved the client
\* while they were fetched one by one.
PublishedTogether ==
  published.files # << >> =>
    /\ published.candidate = Version(published.candidate.data)
    /\ \A i \in DOMAIN published.files : published.files[i] = published.candidate.data

\* No cycle replaces a published version by an earlier one, although abandoned
\* jobs put an earlier session back.
NeverBackwards ==
  [][published'.candidate.data >= published.candidate.data]_published

\* When the game has come to rest its version is published in the end, by
\* whichever request first learns of it, and though /system need not name the
\* data version.
NewVersionPublished == <>[](published.candidate = Version(Len(Builds)))

=============================================================================
