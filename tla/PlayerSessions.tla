--------------------------- MODULE PlayerSessions ---------------------------
(***************************************************************************)
(* The sessions of one player (one UUID): login, admission, the move to    *)
(* another domain, disconnection and the server's shutdown                 *)
(* (server/player_admission.rs, server/jobs/domain_switch.rs,              *)
(* server/world_changes.rs, player/lifecycle, steel-login).                *)
(*                                                                         *)
(* Everything that touches a live player runs on the game thread, in the   *)
(* order of its tick; `game` is where that thread is.  Around it run the   *)
(* connection tasks (login, configuration, closing), the tasks that load   *)
(* and save player data, and the chunk system that prepares a spawn.  They *)
(* meet in the admission entry of the UUID, which says that a join, a      *)
(* relocation or a disconnect save owns the player, and in the table of    *)
(* online players.                                                         *)
(*                                                                         *)
(* Player data is a version number per domain; `newest` and `resides` are  *)
(* ghosts: the last version played, taken back to what is on disk when its *)
(* save fails, and the domain the player was last in, joined by what is on *)
(* disk when its save fails; the server only logs either failure.          *)
(* A lease token is represented by the request or job that holds it.       *)
(***************************************************************************)
EXTENDS Naturals, FiniteSets

CONSTANTS
  Sessions,     \* connections that log in with the UUID, one after another or at once
  Domains,      \* groups of worlds with their own player data
  Home,         \* WorldManager::default_domain
  NoSession,
  NoDomain,
  MaxPlays,     \* bound: changes to player data in each domain
  MaxSwitches,  \* bound: requested domain switches
  MaxFailures   \* bound: failing loads, saves and spawn preparations

ASSUME SessionAssumption ==
  Home \in Domains /\ NoSession \notin Sessions /\ NoDomain \notin Domains

VARIABLES
  stage,      \* how far each connection is: login, configuration, join pipeline
  closed,     \* NetworkConnection::closed
  loaded,     \* the state a join pipeline has loaded
  admission,  \* Server::player_admissions of the UUID
  online,     \* Server::online_players of the UUID
  member,     \* sessions in a world's player index
  dom,        \* domain of Player::world
  live,       \* version of the player data a session holds in memory
  switch,     \* PlayerLifecycleState::domain_switch
  lease,      \* EntityLifecycle::pending_world_change
  requests,   \* Server::pending_domain_switches
  job,        \* the DomainSwitchJob of each session
  saves,      \* prepared and running disconnect saves
  disk,       \* saved version of each domain's player data
  global,     \* saved last_active_domain
  game,       \* phase of the game thread
  cancelled,  \* the server's cancel token
  newest, resides, switches, failures

vars == <<stage, closed, loaded, admission, online, member, dom, live, switch, lease,
          requests, job, saves, disk, global, game, cancelled, newest, resides, switches, failures>>

login   == <<stage, loaded>>
play    == <<member, dom, live>>
moving  == <<switch, lease, requests, job, switches>>
storage == <<disk, global, newest, resides>>

NoJob == [phase |-> "none", task |-> "none", target |-> Home, version |-> 0, found |-> 0]

Init ==
  /\ stage = [s \in Sessions |-> "idle"]
  /\ closed = [s \in Sessions |-> FALSE]
  /\ loaded = [s \in Sessions |-> [domain |-> Home, version |-> 0]]
  /\ admission = "none" /\ online = NoSession
  /\ member = {}
  /\ dom = [s \in Sessions |-> Home]
  /\ live = [s \in Sessions |-> 0]
  /\ switch = [s \in Sessions |-> "none"]
  /\ lease = {} /\ requests = {}
  /\ job = [s \in Sessions |-> NoJob]
  /\ saves = {}
  /\ disk = [d \in Domains |-> 0]
  /\ global = NoDomain
  /\ game = "open" /\ cancelled = FALSE
  /\ newest = [d \in Domains |-> 0]
  /\ resides = {NoDomain}
  /\ switches = 0 /\ failures = 0

Fail == failures < MaxFailures /\ failures' = failures + 1

\* player_admission_changed.notify_waiters, with the caller's own stage change.
\* A waiter registers before it looks, so no notification is lost.
Woken(st) == [s \in Sessions |-> IF st[s] = "waiting" THEN "login" ELSE st[s]]
Notify == stage' = Woken(stage)
Leave(s) == [stage EXCEPT ![s] = "left"]

-----------------------------------------------------------------------------
(* Login and configuration: the connection's own task.                     *)

\* A client says hello and is verified; its login deadline runs.
Hello(s) ==
  /\ stage[s] = "idle" /\ ~cancelled
  /\ stage' = [stage EXCEPT ![s] = "login"]
  /\ UNCHANGED <<closed, loaded, admission, online, play, moving, saves, storage, game, cancelled, failures>>

\* One turn of disconnect_duplicate_player_and_wait: both tables are read under
\* the admission lock, an older session is told to leave, and the login waits.
LookForDuplicate(s) ==
  /\ stage[s] = "login"
  /\ IF online = NoSession /\ admission = "none"
     THEN /\ stage' = [stage EXCEPT ![s] = "config"]
          /\ UNCHANGED closed
     ELSE /\ stage' = [stage EXCEPT ![s] = "waiting"]
          /\ closed' = [t \in Sessions |-> closed[t] \/ t = online]
  /\ UNCHANGED <<loaded, admission, online, play, moving, saves, storage, game, cancelled, failures>>

\* The wait ends without admission: the connection or the server stopped, or
\* the login deadline passed.
GiveUpWaiting(s) ==
  /\ stage[s] = "waiting"
  /\ closed' = [closed EXCEPT ![s] = TRUE]
  /\ stage' = Leave(s)
  /\ UNCHANGED <<loaded, admission, online, play, moving, saves, storage, game, cancelled, failures>>

\* finish_configuration: reserve the UUID, or be kicked as a duplicate.
FinishConfiguration(s) ==
  /\ stage[s] = "config" /\ ~closed[s]
  /\ IF admission = "none" /\ online = NoSession
     THEN /\ admission' = "Joining"
          /\ stage' = [stage EXCEPT ![s] = "reserved"]
          /\ UNCHANGED closed
     ELSE /\ closed' = [closed EXCEPT ![s] = TRUE]
          /\ stage' = Leave(s)
          /\ UNCHANGED admission
  /\ UNCHANGED <<loaded, online, play, moving, saves, storage, game, cancelled, failures>>

ReleaseAdmission(state) == admission' = IF admission = state THEN "none" ELSE admission

\* Mutant: a closed connection leaves its reservation behind.
QueueJoinKeepsReservation(s) ==
  /\ stage[s] = "reserved"
  /\ stage' = IF closed[s] THEN Leave(s) ELSE [stage EXCEPT ![s] = "loading"]
  /\ UNCHANGED <<closed, loaded, admission, online, play, moving, saves, storage, game, cancelled, failures>>

\* The reservation goes to the join pipeline, or is dropped with a closed
\* connection; dropping it releases the UUID.
QueueJoin(s) ==
  /\ stage[s] = "reserved"
  /\ IF closed[s]
     THEN /\ ReleaseAdmission("Joining")
          /\ stage' = Woken(Leave(s))
     ELSE /\ stage' = [stage EXCEPT ![s] = "loading"]
          /\ UNCHANGED admission
  /\ UNCHANGED <<closed, loaded, online, play, moving, saves, storage, game, cancelled, failures>>

\* prepare_and_queue_player_join: the last active domain, then its data.
LoadJoinDomain(s) ==
  /\ stage[s] = "loading"
  /\ \/ /\ loaded' = [loaded EXCEPT ![s].domain = IF global = NoDomain THEN Home ELSE global]
        /\ stage' = [stage EXCEPT ![s] = "loadingDomain"]
        /\ UNCHANGED failures
     \/ Fail /\ stage' = [stage EXCEPT ![s] = "failed"] /\ UNCHANGED loaded
  /\ UNCHANGED <<closed, admission, online, play, moving, saves, storage, game, cancelled>>

LoadDomainState(s) ==
  /\ stage[s] = "loadingDomain"
  /\ \/ /\ loaded' = [loaded EXCEPT ![s].version = disk[loaded[s].domain]]
        /\ stage' = [stage EXCEPT ![s] = "prepared"]
        /\ UNCHANGED failures
     \/ Fail /\ stage' = [stage EXCEPT ![s] = "failed"] /\ UNCHANGED loaded
  /\ UNCHANGED <<closed, admission, online, play, moving, saves, storage, game, cancelled>>

\* The client goes away, at any moment.
Close(s) ==
  /\ stage[s] \notin {"idle", "left"} /\ ~closed[s]
  /\ closed' = [closed EXCEPT ![s] = TRUE]
  /\ stage' = IF stage[s] \in {"login", "config"} THEN Leave(s) ELSE stage
  /\ UNCHANGED <<loaded, admission, online, play, moving, saves, storage, game, cancelled, failures>>

-----------------------------------------------------------------------------
(* Live players: packets between ticks, commands and world ticks.          *)

Live(s) == online = s /\ s \in member

PlayOn(s) ==
  /\ game \in {"open", "tick"}
  /\ Live(s)
  /\ live[s] < MaxPlays
  /\ live' = [live EXCEPT ![s] = @ + 1]
  /\ newest' = [newest EXCEPT ![dom[s]] = live[s] + 1]
  /\ UNCHANGED <<login, closed, admission, online, member, dom, moving, saves, disk, global, resides,
                 game, cancelled, failures>>

\* queue_domain_switch / queue_player_world_selection across domains.  A second
\* request while the lease or the last switch is held is refused unchanged.
QueueDomainSwitch(s, d) ==
  /\ game \in {"open", "tick"} /\ switches < MaxSwitches
  /\ Live(s) /\ ~closed[s] /\ d # dom[s]
  /\ s \notin lease /\ switch[s] = "none"
  /\ lease' = lease \cup {s}
  /\ switch' = [switch EXCEPT ![s] = "Queued"]
  /\ requests' = requests \cup {[session |-> s, target |-> d]}
  /\ switches' = switches + 1
  /\ UNCHANGED <<login, closed, admission, online, play, job, saves, storage, game, cancelled, failures>>

-----------------------------------------------------------------------------
(* The domain switch's storage task and spawn preparation.                 *)

Task(s, now, then) == job[s].task = now /\ job' = [job EXCEPT ![s].task = then]

\* DomainSwitchJob::new: save the source domain's data ...
SaveSource(s) ==
  /\ \/ /\ Task(s, "save", "load")
        /\ disk' = [disk EXCEPT ![dom[s]] = job[s].version]
        /\ UNCHANGED failures
     \/ Task(s, "save", "failed") /\ Fail /\ UNCHANGED disk
  /\ UNCHANGED <<login, closed, admission, online, play, switch, lease, requests, switches, saves, global,
                 newest, resides, game, cancelled>>

\* ... then load the target's.
LoadTarget(s) ==
  /\ job[s].task = "load"
  /\ \/ /\ job' = [job EXCEPT ![s].task = "done", ![s].found = disk[job[s].target]]
        /\ UNCHANGED failures
     \/ Task(s, "load", "failed") /\ Fail
  /\ UNCHANGED <<login, closed, admission, online, play, switch, lease, requests, switches, saves, storage,
                 game, cancelled>>

\* The spawn search and the chunk request end, ready or cancelled.
PrepareSpawn(s) ==
  /\ \/ Task(s, "spawn", "ready") /\ UNCHANGED failures
     \/ Task(s, "spawn", "failed") /\ Fail
  /\ UNCHANGED <<login, closed, admission, online, play, switch, lease, requests, switches, saves, storage,
                 game, cancelled>>

\* The last task of a switch records the active domain; a failure is logged.
SaveActiveDomain(s) ==
  /\ Task(s, "global", "saved")
  /\ \/ global' = job[s].target /\ UNCHANGED failures
     \/ Fail /\ UNCHANGED global
  /\ UNCHANGED <<login, closed, admission, online, play, switch, lease, requests, switches, saves, disk,
                 newest, resides, game, cancelled>>

-----------------------------------------------------------------------------
(* Disconnect saves: a task each.                                          *)

\* save_disconnected_player: the domain's data, then the active domain, whether
\* or not the first could be written, and only then the admission.
SaveDomainData(v) ==
  /\ v \in saves /\ v.step = "domain"
  /\ saves' = (saves \ {v}) \cup {[v EXCEPT !.step = "global"]}
  /\ \/ /\ disk' = [disk EXCEPT ![v.domain] = v.version]
        /\ UNCHANGED <<newest, failures>>
     \/ /\ Fail
        /\ newest' = [newest EXCEPT ![v.domain] = disk[v.domain]]
        /\ UNCHANGED disk
  /\ UNCHANGED <<login, closed, admission, online, play, moving, global, resides, game, cancelled>>

SaveGlobal(v) ==
  /\ v \in saves /\ v.step = "global"
  /\ saves' = saves \ {v}
  /\ \/ global' = v.domain /\ UNCHANGED <<resides, failures>>
     \/ Fail /\ resides' = resides \cup {global} /\ UNCHANGED global
  /\ ReleaseAdmission("Disconnecting")
  /\ Notify
  /\ UNCHANGED <<closed, loaded, online, play, moving, disk, newest, game, cancelled>>

-----------------------------------------------------------------------------
(* The game thread.                                                        *)

gameOnly == <<login, closed, admission, online, play, moving, saves, storage, cancelled, failures>>

CancelServer ==
  /\ ~cancelled /\ cancelled' = TRUE
  /\ UNCHANGED <<login, closed, admission, online, play, moving, saves, storage, game, failures>>

\* The loop leaves at the top of a tick, or when a world's tick fails.
BeginTick ==
  /\ game = "open"
  /\ game' = IF cancelled THEN "stopping" ELSE "disconnects"
  /\ UNCHANGED gameOnly

TickWorlds ==
  /\ game = "tick"
  /\ \/ game' = "jobs" /\ UNCHANGED <<cancelled, failures>>
     \/ Fail /\ cancelled' = TRUE /\ game' = "stopping"
  /\ UNCHANGED <<login, closed, admission, online, play, moving, saves, storage>>

\* drain_prepared: the saves that jobs have prepared start.
StartedSaves == {[v EXCEPT !.step = IF @ = "prepared" THEN "domain" ELSE @] : v \in saves}

\* Mutant: a relocation does not hold the disconnect off.
MayDisconnectAlways(s) == online = s

\* reserve_player_disconnect: this very session is online and nothing else owns it.
MayDisconnect(s) == online = s /\ admission = "none"

\* start_player_disconnect_saves, before a tick and after the last one: prepared
\* saves start, and an online player whose connection is closed is reserved,
\* detached and snapshotted.  queue_player_disconnect only names a player early
\* that this scan finds anyway.
ScanDisconnects(from, removing, done) ==
  /\ game = from
  /\ IF \E s \in Sessions : closed[s] /\ MayDisconnect(s)
     THEN /\ admission' = "Disconnecting"
          /\ member' = member \ {online}
          /\ game' = removing
          /\ UNCHANGED saves
     ELSE /\ saves' = StartedSaves
          /\ game' = done
          /\ UNCHANGED <<admission, member>>
  /\ UNCHANGED <<login, closed, online, dom, live, moving, storage, cancelled, failures>>

\* The reserved player leaves the online table and its save task starts.
RemoveOnline(removing, done) ==
  /\ game = removing
  /\ online' = NoSession
  /\ saves' = StartedSaves \cup
       {[session |-> online, domain |-> dom[online], version |-> live[online], step |-> "domain"]}
  /\ Notify
  /\ game' = done
  /\ UNCHANGED <<closed, loaded, admission, play, moving, storage, cancelled, failures>>

\* Mutant: trusts the save the aborted task had begun.
DisconnectSourceUnsaved(s) ==
  /\ closed' = [closed EXCEPT ![s] = TRUE]
  /\ switch' = [switch EXCEPT ![s] = "none"]
  /\ lease' = lease \ {s}
  /\ job' = [job EXCEPT ![s] = NoJob]
  /\ admission' = "none" /\ online' = NoSession /\ Notify
  /\ UNCHANGED <<saves, play, storage>>

\* queue_relocating_player_disconnect: the relocation's admission becomes the
\* disconnect's and the source snapshot is what will be saved.
DisconnectSource(s) ==
  /\ closed' = [closed EXCEPT ![s] = TRUE]
  /\ switch' = [switch EXCEPT ![s] = "none"]
  /\ lease' = lease \ {s}
  /\ job' = [job EXCEPT ![s] = NoJob]
  /\ IF admission = "Relocating" /\ online = s
     THEN /\ admission' = "Disconnecting"
          /\ online' = NoSession
          /\ saves' = saves \cup {[session |-> s, domain |-> dom[s], version |-> job[s].version,
                                   step |-> "prepared"]}
          /\ Notify
     ELSE UNCHANGED <<admission, online, saves, stage>>
  /\ UNCHANGED <<play, storage>>

\* A switch whose target is already live only gives its tokens back.
DropFinalSave(s) ==
  /\ switch' = [switch EXCEPT ![s] = "none"]
  /\ lease' = lease \ {s}
  /\ job' = [job EXCEPT ![s] = NoJob]
  /\ UNCHANGED <<closed, admission, online, saves, stage, play, storage>>

FinishSourceDisconnect(s) ==
  IF job[s].phase = "source" THEN DisconnectSource(s) ELSE DropFinalSave(s)

\* commit_target_state: reset, apply the target's data, enter its world, give
\* the lease and the admission back, and start recording the active domain.
CommitTarget(s) ==
  /\ dom' = [dom EXCEPT ![s] = job[s].target]
  /\ live' = [live EXCEPT ![s] = job[s].found]
  /\ member' = member \cup {s}
  /\ resides' = {job[s].target}
  /\ lease' = lease \ {s}
  /\ switch' = [switch EXCEPT ![s] = "Finalizing"]
  /\ ReleaseAdmission("Relocating") /\ Notify
  /\ job' = [job EXCEPT ![s].phase = "target", ![s].task = "global"]
  /\ UNCHANGED <<closed, online, saves, disk, global, newest>>

\* DomainSwitchJob::poll, in the order of its checks.
PollDomainSwitch(s) ==
  LET j == job[s] IN
  CASE closed[s] \/ j.task = "failed"        -> FinishSourceDisconnect(s)
    [] ~closed[s] /\ j.task = "done"         -> /\ job' = [job EXCEPT ![s].task = "spawn"]
                                                /\ UNCHANGED <<closed, admission, online, saves, stage,
                                                               switch, lease, play, storage>>
    [] ~closed[s] /\ j.task = "ready"        -> CommitTarget(s)
    [] ~closed[s] /\ j.task = "saved"        -> DropFinalSave(s)
    [] OTHER -> UNCHANGED <<closed, admission, online, saves, stage, switch, lease, job, play, storage>>

Jobs == {s \in Sessions : job[s].phase # "none"}

\* ServerJobQueue::tick.
TickJobs ==
  /\ game = "jobs" /\ game' = "joins"
  /\ IF Jobs = {}
     THEN UNCHANGED <<closed, admission, online, saves, stage, switch, lease, job, play, storage>>
     ELSE \E s \in Jobs : PollDomainSwitch(s)
  /\ UNCHANGED <<loaded, requests, switches, cancelled, failures>>

\* finish_prepared_player_join: a closed or failed join gives its reservation
\* back, any other is admitted, restored and spawned.
FinishJoin(s) ==
  IF closed[s] \/ stage[s] = "failed"
  THEN /\ ReleaseAdmission("Joining")
       /\ stage' = Woken(Leave(s))
       /\ closed' = [closed EXCEPT ![s] = TRUE]
       /\ UNCHANGED <<online, play, resides>>
  ELSE /\ admission = "Joining" /\ admission' = "none"
       /\ online' = s
       /\ stage' = Woken([stage EXCEPT ![s] = "online"])
       /\ member' = member \cup {s}
       /\ dom' = [dom EXCEPT ![s] = loaded[s].domain]
       /\ live' = [live EXCEPT ![s] = loaded[s].version]
       /\ resides' = {loaded[s].domain}
       /\ UNCHANGED closed

\* process_player_joins drains the channel.
ProcessJoins ==
  /\ game = "joins"
  /\ LET ready == {s \in Sessions : stage[s] \in {"prepared", "failed"}} IN
     IF ready = {}
     THEN game' = "switches" /\ UNCHANGED <<stage, closed, admission, online, play, resides>>
     ELSE game' = game /\ \E s \in ready : FinishJoin(s)
  /\ UNCHANGED <<loaded, moving, saves, disk, global, newest, cancelled, failures>>

\* start_domain_switch: reserve the player, detach it with a snapshot, spawn the job.
StartDomainSwitch(r) ==
  LET s == r.session IN
  /\ ~closed[s] /\ switch[s] = "Queued" /\ s \in lease
  /\ Live(s) /\ admission = "none"
  /\ admission' = "Relocating"
  /\ switch' = [switch EXCEPT ![s] = "Detached"]
  /\ member' = member \ {s}
  /\ job' = [job EXCEPT ![s] = [phase |-> "source", task |-> "save", target |-> r.target,
                                version |-> live[s], found |-> 0]]
  /\ UNCHANGED lease

\* The switch is refused (the player closed, left, died, or has a menu open)
\* and its tokens are cleared.
RefuseDomainSwitch(r) ==
  /\ switch' = [switch EXCEPT ![r.session] = "none"]
  /\ lease' = lease \ {r.session}
  /\ UNCHANGED <<admission, member, job>>

ProcessDomainSwitches ==
  /\ game = "switches"
  /\ IF requests = {}
     THEN game' = "open" /\ UNCHANGED <<switch, lease, requests, admission, member, job>>
     ELSE \E r \in requests :
            /\ game' = game
            /\ requests' = requests \ {r}
            /\ StartDomainSwitch(r) \/ RefuseDomainSwitch(r)
  /\ UNCHANGED <<login, closed, online, dom, live, switches, saves, storage, cancelled, failures>>

\* jobs.cancel_all: a switch that still holds the source data disconnects its
\* player with it; a finished one gives its tokens back.
CancelJobs ==
  /\ game = "stopping" /\ game' = "lastScan"
  /\ IF Jobs = {}
     THEN UNCHANGED <<closed, admission, online, saves, stage, switch, lease, job, play, storage>>
     ELSE \E s \in Jobs : FinishSourceDisconnect(s)
  /\ UNCHANGED <<loaded, requests, switches, cancelled, failures>>

\* Mutant: the running saves are not joined.
ShutdownWorldsAtOnce ==
  /\ game = "lastSaves"
  /\ game' = "worlds"
  /\ closed' = [s \in Sessions |-> closed[s] \/ s = online]
  /\ saves' = {[session |-> s, domain |-> dom[s], version |-> live[s], step |-> "domain"] :
                 s \in {online} \cap Sessions}
  /\ UNCHANGED <<login, admission, online, play, moving, storage, cancelled, failures>>

\* The game thread joins the running saves.  shutdown_worlds then closes,
\* snapshots and saves whoever is still online.
ShutdownWorlds ==
  /\ game = "lastSaves" /\ saves = {}
  /\ game' = "worlds"
  /\ closed' = [s \in Sessions |-> closed[s] \/ s = online]
  /\ saves' = {[session |-> s, domain |-> dom[s], version |-> live[s], step |-> "domain"] :
                 s \in {online} \cap Sessions}
  /\ UNCHANGED <<login, admission, online, play, moving, storage, cancelled, failures>>

StopServer ==
  /\ game = "worlds" /\ saves = {}
  /\ game' = "ended"
  /\ UNCHANGED gameOnly

GameThread ==
  \/ BeginTick
  \/ ScanDisconnects("disconnects", "removing", "tick") \/ RemoveOnline("removing", "tick")
  \/ TickWorlds \/ TickJobs \/ ProcessJoins \/ ProcessDomainSwitches
  \/ CancelJobs
  \/ ScanDisconnects("lastScan", "lastRemoving", "lastSaves") \/ RemoveOnline("lastRemoving", "lastSaves")
  \/ ShutdownWorlds \/ StopServer

Connection(s) ==
  LookForDuplicate(s) \/ FinishConfiguration(s) \/ QueueJoin(s) \/ LoadJoinDomain(s) \/ LoadDomainState(s)

Tasks(s) == SaveSource(s) \/ LoadTarget(s) \/ PrepareSpawn(s) \/ SaveActiveDomain(s)

Save == \E v \in saves : SaveDomainData(v) \/ SaveGlobal(v)

Next ==
  \/ \E s \in Sessions : \/ Hello(s) \/ GiveUpWaiting(s) \/ Close(s) \/ Connection(s) \/ PlayOn(s) \/ Tasks(s)
                         \/ \E d \in Domains : QueueDomainSwitch(s, d)
  \/ Save \/ CancelServer \/ GameThread

Spec == Init /\ [][Next]_vars

\* The game thread, the storage tasks, the chunk system and a connection that is
\* past its handshake keep running; clients, commands and the cancel token need not.
Fairness ==
  /\ WF_vars(GameThread) /\ WF_vars(Save)
  /\ \A s \in Sessions : WF_vars(Connection(s)) /\ WF_vars(Tasks(s))

FairSpec == Spec /\ Fairness

-----------------------------------------------------------------------------

Pipeline == {"reserved", "loading", "loadingDomain", "prepared", "failed"}

\* Every admission entry has exactly one owner that will give it back: a join
\* pipeline holds Joining, a switch with its source data Relocating, and one
\* disconnect, about to leave the table or being saved, Disconnecting.  Only
\* the online session is in a world, and not while anyone else owns it; a lease
\* is held by a queued request or by a switch on its way (player_admissions,
\* pending_world_change).
OwnersMatch ==
  /\ admission \in {"none", "Joining", "Relocating", "Disconnecting"}
  /\ LET joins    == {s \in Sessions : stage[s] \in Pipeline}
         switching == {s \in Sessions : job[s].phase = "source"}
         leaving  == IF game \in {"removing", "lastRemoving"} THEN {online} ELSE {}
         saving   == IF game = "worlds" THEN {} ELSE saves
     IN  /\ Cardinality(joins) = (IF admission = "Joining" THEN 1 ELSE 0)
         /\ Cardinality(switching) = (IF admission = "Relocating" THEN 1 ELSE 0)
         /\ Cardinality(leaving) + Cardinality(saving) = (IF admission = "Disconnecting" THEN 1 ELSE 0)
         /\ switching \subseteq {online}
  /\ Cardinality(Jobs) <= 1
  /\ member \subseteq (IF admission = "none" THEN {online} ELSE {})
  /\ lease = {r.session : r \in requests} \cup {s \in Sessions : job[s].phase = "source"}

\* No rollback: a session that lives in a domain holds the newest data ever
\* played there, across replaced sessions, switches there and back, and
\* switches that were abandoned half way, until the server shuts its worlds down.
LatestIsLive ==
  game \notin {"worlds", "ended"} => \A s \in member : live[s] = newest[dom[s]]

\* When nobody is online and nobody is leaving, and when the server has ended,
\* the disk holds what was last played in every domain and the domain the
\* player was last in: also for a player who closed in the middle of a switch
\* and for everyone online at shutdown.
LeftIsSaved ==
  \/ online = NoSession /\ admission \in {"none", "Joining"}
  \/ game = "ended"
  => disk = newest /\ global \in resides

\* Nobody keeps the UUID for ever: an admission is given back, a player whose
\* connection closed leaves the table, and a switch gives its lease back, or
\* the server ends; and a cancelled server does end.
SessionsEnd ==
  /\ admission # "none" ~> admission = "none" \/ game = "ended"
  /\ \A s \in Sessions : online = s /\ closed[s] ~> online # s \/ game = "ended"
  /\ lease # {} ~> lease = {} \/ game = "ended"
  /\ cancelled ~> game = "ended"

=============================================================================
