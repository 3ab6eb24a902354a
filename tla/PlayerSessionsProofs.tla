------------------------ MODULE PlayerSessionsProofs ------------------------
(***************************************************************************)
(* For any number of connections, domains, switches and failures: every    *)
(* admission has one owner, nobody plays with stale data, and a player who *)
(* left is saved.                                                          *)
(***************************************************************************)
EXTENDS PlayerSessions, FiniteSetTheorems, TLAPS

Stages == {"idle", "login", "waiting", "config", "online", "left"} \cup Pipeline
SourceTasks == {"save", "load", "done", "spawn", "ready", "failed"}
TargetTasks == {"global", "saved"}
Early == {"open", "disconnects", "removing", "tick", "jobs", "joins", "switches", "stopping"}
Late == {"lastScan", "lastRemoving", "lastSaves", "worlds", "ended"}
JobType == [phase : {"none", "source", "target"}, task : {"none"} \cup SourceTasks \cup TargetTasks,
            target : Domains, version : Nat, found : Nat]
SaveType == [session : Sessions, domain : Domains, version : Nat,
             step : {"prepared", "domain", "global"}]

Types ==
  /\ stage \in [Sessions -> Stages]
  /\ closed \in [Sessions -> BOOLEAN]
  /\ loaded \in [Sessions -> [domain : Domains, version : Nat]]
  /\ admission \in {"none", "Joining", "Relocating", "Disconnecting"}
  /\ online \in Sessions \cup {NoSession}
  /\ member \in SUBSET Sessions
  /\ dom \in [Sessions -> Domains]
  /\ live \in [Sessions -> Nat]
  /\ switch \in [Sessions -> {"none", "Queued", "Detached", "Finalizing"}]
  /\ requests \in SUBSET [session : Sessions, target : Domains]
  /\ job \in [Sessions -> JobType]
  /\ saves \in SUBSET SaveType
  /\ disk \in [Domains -> Nat]
  /\ newest \in [Domains -> Nat]
  /\ global \in Domains \cup {NoDomain}
  /\ game \in Early \cup Late

Joins == {s \in Sessions : stage[s] \in Pipeline}
Switching == {s \in Sessions : job[s].phase = "source"}
Leaving == game \in {"removing", "lastRemoving"}

\* Who owns the UUID.
AdmissionInv ==
  /\ admission = "none" =>
       /\ Joins = {} /\ Switching = {} /\ ~Leaving
       /\ member = {online} \cap Sessions
       /\ game # "worlds" => saves = {}
  /\ admission = "Joining" =>
       /\ (\E s \in Sessions : Joins = {s}) /\ Switching = {} /\ ~Leaving
       /\ online = NoSession /\ member = {} /\ saves = {}
  /\ admission = "Relocating" =>
       /\ Joins = {} /\ online \in Sessions /\ Switching = {online} /\ ~Leaving
       /\ member = {} /\ saves = {}
  /\ admission = "Disconnecting" =>
       /\ Joins = {} /\ Switching = {} /\ member = {} /\ game \notin {"worlds", "ended"}
       /\ \/ Leaving /\ online \in Sessions /\ closed[online] /\ saves = {}
          \/ ~Leaving /\ online = NoSession /\ \E v \in saves : saves = {v}
  /\ game = "worlds" /\ saves # {} => online \in Sessions /\ \E v \in saves : saves = {v}

\* Where the switch of a session is, as its request, its token and its job say.
SwitchInv ==
  /\ \A s \in Sessions :
       /\ job[s].phase = "none" => job[s].task = "none"
       /\ job[s].phase = "source" <=> job[s].task \in SourceTasks
       /\ job[s].phase = "source" <=> switch[s] = "Detached"
       /\ job[s].phase = "target" <=> job[s].task \in TargetTasks
       /\ job[s].phase = "target" <=> switch[s] = "Finalizing"
  /\ \A r \in requests : switch[r.session] = "Queued"
  /\ \A r, q \in requests : r.session = q.session => r = q
  /\ lease = {r.session : r \in requests} \cup Switching

\* A job belongs to the online session, or to one that has just left and is dropped in the
\* same tick.
JobInv ==
  /\ \A s, t \in Jobs : s = t
  /\ \A s \in Jobs : \/ online = s
                     \/ online = NoSession /\ closed[s] /\ game \in {"tick", "jobs", "stopping"}
  /\ game \in Late => Jobs = {}

Clean(d) == disk[d] = newest[d]

\* Who holds the newest data of the domain that is not on disk.
DataInv ==
  /\ \A v \in saves :
       /\ \A d \in Domains \ {v.domain} : Clean(d)
       /\ IF v.step = "global" THEN Clean(v.domain) ELSE v.version = newest[v.domain]
  /\ saves = {} /\ online \in Sessions /\ game \notin {"worlds", "ended"} =>
       /\ \A d \in Domains \ {dom[online]} : Clean(d)
       /\ IF admission = "Relocating"
          THEN /\ job[online].version = newest[dom[online]]
               /\ job[online].task \in {"save", "failed"} \/ Clean(dom[online])
               /\ job[online].task \in {"done", "spawn", "ready"} =>
                    job[online].found = newest[job[online].target]
          ELSE live[online] = newest[dom[online]]
  /\ saves = {} /\ (online = NoSession \/ game \in {"worlds", "ended"}) => \A d \in Domains : Clean(d)
  /\ \A s \in Sessions : stage[s] = "prepared" => loaded[s].version = newest[loaded[s].domain]

\* Whoever is going to record the active domain records the right one.
ResideInv ==
  /\ saves = {} /\ (online = NoSession \/ game \in {"worlds", "ended"}) => global \in resides
  /\ \A v \in saves : v.domain \in resides
  /\ online \in Sessions => dom[online] \in resides
  /\ \A s \in Sessions : job[s].task = "global" => job[s].target \in resides

SessionInv == Types /\ AdmissionInv /\ SwitchInv /\ JobInv /\ DataInv /\ ResideInv

----------------------------------------------------------------------------
\* Waiting logins that are woken stay outside the join pipeline.
LEMMA WokenStages ==
  ASSUME NEW st \in [Sessions -> Stages]
  PROVE  /\ Woken(st) \in [Sessions -> Stages]
         /\ \A s \in Sessions : /\ Woken(st)[s] \in Pipeline <=> st[s] \in Pipeline
                                /\ Woken(st)[s] = "prepared" <=> st[s] = "prepared"
<1>1. \A s \in Sessions : Woken(st)[s] = IF st[s] = "waiting" THEN "login" ELSE st[s]
  BY Zenon DEF Woken
<1>2. "login" \in Stages /\ "login" \notin Pipeline /\ "waiting" \notin Pipeline
  BY DEF Stages, Pipeline
<1>3. Woken(st) \in [Sessions -> Stages]
  BY <1>2 DEF Woken
<1>4. QED
  BY <1>1, <1>2, <1>3

\* The variables that say who owns the player.
owners == <<admission, online, member, saves, game>>
data == <<dom, live, disk, global, newest, resides>>

\* Steps of connections: they may close, load and move between stages outside the pipeline or
\* within it.
LEMMA ConnectionKeeps ==
  ASSUME SessionInv, stage' \in [Sessions -> Stages], closed' \in [Sessions -> BOOLEAN],
         loaded' \in [Sessions -> [domain : Domains, version : Nat]],
         \A s \in Sessions : closed[s] => closed'[s],
         \A s \in Sessions : stage'[s] \in Pipeline <=> stage[s] \in Pipeline,
         \A s \in Sessions : stage'[s] = "prepared" => loaded'[s].version = newest[loaded'[s].domain],
         UNCHANGED <<owners, data>>, UNCHANGED <<switch, lease, requests, job>>
  PROVE  SessionInv'
<1>1. Types /\ AdmissionInv /\ SwitchInv /\ JobInv /\ DataInv /\ ResideInv
  BY Zenon DEF SessionInv
<1>2. /\ UNCHANGED <<admission, online, member, saves, game, dom, live, disk, global>>
      /\ UNCHANGED <<newest, resides, switch, lease, requests, job>>
  BY Zenon DEF owners, data
<1>3. Joins' = Joins /\ Switching' = Switching /\ Jobs' = Jobs /\ Leaving' = Leaving
  BY Zenon, <1>2 DEF Joins, Switching, Jobs, Leaving
<1>4. Types'
  BY Zenon, <1>1, <1>2 DEF Types
<1>5. AdmissionInv'
  BY Zenon, <1>1, <1>2, <1>3 DEF AdmissionInv
<1>6. SwitchInv'
  BY ZenonT(90), <1>1, <1>2, <1>3 DEF SwitchInv
<1>7. JobInv'
  <2>1. Jobs \subseteq Sessions
    BY Zenon DEF Jobs
  <2>2. QED
    BY Zenon, <1>1, <1>2, <1>3, <2>1 DEF JobInv
<1>8. DataInv'
  <2>1. \A d : Clean(d)' <=> Clean(d)
    BY Zenon, <1>2 DEF Clean
  <2>2. QED
    BY Zenon, <1>1, <1>2, <2>1 DEF DataInv
<1>9. ResideInv'
  BY Zenon, <1>1, <1>2 DEF ResideInv
<1>10. QED
  BY Zenon, <1>4, <1>5, <1>6, <1>7, <1>8, <1>9 DEF SessionInv

\* A step that changes nothing the invariant is about.
LEMMA IdleKeeps ==
  ASSUME SessionInv, UNCHANGED <<owners, data>>, UNCHANGED <<switch, lease, requests, job>>,
         UNCHANGED <<stage, closed, loaded>>
  PROVE  SessionInv'
<1>1. Types /\ DataInv
  BY Zenon DEF SessionInv
<1>2. stage' = stage /\ closed' = closed /\ loaded' = loaded /\ newest' = newest
  BY Zenon DEF data
<1>3. /\ stage' \in [Sessions -> Stages] /\ closed' \in [Sessions -> BOOLEAN]
      /\ loaded' \in [Sessions -> [domain : Domains, version : Nat]]
  BY Zenon, <1>1, <1>2 DEF Types
<1>4. \A s \in Sessions : stage'[s] = "prepared" => loaded'[s].version = newest[loaded'[s].domain]
  BY Zenon, <1>1, <1>2 DEF DataInv
<1>5. /\ \A s \in Sessions : closed[s] => closed'[s]
      /\ \A s \in Sessions : stage'[s] \in Pipeline <=> stage[s] \in Pipeline
  BY Zenon, <1>2
<1>6. QED
  BY Zenon, <1>3, <1>4, <1>5, ConnectionKeeps

\* Hello, the wait for a duplicate session, and a client that goes away.
LEMMA LoginKeeps ==
  ASSUME SessionInv, NEW s \in Sessions,
         Hello(s) \/ LookForDuplicate(s) \/ GiveUpWaiting(s) \/ Close(s)
  PROVE  SessionInv'
<1>1. Types /\ DataInv
  BY Zenon DEF SessionInv
<1>2. /\ UNCHANGED <<owners, data>> /\ UNCHANGED <<switch, lease, requests, job>> /\ loaded' = loaded
  BY Zenon DEF Hello, LookForDuplicate, GiveUpWaiting, Close, owners, data, play, moving, storage
<1>3. stage[s] \notin Pipeline \/ stage' = stage
  BY <1>1 DEF Types, Hello, LookForDuplicate, GiveUpWaiting, Close, Pipeline
<1>4. \/ stage' = stage
      \/ \E x \in {"login", "config", "waiting", "left"} : stage' = [stage EXCEPT ![s] = x]
  BY DEF Hello, LookForDuplicate, GiveUpWaiting, Close, Leave
<1>5. /\ stage' \in [Sessions -> Stages]
      /\ \A t \in Sessions :
           stage'[t] = stage[t] \/ (stage'[t] \notin Pipeline /\ stage[t] \notin Pipeline)
  <2>1. CASE stage' = stage
    BY Zenon, <1>1, <2>1 DEF Types
  <2>2. CASE stage' # stage
    <3>1. PICK x \in {"login", "config", "waiting", "left"} : stage' = [stage EXCEPT ![s] = x]
      BY Zenon, <1>4, <2>2
    <3>2. x \in Stages /\ x \notin Pipeline
      BY DEF Stages, Pipeline
    <3>3. QED
      BY <1>1, <1>3, <2>2, <3>1, <3>2 DEF Types
  <2>3. QED
    BY Zenon, <2>1, <2>2
<1>6. /\ closed' \in [Sessions -> BOOLEAN] /\ \A t \in Sessions : closed[t] => closed'[t]
  BY Zenon, <1>1 DEF Types, Hello, LookForDuplicate, GiveUpWaiting, Close
<1>7. "prepared" \in Pipeline
  BY DEF Pipeline
<1>8. loaded' \in [Sessions -> [domain : Domains, version : Nat]]
  BY Zenon, <1>1, <1>2 DEF Types
<1>9. \A t \in Sessions : stage'[t] = "prepared" => loaded'[t].version = newest[loaded'[t].domain]
  BY Zenon, <1>1, <1>2, <1>5, <1>7 DEF DataInv
<1>10. \A t \in Sessions : stage'[t] \in Pipeline <=> stage[t] \in Pipeline
  BY Zenon, <1>5
<1>11. QED
  BY Zenon, <1>2, <1>5, <1>6, <1>8, <1>9, <1>10, ConnectionKeeps

\* prepare_and_queue_player_join loads what was last saved: while a join owns the UUID nobody
\* holds newer data.
LEMMA LoadKeeps ==
  ASSUME SessionInv, NEW s \in Sessions, LoadJoinDomain(s) \/ LoadDomainState(s)
  PROVE  SessionInv'
<1>1. Types /\ DataInv /\ AdmissionInv
  BY Zenon DEF SessionInv
<1>2. /\ UNCHANGED <<owners, data>> /\ UNCHANGED <<switch, lease, requests, job>> /\ closed' = closed
  BY Zenon DEF LoadJoinDomain, LoadDomainState, owners, data, play, moving, storage
<1>3. stage[s] \in {"loading", "loadingDomain"} /\ s \in Joins
  BY DEF LoadJoinDomain, LoadDomainState, Joins, Pipeline
<1>4. \E x \in {"loadingDomain", "prepared", "failed"} : stage' = [stage EXCEPT ![s] = x]
  BY DEF LoadJoinDomain, LoadDomainState
<1>5. /\ stage' \in [Sessions -> Stages] /\ \A t \in Sessions \ {s} : stage'[t] = stage[t]
      /\ stage'[s] \in Pipeline
  BY <1>1, <1>4 DEF Types, Stages, Pipeline
<1>6. \A t \in Sessions : stage'[t] \in Pipeline <=> stage[t] \in Pipeline
  BY <1>3, <1>5 DEF Pipeline
<1>7. loaded[s] \in [domain : Domains, version : Nat] /\ disk[loaded[s].domain] \in Nat
  BY <1>1 DEF Types
<1>8. /\ loaded' \in [Sessions -> [domain : Domains, version : Nat]]
      /\ \A t \in Sessions \ {s} : loaded'[t] = loaded[t]
  <2>1. CASE LoadJoinDomain(s)
    BY <1>1, <1>7, <2>1, SessionAssumption DEF Types, LoadJoinDomain
  <2>2. CASE LoadDomainState(s)
    BY <1>1, <1>7, <2>2 DEF Types, LoadDomainState
  <2>3. QED
    BY Zenon, <2>1, <2>2
<1>9. \A d \in Domains : Clean(d)
  BY Zenon, <1>1, <1>3, SessionAssumption DEF AdmissionInv, DataInv, Types
<1>10. ASSUME stage'[s] = "prepared" PROVE loaded'[s].version = newest[loaded'[s].domain]
  <2>1. LoadDomainState(s) /\ loaded' = [loaded EXCEPT ![s].version = disk[loaded[s].domain]]
    BY <1>1, <1>10 DEF Types, LoadJoinDomain, LoadDomainState
  <2>2. loaded'[s].version = disk[loaded[s].domain] /\ loaded'[s].domain = loaded[s].domain
    BY <1>1, <1>7, <2>1 DEF Types
  <2>3. QED
    BY <1>7, <1>9, <2>2 DEF Clean
<1>11. \A t \in Sessions : stage'[t] = "prepared" => loaded'[t].version = newest[loaded'[t].domain]
  BY Zenon, <1>1, <1>5, <1>8, <1>10 DEF DataInv
<1>12. closed' \in [Sessions -> BOOLEAN] /\ \A t \in Sessions : closed[t] => closed'[t]
  BY Zenon, <1>1, <1>2 DEF Types
<1>13. QED
  BY Zenon, <1>2, <1>5, <1>6, <1>8, <1>11, <1>12, ConnectionKeeps

----------------------------------------------------------------------------
\* What each part of the invariant depends on.
LEMMA SwitchKept ==
  ASSUME SwitchInv, UNCHANGED <<switch, lease, requests, job>>
  PROVE  SwitchInv' /\ Switching' = Switching /\ Jobs' = Jobs
<1>1. switch' = switch /\ lease' = lease /\ requests' = requests /\ job' = job
  BY Zenon
<1>2. Switching' = Switching /\ Jobs' = Jobs
  BY Zenon, <1>1 DEF Switching, Jobs
<1>3. QED
  BY ZenonT(40), <1>1, <1>2 DEF SwitchInv

\* A job still belongs to its session when neither it nor the online table changes.
LEMMA JobKept ==
  ASSUME JobInv, UNCHANGED <<online, game, job>>, \A s \in Sessions : closed[s] => closed'[s]
  PROVE  JobInv'
<1>1. online' = online /\ game' = game /\ Jobs' = Jobs /\ Jobs \subseteq Sessions
  BY Zenon DEF Jobs
<1>2. QED
  BY Zenon, <1>1 DEF JobInv

\* What is to be recorded as the active domain, as long as nobody moves.
LEMMA ResideKept ==
  ASSUME ResideInv, UNCHANGED <<saves, online, game, global, resides, dom, job>>
  PROVE  ResideInv'
<1>1. /\ saves' = saves /\ online' = online /\ game' = game /\ global' = global
      /\ resides' = resides /\ dom' = dom /\ job' = job
  BY Zenon
<1>2. QED
  BY Zenon, <1>1 DEF ResideInv

\* Who holds the newest data, as long as nobody plays, saves or moves.
LEMMA DataKept ==
  ASSUME DataInv, UNCHANGED <<saves, online, game, disk, newest, dom, live, job>>,
         admission' = "Relocating" <=> admission = "Relocating",
         \A s \in Sessions : stage'[s] = "prepared" => loaded'[s].version = newest[loaded'[s].domain]
  PROVE  DataInv'
<1>1. /\ saves' = saves /\ online' = online /\ game' = game /\ disk' = disk
      /\ newest' = newest /\ dom' = dom /\ live' = live /\ job' = job
  BY Zenon
<1>2. \A d : Clean(d)' <=> Clean(d)
  BY Zenon, <1>1 DEF Clean
<1>3. QED
  BY Zenon, <1>1, <1>2 DEF DataInv

----------------------------------------------------------------------------
\* Joins.

\* A join gives its reservation back.
LEMMA ReleaseJoinKeeps ==
  ASSUME SessionInv, NEW s \in Joins, ReleaseAdmission("Joining"), stage' = Woken(Leave(s)),
         closed' \in [Sessions -> BOOLEAN], \A t \in Sessions : closed[t] => closed'[t],
         loaded' = loaded, UNCHANGED <<online, member, saves, game>>, UNCHANGED data,
         UNCHANGED <<switch, lease, requests, job>>
  PROVE  SessionInv'
<1>1. Types /\ AdmissionInv /\ SwitchInv /\ JobInv /\ DataInv /\ ResideInv /\ s \in Sessions
  BY Zenon DEF SessionInv, Joins
<1>2. /\ UNCHANGED <<loaded, online, member, saves, game, dom, live, disk, global>>
      /\ UNCHANGED <<newest, resides>> /\ UNCHANGED <<switch, lease, requests, job>>
  BY Zenon DEF data
<1>3. /\ Leave(s) \in [Sessions -> Stages] /\ Leave(s)[s] = "left"
      /\ \A t \in Sessions \ {s} : Leave(s)[t] = stage[t]
  BY <1>1 DEF Types, Leave, Stages
<1>4. /\ stage' \in [Sessions -> Stages]
      /\ \A t \in Sessions : /\ stage'[t] \in Pipeline <=> Leave(s)[t] \in Pipeline
                             /\ stage'[t] = "prepared" <=> Leave(s)[t] = "prepared"
  BY Zenon, <1>3, WokenStages
<1>5. /\ \A t \in Sessions \ {s} : /\ stage'[t] \in Pipeline <=> stage[t] \in Pipeline
                                   /\ stage'[t] = "prepared" <=> stage[t] = "prepared"
      /\ stage'[s] # "prepared" /\ stage'[s] \notin Pipeline
  BY <1>1, <1>3, <1>4 DEF Pipeline
<1>6. SwitchInv' /\ Switching' = Switching /\ Jobs' = Jobs
  BY Zenon, <1>1, <1>2, SwitchKept
<1>7. JobInv' /\ ResideInv'
  BY Zenon, <1>1, <1>2, JobKept, ResideKept
<1>8. admission = "Joining"
  BY Zenon, <1>1 DEF AdmissionInv, Types
<1>9. admission' = "none"
  BY Zenon, <1>8 DEF ReleaseAdmission
<1>10. DataInv'
  <2>1. \A t \in Sessions : stage'[t] = "prepared" => loaded'[t].version = newest[loaded'[t].domain]
    BY Zenon, <1>1, <1>2, <1>5 DEF DataInv
  <2>2. admission' = "Relocating" <=> admission = "Relocating"
    BY <1>8, <1>9
  <2>3. QED
    BY Zenon, <1>1, <1>2, <2>1, <2>2, DataKept
<1>11. Types'
  BY Zenon, <1>1, <1>2, <1>4, <1>9 DEF Types
<1>12. AdmissionInv'
  <2>1. Leaving' = Leaving
    BY Zenon, <1>2 DEF Leaving
  <2>2. /\ Joins = {s} /\ online = NoSession /\ member = {} /\ saves = {} /\ Switching = {}
        /\ ~Leaving
    BY Zenon, <1>1, <1>8 DEF AdmissionInv
  <2>3. Joins' = {}
    BY Zenon, <1>5, <2>2 DEF Joins
  <2>4. member' = {online'} \cap Sessions
    BY Zenon, <1>2, <2>2, SessionAssumption
  <2>5. QED
    BY <1>1, <1>2, <1>6, <1>9, <2>1, <2>2, <2>3, <2>4 DEF AdmissionInv
<1>13. QED
  BY Zenon, <1>6, <1>7, <1>10, <1>11, <1>12 DEF SessionInv

\* finish_configuration reserves the UUID or kicks the duplicate.
LEMMA ReserveKeeps ==
  ASSUME SessionInv, NEW s \in Sessions, FinishConfiguration(s)
  PROVE  SessionInv'
<1>1. Types /\ AdmissionInv /\ SwitchInv /\ JobInv /\ DataInv /\ ResideInv
  BY Zenon DEF SessionInv
<1>2. /\ UNCHANGED <<loaded, online, member, saves, game, dom, live, disk, global>>
      /\ UNCHANGED <<newest, resides>> /\ UNCHANGED <<switch, lease, requests, job>>
  BY Zenon DEF FinishConfiguration, play, moving, storage
<1>3. /\ closed' \in [Sessions -> BOOLEAN] /\ \A t \in Sessions : closed[t] => closed'[t]
  BY Zenon, <1>1 DEF Types, FinishConfiguration
<1>4. PICK x \in {"reserved", "left"} :
        /\ stage[s] = "config" /\ stage' = [stage EXCEPT ![s] = x]
        /\ \/ admission = "none" /\ online = NoSession /\ admission' = "Joining" /\ x = "reserved"
           \/ admission' = admission /\ x = "left"
  BY Zenon DEF FinishConfiguration, Leave
<1>5. /\ stage' \in [Sessions -> Stages] /\ stage'[s] = x
      /\ \A t \in Sessions \ {s} : stage'[t] = stage[t]
  BY <1>1, <1>4 DEF Types, Stages, Pipeline
<1>6. "config" \notin Pipeline /\ "left" \notin Pipeline /\ "reserved" \in Pipeline
  BY DEF Pipeline
<1>7. SwitchInv' /\ Switching' = Switching /\ Jobs' = Jobs
  BY Zenon, <1>1, <1>2, SwitchKept
<1>8. JobInv' /\ ResideInv'
  BY Zenon, <1>1, <1>2, <1>3, JobKept, ResideKept
<1>9. /\ admission' \in {"none", "Joining", "Relocating", "Disconnecting"}
      /\ admission' = "Relocating" <=> admission = "Relocating"
  BY <1>1, <1>4 DEF Types
<1>10. DataInv'
  <2>1. stage'[s] # "prepared"
    BY <1>5
  <2>2. \A t \in Sessions : stage'[t] = "prepared" => loaded'[t].version = newest[loaded'[t].domain]
    BY Zenon, <1>1, <1>2, <1>5, <2>1 DEF DataInv
  <2>3. QED
    BY Zenon, <1>1, <1>2, <1>9, <2>2, DataKept
<1>11. Types'
  BY Zenon, <1>1, <1>2, <1>3, <1>5, <1>9 DEF Types
<1>12. AdmissionInv'
  <2>1. Leaving' = Leaving
    BY Zenon, <1>2 DEF Leaving
  <2>2. CASE admission = "none" /\ online = NoSession /\ admission' = "Joining" /\ x = "reserved"
    <3>1. Joins = {} /\ member = {} /\ saves = {} /\ Switching = {} /\ ~Leaving
      BY Zenon, <1>1, <2>2, SessionAssumption DEF AdmissionInv
    <3>2. Joins' = {s}
      BY Zenon, <1>5, <1>6, <2>2, <3>1 DEF Joins
    <3>3. QED
      BY <1>1, <1>2, <1>7, <2>1, <2>2, <3>1, <3>2 DEF AdmissionInv
  <2>3. CASE admission' = admission /\ x = "left"
    <3>1. Joins' = Joins
      BY Zenon, <1>4, <1>5, <1>6, <2>3 DEF Joins
    <3>2. closed[online] => closed'[online] \/ online \notin Sessions
      BY Zenon, <1>3
    <3>3. QED
      BY Zenon, <1>1, <1>2, <1>7, <2>1, <2>3, <3>1, <3>2 DEF AdmissionInv
  <2>4. QED
    BY Zenon, <1>4, <2>2, <2>3
<1>13. QED
  BY Zenon, <1>7, <1>8, <1>10, <1>11, <1>12 DEF SessionInv

\* The reservation goes to the join pipeline or is dropped.
LEMMA QueueJoinKeeps ==
  ASSUME SessionInv, NEW s \in Sessions, QueueJoin(s)
  PROVE  SessionInv'
<1>1. Types /\ DataInv /\ stage[s] = "reserved"
  BY Zenon DEF SessionInv, QueueJoin
<1>2. "reserved" \in Pipeline /\ "loading" \in Pipeline /\ "loading" \in Stages
  BY DEF Pipeline, Stages
<1>3. s \in Joins
  BY Zenon, <1>1, <1>2 DEF Joins
<1>4. /\ UNCHANGED <<closed, loaded, online, member, saves, game>> /\ UNCHANGED data
      /\ UNCHANGED <<switch, lease, requests, job>>
  BY Zenon DEF QueueJoin, play, moving, storage, data
<1>5. /\ closed' \in [Sessions -> BOOLEAN] /\ \A t \in Sessions : closed[t] => closed'[t]
      /\ loaded' \in [Sessions -> [domain : Domains, version : Nat]] /\ newest' = newest
  BY Zenon, <1>1, <1>4 DEF Types, data
<1>6. CASE closed[s]
  BY Zenon, <1>3, <1>4, <1>5, <1>6, ReleaseJoinKeeps DEF QueueJoin
<1>7. CASE ~closed[s]
  <2>1. stage' = [stage EXCEPT ![s] = "loading"] /\ admission' = admission
    BY Zenon, <1>7 DEF QueueJoin
  <2>2. /\ stage' \in [Sessions -> Stages] /\ stage'[s] = "loading"
        /\ \A t \in Sessions \ {s} : stage'[t] = stage[t]
    BY <1>1, <1>2, <2>1 DEF Types
  <2>3. \A t \in Sessions : stage'[t] \in Pipeline <=> stage[t] \in Pipeline
    BY Zenon, <1>1, <1>2, <2>2
  <2>4. \A t \in Sessions : stage'[t] = "prepared" => loaded'[t].version = newest[loaded'[t].domain]
    <3>1. stage'[s] # "prepared"
      BY <2>2
    <3>2. QED
      BY Zenon, <1>1, <1>4, <2>2, <3>1 DEF DataInv
  <2>5. UNCHANGED <<owners, data>>
    BY Zenon, <1>4, <2>1 DEF owners
  <2>6. QED
    BY Zenon, <1>4, <1>5, <2>2, <2>3, <2>4, <2>5, ConnectionKeeps
<1>8. QED
  BY Zenon, <1>6, <1>7

\* finish_prepared_player_join admits the player: the join was the only owner, so that what it
\* loaded is the newest data.
LEMMA AdmitKeeps ==
  ASSUME SessionInv, NEW s \in Sessions, stage[s] = "prepared", game = "joins",
         admission = "Joining", admission' = "none", online' = s,
         stage' = Woken([stage EXCEPT ![s] = "online"]), member' = member \cup {s},
         dom' = [dom EXCEPT ![s] = loaded[s].domain], live' = [live EXCEPT ![s] = loaded[s].version],
         resides' = {loaded[s].domain}, UNCHANGED <<closed, loaded, saves, game, disk, global, newest>>,
         UNCHANGED <<switch, lease, requests, job>>
  PROVE  SessionInv'
<1>1. Types /\ AdmissionInv /\ SwitchInv /\ JobInv /\ DataInv /\ ResideInv
  BY Zenon DEF SessionInv
<1>2. /\ closed' = closed /\ loaded' = loaded /\ saves' = saves /\ game' = game /\ disk' = disk
      /\ global' = global /\ newest' = newest /\ job' = job /\ requests' = requests /\ switch' = switch
  BY Zenon
<1>3. "prepared" \in Pipeline /\ "online" \notin Pipeline /\ "online" \in Stages
  BY DEF Pipeline, Stages
<1>4. /\ Joins = {s} /\ online = NoSession /\ member = {} /\ saves = {} /\ Switching = {} /\ ~Leaving
  BY Zenon, <1>1, <1>3 DEF AdmissionInv, Joins
<1>5. Jobs = {}
  BY <1>1, <1>4, SessionAssumption DEF JobInv, Jobs
<1>6. loaded[s].domain \in Domains /\ loaded[s].version \in Nat
  BY <1>1 DEF Types
<1>7. /\ stage' \in [Sessions -> Stages] /\ stage'[s] # "prepared"
      /\ \A t \in Sessions : stage'[t] \notin Pipeline
  <2> DEFINE st == [stage EXCEPT ![s] = "online"]
  <2>1. st \in [Sessions -> Stages] /\ st[s] = "online" /\ \A t \in Sessions \ {s} : st[t] = stage[t]
    BY <1>1, <1>3 DEF Types
  <2> HIDE DEF st
  <2>2. \A t \in Sessions : st[t] \notin Pipeline
    BY Zenon, <1>3, <1>4, <2>1 DEF Joins
  <2>3. stage' = Woken(st)
    BY DEF st
  <2>4. /\ Woken(st) \in [Sessions -> Stages]
        /\ \A t \in Sessions : Woken(st)[t] \in Pipeline <=> st[t] \in Pipeline
    BY Zenon, <2>1, WokenStages
  <2>5. QED
    BY Zenon, <1>3, <2>2, <2>3, <2>4
<1>8. SwitchInv' /\ Switching' = Switching /\ Jobs' = Jobs
  BY Zenon, <1>1, SwitchKept
<1>9. /\ dom' \in [Sessions -> Domains] /\ live' \in [Sessions -> Nat] /\ member' \in SUBSET Sessions
      /\ dom'[s] = loaded[s].domain /\ live'[s] = loaded[s].version
  BY <1>1, <1>4, <1>6 DEF Types
<1>10. Types'
  BY Zenon, <1>1, <1>2, <1>7, <1>9 DEF Types
<1>11. AdmissionInv'
  <2>1. Leaving' = Leaving
    BY Zenon, <1>2 DEF Leaving
  <2>2. Joins' = {}
    BY Zenon, <1>7 DEF Joins
  <2>3. member' = {online'} \cap Sessions
    BY Zenon, <1>4
  <2>4. QED
    BY <1>2, <1>4, <1>8, <2>1, <2>2, <2>3 DEF AdmissionInv
<1>12. JobInv'
  BY Zenon, <1>5, <1>8 DEF JobInv
<1>13. DataInv'
  <2>1. \A d \in Domains : Clean(d) /\ Clean(d)'
    BY Zenon, <1>1, <1>2, <1>4 DEF DataInv, Clean
  <2>2. live'[s] = newest'[dom'[s]]
    BY Zenon, <1>1, <1>2, <1>9 DEF DataInv
  <2>3. game' \notin {"worlds", "ended"} /\ admission' # "Relocating" /\ s # NoSession
    BY <1>2, SessionAssumption
  <2>4. \A t \in Sessions : stage'[t] # "prepared"
    BY Zenon, <1>3, <1>7
  <2>5. saves' = {} /\ online' = s
    BY Zenon, <1>2, <1>4
  <2>6. QED
    BY Zenon, <2>1, <2>2, <2>3, <2>4, <2>5 DEF DataInv
<1>14. ResideInv'
  <2>1. \A t \in Sessions : job'[t].task # "global"
    BY <1>1, <1>2, <1>5 DEF SwitchInv, Jobs
  <2>2. dom'[s] \in resides'
    BY Zenon, <1>9
  <2>3. game' \notin {"worlds", "ended"} /\ s # NoSession
    BY <1>2, SessionAssumption
  <2>4. saves' = {} /\ online' = s
    BY Zenon, <1>2, <1>4
  <2>5. QED
    BY Zenon, <2>1, <2>2, <2>3, <2>4 DEF ResideInv
<1>15. QED
  BY Zenon, <1>8, <1>10, <1>11, <1>12, <1>13, <1>14 DEF SessionInv

----------------------------------------------------------------------------
\* The game thread.

\* drain_prepared keeps what the saves are going to write.
LEMMA StartedKept ==
  ASSUME saves \in SUBSET SaveType
  PROVE  /\ StartedSaves \in SUBSET SaveType
         /\ \A w \in StartedSaves : \E v \in saves :
              /\ w.domain = v.domain /\ w.version = v.version
              /\ w.step = "global" <=> v.step = "global"
         /\ StartedSaves = {} <=> saves = {}
         /\ (\E v \in saves : saves = {v}) => \E w \in StartedSaves : StartedSaves = {w}
<1> DEFINE F(v) == [v EXCEPT !.step = IF @ = "prepared" THEN "domain" ELSE @]
<1>1. StartedSaves = {F(v) : v \in saves}
  BY Zenon DEF StartedSaves
<1>2. ASSUME NEW v \in saves
      PROVE  /\ F(v) \in SaveType /\ F(v).domain = v.domain /\ F(v).version = v.version
             /\ F(v).step = "global" <=> v.step = "global"
  BY DEF SaveType
<1> HIDE DEF F
<1>3. StartedSaves \in SUBSET SaveType
  BY Zenon, <1>1, <1>2
<1>4. \A w \in StartedSaves : \E v \in saves :
        /\ w.domain = v.domain /\ w.version = v.version
        /\ w.step = "global" <=> v.step = "global"
  BY ZenonT(40), <1>1, <1>2
<1>5. StartedSaves = {} <=> saves = {}
  BY Zenon, <1>1
<1>6. ASSUME NEW v \in saves, saves = {v} PROVE \E w \in StartedSaves : StartedSaves = {w}
  <2>1. StartedSaves = {F(v)}
    BY Zenon, <1>1, <1>6
  <2>2. QED
    BY Zenon, <2>1
<1>7. QED
  BY Zenon, <1>3, <1>4, <1>5, <1>6

\* A step to another phase of the tick.
LEMMA PhaseKeeps ==
  ASSUME SessionInv, game \notin {"removing", "lastRemoving", "worlds", "ended"},
         game' \in (Early \cup Late) \ {"removing", "lastRemoving", "worlds", "ended"},
         game' \in Late => Jobs = {},
         \A s \in Jobs : online = s \/ game' \in {"tick", "jobs", "stopping"},
         saves' = saves \/ saves' = StartedSaves, UNCHANGED <<admission, online, member>>,
         UNCHANGED data, UNCHANGED <<switch, lease, requests, job>>, UNCHANGED <<stage, closed, loaded>>
  PROVE  SessionInv'
<1>1. Types /\ AdmissionInv /\ SwitchInv /\ JobInv /\ DataInv /\ ResideInv
  BY Zenon DEF SessionInv
<1>2. /\ UNCHANGED <<admission, online, member, dom, live, disk, global, newest, resides>>
      /\ UNCHANGED <<switch, lease, requests, job, stage, closed, loaded>>
  BY Zenon DEF data
<1>3. saves \in SUBSET SaveType
  BY Zenon, <1>1 DEF Types
<1>4. /\ saves' \in SUBSET SaveType /\ (saves' = {} <=> saves = {})
      /\ \A w \in saves' : \E v \in saves :
           /\ w.domain = v.domain /\ w.version = v.version
           /\ w.step = "global" <=> v.step = "global"
      /\ (\E v \in saves : saves = {v}) => \E w \in saves' : saves' = {w}
  BY Zenon, <1>3, StartedKept
<1>5. SwitchInv' /\ Switching' = Switching /\ Jobs' = Jobs
  BY Zenon, <1>1, <1>2, SwitchKept
<1>6. Joins' = Joins /\ ~Leaving /\ ~Leaving'
  BY Zenon, <1>2 DEF Joins, Leaving
<1>7. Types'
  BY Zenon, <1>1, <1>2, <1>4 DEF Types
<1>8. game # "worlds" /\ game' # "worlds" /\ game # "ended" /\ game' # "ended"
  BY Zenon
<1>9. AdmissionInv'
  BY Zenon, <1>1, <1>2, <1>4, <1>5, <1>6, <1>8 DEF AdmissionInv
<1>10. JobInv'
  BY Zenon, <1>1, <1>2, <1>5 DEF JobInv
<1>11. DataInv'
  <2>1. \A d : Clean(d)' <=> Clean(d)
    BY Zenon, <1>2 DEF Clean
  <2>2. ASSUME NEW w \in saves'
        PROVE  /\ \A d \in Domains \ {w.domain} : Clean(d)'
               /\ IF w.step = "global" THEN Clean(w.domain)' ELSE w.version = newest'[w.domain]
    BY Zenon, <1>1, <1>2, <1>4, <2>1 DEF DataInv
  <2>3. QED
    BY Zenon, <1>1, <1>2, <1>4, <1>8, <2>1, <2>2 DEF DataInv
<1>12. ResideInv'
  <2>1. \A w \in saves' : w.domain \in resides'
    BY Zenon, <1>1, <1>2, <1>4 DEF ResideInv
  <2>2. QED
    BY Zenon, <1>1, <1>2, <1>4, <1>8, <2>1 DEF ResideInv
<1>13. QED
  BY Zenon, <1>5, <1>7, <1>9, <1>10, <1>11, <1>12 DEF SessionInv

\* The steps of the game thread that find nothing to do.
LEMMA QuietKeeps ==
  ASSUME SessionInv,
         \/ BeginTick \/ TickWorlds
         \/ TickJobs /\ Jobs = {}
         \/ CancelJobs /\ Jobs = {}
         \/ ProcessJoins /\ {s \in Sessions : stage[s] \in {"prepared", "failed"}} = {}
         \/ ProcessDomainSwitches /\ requests = {}
  PROVE  SessionInv'
<1>1. Types /\ JobInv
  BY Zenon DEF SessionInv
<1>2. /\ saves' = saves /\ UNCHANGED <<admission, online, member>> /\ UNCHANGED data
      /\ UNCHANGED <<switch, lease, requests, job>> /\ UNCHANGED <<stage, closed, loaded>>
  BY Zenon DEF BeginTick, TickWorlds, TickJobs, CancelJobs, ProcessJoins, ProcessDomainSwitches,
       gameOnly, login, play, moving, storage, data
<1>3. \/ game = "open" /\ game' \in {"stopping", "disconnects"}
      \/ game = "tick" /\ game' \in {"jobs", "stopping"}
      \/ game = "jobs" /\ game' = "joins" /\ Jobs = {}
      \/ game = "stopping" /\ game' = "lastScan" /\ Jobs = {}
      \/ game = "joins" /\ game' = "switches"
      \/ game = "switches" /\ game' = "open"
  BY DEF BeginTick, TickWorlds, TickJobs, CancelJobs, ProcessJoins, ProcessDomainSwitches
<1>4. /\ game \notin {"removing", "lastRemoving", "worlds", "ended"}
      /\ game' \in (Early \cup Late) \ {"removing", "lastRemoving", "worlds", "ended"}
      /\ game' \in Late => Jobs = {}
  BY <1>3 DEF Early, Late
<1>5. \A s \in Jobs : online = s \/ game' \in {"tick", "jobs", "stopping"}
  BY <1>1, <1>3 DEF JobInv
<1>6. QED
  BY Zenon, <1>2, <1>4, <1>5, PhaseKeeps

\* process_player_joins.
LEMMA JoinsKeep ==
  ASSUME SessionInv, ProcessJoins
  PROVE  SessionInv'
<1>1. CASE {s \in Sessions : stage[s] \in {"prepared", "failed"}} = {}
  BY Zenon, <1>1, QuietKeeps
<1>2. CASE {s \in Sessions : stage[s] \in {"prepared", "failed"}} # {}
  <2>1. PICK s \in Sessions : stage[s] \in {"prepared", "failed"} /\ FinishJoin(s) /\ game' = game
    BY Zenon, <1>2 DEF ProcessJoins
  <2>2. /\ game = "joins" /\ UNCHANGED <<loaded, saves, disk, global, newest, game>>
        /\ UNCHANGED <<switch, lease, requests, job>>
    BY Zenon, <2>1 DEF ProcessJoins, moving
  <2>3. s \in Joins /\ closed \in [Sessions -> BOOLEAN]
    BY <2>1 DEF Joins, Pipeline, SessionInv, Types
  <2>4. CASE closed[s] \/ stage[s] = "failed"
    <3>1. /\ ReleaseAdmission("Joining") /\ stage' = Woken(Leave(s))
          /\ closed' = [closed EXCEPT ![s] = TRUE] /\ UNCHANGED <<online, member, dom, live, resides>>
      BY Zenon, <2>1, <2>4 DEF FinishJoin, play
    <3>2. closed' \in [Sessions -> BOOLEAN] /\ \A t \in Sessions : closed[t] => closed'[t]
      BY <2>3, <3>1
    <3>3. UNCHANGED data /\ loaded' = loaded /\ UNCHANGED <<online, member, saves, game>>
      BY Zenon, <2>2, <3>1 DEF data
    <3>4. QED
      BY Zenon, <2>2, <2>3, <3>1, <3>2, <3>3, ReleaseJoinKeeps
  <2>5. CASE ~(closed[s] \/ stage[s] = "failed")
    <3>1. stage[s] = "prepared"
      BY Zenon, <2>1, <2>5
    <3>2. /\ admission = "Joining" /\ admission' = "none" /\ online' = s
          /\ stage' = Woken([stage EXCEPT ![s] = "online"]) /\ member' = member \cup {s}
          /\ dom' = [dom EXCEPT ![s] = loaded[s].domain]
          /\ live' = [live EXCEPT ![s] = loaded[s].version]
          /\ resides' = {loaded[s].domain} /\ closed' = closed
      BY Zenon, <2>1, <2>5 DEF FinishJoin
    <3>3. UNCHANGED <<closed, loaded, saves, game, disk, global, newest>>
      BY Zenon, <2>2, <3>2
    <3>4. QED
      BY Zenon, <2>2, <3>1, <3>2, <3>3, AdmitKeeps
  <2>6. QED
    BY Zenon, <2>4, <2>5
<1>3. QED
  BY Zenon, <1>1, <1>2

\* start_player_disconnect_saves reserves and detaches a closed player, or starts the saves.
LEMMA ScanKeeps ==
  ASSUME SessionInv,
         \/ ScanDisconnects("disconnects", "removing", "tick")
         \/ ScanDisconnects("lastScan", "lastRemoving", "lastSaves")
  PROVE  SessionInv'
<1>1. Types /\ AdmissionInv /\ SwitchInv /\ JobInv /\ DataInv /\ ResideInv
  BY Zenon DEF SessionInv
<1>2. /\ UNCHANGED <<online, dom, live, disk, global, newest, resides>>
      /\ UNCHANGED <<switch, lease, requests, job>> /\ UNCHANGED <<stage, closed, loaded>>
  BY Zenon DEF ScanDisconnects, login, moving, storage
<1>3. \/ game = "disconnects" /\ game' \in {"removing", "tick"}
      \/ game = "lastScan" /\ game' \in {"lastRemoving", "lastSaves"}
  BY Zenon DEF ScanDisconnects
<1>4. CASE \E s \in Sessions : closed[s] /\ MayDisconnect(s)
  <2>1. /\ online \in Sessions /\ closed[online] /\ admission = "none"
        /\ admission' = "Disconnecting" /\ member' = member \ {online} /\ saves' = saves
        /\ game' \in {"removing", "lastRemoving"}
    BY Zenon, <1>4 DEF ScanDisconnects, MayDisconnect
  <2>2. SwitchInv' /\ Switching' = Switching /\ Jobs' = Jobs
    BY Zenon, <1>1, <1>2, SwitchKept
  <2>3. /\ game # "worlds" /\ game # "ended" /\ game' # "worlds" /\ game' # "ended"
        /\ game' \in Early \cup Late /\ (game' \in Late => game \in Late) /\ Leaving'
        /\ game \notin {"tick", "jobs", "stopping"}
    BY <1>3, <2>1 DEF Early, Late, Leaving
  <2>4. Joins = {} /\ Switching = {} /\ member = {online} \cap Sessions /\ saves = {}
    BY Zenon, <1>1, <2>1, <2>3 DEF AdmissionInv
  <2>5. Joins' = {} /\ member' = {}
    BY Zenon, <1>2, <2>1, <2>4 DEF Joins
  <2>6. Types'
    BY Zenon, <1>1, <1>2, <2>1, <2>3, <2>5 DEF Types
  <2>7. AdmissionInv'
    BY <1>2, <2>1, <2>2, <2>3, <2>4, <2>5 DEF AdmissionInv
  <2>8. JobInv'
    BY Zenon, <1>1, <1>2, <2>2, <2>3 DEF JobInv
  <2>9. DataInv'
    <3>1. \A d : Clean(d)' <=> Clean(d)
      BY Zenon, <1>2 DEF Clean
    <3>2. online # NoSession /\ admission # "Relocating" /\ admission' # "Relocating"
      BY <2>1, SessionAssumption
    <3>3. QED
      BY Zenon, <1>1, <1>2, <2>1, <2>3, <3>1, <3>2 DEF DataInv
  <2>10. ResideInv'
    BY Zenon, <1>1, <1>2, <2>1, <2>3 DEF ResideInv
  <2>11. QED
    BY Zenon, <2>2, <2>6, <2>7, <2>8, <2>9, <2>10 DEF SessionInv
<1>5. CASE ~ \E s \in Sessions : closed[s] /\ MayDisconnect(s)
  <2>1. /\ saves' = StartedSaves /\ UNCHANGED <<admission, online, member>>
        /\ game' \in {"tick", "lastSaves"}
    BY Zenon, <1>2, <1>5 DEF ScanDisconnects
  <2>2. /\ game \notin {"removing", "lastRemoving", "worlds", "ended"}
        /\ game' \in (Early \cup Late) \ {"removing", "lastRemoving", "worlds", "ended"}
        /\ game' \in Late => game \in Late
        /\ game \notin {"tick", "jobs", "stopping"}
    BY <1>3, <2>1 DEF Early, Late
  <2>3. /\ game' \in Late => Jobs = {}
        /\ \A s \in Jobs : online = s \/ game' \in {"tick", "jobs", "stopping"}
    BY Zenon, <1>1, <2>2 DEF JobInv
  <2>4. UNCHANGED data
    BY Zenon, <1>2 DEF data
  <2>5. QED
    BY Zenon, <1>2, <2>1, <2>2, <2>3, <2>4, PhaseKeeps
<1>6. QED
  BY Zenon, <1>4, <1>5

\* The reserved player leaves the online table and its save starts.
LEMMA RemoveKeeps ==
  ASSUME SessionInv, RemoveOnline("removing", "tick") \/ RemoveOnline("lastRemoving", "lastSaves")
  PROVE  SessionInv'
<1> DEFINE v == [session |-> online, domain |-> dom[online], version |-> live[online], step |-> "domain"]
<1>1. Types /\ AdmissionInv /\ SwitchInv /\ JobInv /\ DataInv /\ ResideInv
  BY Zenon DEF SessionInv
<1>2. /\ UNCHANGED <<closed, loaded, admission, member, dom, live, disk, global, newest, resides>>
      /\ UNCHANGED <<switch, lease, requests, job>>
      /\ online' = NoSession /\ saves' = StartedSaves \cup {v} /\ stage' = Woken(stage)
  BY Zenon DEF RemoveOnline, play, moving, storage, Notify
<1>3. \/ game = "removing" /\ game' = "tick"
      \/ game = "lastRemoving" /\ game' = "lastSaves"
  BY Zenon DEF RemoveOnline
<1>4. /\ game # "worlds" /\ game # "ended" /\ game' # "worlds" /\ game' # "ended"
      /\ game' \in Early \cup Late /\ (game' \in Late => game \in Late) /\ ~Leaving' /\ Leaving
      /\ game' \in Late \/ game' \in {"tick", "jobs", "stopping"}
  BY <1>3 DEF Early, Late, Leaving
<1>5. /\ admission = "Disconnecting" /\ Joins = {} /\ Switching = {} /\ member = {} /\ saves = {}
      /\ online \in Sessions /\ closed[online]
  BY Zenon, <1>1, <1>4 DEF AdmissionInv, Types
<1>6. StartedSaves = {}
  BY <1>5 DEF StartedSaves
<1>7. /\ v \in SaveType /\ v.domain = dom[online] /\ v.version = live[online] /\ v.step # "global"
  BY <1>1, <1>5 DEF Types, SaveType
<1>8. saves' = {v}
  BY Zenon, <1>2, <1>6
<1> HIDE DEF v
<1>9. stage \in [Sessions -> Stages]
  BY Zenon, <1>1 DEF Types
<1>10. /\ stage' \in [Sessions -> Stages]
       /\ \A s \in Sessions : /\ stage'[s] \in Pipeline <=> stage[s] \in Pipeline
                              /\ stage'[s] = "prepared" <=> stage[s] = "prepared"
  BY Zenon, <1>2, <1>9, WokenStages
<1>11. SwitchInv' /\ Switching' = Switching /\ Jobs' = Jobs
  BY Zenon, <1>1, <1>2, SwitchKept
<1>12. Types'
  BY Zenon, <1>1, <1>2, <1>4, <1>7, <1>8, <1>10 DEF Types
<1>13. AdmissionInv'
  <2>1. Joins' = {}
    BY Zenon, <1>5, <1>10 DEF Joins
  <2>2. QED
    BY <1>2, <1>4, <1>5, <1>8, <1>11, <2>1 DEF AdmissionInv
<1>14. JobInv'
  <2>1. \A s \in Jobs : online = s
    BY Zenon, <1>1, <1>5, SessionAssumption DEF JobInv
  <2>2. QED
    BY Zenon, <1>1, <1>2, <1>4, <1>5, <1>11, <2>1 DEF JobInv
<1>15. DataInv'
  <2>1. \A d : Clean(d)' <=> Clean(d)
    BY Zenon, <1>2 DEF Clean
  <2>2. (\A d \in Domains \ {v.domain} : Clean(d)) /\ v.version = newest[v.domain]
    BY <1>1, <1>4, <1>5, <1>7 DEF DataInv
  <2>3. \A s \in Sessions : stage'[s] = "prepared" => loaded'[s].version = newest'[loaded'[s].domain]
    BY Zenon, <1>1, <1>2, <1>10 DEF DataInv
  <2>4. QED
    BY Zenon, <1>2, <1>7, <1>8, <2>1, <2>2, <2>3 DEF DataInv
<1>16. ResideInv'
  <2>1. v.domain \in resides
    BY Zenon, <1>1, <1>5, <1>7 DEF ResideInv
  <2>2. NoSession \notin Sessions
    BY SessionAssumption
  <2>3. QED
    BY Zenon, <1>1, <1>2, <1>8, <2>1, <2>2 DEF ResideInv
<1>17. QED
  BY Zenon, <1>11, <1>12, <1>13, <1>14, <1>15, <1>16 DEF SessionInv

----------------------------------------------------------------------------
\* Domain switches.

\* A job ends and gives its tokens back.
LEMMA SwitchEnds ==
  ASSUME Types, SwitchInv, NEW s \in Jobs, requests' = requests,
         switch' = [switch EXCEPT ![s] = "none"], lease' = lease \ {s},
         job' = [job EXCEPT ![s] = NoJob]
  PROVE  /\ SwitchInv' /\ Switching' = Switching \ {s} /\ Jobs' = Jobs \ {s}
         /\ job' \in [Sessions -> JobType]
         /\ switch' \in [Sessions -> {"none", "Queued", "Detached", "Finalizing"}]
         /\ \A t \in Sessions \ {s} : job'[t] = job[t]
         /\ job'[s].task = "none"
<1>1. s \in Sessions /\ job[s].phase # "none"
  BY Zenon DEF Jobs
<1>2. NoJob \in JobType /\ NoJob.phase = "none" /\ NoJob.task = "none"
  BY SessionAssumption DEF NoJob, JobType
<1>3. /\ job' \in [Sessions -> JobType] /\ job'[s] = NoJob /\ switch'[s] = "none"
      /\ switch' \in [Sessions -> {"none", "Queued", "Detached", "Finalizing"}]
      /\ \A t \in Sessions \ {s} : job'[t] = job[t] /\ switch'[t] = switch[t]
  BY <1>1, <1>2 DEF Types
<1>4. Switching' = Switching \ {s} /\ Jobs' = Jobs \ {s}
  BY <1>1, <1>2, <1>3 DEF Switching, Jobs
<1>5. \A r \in requests : r.session # s /\ r.session \in Sessions
  BY <1>1 DEF SwitchInv, Types, JobType
<1>6. \A r \in requests' : switch'[r.session] = "Queued"
  BY Zenon, <1>3, <1>5 DEF SwitchInv
<1>7. lease' = {r.session : r \in requests'} \cup Switching'
  <2>1. s \notin {r.session : r \in requests}
    BY Zenon, <1>5
  <2>2. lease = {r.session : r \in requests} \cup Switching
    BY Zenon DEF SwitchInv
  <2>3. QED
    BY <1>4, <2>1, <2>2
<1>8. ASSUME NEW t \in Sessions
      PROVE  /\ job'[t].phase = "none" => job'[t].task = "none"
             /\ job'[t].phase = "source" <=> job'[t].task \in SourceTasks
             /\ job'[t].phase = "source" <=> switch'[t] = "Detached"
             /\ job'[t].phase = "target" <=> job'[t].task \in TargetTasks
             /\ job'[t].phase = "target" <=> switch'[t] = "Finalizing"
  <2>1. CASE t = s
    BY <1>2, <1>3, <2>1 DEF SourceTasks, TargetTasks
  <2>2. CASE t # s
    BY ZenonT(40), <1>3, <2>2 DEF SwitchInv
  <2>3. QED
    BY Zenon, <2>1, <2>2
<1>9. \A r, q \in requests' : r.session = q.session => r = q
  BY Zenon DEF SwitchInv
<1>10. SwitchInv'
  BY Zenon, <1>6, <1>7, <1>8, <1>9 DEF SwitchInv
<1>11. QED
  BY Zenon, <1>2, <1>3, <1>4, <1>10

\* The phase in which jobs are polled or cancelled, and the next one.
JobPhase == (game = "jobs" /\ game' = "joins") \/ (game = "stopping" /\ game' = "lastScan")

\* queue_relocating_player_disconnect.
LEMMA DisconnectSourceKeeps ==
  ASSUME SessionInv, NEW s \in Jobs, job[s].phase = "source", DisconnectSource(s), JobPhase,
         requests' = requests, loaded' = loaded
  PROVE  SessionInv'
<1> DEFINE v == [session |-> s, domain |-> dom[s], version |-> job[s].version, step |-> "prepared"]
<1>1. Types /\ AdmissionInv /\ SwitchInv /\ JobInv /\ DataInv /\ ResideInv
  BY Zenon DEF SessionInv
<1>2. s \in Sessions /\ s \in Switching /\ Jobs = {s}
  BY Zenon, <1>1 DEF Jobs, Switching, JobInv
<1>3. admission = "Relocating" /\ online = s
  BY Zenon, <1>1, <1>2 DEF AdmissionInv, Types
<1>4. Joins = {} /\ Switching = {s} /\ member = {} /\ saves = {} /\ s # NoSession
  BY Zenon, <1>1, <1>2, <1>3, SessionAssumption DEF AdmissionInv
<1>5. /\ closed' = [closed EXCEPT ![s] = TRUE] /\ admission' = "Disconnecting"
      /\ online' = NoSession /\ saves' = saves \cup {v} /\ stage' = Woken(stage)
      /\ UNCHANGED <<member, dom, live, disk, global, newest, resides>>
      /\ switch' = [switch EXCEPT ![s] = "none"] /\ lease' = lease \ {s}
      /\ job' = [job EXCEPT ![s] = NoJob]
  BY Zenon, <1>3 DEF DisconnectSource, Notify, play, storage
<1>6. /\ v \in SaveType /\ v.domain = dom[s] /\ v.version = job[s].version /\ v.step # "global"
  BY <1>1, <1>2 DEF Types, SaveType, JobType
<1>7. saves' = {v}
  BY Zenon, <1>4, <1>5
<1> HIDE DEF v
<1>8. stage \in [Sessions -> Stages] /\ closed \in [Sessions -> BOOLEAN]
  BY Zenon, <1>1 DEF Types
<1>9. /\ stage' \in [Sessions -> Stages]
      /\ \A t \in Sessions : /\ stage'[t] \in Pipeline <=> stage[t] \in Pipeline
                             /\ stage'[t] = "prepared" <=> stage[t] = "prepared"
  BY Zenon, <1>5, <1>8, WokenStages
<1>10. closed' \in [Sessions -> BOOLEAN]
  BY Zenon, <1>5, <1>8
<1>11. /\ SwitchInv' /\ Switching' = Switching \ {s} /\ Jobs' = Jobs \ {s}
       /\ job' \in [Sessions -> JobType]
       /\ switch' \in [Sessions -> {"none", "Queued", "Detached", "Finalizing"}]
       /\ (\A t \in Sessions \ {s} : job'[t] = job[t]) /\ job'[s].task = "none"
  BY Zenon, <1>1, <1>5, SwitchEnds
<1>12. /\ game \notin {"worlds", "ended"} /\ game' \notin {"worlds", "ended"} /\ ~Leaving'
       /\ game' \in Early \cup Late
  BY DEF JobPhase, Leaving, Early, Late
<1>13. Types'
  BY Zenon, <1>1, <1>5, <1>6, <1>7, <1>9, <1>10, <1>11, <1>12 DEF Types
<1>14. AdmissionInv'
  <2>1. Joins' = {} /\ Switching' = {} /\ member' = {}
    BY Zenon, <1>4, <1>5, <1>9, <1>11 DEF Joins
  <2>2. \E w \in saves' : saves' = {w}
    BY Zenon, <1>7
  <2>3. QED
    BY <1>5, <1>12, <2>1, <2>2 DEF AdmissionInv
<1>15. JobInv'
  <2>1. Jobs' = {}
    BY Zenon, <1>2, <1>11
  <2>2. QED
    BY Zenon, <2>1 DEF JobInv
<1>16. DataInv'
  <2>1. \A d : Clean(d)' <=> Clean(d)
    BY Zenon, <1>5 DEF Clean
  <2>2. (\A d \in Domains \ {v.domain} : Clean(d)) /\ v.version = newest[v.domain]
    BY Zenon, <1>1, <1>2, <1>3, <1>4, <1>6, <1>12 DEF DataInv
  <2>3. \A t \in Sessions : stage'[t] = "prepared" => loaded'[t].version = newest'[loaded'[t].domain]
    BY Zenon, <1>1, <1>5, <1>9 DEF DataInv
  <2>4. QED
    BY Zenon, <1>5, <1>6, <1>7, <2>1, <2>2, <2>3 DEF DataInv
<1>17. ResideInv'
  <2>1. v.domain \in resides
    BY Zenon, <1>1, <1>2, <1>3, <1>6 DEF ResideInv
  <2>2. \A t \in Sessions : job'[t].task # "global"
    <3>1. \A t \in Sessions \ {s} : job[t].phase = "none"
      BY Zenon, <1>2 DEF Jobs
    <3>2. \A t \in Sessions \ {s} : job[t].task = "none"
      BY ZenonT(40), <1>1, <3>1 DEF SwitchInv
    <3>3. QED
      BY Zenon, <1>11, <3>2
  <2>3. NoSession \notin Sessions
    BY SessionAssumption
  <2>4. QED
    BY Zenon, <1>5, <1>7, <2>1, <2>2, <2>3 DEF ResideInv
<1>18. QED
  BY Zenon, <1>11, <1>13, <1>14, <1>15, <1>16, <1>17 DEF SessionInv

\* A switch whose target is live ends.
LEMMA DropFinalSaveKeeps ==
  ASSUME SessionInv, NEW s \in Jobs, job[s].phase # "source", DropFinalSave(s), JobPhase,
         requests' = requests, loaded' = loaded
  PROVE  SessionInv'
<1>1. Types /\ AdmissionInv /\ SwitchInv /\ JobInv /\ DataInv /\ ResideInv
  BY Zenon DEF SessionInv
<1>2. s \in Sessions /\ s \notin Switching /\ Jobs = {s}
  BY Zenon, <1>1 DEF Jobs, Switching, JobInv
<1>3. /\ UNCHANGED <<closed, admission, online, saves, stage>>
      /\ UNCHANGED <<member, dom, live, disk, global, newest, resides>>
      /\ switch' = [switch EXCEPT ![s] = "none"] /\ lease' = lease \ {s}
      /\ job' = [job EXCEPT ![s] = NoJob]
  BY Zenon DEF DropFinalSave, play, storage
<1>4. /\ SwitchInv' /\ Switching' = Switching \ {s} /\ Jobs' = Jobs \ {s}
      /\ job' \in [Sessions -> JobType]
      /\ switch' \in [Sessions -> {"none", "Queued", "Detached", "Finalizing"}]
      /\ (\A t \in Sessions \ {s} : job'[t] = job[t]) /\ job'[s].task = "none"
  BY Zenon, <1>1, <1>3, SwitchEnds
<1>5. /\ game # "worlds" /\ game # "ended" /\ game' # "worlds" /\ game' # "ended"
      /\ ~Leaving /\ ~Leaving' /\ game' \in Early \cup Late
  BY DEF JobPhase, Leaving, Early, Late
<1>6. Types'
  BY Zenon, <1>1, <1>3, <1>4, <1>5 DEF Types
<1>7. Switching' = Switching /\ Joins' = Joins
  BY Zenon, <1>2, <1>3, <1>4 DEF Joins
<1>8. AdmissionInv'
  BY Zenon, <1>1, <1>3, <1>5, <1>7 DEF AdmissionInv
<1>9. JobInv'
  <2>1. Jobs' = {}
    BY Zenon, <1>2, <1>4
  <2>2. QED
    BY Zenon, <2>1 DEF JobInv
<1>10. DataInv'
  <2>1. \A d : Clean(d)' <=> Clean(d)
    BY Zenon, <1>3 DEF Clean
  <2>2. admission = "Relocating" => online # s /\ online \in Sessions
    BY Zenon, <1>1, <1>2 DEF AdmissionInv
  <2>3. admission = "Relocating" => job'[online] = job[online]
    BY Zenon, <1>4, <2>2
  <2>4. QED
    BY Zenon, <1>1, <1>3, <1>5, <2>1, <2>3 DEF DataInv
<1>11. ResideInv'
  <2>1. \A t \in Sessions : job'[t].task = "global" => job'[t].target \in resides
    BY Zenon, <1>1, <1>4 DEF ResideInv
  <2>2. QED
    BY Zenon, <1>1, <1>3, <1>5, <2>1 DEF ResideInv
<1>12. QED
  BY Zenon, <1>4, <1>6, <1>8, <1>9, <1>10, <1>11 DEF SessionInv

\* commit_target_state: the newest data of the target domain becomes live.
LEMMA CommitTargetKeeps ==
  ASSUME SessionInv, NEW s \in Jobs, job[s].task = "ready", CommitTarget(s),
         game = "jobs", game' = "joins", requests' = requests, loaded' = loaded
  PROVE  SessionInv'
<1>1. Types /\ AdmissionInv /\ SwitchInv /\ JobInv /\ DataInv /\ ResideInv
  BY Zenon DEF SessionInv
<1>2. s \in Sessions /\ Jobs = {s} /\ job[s].phase = "source"
  BY <1>1 DEF Jobs, JobInv, SwitchInv, SourceTasks
<1>3. s \in Switching
  BY Zenon, <1>2 DEF Switching
<1>4. admission = "Relocating" /\ online = s
  BY Zenon, <1>1, <1>3 DEF AdmissionInv, Types
<1>5. Joins = {} /\ Switching = {s} /\ member = {} /\ saves = {} /\ s # NoSession
  BY Zenon, <1>1, <1>2, <1>3, <1>4, SessionAssumption DEF AdmissionInv
<1>6. /\ dom' = [dom EXCEPT ![s] = job[s].target] /\ live' = [live EXCEPT ![s] = job[s].found]
      /\ member' = member \cup {s} /\ resides' = {job[s].target} /\ lease' = lease \ {s}
      /\ switch' = [switch EXCEPT ![s] = "Finalizing"] /\ stage' = Woken(stage)
      /\ job' = [job EXCEPT ![s].phase = "target", ![s].task = "global"]
      /\ UNCHANGED <<closed, online, saves, disk, global, newest>>
  BY Zenon DEF CommitTarget, Notify
<1>7. admission' = "none"
  BY Zenon, <1>4 DEF CommitTarget, ReleaseAdmission
<1>8. job[s] \in JobType
  BY Zenon, <1>1, <1>2 DEF Types
<1>9. /\ job' \in [Sessions -> JobType] /\ \A t \in Sessions \ {s} : job'[t] = job[t]
      /\ job'[s].phase = "target" /\ job'[s].task = "global" /\ job'[s].target = job[s].target
  BY <1>1, <1>2, <1>6, <1>8 DEF Types, JobType, TargetTasks
<1>10. /\ switch' \in [Sessions -> {"none", "Queued", "Detached", "Finalizing"}]
       /\ switch'[s] = "Finalizing" /\ \A t \in Sessions \ {s} : switch'[t] = switch[t]
  BY <1>1, <1>2, <1>6 DEF Types
<1>11. /\ dom' \in [Sessions -> Domains] /\ live' \in [Sessions -> Nat] /\ member' \in SUBSET Sessions
       /\ dom'[s] = job[s].target /\ live'[s] = job[s].found
  BY <1>1, <1>2, <1>6, <1>8 DEF Types, JobType
<1>12. stage \in [Sessions -> Stages]
  BY Zenon, <1>1 DEF Types
<1>13. /\ stage' \in [Sessions -> Stages]
       /\ \A t \in Sessions : /\ stage'[t] \in Pipeline <=> stage[t] \in Pipeline
                              /\ stage'[t] = "prepared" <=> stage[t] = "prepared"
  BY Zenon, <1>6, <1>12, WokenStages
<1>14. game' \in Early \cup Late /\ game' \notin Late /\ ~Leaving' /\ game' \notin {"worlds", "ended"}
  BY DEF Early, Late, Leaving
<1>15. Types'
  BY Zenon, <1>1, <1>6, <1>7, <1>9, <1>10, <1>11, <1>13, <1>14 DEF Types
<1>16. Switching' = {} /\ Jobs' = {s}
  <2>1. Switching' = {}
    BY <1>2, <1>5, <1>9 DEF Switching
  <2>2. Jobs' = {s}
    BY <1>2, <1>9 DEF Jobs
  <2>3. QED
    BY Zenon, <2>1, <2>2
<1>17. SwitchInv'
  <2>1. ASSUME NEW t \in Sessions
        PROVE  /\ job'[t].phase = "none" => job'[t].task = "none"
               /\ job'[t].phase = "source" <=> job'[t].task \in SourceTasks
               /\ job'[t].phase = "source" <=> switch'[t] = "Detached"
               /\ job'[t].phase = "target" <=> job'[t].task \in TargetTasks
               /\ job'[t].phase = "target" <=> switch'[t] = "Finalizing"
    <3>1. CASE t = s
      BY <1>9, <1>10, <3>1 DEF SourceTasks, TargetTasks
    <3>2. CASE t # s
      <4>1. job'[t] = job[t] /\ switch'[t] = switch[t]
        BY Zenon, <1>9, <1>10, <3>2
      <4>2. QED
        BY ZenonT(90), <1>1, <4>1 DEF SwitchInv
    <3>3. QED
      BY Zenon, <3>1, <3>2
  <2>2. switch[s] = "Detached"
    BY Zenon, <1>1, <1>2 DEF SwitchInv
  <2>3. \A r \in requests : r.session # s /\ r.session \in Sessions
    BY <1>1, <2>2 DEF SwitchInv, Types
  <2>4. \A r \in requests' : switch'[r.session] = "Queued"
    <3>1. \A r \in requests : switch'[r.session] = switch[r.session]
      BY Zenon, <1>10, <2>3
    <3>2. QED
      BY Zenon, <1>1, <3>1 DEF SwitchInv
  <2>5. \A r, q \in requests' : r.session = q.session => r = q
    BY Zenon, <1>1 DEF SwitchInv
  <2>6. lease' = {r.session : r \in requests'} \cup Switching'
    <3>1. s \notin {r.session : r \in requests}
      BY Zenon, <2>3
    <3>2. lease = {r.session : r \in requests} \cup {s}
      BY Zenon, <1>1, <1>5 DEF SwitchInv
    <3>3. QED
      BY <1>6, <1>16, <3>1, <3>2
  <2>7. QED
    BY Zenon, <2>1, <2>4, <2>5, <2>6 DEF SwitchInv
<1>18. AdmissionInv'
  <2>1. Joins' = {} /\ member' = {online'} \cap Sessions
    BY Zenon, <1>2, <1>4, <1>5, <1>6, <1>13 DEF Joins
  <2>2. QED
    BY <1>5, <1>6, <1>7, <1>14, <1>16, <2>1 DEF AdmissionInv
<1>19. JobInv'
  BY Zenon, <1>4, <1>6, <1>14, <1>16 DEF JobInv
<1>20. DataInv'
  <2>1. \A d : Clean(d)' <=> Clean(d)
    BY Zenon, <1>6 DEF Clean
  <2>2. /\ \A d \in Domains \ {dom[s]} : Clean(d)
        /\ job[s].found = newest[job[s].target] /\ Clean(dom[s])
    BY <1>1, <1>2, <1>4, <1>5 DEF DataInv
  <2>3. live'[s] = newest'[dom'[s]]
    BY Zenon, <1>6, <1>11, <2>2
  <2>4. \A t \in Sessions : stage'[t] = "prepared" => loaded'[t].version = newest'[loaded'[t].domain]
    BY Zenon, <1>1, <1>6, <1>13 DEF DataInv
  <2>5. online' = s /\ saves' = {} /\ admission' # "Relocating" /\ \A d \in Domains : Clean(d)'
    BY <1>4, <1>5, <1>6, <1>7, <2>1, <2>2
  <2>6. QED
    BY Zenon, <2>3, <2>4, <2>5 DEF DataInv
<1>21. ResideInv'
  <2>1. \A t \in Sessions \ {s} : job'[t].task # "global"
    <3>1. \A t \in Sessions \ {s} : job[t].phase = "none"
      BY Zenon, <1>2 DEF Jobs
    <3>2. \A t \in Sessions \ {s} : job[t].task = "none"
      BY Zenon, <1>1, <3>1 DEF SwitchInv
    <3>3. QED
      BY <1>9, <3>2
  <2>2. \A t \in Sessions : job'[t].task = "global" => job'[t].target \in resides'
    <3>1. job'[s].target \in resides'
      BY <1>6, <1>9
    <3>2. QED
      BY Zenon, <2>1, <3>1
  <2>3. online' = s /\ saves' = {} /\ dom'[s] \in resides' /\ s # NoSession
    BY Zenon, <1>4, <1>5, <1>6, <1>11
  <2>4. QED
    BY Zenon, <1>14, <2>2, <2>3 DEF ResideInv
<1>22. QED
  BY Zenon, <1>15, <1>17, <1>18, <1>19, <1>20, <1>21 DEF SessionInv

\* A step of a job within its phase: the storage task, the spawn preparation, and the poll that
\* begins the latter.
LEMMA TaskMoves ==
  ASSUME SessionInv, NEW s \in Sessions, NEW now, NEW then, job[s].task = now,
         \/ now \in SourceTasks /\ then \in SourceTasks
         \/ now \in TargetTasks /\ then \in TargetTasks,
         job' \in [Sessions -> JobType], \A t \in Sessions \ {s} : job'[t] = job[t],
         job'[s].phase = job[s].phase, job'[s].task = then, job'[s].target = job[s].target,
         UNCHANGED <<switch, lease, requests>>, UNCHANGED <<admission, online, member, saves>>,
         UNCHANGED <<stage, closed, loaded>>
  PROVE  /\ SwitchInv' /\ Switching' = Switching /\ Jobs' = Jobs /\ Joins' = Joins /\ s \in Jobs
         /\ then # "global" => \A t \in Sessions : job'[t].task = "global" => job[t].task = "global"
<1>1. SwitchInv /\ Types
  BY Zenon DEF SessionInv
<1>2. job[s].phase \in {"source", "target"}
  BY <1>1 DEF SwitchInv
<1>3. \A t \in Sessions : job'[t].phase = job[t].phase
  BY Zenon
<1>4. Switching' = Switching /\ Jobs' = Jobs /\ Joins' = Joins /\ s \in Jobs
  BY <1>2, <1>3 DEF Switching, Jobs, Joins
<1>5. switch' = switch /\ lease' = lease /\ requests' = requests
  BY Zenon
<1>6. ASSUME NEW t \in Sessions
      PROVE  /\ job'[t].phase = "none" => job'[t].task = "none"
             /\ job'[t].phase = "source" <=> job'[t].task \in SourceTasks
             /\ job'[t].phase = "source" <=> switch'[t] = "Detached"
             /\ job'[t].phase = "target" <=> job'[t].task \in TargetTasks
             /\ job'[t].phase = "target" <=> switch'[t] = "Finalizing"
  <2>1. CASE t = s
    BY <1>1, <1>2, <1>3, <1>5, <2>1 DEF SwitchInv, SourceTasks, TargetTasks
  <2>2. CASE t # s
    <3>1. job'[t] = job[t] /\ switch'[t] = switch[t]
      BY Zenon, <1>5, <2>2
    <3>2. QED
      BY ZenonT(90), <1>1, <3>1 DEF SwitchInv
  <2>3. QED
    BY Zenon, <2>1, <2>2
<1>7. SwitchInv'
  <2>1. /\ \A r \in requests' : switch'[r.session] = "Queued"
        /\ \A r, q \in requests' : r.session = q.session => r = q
        /\ lease' = {r.session : r \in requests'} \cup Switching'
    BY Zenon, <1>1, <1>4, <1>5 DEF SwitchInv
  <2>2. QED
    BY Zenon, <1>6, <2>1 DEF SwitchInv
<1>8. QED
  BY Zenon, <1>4, <1>7

\* A switch that holds its source data owns the player.
LEMMA SourceFacts ==
  ASSUME SessionInv, NEW s \in Sessions, job[s].phase = "source"
  PROVE  /\ admission = "Relocating" /\ online = s /\ s # NoSession /\ saves = {} /\ Joins = {}
         /\ game \notin {"worlds", "ended"} /\ s \in Jobs
<1>1. Types /\ AdmissionInv /\ JobInv
  BY Zenon DEF SessionInv
<1>2. s \in Switching /\ s \in Jobs
  BY <1>1 DEF Switching, Jobs
<1>3. admission = "Relocating"
  BY Zenon, <1>1, <1>2 DEF AdmissionInv, Types
<1>4. game \notin Late
  BY Zenon, <1>1, <1>2 DEF JobInv
<1>5. game \notin {"worlds", "ended"}
  BY <1>4 DEF Late
<1>6. QED
  BY Zenon, <1>1, <1>2, <1>3, <1>5, SessionAssumption DEF AdmissionInv

\* A step of a job within its phase keeps the rest of the invariant if it keeps the data.
LEMMA TaskKeeps ==
  ASSUME SessionInv, NEW s \in Sessions, NEW now, NEW then, job[s].task = now,
         \/ now \in SourceTasks /\ then \in SourceTasks
         \/ now \in TargetTasks /\ then \in TargetTasks,
         job' \in [Sessions -> JobType], \A t \in Sessions \ {s} : job'[t] = job[t],
         job'[s].phase = job[s].phase, job'[s].task = then, job'[s].target = job[s].target,
         UNCHANGED <<switch, lease, requests>>, UNCHANGED <<admission, online, member, saves>>,
         UNCHANGED <<stage, closed, loaded>>, UNCHANGED <<dom, live, newest, resides>>,
         game' = game \/ (game = "jobs" /\ game' = "joins" /\ ~closed[s]),
         disk' \in [Domains -> Nat], global' \in Domains \cup {NoDomain}, DataInv', ResideInv'
  PROVE  SessionInv'
<1>1. Types /\ AdmissionInv /\ JobInv
  BY Zenon DEF SessionInv
<1>2. SwitchInv' /\ Switching' = Switching /\ Jobs' = Jobs /\ Joins' = Joins /\ s \in Jobs
  BY Zenon, TaskMoves
<1>3. /\ UNCHANGED <<switch, lease, requests, admission, online, member, saves, stage, closed, loaded>>
      /\ UNCHANGED <<dom, live, newest>>
  BY Zenon
<1>4. game' \in Early \cup Late
  BY <1>1 DEF Types, Early
<1>5. Types'
  BY ZenonT(40), <1>1, <1>3, <1>4 DEF Types
<1>6. /\ Leaving' = Leaving /\ (game' = "worlds" <=> game = "worlds")
      /\ (game' = "ended" <=> game = "ended")
  BY DEF Leaving
<1>7. AdmissionInv'
  BY Zenon, <1>1, <1>2, <1>3, <1>6 DEF AdmissionInv
<1>8. JobInv'
  <2>1. CASE game' = game
    BY Zenon, <1>1, <1>2, <1>3, <2>1 DEF JobInv
  <2>2. CASE game = "jobs" /\ game' = "joins" /\ ~closed[s]
    <3>1. Jobs = {s} /\ online = s
      BY Zenon, <1>1, <1>2, <2>2 DEF JobInv
    <3>2. game' \notin Late
      BY <2>2 DEF Late
    <3>3. QED
      BY Zenon, <1>2, <1>3, <3>1, <3>2 DEF JobInv
  <2>3. QED
    BY Zenon, <2>1, <2>2
<1>9. QED
  BY Zenon, <1>2, <1>5, <1>7, <1>8 DEF SessionInv

\* The same for a switch that holds its source data: what it has to save is still the newest.
LEMMA SourceTaskKeeps ==
  ASSUME SessionInv, NEW s \in Sessions, NEW now \in SourceTasks, NEW then \in SourceTasks,
         job[s].task = now, job' \in [Sessions -> JobType],
         \A t \in Sessions \ {s} : job'[t] = job[t],
         job'[s].phase = job[s].phase, job'[s].task = then, job'[s].target = job[s].target,
         job'[s].version = job[s].version,
         UNCHANGED <<switch, lease, requests>>, UNCHANGED <<admission, online, member, saves>>,
         UNCHANGED <<stage, closed, loaded>>, UNCHANGED <<dom, live, newest, resides>>,
         game' = game \/ (game = "jobs" /\ game' = "joins" /\ ~closed[s]),
         disk' \in [Domains -> Nat], global' = global,
         \A d \in Domains \ {dom[s]} : disk'[d] = disk[d],
         then \in {"save", "failed"} \/ disk'[dom[s]] = newest[dom[s]],
         then \in {"done", "spawn", "ready"} => job'[s].found = newest[job[s].target]
  PROVE  SessionInv'
<1>1. Types /\ SwitchInv /\ DataInv /\ ResideInv
  BY Zenon DEF SessionInv
<1>2. job[s].phase = "source"
  BY Zenon, <1>1 DEF SwitchInv
<1>3. /\ admission = "Relocating" /\ online = s /\ s # NoSession /\ saves = {}
      /\ game \notin {"worlds", "ended"}
  BY Zenon, <1>2, SourceFacts
<1>4. game' \notin {"worlds", "ended"}
  BY <1>3
<1>5. /\ \A d \in Domains \ {dom[s]} : Clean(d)
      /\ job[s].version = newest[dom[s]]
  BY Zenon, <1>1, <1>3 DEF DataInv
<1>6. \A d \in Domains \ {dom[s]} : Clean(d)'
  BY Zenon, <1>5 DEF Clean
<1>7. DataInv'
  <2>1. \A t \in Sessions : stage'[t] = "prepared" => loaded'[t].version = newest'[loaded'[t].domain]
    BY Zenon, <1>1 DEF DataInv
  <2>2. saves' = {} /\ online' = s /\ admission' = "Relocating" /\ dom' = dom /\ newest' = newest
    BY Zenon, <1>3
  <2>3. job'[s].task \in {"save", "failed"} \/ Clean(dom[s])'
    BY Zenon, <2>2 DEF Clean
  <2>4. QED
    BY <1>3, <1>4, <1>5, <1>6, <2>1, <2>2, <2>3 DEF DataInv
<1>8. ResideInv'
  <2>1. \A t \in Sessions : job'[t].task = "global" => job'[t].target \in resides
    <3>1. job'[s].task # "global"
      BY DEF SourceTasks
    <3>2. QED
      BY ZenonT(40), <1>1, <3>1 DEF ResideInv
  <2>2. saves' = {} /\ online' = s /\ dom' = dom /\ resides' = resides /\ dom[s] \in resides
    BY Zenon, <1>1, <1>3 DEF ResideInv
  <2>3. QED
    BY Zenon, <1>3, <1>4, <2>1, <2>2 DEF ResideInv
<1>9. global' \in Domains \cup {NoDomain}
  BY Zenon, <1>1 DEF Types
<1>10. QED
  BY Zenon, <1>7, <1>8, <1>9, TaskKeeps

\* The tasks of a switch before the commit.
LEMMA SourceTasksKeep ==
  ASSUME SessionInv, NEW s \in Sessions, SaveSource(s) \/ LoadTarget(s) \/ PrepareSpawn(s)
  PROVE  SessionInv'
<1>1. Types /\ SwitchInv /\ DataInv
  BY Zenon DEF SessionInv
<1>2. /\ UNCHANGED <<switch, lease, requests>> /\ UNCHANGED <<admission, online, member, saves>>
      /\ UNCHANGED <<stage, closed, loaded>> /\ UNCHANGED <<dom, live, newest, resides>>
      /\ game' = game /\ global' = global
  BY Zenon DEF SaveSource, LoadTarget, PrepareSpawn, login, play, storage
<1>3. PICK then \in {"load", "done", "ready", "failed"} :
        \/ /\ job[s].task = "save" /\ then \in {"load", "failed"}
           /\ job' = [job EXCEPT ![s].task = then]
           /\ disk' = IF then = "load" THEN [disk EXCEPT ![dom[s]] = job[s].version] ELSE disk
        \/ /\ job[s].task = "load" /\ then = "done" /\ disk' = disk
           /\ job' = [job EXCEPT ![s].task = "done", ![s].found = disk[job[s].target]]
        \/ /\ job[s].task = "load" /\ then = "failed" /\ disk' = disk
           /\ job' = [job EXCEPT ![s].task = then]
        \/ /\ job[s].task = "spawn" /\ then \in {"ready", "failed"} /\ disk' = disk
           /\ job' = [job EXCEPT ![s].task = then]
  <2>1. CASE SaveSource(s)
    BY <2>1 DEF SaveSource, Task
  <2>2. CASE LoadTarget(s)
    BY <2>2 DEF LoadTarget, Task, storage
  <2>3. CASE PrepareSpawn(s)
    BY <2>3 DEF PrepareSpawn, Task, storage
  <2>4. QED
    BY Zenon, <2>1, <2>2, <2>3
<1>4. job[s] \in JobType /\ dom[s] \in Domains
  BY <1>1 DEF Types
<1>5. job[s].task \in SourceTasks /\ then \in SourceTasks
  BY <1>3 DEF SourceTasks
<1>6. job[s].phase = "source"
  BY Zenon, <1>1, <1>5 DEF SwitchInv
<1>7. admission = "Relocating" /\ online = s /\ saves = {} /\ game \notin {"worlds", "ended"}
  BY Zenon, <1>6, SourceFacts
<1>8. /\ \A d \in Domains \ {dom[s]} : Clean(d)
      /\ job[s].version = newest[dom[s]]
      /\ job[s].task \in {"save", "failed"} \/ Clean(dom[s])
      /\ job[s].task \in {"done", "spawn", "ready"} => job[s].found = newest[job[s].target]
  BY Zenon, <1>1, <1>7 DEF DataInv
<1>9. job[s].target \in Domains /\ job[s].version \in Nat /\ disk[job[s].target] \in Nat
  BY <1>1, <1>4 DEF JobType, Types
<1>10. /\ job' \in [Sessions -> JobType] /\ \A t \in Sessions \ {s} : job'[t] = job[t]
       /\ job'[s].phase = job[s].phase /\ job'[s].task = then /\ job'[s].target = job[s].target
       /\ job'[s].version = job[s].version
       /\ job'[s].found = IF then = "done" THEN disk[job[s].target] ELSE job[s].found
  <2>1. CASE then # "done"
    <3>1. job' = [job EXCEPT ![s].task = then]
      BY <1>3, <2>1
    <3>2. job'[s] = [job[s] EXCEPT !.task = then] /\ \A t \in Sessions \ {s} : job'[t] = job[t]
      BY <1>1, <3>1 DEF Types
    <3>3. [job[s] EXCEPT !.task = then] \in JobType
      BY <1>4, <1>5 DEF JobType
    <3>4. QED
      BY <1>1, <1>4, <2>1, <3>1, <3>2, <3>3 DEF Types, JobType
  <2>2. CASE then = "done"
    <3>1. job' = [job EXCEPT ![s].task = "done", ![s].found = disk[job[s].target]]
      BY <1>3, <2>2
    <3>2. /\ job'[s] = [job[s] EXCEPT !.task = "done", !.found = disk[job[s].target]]
          /\ \A t \in Sessions \ {s} : job'[t] = job[t]
      BY <1>1, <3>1 DEF Types
    <3>3. [job[s] EXCEPT !.task = "done", !.found = disk[job[s].target]] \in JobType
      BY Zenon, <1>4, <1>5, <1>9, <2>2 DEF JobType
    <3>4. QED
      BY <1>1, <1>4, <2>2, <3>1, <3>2, <3>3 DEF Types, JobType
  <2>3. QED
    BY Zenon, <2>1, <2>2
<1>11. /\ disk' \in [Domains -> Nat] /\ \A d \in Domains \ {dom[s]} : disk'[d] = disk[d]
  BY <1>1, <1>3, <1>9 DEF Types
<1>12. then \in {"save", "failed"} \/ disk'[dom[s]] = newest[dom[s]]
  BY <1>1, <1>3, <1>4, <1>8 DEF Types, Clean
<1>13. then \in {"done", "spawn", "ready"} => job'[s].found = newest[job[s].target]
  <2>1. CASE then = "done"
    <3>1. Clean(job[s].target)
      BY <1>3, <1>8, <1>9, <2>1
    <3>2. QED
      BY <1>10, <2>1, <3>1 DEF Clean
  <2>2. CASE then = "ready"
    BY <1>3, <1>8, <1>10, <2>2
  <2>3. QED
    BY <1>3, <2>1, <2>2
<1>14. QED
  BY Zenon, <1>2, <1>5, <1>10, <1>11, <1>12, <1>13, SourceTaskKeeps

\* The last task of a switch records the active domain.
LEMMA ActiveDomainKeeps ==
  ASSUME SessionInv, NEW s \in Sessions, SaveActiveDomain(s)
  PROVE  SessionInv'
<1>1. Types /\ SwitchInv /\ DataInv /\ ResideInv /\ AdmissionInv
  BY Zenon DEF SessionInv
<1>2. /\ UNCHANGED <<switch, lease, requests>> /\ UNCHANGED <<admission, online, member, saves>>
      /\ UNCHANGED <<stage, closed, loaded>> /\ UNCHANGED <<dom, live, newest, resides>>
      /\ game' = game /\ disk' = disk /\ (global' = job[s].target \/ global' = global)
      /\ job[s].task = "global" /\ job' = [job EXCEPT ![s].task = "saved"]
  BY Zenon DEF SaveActiveDomain, Task, login, play
<1>3. job[s] \in JobType /\ "global" \in TargetTasks /\ "saved" \in TargetTasks
  BY <1>1 DEF Types, TargetTasks
<1>4. job'[s] = [job[s] EXCEPT !.task = "saved"] /\ \A t \in Sessions \ {s} : job'[t] = job[t]
  BY <1>1, <1>2 DEF Types
<1>5. [job[s] EXCEPT !.task = "saved"] \in JobType
  BY <1>3 DEF JobType
<1>6. /\ job' \in [Sessions -> JobType]
      /\ job'[s].phase = job[s].phase /\ job'[s].task = "saved" /\ job'[s].target = job[s].target
  BY <1>1, <1>2, <1>3, <1>4, <1>5 DEF Types, JobType
<1>7. job[s].phase = "target" /\ job[s].target \in Domains /\ job[s].target \in resides
  BY <1>1, <1>2, <1>3 DEF SwitchInv, JobType, ResideInv
<1>8. DataInv'
  <2>1. \A d : Clean(d)' <=> Clean(d)
    BY Zenon, <1>2 DEF Clean
  <2>2. s \notin Switching
    BY <1>7 DEF Switching
  <2>3. admission = "Relocating" => online \in Sessions \ {s}
    BY Zenon, <1>1, <2>2 DEF AdmissionInv
  <2>4. admission = "Relocating" => job'[online] = job[online]
    BY Zenon, <1>4, <2>3
  <2>5. QED
    BY Zenon, <1>1, <1>2, <2>1, <2>4 DEF DataInv
<1>9. ResideInv'
  <2>1. \A t \in Sessions : job'[t].task = "global" => job'[t].target \in resides
    <3>1. job'[s].task # "global"
      BY <1>6
    <3>2. QED
      BY Zenon, <1>1, <1>4, <3>1 DEF ResideInv
  <2>2. global \in resides => global' \in resides
    BY Zenon, <1>2, <1>7
  <2>3. QED
    BY Zenon, <1>1, <1>2, <2>1, <2>2 DEF ResideInv
<1>10. global' \in Domains \cup {NoDomain} /\ disk' \in [Domains -> Nat]
  BY <1>1, <1>2, <1>7 DEF Types
<1>11. QED
  BY Zenon, <1>2, <1>3, <1>4, <1>6, <1>8, <1>9, <1>10, TaskKeeps

\* A job is abandoned, by the poll that finds its player closed or by the shutdown.
LEMMA FinishSourceKeeps ==
  ASSUME SessionInv, NEW s \in Jobs, FinishSourceDisconnect(s), JobPhase,
         requests' = requests, loaded' = loaded
  PROVE  SessionInv'
<1>1. CASE job[s].phase = "source"
  BY Zenon, <1>1, DisconnectSourceKeeps DEF FinishSourceDisconnect
<1>2. CASE job[s].phase # "source"
  BY Zenon, <1>2, DropFinalSaveKeeps DEF FinishSourceDisconnect
<1>3. QED
  BY Zenon, <1>1, <1>2

\* DomainSwitchJob::poll, in the order of its checks.
LEMMA PollKeeps ==
  ASSUME SessionInv, NEW s \in Jobs, PollDomainSwitch(s), game = "jobs", game' = "joins",
         requests' = requests, loaded' = loaded
  PROVE  SessionInv'
<1>1. Types /\ SwitchInv /\ JobInv /\ s \in Sessions /\ DataInv
  BY Zenon DEF SessionInv, Jobs
<1>2. JobPhase
  BY Zenon DEF JobPhase
<1>3. CASE closed[s] \/ job[s].task = "failed"
  <2>1. FinishSourceDisconnect(s)
    BY <1>3 DEF PollDomainSwitch
  <2>2. QED
    BY Zenon, <1>2, <2>1, FinishSourceKeeps
<1>4. CASE ~closed[s] /\ job[s].task = "done"
  <2>1. /\ job' = [job EXCEPT ![s].task = "spawn"]
        /\ UNCHANGED <<closed, admission, online, saves, stage, switch, lease, play, storage>>
    BY <1>4 DEF PollDomainSwitch
  <2>2. /\ UNCHANGED <<switch, lease, requests>> /\ UNCHANGED <<admission, online, member, saves>>
        /\ UNCHANGED <<stage, closed, loaded>> /\ UNCHANGED <<dom, live, newest, resides>>
        /\ disk' = disk /\ global' = global
    BY Zenon, <2>1 DEF play, storage
  <2>3. job[s] \in JobType /\ "done" \in SourceTasks /\ "spawn" \in SourceTasks
    BY <1>1 DEF Types, SourceTasks
  <2>4. job'[s] = [job[s] EXCEPT !.task = "spawn"] /\ \A t \in Sessions \ {s} : job'[t] = job[t]
    BY <1>1, <2>1 DEF Types
  <2>5. [job[s] EXCEPT !.task = "spawn"] \in JobType
    BY <2>3 DEF JobType
  <2>6. /\ job' \in [Sessions -> JobType]
        /\ job'[s].phase = job[s].phase /\ job'[s].task = "spawn" /\ job'[s].target = job[s].target
        /\ job'[s].version = job[s].version /\ job'[s].found = job[s].found
    BY <1>1, <2>1, <2>3, <2>4, <2>5 DEF Types, JobType
  <2>7. job[s].phase = "source"
    <3>1. job[s].task \in SourceTasks
      BY <1>4, <2>3
    <3>2. QED
      BY Zenon, <1>1, <3>1 DEF SwitchInv
  <2>8. admission = "Relocating" /\ online = s /\ saves = {} /\ game \notin {"worlds", "ended"}
    BY Zenon, <1>1, <2>7, SourceFacts
  <2>9. Clean(dom[s]) /\ job[s].found = newest[job[s].target]
    BY <1>1, <1>4, <2>8 DEF DataInv
  <2>10. /\ disk' \in [Domains -> Nat] /\ \A d \in Domains \ {dom[s]} : disk'[d] = disk[d]
         /\ disk'[dom[s]] = newest[dom[s]] /\ job'[s].found = newest[job[s].target]
    BY Zenon, <1>1, <2>2, <2>6, <2>9 DEF Types, Clean
  <2>11. QED
    BY Zenon, <1>1, <1>4, <2>2, <2>3, <2>4, <2>6, <2>10, SourceTaskKeeps
<1>5. CASE ~closed[s] /\ job[s].task = "ready"
  <2>1. CommitTarget(s)
    BY <1>5 DEF PollDomainSwitch
  <2>2. QED
    BY Zenon, <1>5, <2>1, CommitTargetKeeps
<1>6. CASE ~closed[s] /\ job[s].task = "saved"
  <2>1. DropFinalSave(s)
    BY <1>6 DEF PollDomainSwitch
  <2>2. job[s].phase # "source"
    BY <1>1, <1>6 DEF SwitchInv, TargetTasks
  <2>3. QED
    BY Zenon, <1>2, <2>1, <2>2, DropFinalSaveKeeps
<1>7. CASE ~closed[s] /\ job[s].task \notin {"failed", "done", "ready", "saved"}
  <2>1. UNCHANGED <<closed, admission, online, saves, stage, switch, lease, job, play, storage>>
    BY <1>7 DEF PollDomainSwitch
  <2>2. /\ saves' = saves /\ UNCHANGED <<admission, online, member>> /\ UNCHANGED data
        /\ UNCHANGED <<switch, lease, requests, job>> /\ UNCHANGED <<stage, closed, loaded>>
    BY Zenon, <2>1 DEF play, storage, data
  <2>3. /\ game \notin {"removing", "lastRemoving", "worlds", "ended"} /\ game' \notin Late
        /\ game' \in (Early \cup Late) \ {"removing", "lastRemoving", "worlds", "ended"}
    BY DEF Early, Late
  <2>4. \A t \in Jobs : online = t
    BY Zenon, <1>1, <1>7 DEF JobInv
  <2>5. QED
    BY Zenon, <2>2, <2>3, <2>4, PhaseKeeps
<1>8. QED
  BY Zenon, <1>3, <1>4, <1>5, <1>6, <1>7

\* ServerJobQueue::tick and jobs.cancel_all.
LEMMA JobsKeep ==
  ASSUME SessionInv, TickJobs \/ CancelJobs
  PROVE  SessionInv'
<1>1. CASE Jobs = {}
  BY Zenon, <1>1, QuietKeeps
<1>2. CASE Jobs # {}
  <2>1. requests' = requests /\ loaded' = loaded
    BY Zenon DEF TickJobs, CancelJobs
  <2>2. CASE TickJobs
    BY Zenon, <1>2, <2>1, <2>2, PollKeeps DEF TickJobs
  <2>3. CASE CancelJobs
    BY Zenon, <1>2, <2>1, <2>3, FinishSourceKeeps DEF CancelJobs, JobPhase
  <2>4. QED
    BY Zenon, <2>2, <2>3
<1>3. QED
  BY Zenon, <1>1, <1>2

----------------------------------------------------------------------------
\* Disconnect saves.

\* A running save is the only one, and nobody joins or switches meanwhile.
LEMMA SavingFacts ==
  ASSUME SessionInv, NEW v \in saves
  PROVE  /\ saves = {v} /\ v \in SaveType /\ Joins = {} /\ Switching = {} /\ ~Leaving
         /\ \/ admission = "Disconnecting" /\ online = NoSession /\ member = {}
               /\ game \notin {"worlds", "ended"}
            \/ admission = "none" /\ game = "worlds" /\ online \in Sessions
               /\ member = {online} \cap Sessions
<1>1. Types /\ AdmissionInv
  BY Zenon DEF SessionInv
<1>2. saves # {} /\ v \in SaveType
  BY Zenon, <1>1 DEF Types
<1>3. admission \in {"none", "Disconnecting"}
  BY <1>1, <1>2 DEF Types, AdmissionInv
<1>4. CASE admission = "Disconnecting"
  <2>1. \E x \in saves : saves = {x}
    BY Zenon, <1>1, <1>2, <1>4 DEF AdmissionInv
  <2>2. saves = {v}
    BY Zenon, <2>1
  <2>3. QED
    BY Zenon, <1>1, <1>2, <1>4, <2>2 DEF AdmissionInv
<1>5. CASE admission = "none"
  <2>1. game = "worlds"
    BY Zenon, <1>1, <1>2, <1>5 DEF AdmissionInv
  <2>2. online \in Sessions /\ \E x \in saves : saves = {x}
    BY Zenon, <1>1, <1>2, <2>1 DEF AdmissionInv
  <2>3. saves = {v}
    BY Zenon, <2>2
  <2>4. QED
    BY Zenon, <1>1, <1>2, <1>5, <2>1, <2>2, <2>3 DEF AdmissionInv
<1>6. QED
  BY <1>3, <1>4, <1>5

\* save_disconnected_player writes the domain's data.
LEMMA SaveDomainKeeps ==
  ASSUME SessionInv, NEW v \in saves, SaveDomainData(v)
  PROVE  SessionInv'
<1> DEFINE w == [v EXCEPT !.step = "global"]
<1>1. Types /\ AdmissionInv /\ SwitchInv /\ JobInv /\ DataInv /\ ResideInv
  BY Zenon DEF SessionInv
<1>2. /\ UNCHANGED <<stage, loaded, closed, admission, online, member, dom, live, global, resides, game>>
      /\ UNCHANGED <<switch, lease, requests, job>>
  BY Zenon DEF SaveDomainData, login, play, moving
<1>3. /\ saves = {v} /\ v \in SaveType /\ Joins = {} /\ Switching = {} /\ ~Leaving
      /\ \/ admission = "Disconnecting" /\ online = NoSession /\ member = {}
            /\ game \notin {"worlds", "ended"}
         \/ admission = "none" /\ game = "worlds" /\ online \in Sessions
            /\ member = {online} \cap Sessions
  BY Zenon, SavingFacts
<1>4. /\ saves' = (saves \ {v}) \cup {w} /\ v.step = "domain"
      /\ \/ disk' = [disk EXCEPT ![v.domain] = v.version] /\ newest' = newest
         \/ newest' = [newest EXCEPT ![v.domain] = disk[v.domain]] /\ disk' = disk
  BY Zenon DEF SaveDomainData
<1>5. saves' = {w} /\ w \in SaveType /\ w.step = "global" /\ w.domain = v.domain /\ v.domain \in Domains
  BY <1>3, <1>4 DEF SaveType
<1>6. v.version = newest[v.domain] /\ \A d \in Domains \ {v.domain} : Clean(d)
  BY <1>1, <1>4 DEF DataInv
<1>7. /\ disk' \in [Domains -> Nat] /\ newest' \in [Domains -> Nat]
      /\ \A d \in Domains \ {v.domain} : disk'[d] = disk[d] /\ newest'[d] = newest[d]
  BY <1>1, <1>3, <1>4, <1>5 DEF Types, SaveType
<1>8. disk'[v.domain] = newest'[v.domain]
  BY <1>1, <1>4, <1>5, <1>6 DEF Types
<1>9. \A d \in Domains : Clean(d)'
  BY Zenon, <1>6, <1>7, <1>8 DEF Clean
<1>10. Joins' = {} /\ Switching' = {} /\ Leaving' = Leaving
  BY Zenon, <1>2, <1>3 DEF Joins, Switching, Leaving
<1>11. Types'
  <2>1. saves' \in SUBSET SaveType
    BY Zenon, <1>5
  <2>2. QED
    BY Zenon, <1>1, <1>2, <1>7, <2>1 DEF Types
<1>12. AdmissionInv'
  <2>1. \E x \in saves' : saves' = {x}
    BY Zenon, <1>5
  <2>2. CASE admission = "Disconnecting"
    <3>1. admission' = "Disconnecting" /\ online' = NoSession /\ member' = {}
          /\ game' \notin {"worlds", "ended"}
      BY <1>2, <1>3, <2>2
    <3>2. QED
      BY <1>3, <1>10, <2>1, <3>1 DEF AdmissionInv
  <2>3. CASE admission = "none"
    <3>1. admission' = "none" /\ game' = "worlds" /\ online' \in Sessions
          /\ member' = {online'} \cap Sessions
      BY <1>2, <1>3, <2>3
    <3>2. QED
      BY <1>3, <1>10, <2>1, <3>1 DEF AdmissionInv
  <2>4. QED
    BY Zenon, <1>3, <2>2, <2>3
<1>13. SwitchInv'
  BY Zenon, <1>1, <1>2, SwitchKept
<1>14. JobInv'
  BY Zenon, <1>1, <1>2, JobKept
<1>15. DataInv'
  <2>1. \A t \in Sessions : stage'[t] # "prepared"
    <3>1. "prepared" \in Pipeline
      BY DEF Pipeline
    <3>2. QED
      BY Zenon, <1>10, <3>1 DEF Joins
  <2>2. saves' # {}
    BY Zenon, <1>5
  <2>3. \A x \in saves' : x = w
    BY Zenon, <1>5
  <2>4. QED
    BY Zenon, <1>5, <1>9, <2>1, <2>2, <2>3 DEF DataInv
<1>16. ResideInv'
  <2>1. v.domain \in resides
    BY Zenon, <1>1 DEF ResideInv
  <2>2. \A x \in saves' : x.domain = v.domain
    BY Zenon, <1>5
  <2>3. saves' # {}
    BY Zenon, <1>5
  <2>4. QED
    BY Zenon, <1>1, <1>2, <2>1, <2>2, <2>3 DEF ResideInv
<1>17. QED
  BY Zenon, <1>11, <1>12, <1>13, <1>14, <1>15, <1>16 DEF SessionInv

\* save_disconnected_player records the active domain and gives the admission back.
LEMMA SaveGlobalKeeps ==
  ASSUME SessionInv, NEW v \in saves, SaveGlobal(v)
  PROVE  SessionInv'
<1>1. Types /\ AdmissionInv /\ SwitchInv /\ JobInv /\ DataInv /\ ResideInv
  BY Zenon DEF SessionInv
<1>2. /\ UNCHANGED <<loaded, closed, online, member, dom, live, disk, newest, game>>
      /\ UNCHANGED <<switch, lease, requests, job>> /\ stage' = Woken(stage)
  BY Zenon DEF SaveGlobal, Notify, play, moving
<1>3. /\ saves = {v} /\ v \in SaveType /\ Joins = {} /\ Switching = {} /\ ~Leaving
      /\ \/ admission = "Disconnecting" /\ online = NoSession /\ member = {}
            /\ game \notin {"worlds", "ended"}
         \/ admission = "none" /\ game = "worlds" /\ online \in Sessions
            /\ member = {online} \cap Sessions
  BY Zenon, SavingFacts
<1>4. /\ saves' = {} /\ v.step = "global" /\ admission' = "none" /\ v.domain \in Domains
      /\ \/ global' = v.domain /\ resides' = resides
         \/ global' = global /\ resides' = resides \cup {global}
  <2>1. saves' = saves \ {v} /\ v.step = "global" /\ ReleaseAdmission("Disconnecting")
    BY Zenon DEF SaveGlobal
  <2>2. admission' = "none"
    BY <1>3, <2>1 DEF ReleaseAdmission
  <2>3. v.domain \in Domains
    BY <1>3 DEF SaveType
  <2>4. QED
    BY Zenon, <1>3, <2>1, <2>2, <2>3 DEF SaveGlobal
<1>5. \A d \in Domains : Clean(d)'
  <2>1. \A d \in Domains : Clean(d)
    BY Zenon, <1>1, <1>4 DEF DataInv
  <2>2. QED
    BY Zenon, <1>2, <2>1 DEF Clean
<1>6. /\ stage' \in [Sessions -> Stages]
      /\ \A s \in Sessions : /\ stage'[s] \in Pipeline <=> stage[s] \in Pipeline
                             /\ stage'[s] = "prepared" <=> stage[s] = "prepared"
  <2>1. stage \in [Sessions -> Stages]
    BY Zenon, <1>1 DEF Types
  <2>2. QED
    BY Zenon, <1>2, <2>1, WokenStages
<1>7. Joins' = {} /\ Switching' = {} /\ Leaving' = Leaving
  BY Zenon, <1>2, <1>3, <1>6 DEF Joins, Switching, Leaving
<1>8. Types'
  <2>1. saves' \in SUBSET SaveType
    BY Zenon, <1>4
  <2>2. global' \in Domains \cup {NoDomain}
    BY Zenon, <1>1, <1>4 DEF Types
  <2>3. admission' \in {"none", "Joining", "Relocating", "Disconnecting"}
    BY <1>4
  <2>4. QED
    BY Zenon, <1>1, <1>2, <1>6, <2>1, <2>2, <2>3 DEF Types
<1>9. AdmissionInv'
  <2>1. member' = {online'} \cap Sessions
    <3>1. CASE online = NoSession /\ member = {}
      BY Zenon, <1>2, <3>1, SessionAssumption
    <3>2. CASE member = {online} \cap Sessions
      BY Zenon, <1>2, <3>2
    <3>3. QED
      BY Zenon, <1>3, <3>1, <3>2
  <2>2. QED
    BY <1>3, <1>4, <1>7, <2>1 DEF AdmissionInv
<1>10. SwitchInv'
  BY Zenon, <1>1, <1>2, SwitchKept
<1>11. JobInv'
  BY Zenon, <1>1, <1>2, JobKept
<1>12. DataInv'
  <2>1. \A t \in Sessions : stage'[t] # "prepared"
    <3>1. "prepared" \in Pipeline
      BY DEF Pipeline
    <3>2. QED
      BY Zenon, <1>7, <3>1 DEF Joins
  <2>2. online' \in Sessions => game' \in {"worlds", "ended"}
    BY <1>2, <1>3, SessionAssumption
  <2>3. QED
    BY Zenon, <1>4, <1>5, <2>1, <2>2 DEF DataInv
<1>13. ResideInv'
  <2>1. v.domain \in resides
    BY Zenon, <1>1 DEF ResideInv
  <2>2. global' \in resides' /\ resides \subseteq resides'
    BY Zenon, <1>4, <2>1
  <2>3. QED
    BY Zenon, <1>1, <1>2, <1>4, <2>2 DEF ResideInv
<1>14. QED
  BY Zenon, <1>8, <1>9, <1>10, <1>11, <1>12, <1>13 DEF SessionInv

----------------------------------------------------------------------------
\* Live players.

\* Whoever is in a world is the online session, and nothing else owns it.
LEMMA LiveFacts ==
  ASSUME SessionInv, NEW s \in Sessions, Live(s)
  PROVE  /\ online = s /\ s # NoSession /\ admission = "none" /\ Joins = {} /\ Switching = {}
         /\ member = {s}
         /\ game # "worlds" => saves = {}
<1>1. Types /\ AdmissionInv
  BY Zenon DEF SessionInv
<1>2. online = s /\ s \in member /\ member # {} /\ s # NoSession
  BY Zenon, SessionAssumption DEF Live
<1>3. admission = "none"
  BY <1>1, <1>2 DEF Types, AdmissionInv
<1>4. QED
  BY Zenon, <1>1, <1>2, <1>3 DEF AdmissionInv

\* The player's data changes: a packet between ticks or a world tick.
LEMMA PlayKeeps ==
  ASSUME SessionInv, NEW s \in Sessions, PlayOn(s)
  PROVE  SessionInv'
<1>1. Types /\ AdmissionInv /\ SwitchInv /\ JobInv /\ DataInv /\ ResideInv
  BY Zenon DEF SessionInv
<1>2. /\ UNCHANGED <<stage, loaded, closed, admission, online, member, dom, saves, game>>
      /\ UNCHANGED <<disk, global, resides, switch, lease, requests, job>>
  BY Zenon DEF PlayOn, login, moving
<1>3. game \notin {"worlds", "ended"} /\ Live(s) /\ game # "worlds"
  BY DEF PlayOn
<1>4. /\ online = s /\ s # NoSession /\ admission = "none" /\ Joins = {} /\ Switching = {}
      /\ member = {s} /\ saves = {}
  BY Zenon, <1>3, LiveFacts
<1>5. dom[s] \in Domains /\ live[s] \in Nat
  BY <1>1 DEF Types
<1>6. /\ live' \in [Sessions -> Nat] /\ newest' \in [Domains -> Nat]
      /\ \A d \in Domains \ {dom[s]} : newest'[d] = newest[d]
      /\ live'[s] = newest'[dom[s]]
  BY <1>1, <1>5 DEF PlayOn, Types
<1>7. Joins' = Joins /\ Switching' = Switching /\ Leaving' = Leaving
  BY Zenon, <1>2 DEF Joins, Switching, Leaving
<1>8. Types'
  BY Zenon, <1>1, <1>2, <1>6 DEF Types
<1>9. AdmissionInv'
  BY Zenon, <1>1, <1>2, <1>7 DEF AdmissionInv
<1>10. SwitchInv'
  BY Zenon, <1>1, <1>2, SwitchKept
<1>11. JobInv'
  BY Zenon, <1>1, <1>2, JobKept
<1>12. DataInv'
  <2>1. \A t \in Sessions : stage'[t] # "prepared"
    <3>1. "prepared" \in Pipeline
      BY DEF Pipeline
    <3>2. QED
      BY Zenon, <1>4, <1>7, <3>1 DEF Joins
  <2>2. \A d \in Domains \ {dom[s]} : Clean(d)
    BY Zenon, <1>1, <1>3, <1>4 DEF DataInv
  <2>3. \A d \in Domains \ {dom[s]} : Clean(d)'
    BY ZenonT(40), <1>2, <1>6, <2>2 DEF Clean
  <2>4. /\ online' = s /\ admission' # "Relocating" /\ saves' = {} /\ game' \notin {"worlds", "ended"}
        /\ live'[online'] = newest'[dom'[online']] /\ online' # NoSession
    BY <1>2, <1>3, <1>4, <1>6
  <2>5. \A d \in Domains \ {dom'[online']} : Clean(d)'
    BY Zenon, <1>2, <2>3, <2>4
  <2>6. QED
    BY Zenon, <2>1, <2>4, <2>5 DEF DataInv
<1>13. ResideInv'
  BY Zenon, <1>1, <1>2, ResideKept
<1>14. QED
  BY Zenon, <1>8, <1>9, <1>10, <1>11, <1>12, <1>13 DEF SessionInv

\* queue_domain_switch takes the lease and the token for its request.
LEMMA QueueSwitchKeeps ==
  ASSUME SessionInv, NEW s \in Sessions, NEW d \in Domains, QueueDomainSwitch(s, d)
  PROVE  SessionInv'
<1> DEFINE q == [session |-> s, target |-> d]
<1>1. Types /\ AdmissionInv /\ SwitchInv /\ JobInv /\ DataInv /\ ResideInv
  BY Zenon DEF SessionInv
<1>2. /\ UNCHANGED <<stage, loaded, closed, admission, online, member, saves, game>> /\ job' = job
      /\ UNCHANGED <<dom, live, disk, global, newest, resides>>
      /\ switch[s] = "none" /\ switch' = [switch EXCEPT ![s] = "Queued"]
      /\ lease' = lease \cup {s} /\ requests' = requests \cup {q}
  BY Zenon DEF QueueDomainSwitch, login, play, storage
<1>3. /\ switch' \in [Sessions -> {"none", "Queued", "Detached", "Finalizing"}]
      /\ switch'[s] = "Queued" /\ \A t \in Sessions \ {s} : switch'[t] = switch[t]
  BY <1>1, <1>2 DEF Types
<1>4. q \in [session : Sessions, target : Domains] /\ q.session = s
  BY DEF q
<1>5. Joins' = Joins /\ Switching' = Switching /\ Leaving' = Leaving /\ Jobs' = Jobs
  BY Zenon, <1>2 DEF Joins, Switching, Leaving, Jobs
<1>6. Types'
  <2>1. requests' \in SUBSET [session : Sessions, target : Domains]
    BY Zenon, <1>1, <1>2, <1>4 DEF Types
  <2>2. QED
    BY Zenon, <1>1, <1>2, <1>3, <2>1 DEF Types
<1>7. AdmissionInv'
  BY Zenon, <1>1, <1>2, <1>5 DEF AdmissionInv
<1>8. SwitchInv'
  <2>1. job[s].phase \notin {"source", "target"}
    BY <1>1, <1>2 DEF SwitchInv
  <2>2. \A t \in Sessions :
          /\ job'[t].phase = "none" => job'[t].task = "none"
          /\ job'[t].phase = "source" <=> job'[t].task \in SourceTasks
          /\ job'[t].phase = "source" <=> switch'[t] = "Detached"
          /\ job'[t].phase = "target" <=> job'[t].task \in TargetTasks
          /\ job'[t].phase = "target" <=> switch'[t] = "Finalizing"
    BY <1>1, <1>2, <1>3, <2>1 DEF SwitchInv
  <2>3. \A r \in requests : r.session \in Sessions /\ r.session # s
    BY <1>1, <1>2 DEF SwitchInv, Types
  <2>4. \A r \in requests' : switch'[r.session] = "Queued"
    BY ZenonT(90), <1>1, <1>2, <1>3, <1>4, <2>3 DEF SwitchInv
  <2>5. \A r, x \in requests' : r.session = x.session => r = x
    <3>1. \A r \in requests' : r \in requests \/ (r = q /\ r.session = s)
      BY Zenon, <1>2, <1>4
    <3>2. \A r, x \in requests : r.session = x.session => r = x
      BY Zenon, <1>1 DEF SwitchInv
    <3>3. QED
      BY Zenon, <2>3, <3>1, <3>2
  <2>6. {r.session : r \in requests'} = {r.session : r \in requests} \cup {s}
    BY Zenon, <1>2, <1>4
  <2>7. lease' = {r.session : r \in requests'} \cup Switching'
    BY Zenon, <1>1, <1>2, <1>5, <2>6 DEF SwitchInv
  <2>8. QED
    BY ZenonT(40), <2>2, <2>4, <2>5, <2>7 DEF SwitchInv
<1>9. JobInv'
  BY Zenon, <1>1, <1>2, JobKept
<1>10. DataInv'
  <2>1. \A t \in Sessions : stage'[t] = "prepared" => loaded'[t].version = newest[loaded'[t].domain]
    BY Zenon, <1>1, <1>2 DEF DataInv
  <2>2. QED
    BY Zenon, <1>1, <1>2, <2>1, DataKept
<1>11. ResideInv'
  BY Zenon, <1>1, <1>2, ResideKept
<1>12. QED
  BY Zenon, <1>6, <1>7, <1>8, <1>9, <1>10, <1>11 DEF SessionInv

\* A request leaves the queue, so no other names its session.
LEMMA RequestTaken ==
  ASSUME Types, SwitchInv, NEW r \in requests, requests' = requests \ {r}
  PROVE  /\ r.session \in Sessions /\ r.target \in Domains
         /\ switch[r.session] = "Queued" /\ r.session \notin Jobs
         /\ requests' \in SUBSET [session : Sessions, target : Domains]
         /\ \A x \in requests' : x \in requests /\ x.session # r.session
         /\ {x.session : x \in requests'} = {x.session : x \in requests} \ {r.session}
         /\ r.session \in {x.session : x \in requests}
<1>1. r \in [session : Sessions, target : Domains]
      /\ requests' \in SUBSET [session : Sessions, target : Domains]
  BY Zenon DEF Types
<1>2. r.session \in Sessions /\ r.target \in Domains
  BY <1>1
<1>3. switch[r.session] = "Queued" /\ r.session \notin Jobs
  <2>1. job[r.session] \in JobType
    BY <1>2 DEF Types
  <2>2. QED
    BY <1>2, <2>1 DEF SwitchInv, Jobs, JobType
<1>4. \A x \in requests' : x \in requests /\ x.session # r.session
  BY Zenon DEF SwitchInv
<1>5. \A x \in requests : x.session # r.session => x \in requests'
  BY Zenon
<1>6. {x.session : x \in requests'} = {x.session : x \in requests} \ {r.session}
  BY Zenon, <1>4, <1>5
<1>7. QED
  BY Zenon, <1>1, <1>2, <1>3, <1>4, <1>6

\* start_domain_switch refuses: the tokens of the request are cleared.
LEMMA RefuseKeeps ==
  ASSUME SessionInv, NEW r \in requests, requests' = requests \ {r}, RefuseDomainSwitch(r),
         UNCHANGED <<stage, loaded, closed, online, saves, game>>, UNCHANGED data
  PROVE  SessionInv'
<1> DEFINE s == r.session
<1>1. Types /\ AdmissionInv /\ SwitchInv /\ JobInv /\ DataInv /\ ResideInv
  BY Zenon DEF SessionInv
<1>2. /\ UNCHANGED <<stage, loaded, closed, admission, online, member, saves, game>> /\ job' = job
      /\ UNCHANGED <<dom, live, disk, global, newest, resides>>
      /\ switch' = [switch EXCEPT ![s] = "none"] /\ lease' = lease \ {s}
  BY Zenon DEF RefuseDomainSwitch, data
<1>3. /\ s \in Sessions /\ switch[s] = "Queued" /\ s \notin Jobs
      /\ requests' \in SUBSET [session : Sessions, target : Domains]
      /\ \A x \in requests' : x \in requests /\ x.session # s
      /\ {x.session : x \in requests'} = {x.session : x \in requests} \ {s}
  BY Zenon, <1>1, RequestTaken
<1>4. /\ switch' \in [Sessions -> {"none", "Queued", "Detached", "Finalizing"}]
      /\ switch'[s] = "none" /\ \A t \in Sessions \ {s} : switch'[t] = switch[t]
  BY <1>1, <1>2, <1>3 DEF Types
<1>5. Joins' = Joins /\ Switching' = Switching /\ Leaving' = Leaving /\ Jobs' = Jobs
  BY Zenon, <1>2 DEF Joins, Switching, Leaving, Jobs
<1>6. Types'
  BY Zenon, <1>1, <1>2, <1>3, <1>4 DEF Types
<1>7. AdmissionInv'
  BY Zenon, <1>1, <1>2, <1>5 DEF AdmissionInv
<1>8. SwitchInv'
  <2>1. job[s].phase = "none" /\ s \notin Switching
    BY Zenon, <1>3 DEF Jobs, Switching
  <2>2. \A t \in Sessions :
          /\ job'[t].phase = "none" => job'[t].task = "none"
          /\ job'[t].phase = "source" <=> job'[t].task \in SourceTasks
          /\ job'[t].phase = "source" <=> switch'[t] = "Detached"
          /\ job'[t].phase = "target" <=> job'[t].task \in TargetTasks
          /\ job'[t].phase = "target" <=> switch'[t] = "Finalizing"
    BY Zenon, <1>1, <1>2, <1>4, <2>1 DEF SwitchInv
  <2>3. \A x \in requests : x.session \in Sessions
    BY <1>1 DEF Types
  <2>4. \A x \in requests' : switch'[x.session] = "Queued"
    <3>1. \A x \in requests' : x.session \in Sessions \ {s} /\ switch[x.session] = "Queued"
      BY Zenon, <1>1, <1>3, <2>3 DEF SwitchInv
    <3>2. QED
      BY Zenon, <1>4, <3>1
  <2>5. \A x, y \in requests' : x.session = y.session => x = y
    BY Zenon, <1>1, <1>3 DEF SwitchInv
  <2>6. lease' = {x.session : x \in requests'} \cup Switching'
    BY Zenon, <1>1, <1>2, <1>3, <1>5, <2>1 DEF SwitchInv
  <2>7. QED
    BY Zenon, <2>2, <2>4, <2>5, <2>6 DEF SwitchInv
<1>9. JobInv'
  BY Zenon, <1>1, <1>2, JobKept
<1>10. DataInv'
  <2>1. \A t \in Sessions : stage'[t] = "prepared" => loaded'[t].version = newest[loaded'[t].domain]
    BY Zenon, <1>1, <1>2 DEF DataInv
  <2>2. QED
    BY Zenon, <1>1, <1>2, <2>1, DataKept
<1>11. ResideInv'
  BY Zenon, <1>1, <1>2, ResideKept
<1>12. QED
  BY Zenon, <1>6, <1>7, <1>8, <1>9, <1>10, <1>11 DEF SessionInv

\* start_domain_switch detaches the player and hands its data to a job.
LEMMA StartSwitchKeeps ==
  ASSUME SessionInv, NEW r \in requests, requests' = requests \ {r}, StartDomainSwitch(r),
         UNCHANGED <<stage, loaded, closed, online, saves, game>>, UNCHANGED data, game = "switches"
  PROVE  SessionInv'
<1> DEFINE s == r.session
           j == [phase |-> "source", task |-> "save", target |-> r.target,
                 version |-> live[s], found |-> 0]
<1>1. Types /\ AdmissionInv /\ SwitchInv /\ JobInv /\ DataInv /\ ResideInv
  BY Zenon DEF SessionInv
<1>2. /\ UNCHANGED <<stage, loaded, closed, online, saves, game>> /\ lease' = lease
      /\ UNCHANGED <<dom, live, disk, global, newest, resides>>
      /\ switch' = [switch EXCEPT ![s] = "Detached"] /\ job' = [job EXCEPT ![s] = j]
      /\ admission' = "Relocating" /\ member' = member \ {s} /\ Live(s)
  BY Zenon DEF StartDomainSwitch, data
<1>3. /\ s \in Sessions /\ r.target \in Domains /\ switch[s] = "Queued" /\ s \notin Jobs
      /\ requests' \in SUBSET [session : Sessions, target : Domains]
      /\ \A x \in requests' : x \in requests /\ x.session # s
      /\ {x.session : x \in requests'} = {x.session : x \in requests} \ {s}
      /\ s \in {x.session : x \in requests}
  BY Zenon, <1>1, RequestTaken
<1>4. /\ online = s /\ s # NoSession /\ admission = "none" /\ Joins = {} /\ Switching = {}
      /\ member = {s} /\ saves = {}
  <2>1. game # "worlds"
    OBVIOUS
  <2>2. QED
    BY Zenon, <1>2, <1>3, <2>1, LiveFacts
<1>5. /\ switch' \in [Sessions -> {"none", "Queued", "Detached", "Finalizing"}]
      /\ switch'[s] = "Detached" /\ \A t \in Sessions \ {s} : switch'[t] = switch[t]
  BY <1>1, <1>2, <1>3 DEF Types
<1>6. j \in JobType /\ j.phase = "source" /\ j.task = "save" /\ j.version = live[s]
      /\ j.task \in SourceTasks /\ j.task \notin TargetTasks
  <2>1. live[s] \in Nat
    BY <1>1, <1>3 DEF Types
  <2>2. QED
    BY <1>3, <2>1 DEF JobType, SourceTasks, TargetTasks
<1>7. job' \in [Sessions -> JobType] /\ job'[s] = j /\ \A t \in Sessions \ {s} : job'[t] = job[t]
  BY Zenon, <1>1, <1>2, <1>3, <1>6 DEF Types
<1>8. Jobs = {}
  BY Zenon, <1>1, <1>3, <1>4 DEF JobInv
<1>9. /\ \A t \in Sessions \ {s} : job'[t].phase = "none"
      /\ job'[s].phase = "source" /\ job'[s].task = "save" /\ job'[s].version = live[s]
  BY Zenon, <1>6, <1>7, <1>8 DEF Jobs
<1>10. Jobs' = {s} /\ Switching' = {s}
  <2>1. \A t \in Sessions : job'[t].phase = "source" <=> t = s
    BY <1>9
  <2>2. \A t \in Sessions : job'[t].phase # "none" <=> t = s
    BY <1>9
  <2>3. QED
    BY ZenonT(40), <1>3, <2>1, <2>2 DEF Jobs, Switching
<1>11. Joins' = {} /\ Leaving' = Leaving /\ ~Leaving /\ member' = {} /\ saves' = {} /\ online' = s
  <2>1. ~Leaving
    BY DEF Leaving
  <2>2. QED
    BY Zenon, <1>2, <1>4, <2>1 DEF Joins, Leaving
<1>12. Types'
  <2>1. admission' \in {"none", "Joining", "Relocating", "Disconnecting"}
    BY <1>2
  <2>2. member' \in SUBSET Sessions
    BY Zenon, <1>11
  <2>3. QED
    BY ZenonT(40), <1>1, <1>2, <1>3, <1>5, <1>7, <2>1, <2>2 DEF Types
<1>13. AdmissionInv'
  BY <1>2, <1>3, <1>10, <1>11 DEF AdmissionInv
<1>14. SwitchInv'
  <2>1. \A t \in Sessions \ {s} :
          /\ job'[t].phase = "none" => job'[t].task = "none"
          /\ job'[t].phase = "source" <=> job'[t].task \in SourceTasks
          /\ job'[t].phase = "source" <=> switch'[t] = "Detached"
          /\ job'[t].phase = "target" <=> job'[t].task \in TargetTasks
          /\ job'[t].phase = "target" <=> switch'[t] = "Finalizing"
    <3>1. \A t \in Sessions \ {s} : job'[t] = job[t] /\ switch'[t] = switch[t] /\ t \in Sessions
      BY Zenon, <1>5, <1>7
    <3>2. \A t \in Sessions :
            /\ job[t].phase = "none" => job[t].task = "none"
            /\ job[t].phase = "source" <=> job[t].task \in SourceTasks
            /\ job[t].phase = "source" <=> switch[t] = "Detached"
            /\ job[t].phase = "target" <=> job[t].task \in TargetTasks
            /\ job[t].phase = "target" <=> switch[t] = "Finalizing"
      BY ZenonT(40), <1>1 DEF SwitchInv
    <3>3. QED
      BY <3>1, <3>2
  <2>2. /\ job'[s].phase = "none" => job'[s].task = "none"
        /\ job'[s].phase = "source" <=> job'[s].task \in SourceTasks
        /\ job'[s].phase = "source" <=> switch'[s] = "Detached"
        /\ job'[s].phase = "target" <=> job'[s].task \in TargetTasks
        /\ job'[s].phase = "target" <=> switch'[s] = "Finalizing"
    BY <1>5, <1>6, <1>7
  <2>3. \A x \in requests : x.session \in Sessions
    BY <1>1 DEF Types
  <2>4. \A x \in requests' : switch'[x.session] = "Queued"
    <3>1. \A x \in requests' : x.session \in Sessions \ {s} /\ switch[x.session] = "Queued"
      BY Zenon, <1>1, <1>3, <2>3 DEF SwitchInv
    <3>2. QED
      BY Zenon, <1>5, <3>1
  <2>5. \A x, y \in requests' : x.session = y.session => x = y
    BY Zenon, <1>1, <1>3 DEF SwitchInv
  <2>6. lease' = {x.session : x \in requests'} \cup Switching'
    <3>1. lease = {x.session : x \in requests}
      BY Zenon, <1>1, <1>4 DEF SwitchInv
    <3>2. QED
      BY Zenon, <1>2, <1>3, <1>10, <3>1
  <2>7. QED
    BY ZenonT(40), <2>1, <2>2, <2>4, <2>5, <2>6 DEF SwitchInv
<1>15. JobInv'
  <2>1. game' \notin Late
    BY <1>2 DEF Late
  <2>2. QED
    BY ZenonT(90), <1>10, <1>11, <2>1 DEF JobInv
<1>16. DataInv'
  <2>1. \A t \in Sessions : stage'[t] # "prepared"
    <3>1. "prepared" \in Pipeline
      BY DEF Pipeline
    <3>2. QED
      BY Zenon, <1>11, <3>1 DEF Joins
  <2>2. game \notin {"worlds", "ended"} /\ admission # "Relocating"
    BY <1>4
  <2>3. (\A d \in Domains \ {dom[s]} : Clean(d)) /\ live[s] = newest[dom[s]]
    BY Zenon, <1>1, <1>3, <1>4, <2>2 DEF DataInv
  <2>4. \A d \in Domains \ {dom'[online']} : Clean(d)'
    BY Zenon, <1>2, <1>11, <2>3 DEF Clean
  <2>5. /\ job'[online'].version = newest'[dom'[online']] /\ job'[online'].task = "save"
        /\ online' # NoSession /\ game' \notin {"worlds", "ended"}
    BY Zenon, <1>2, <1>4, <1>9, <1>11, <2>2, <2>3
  <2>6. job'[online'].task \in {"save", "failed"} /\ job'[online'].task \notin {"done", "spawn", "ready"}
    BY <2>5
  <2>7. QED
    BY Zenon, <1>2, <1>11, <2>1, <2>4, <2>5, <2>6 DEF DataInv
<1>17. ResideInv'
  <2>1. \A t \in Sessions : job'[t].task = "global" => job'[t].target \in resides
    <3>1. job'[s].task # "global"
      BY <1>9
    <3>2. QED
      BY Zenon, <1>1, <1>7, <3>1 DEF ResideInv
  <2>2. QED
    BY Zenon, <1>1, <1>2, <2>1 DEF ResideInv
<1>18. QED
  BY Zenon, <1>12, <1>13, <1>14, <1>15, <1>16, <1>17 DEF SessionInv

\* process_domain_switches.
LEMMA SwitchesKeep ==
  ASSUME SessionInv, ProcessDomainSwitches
  PROVE  SessionInv'
<1>1. CASE requests = {}
  BY Zenon, <1>1, QuietKeeps
<1>2. CASE requests # {}
  <2>1. PICK r \in requests : /\ game' = game /\ requests' = requests \ {r}
                              /\ StartDomainSwitch(r) \/ RefuseDomainSwitch(r)
    BY Zenon, <1>2 DEF ProcessDomainSwitches
  <2>2. UNCHANGED <<stage, loaded, closed, online, saves, game>> /\ game = "switches"
    BY Zenon, <2>1 DEF ProcessDomainSwitches, login
  <2>3. UNCHANGED data
    BY Zenon DEF ProcessDomainSwitches, storage, data
  <2>4. QED
    BY Zenon, <2>1, <2>2, <2>3, StartSwitchKeeps, RefuseKeeps
<1>3. QED
  BY Zenon, <1>1, <1>2

----------------------------------------------------------------------------
\* Shutdown.

\* shutdown_worlds: the running saves are joined, whoever is online is snapshotted.
LEMMA ShutdownKeeps ==
  ASSUME SessionInv, ShutdownWorlds
  PROVE  SessionInv'
<1> DEFINE v == [session |-> online, domain |-> dom[online], version |-> live[online], step |-> "domain"]
<1>1. Types /\ AdmissionInv /\ SwitchInv /\ JobInv /\ DataInv /\ ResideInv
  BY Zenon DEF SessionInv
<1>2. /\ UNCHANGED <<stage, loaded, admission, online, member, dom, live, disk, global, newest, resides>>
      /\ UNCHANGED <<switch, lease, requests, job>> /\ saves = {}
      /\ game = "lastSaves" /\ game' = "worlds"
      /\ closed' = [s \in Sessions |-> closed[s] \/ s = online]
      /\ saves' = {[session |-> s, domain |-> dom[s], version |-> live[s], step |-> "domain"] :
                     s \in {online} \cap Sessions}
  BY Zenon DEF ShutdownWorlds, login, play, moving, storage
<1>3. game \in Late /\ game \notin {"worlds", "ended"} /\ ~Leaving /\ ~Leaving' /\ game' \in Late
  BY <1>2 DEF Late, Leaving
<1>4. Jobs = {} /\ Jobs' = {} /\ Switching' = {} /\ Switching = {}
  <2>1. Jobs = {}
    BY Zenon, <1>1, <1>3 DEF JobInv
  <2>2. Jobs' = Jobs /\ Switching' = Switching
    BY Zenon, <1>2 DEF Jobs, Switching
  <2>3. Switching \subseteq Jobs
    BY DEF Switching, Jobs
  <2>4. QED
    BY Zenon, <2>1, <2>2, <2>3
<1>5. admission \in {"none", "Joining"}
  <2>1. admission # "Relocating"
    BY Zenon, <1>1, <1>4 DEF AdmissionInv
  <2>2. admission # "Disconnecting"
    BY Zenon, <1>1, <1>2, <1>3 DEF AdmissionInv
  <2>3. QED
    BY <1>1, <2>1, <2>2 DEF Types
<1>6. Joins' = Joins
  BY ZenonT(40), <1>2 DEF Joins
<1>7. closed' \in [Sessions -> BOOLEAN] /\ \A t \in Sessions : closed[t] => closed'[t]
  BY <1>1, <1>2 DEF Types
<1>8. CASE online \in Sessions
  <2>1. saves' = {v}
    BY ZenonT(40), <1>2, <1>8
  <2>2. v \in SaveType /\ v.domain = dom[online] /\ v.version = live[online] /\ v.step = "domain"
    <3>1. dom[online] \in Domains /\ live[online] \in Nat
      BY <1>1, <1>8 DEF Types
    <3>2. QED
      BY <1>8, <3>1 DEF SaveType
  <2>3. admission = "none" /\ online # NoSession
    BY Zenon, <1>1, <1>5, <1>8, SessionAssumption DEF AdmissionInv
  <2>4. Types'
    <3>1. saves' \in SUBSET SaveType
      BY Zenon, <2>1, <2>2
    <3>2. game' \in Early \cup Late
      BY Zenon, <1>3
    <3>3. QED
      BY Zenon, <1>1, <1>2, <1>7, <3>1, <3>2 DEF Types
  <2>5. AdmissionInv'
    <3>1. admission' = "none" /\ online' \in Sessions /\ game' = "worlds"
      BY Zenon, <1>2, <1>8, <2>3
    <3>2. Joins' = {} /\ Switching' = {} /\ ~Leaving' /\ member' = {online'} \cap Sessions
      BY Zenon, <1>1, <1>2, <1>3, <1>4, <1>6, <2>3 DEF AdmissionInv
    <3>3. \E x \in saves' : saves' = {x}
      BY Zenon, <2>1
    <3>4. QED
      BY <3>1, <3>2, <3>3 DEF AdmissionInv
  <2>6. SwitchInv'
    BY Zenon, <1>1, <1>2, SwitchKept
  <2>7. JobInv'
    BY Zenon, <1>4 DEF JobInv
  <2>8. DataInv'
    <3>1. admission # "Relocating"
      BY <2>3
    <3>2. (\A d \in Domains \ {dom[online]} : Clean(d)) /\ live[online] = newest[dom[online]]
      BY Zenon, <1>1, <1>2, <1>3, <1>8, <3>1 DEF DataInv
    <3>3. \A x \in saves' : /\ \A d \in Domains \ {x.domain} : Clean(d)'
                            /\ x.step # "global" /\ x.version = newest'[x.domain]
      <4>1. v.step # "global"
        BY <2>2
      <4>2. QED
        BY Zenon, <1>2, <2>1, <2>2, <3>2, <4>1 DEF Clean
    <3>4. \A t \in Sessions : stage'[t] = "prepared" => loaded'[t].version = newest'[loaded'[t].domain]
      BY Zenon, <1>1, <1>2 DEF DataInv
    <3>5. saves' # {}
      BY Zenon, <2>1
    <3>6. QED
      BY Zenon, <3>3, <3>4, <3>5 DEF DataInv
  <2>9. ResideInv'
    <3>1. dom[online] \in resides
      BY Zenon, <1>1, <1>8 DEF ResideInv
    <3>2. saves' # {} /\ \A x \in saves' : x.domain \in resides
      BY Zenon, <2>1, <2>2, <3>1
    <3>3. QED
      BY Zenon, <1>1, <1>2, <3>2 DEF ResideInv
  <2>10. QED
    BY Zenon, <2>4, <2>5, <2>6, <2>7, <2>8, <2>9 DEF SessionInv
<1>9. CASE online \notin Sessions
  <2>1. saves' = {} /\ online = NoSession
    <3>1. {online} \cap Sessions = {}
      BY Zenon, <1>9
    <3>2. saves' = {}
      BY Zenon, <1>2, <3>1
    <3>3. QED
      BY Zenon, <1>1, <1>9, <3>2 DEF Types
  <2>2. Types'
    <3>1. saves' \in SUBSET SaveType
      BY Zenon, <2>1
    <3>2. game' \in Early \cup Late
      BY Zenon, <1>3
    <3>3. QED
      BY Zenon, <1>1, <1>2, <1>7, <3>1, <3>2 DEF Types
  <2>3. AdmissionInv'
    <3>1. admission = "none" => /\ Joins' = {} /\ member' = {online'} \cap Sessions
      BY Zenon, <1>1, <1>2, <1>6 DEF AdmissionInv
    <3>2. admission = "Joining" => /\ \E s \in Sessions : Joins' = {s}
                                   /\ member' = {}
      BY Zenon, <1>1, <1>2, <1>6 DEF AdmissionInv
    <3>3. Switching' = {} /\ ~Leaving' /\ saves' = {} /\ online' = NoSession /\ admission' = admission
      BY Zenon, <1>2, <1>3, <1>4, <2>1
    <3>4. QED
      BY <1>5, <3>1, <3>2, <3>3 DEF AdmissionInv
  <2>4. SwitchInv'
    BY Zenon, <1>1, <1>2, SwitchKept
  <2>5. JobInv'
    BY Zenon, <1>4 DEF JobInv
  <2>6. DataInv'
    <3>1. \A d \in Domains : Clean(d)
      BY Zenon, <1>1, <1>2, <2>1 DEF DataInv
    <3>2. \A d \in Domains : Clean(d)'
      BY Zenon, <1>2, <3>1 DEF Clean
    <3>3. \A t \in Sessions : stage'[t] = "prepared" => loaded'[t].version = newest'[loaded'[t].domain]
      BY Zenon, <1>1, <1>2 DEF DataInv
    <3>4. online' \notin Sessions
      BY Zenon, <1>2, <1>9
    <3>5. QED
      BY Zenon, <2>1, <3>2, <3>3, <3>4 DEF DataInv
  <2>7. ResideInv'
    <3>1. global \in resides
      BY Zenon, <1>1, <1>2, <2>1 DEF ResideInv
    <3>2. QED
      BY Zenon, <1>1, <1>2, <2>1, <3>1 DEF ResideInv
  <2>8. QED
    BY Zenon, <2>2, <2>3, <2>4, <2>5, <2>6, <2>7 DEF SessionInv
<1>10. QED
  BY Zenon, <1>8, <1>9

\* The server ends when the last save has.
LEMMA StopKeeps ==
  ASSUME SessionInv, StopServer
  PROVE  SessionInv'
<1>1. Types /\ AdmissionInv /\ SwitchInv /\ JobInv /\ DataInv /\ ResideInv
  BY Zenon DEF SessionInv
<1>2. /\ UNCHANGED <<stage, closed, loaded, admission, online, member, saves, dom, live, disk, global>>
      /\ UNCHANGED <<newest, resides>> /\ UNCHANGED <<switch, lease, requests, job>>
      /\ saves = {} /\ game = "worlds" /\ game' = "ended"
  BY Zenon DEF StopServer, gameOnly, login, play, moving, storage
<1>3. game \in Late /\ ~Leaving /\ ~Leaving' /\ game' \in Late /\ game' # "worlds"
      /\ game \in {"worlds", "ended"} /\ game' \in {"worlds", "ended"}
  BY <1>2 DEF Late, Leaving
<1>4. Joins' = Joins /\ Switching' = Switching /\ Jobs' = Jobs /\ admission # "Disconnecting"
  BY Zenon, <1>1, <1>2, <1>3 DEF Joins, Switching, Jobs, AdmissionInv
<1>5. Types'
  BY Zenon, <1>1, <1>2, <1>3 DEF Types
<1>6. AdmissionInv'
  BY Zenon, <1>1, <1>2, <1>3, <1>4 DEF AdmissionInv
<1>7. SwitchInv'
  BY Zenon, <1>1, <1>2, SwitchKept
<1>8. JobInv'
  <2>1. Jobs = {}
    BY Zenon, <1>1, <1>3 DEF JobInv
  <2>2. QED
    BY Zenon, <1>4, <2>1 DEF JobInv
<1>9. DataInv'
  <2>1. \A d \in Domains : Clean(d)
    BY Zenon, <1>1, <1>2, <1>3 DEF DataInv
  <2>2. \A d \in Domains : Clean(d)'
    BY Zenon, <1>2, <2>1 DEF Clean
  <2>3. \A t \in Sessions : stage'[t] = "prepared" => loaded'[t].version = newest'[loaded'[t].domain]
    BY Zenon, <1>1, <1>2 DEF DataInv
  <2>4. QED
    BY Zenon, <1>2, <1>3, <2>2, <2>3 DEF DataInv
<1>10. ResideInv'
  BY Zenon, <1>1, <1>2, <1>3 DEF ResideInv
<1>11. QED
  BY Zenon, <1>5, <1>6, <1>7, <1>8, <1>9, <1>10 DEF SessionInv

----------------------------------------------------------------------------
\* The invariant.

\* The server starts with nobody online and every domain's data on disk.
LEMMA SessionInit == Init => SessionInv
<1> SUFFICES ASSUME Init PROVE SessionInv
  OBVIOUS
<1>1. "idle" \in Stages /\ "idle" \notin Pipeline /\ "idle" # "prepared"
  BY DEF Stages, Pipeline
<1>2. NoJob \in JobType /\ NoJob.phase = "none" /\ NoJob.task = "none"
  BY SessionAssumption DEF NoJob, JobType
<1>3. \A s \in Sessions : /\ stage[s] = "idle" /\ job[s] = NoJob /\ switch[s] = "none"
                          /\ job[s].phase = "none" /\ job[s].task = "none"
  BY Zenon, <1>2 DEF Init
<1>4. Joins = {} /\ Switching = {} /\ Jobs = {} /\ ~Leaving
  <2>1. Joins = {}
    BY Zenon, <1>1, <1>3 DEF Joins
  <2>2. Switching = {} /\ Jobs = {}
    BY <1>3 DEF Switching, Jobs
  <2>3. ~Leaving
    BY DEF Init, Leaving
  <2>4. QED
    BY Zenon, <2>1, <2>2, <2>3
<1>5. Types
  <2>1. stage \in [Sessions -> Stages] /\ job \in [Sessions -> JobType]
    BY Zenon, <1>1, <1>2 DEF Init
  <2>2. QED
    BY <2>1, SessionAssumption DEF Init, Types, Early
<1>6. AdmissionInv
  <2>1. /\ admission = "none" /\ member = {online} \cap Sessions /\ saves = {}
    BY Zenon, SessionAssumption DEF Init
  <2>2. QED
    BY <1>4, <2>1 DEF AdmissionInv
<1>7. SwitchInv
  <2>1. "none" \notin SourceTasks /\ "none" \notin TargetTasks
    BY DEF SourceTasks, TargetTasks
  <2>2. \A s \in Sessions :
          /\ job[s].phase = "none" => job[s].task = "none"
          /\ job[s].phase = "source" <=> job[s].task \in SourceTasks
          /\ job[s].phase = "source" <=> switch[s] = "Detached"
          /\ job[s].phase = "target" <=> job[s].task \in TargetTasks
          /\ job[s].phase = "target" <=> switch[s] = "Finalizing"
    BY <1>3, <2>1
  <2>3. lease = {} /\ requests = {}
    BY Zenon DEF Init
  <2>4. lease = {r.session : r \in requests} \cup Switching
    BY Zenon, <1>4, <2>3
  <2>5. QED
    BY Zenon, <2>2, <2>3, <2>4 DEF SwitchInv
<1>8. JobInv
  BY Zenon, <1>4 DEF JobInv
<1>9. DataInv
  <2>1. \A d \in Domains : Clean(d)
    BY DEF Init, Clean
  <2>2. saves = {} /\ online \notin Sessions
    BY Zenon, SessionAssumption DEF Init
  <2>3. \A s \in Sessions : stage[s] # "prepared"
    BY <1>3
  <2>4. QED
    BY Zenon, <2>1, <2>2, <2>3 DEF DataInv
<1>10. ResideInv
  <2>1. global \in resides /\ saves = {} /\ online \notin Sessions
    BY Zenon, SessionAssumption DEF Init
  <2>2. \A s \in Sessions : job[s].task # "global"
    BY <1>3
  <2>3. QED
    BY Zenon, <2>1, <2>2 DEF ResideInv
<1>11. QED
  BY Zenon, <1>5, <1>6, <1>7, <1>8, <1>9, <1>10 DEF SessionInv

\* Every step keeps it.
LEMMA SessionStep == SessionInv /\ [Next]_vars => SessionInv'
<1> SUFFICES ASSUME SessionInv, [Next]_vars PROVE SessionInv'
  OBVIOUS
<1>1. CASE UNCHANGED vars
  <2>1. /\ UNCHANGED <<owners, data>> /\ UNCHANGED <<switch, lease, requests, job>>
        /\ UNCHANGED <<stage, closed, loaded>>
    BY Zenon, <1>1 DEF vars, owners, data
  <2>2. QED
    BY Zenon, <2>1, IdleKeeps
<1>2. ASSUME NEW s \in Sessions, Hello(s) \/ GiveUpWaiting(s) \/ Close(s) \/ LookForDuplicate(s)
      PROVE  SessionInv'
  BY Zenon, <1>2, LoginKeeps
<1>3. ASSUME NEW s \in Sessions, FinishConfiguration(s) PROVE SessionInv'
  BY Zenon, <1>3, ReserveKeeps
<1>4. ASSUME NEW s \in Sessions, QueueJoin(s) PROVE SessionInv'
  BY Zenon, <1>4, QueueJoinKeeps
<1>5. ASSUME NEW s \in Sessions, LoadJoinDomain(s) \/ LoadDomainState(s) PROVE SessionInv'
  BY Zenon, <1>5, LoadKeeps
<1>6. ASSUME NEW s \in Sessions, PlayOn(s) PROVE SessionInv'
  BY Zenon, <1>6, PlayKeeps
<1>7. ASSUME NEW s \in Sessions, Tasks(s) PROVE SessionInv'
  BY Zenon, <1>7, SourceTasksKeep, ActiveDomainKeeps DEF Tasks
<1>8. ASSUME NEW s \in Sessions, NEW d \in Domains, QueueDomainSwitch(s, d) PROVE SessionInv'
  BY Zenon, <1>8, QueueSwitchKeeps
<1>9. CASE Save
  BY Zenon, <1>9, SaveDomainKeeps, SaveGlobalKeeps DEF Save
<1>10. CASE CancelServer
  <2>1. /\ UNCHANGED <<owners, data>> /\ UNCHANGED <<switch, lease, requests, job>>
        /\ UNCHANGED <<stage, closed, loaded>>
    BY Zenon, <1>10 DEF CancelServer, owners, data, login, play, moving, storage
  <2>2. QED
    BY Zenon, <2>1, IdleKeeps
<1>11. CASE GameThread
  BY Zenon, <1>11, QuietKeeps, ScanKeeps, RemoveKeeps, JobsKeep, JoinsKeep, SwitchesKeep,
     ShutdownKeeps, StopKeeps DEF GameThread
<1>12. QED
  BY ZenonT(40), <1>1, <1>2, <1>3, <1>4, <1>5, <1>6, <1>7, <1>8, <1>9, <1>10, <1>11
     DEF Next, Connection

\* The admission entry, the online table, the tokens of a switch and the running saves of a
\* player always agree on who owns it, and on who holds its newest data.
THEOREM SessionsInvariant == Spec => []SessionInv
<1>1. QED
  BY SessionInit, SessionStep, PTL DEF Spec

\* Every admission has exactly one owner that will give it back, for any number of connections
\* and switches (player_admissions, pending_world_change).
THEOREM SessionsOwnersMatch == Spec => []OwnersMatch
<1>1. SessionInv => OwnersMatch
  <2> SUFFICES ASSUME SessionInv PROVE OwnersMatch
    OBVIOUS
  <2> DEFINE leaving == IF game \in {"removing", "lastRemoving"} THEN {online} ELSE {}
             saving  == IF game = "worlds" THEN {} ELSE saves
  <2>1. Types /\ AdmissionInv /\ SwitchInv /\ JobInv
    BY Zenon DEF SessionInv
  <2>2. admission \in {"none", "Joining", "Relocating", "Disconnecting"}
    BY Zenon, <2>1 DEF Types
  <2>3. \A x : Cardinality({x}) = 1
    BY Zenon, FS_Singleton
  <2>4. Cardinality({}) = 0
    BY Zenon, FS_EmptySet
  <2>5. Cardinality(Joins) = (IF admission = "Joining" THEN 1 ELSE 0)
    <3>1. admission # "Joining" => Joins = {}
      BY <2>1, <2>2 DEF AdmissionInv
    <3>2. admission = "Joining" => \E s : Joins = {s}
      BY Zenon, <2>1 DEF AdmissionInv
    <3>3. QED
      BY Zenon, <2>3, <2>4, <3>1, <3>2
  <2>6. /\ Cardinality(Switching) = (IF admission = "Relocating" THEN 1 ELSE 0)
        /\ Switching \subseteq {online}
    <3>1. admission # "Relocating" => Switching = {}
      BY <2>1, <2>2 DEF AdmissionInv
    <3>2. admission = "Relocating" => Switching = {online}
      BY Zenon, <2>1 DEF AdmissionInv
    <3>3. QED
      BY Zenon, <2>3, <2>4, <3>1, <3>2
  <2>7. Cardinality(leaving) + Cardinality(saving) = (IF admission = "Disconnecting" THEN 1 ELSE 0)
    <3>1. CASE admission # "Disconnecting"
      <4>1. ~Leaving
        BY <2>1, <2>2, <3>1 DEF AdmissionInv
      <4>2. leaving = {}
        BY Zenon, <4>1 DEF Leaving
      <4>3. saving = {}
        BY <2>1, <2>2, <3>1 DEF AdmissionInv
      <4>4. QED
        BY <2>4, <3>1, <4>2, <4>3
    <3>2. CASE admission = "Disconnecting" /\ Leaving
      <4>1. leaving = {online}
        BY Zenon, <3>2 DEF Leaving
      <4>2. saves = {}
        BY Zenon, <2>1, <3>2 DEF AdmissionInv
      <4>3. saving = {}
        BY Zenon, <4>2
      <4>4. Cardinality(leaving) = 1 /\ Cardinality(saving) = 0
        BY Zenon, <2>3, <2>4, <4>1, <4>3
      <4>5. QED
        BY <3>2, <4>4
    <3>3. CASE admission = "Disconnecting" /\ ~Leaving
      <4>1. leaving = {}
        BY Zenon, <3>3 DEF Leaving
      <4>2. /\ game # "worlds"
            /\ \E v \in saves : saves = {v}
        BY <2>1, <3>3 DEF AdmissionInv
      <4>3. \E v : saving = {v}
        BY Zenon, <4>2
      <4>4. Cardinality(leaving) = 0 /\ Cardinality(saving) = 1
        BY Zenon, <2>3, <2>4, <4>1, <4>3
      <4>5. QED
        BY <3>3, <4>4
    <3>4. QED
      BY Zenon, <3>1, <3>2, <3>3
  <2>8. Cardinality(Jobs) <= 1
    <3>1. Jobs = {} \/ \E s : Jobs = {s}
      <4>1. \A s, t \in Jobs : s = t
        BY Zenon, <2>1 DEF JobInv
      <4>2. QED
        BY <4>1
    <3>2. Cardinality(Jobs) = 0 \/ Cardinality(Jobs) = 1
      BY Zenon, <2>3, <2>4, <3>1
    <3>3. QED
      BY <3>2
  <2>9. member \subseteq (IF admission = "none" THEN {online} ELSE {})
    <3>1. admission = "none" => member \subseteq {online}
      BY Zenon, <2>1 DEF AdmissionInv
    <3>2. admission # "none" => member = {}
      BY <2>1, <2>2 DEF AdmissionInv
    <3>3. QED
      BY Zenon, <3>1, <3>2
  <2>10. lease = {r.session : r \in requests} \cup Switching
    BY Zenon, <2>1 DEF SwitchInv
  <2>11. QED
    BY Zenon, <2>2, <2>5, <2>6, <2>7, <2>8, <2>9, <2>10 DEF OwnersMatch, Joins, Switching
<1>2. QED
  BY <1>1, SessionsInvariant, PTL

\* No rollback: whoever lives in a domain holds the newest data ever played there, across
\* replaced sessions and switches that were finished or abandoned.
THEOREM SessionsLatestIsLive == Spec => []LatestIsLive
<1>1. SessionInv => LatestIsLive
  <2> SUFFICES ASSUME SessionInv, game \notin {"worlds", "ended"}, NEW s \in member
               PROVE  live[s] = newest[dom[s]]
    BY Zenon DEF LatestIsLive
  <2>1. Types /\ AdmissionInv /\ DataInv
    BY Zenon DEF SessionInv
  <2>2. admission = "none" /\ game # "worlds"
    BY <2>1 DEF Types, AdmissionInv
  <2>3. online = s /\ s \in Sessions /\ saves = {}
    BY Zenon, <2>1, <2>2 DEF AdmissionInv
  <2>4. admission # "Relocating"
    BY <2>2
  <2>5. QED
    BY Zenon, <2>1, <2>3, <2>4 DEF DataInv
<1>2. QED
  BY <1>1, SessionsInvariant, PTL

\* A player who left, and everyone when the server has ended, is saved: their data in every
\* domain and the domain they were last in.
THEOREM SessionsLeftIsSaved == Spec => []LeftIsSaved
<1>1. SessionInv => LeftIsSaved
  <2> SUFFICES ASSUME SessionInv,
                      \/ online = NoSession /\ admission \in {"none", "Joining"}
                      \/ game = "ended"
               PROVE  disk = newest /\ global \in resides
    BY Zenon DEF LeftIsSaved
  <2>1. Types /\ AdmissionInv /\ DataInv /\ ResideInv
    BY Zenon DEF SessionInv
  <2>2. saves = {} /\ (online = NoSession \/ game \in {"worlds", "ended"})
    <3>1. CASE game = "ended"
      BY <2>1, <3>1 DEF Types, AdmissionInv
    <3>2. CASE online = NoSession /\ admission = "Joining"
      BY Zenon, <2>1, <3>2 DEF AdmissionInv
    <3>3. CASE online = NoSession /\ admission = "none"
      BY Zenon, <2>1, <3>3, SessionAssumption DEF AdmissionInv
    <3>4. QED
      BY <3>1, <3>2, <3>3
  <2>3. \A d \in Domains : disk[d] = newest[d]
    BY Zenon, <2>1, <2>2 DEF DataInv, Clean
  <2>4. disk = newest
    BY <2>1, <2>3 DEF Types
  <2>5. QED
    BY Zenon, <2>1, <2>2, <2>4 DEF ResideInv
<1>2. QED
  BY <1>1, SessionsInvariant, PTL
=============================================================================
