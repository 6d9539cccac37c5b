------------------------------- MODULE Scores -------------------------------
(***************************************************************************)
(* Scores over many rounds: which config a round tries first, as the       *)
(* probes' verdicts (probe/probe.go) and the outcomes of earlier attempts  *)
(* (scoring/scoring.go) decide, over changes of the network, kills,        *)
(* failing writes of scores.json and a reload of the settings.             *)
(*                                                                         *)
(* A world names what sockets meet: [direct, tunnel, on, block].  direct   *)
(* is the network while no config is applied, tunnel[name] the one through *)
(* the config's own routing table (NoNetwork: its Up fails), on[name] the  *)
(* default route once it is applied (an apply that fails: nothing          *)
(* answers).  block is what dpi.Detect would say.                          *)
(*                                                                         *)
(* Tunnels are the matter of SwitchEngine, thresholds and cooldown that of *)
(* Watchdog, variants that of Pool: here a variant is one more config.     *)
(* Two configs of a round may have one ID, as a learned and a fresh        *)
(* variant have; they share one entry.                                     *)
(***************************************************************************)
EXTENDS Settings, Probe, Scoring

CONSTANTS
    Files,         \* the config directory
    Networks,      \* what Probe takes for a network, by name
    Worlds,        \* the worlds there are, by name
    NoNetwork,
    NoConfig,      \* no active config
    Missing,       \* scores.json does not exist, or does not parse
    SettingsSeen,  \* what UCI may hold, by name
    MaxChanges, MaxReloads, MaxKills, MaxLost   \* bounds; MaxLost: failed writes

ASSUME ScoresBounds == {MaxChanges, MaxReloads, MaxKills, MaxLost} \subseteq Nat

Configs == LoadAll(Files)
IDs == {tc.id : tc \in Configs}

ASSUME ConfigsAssumption == IsFiniteSet(Configs)

(* A probe ends within ProbeTimeout.                                       *)
ASSUME NetworksAssumption ==
    /\ \A n \in DOMAIN Networks : /\ Networks[n].rtt \in 0..5000
                                  /\ Networks[n].doh \in {"ok", "fails", "hangs"}
    /\ \A w \in DOMAIN Worlds :
          /\ Worlds[w].direct \in DOMAIN Networks
          /\ \A tc \in Configs :
                /\ Worlds[w].tunnel[tc.name] \in DOMAIN Networks \cup {NoNetwork}
                /\ Worlds[w].on[tc.name] \in DOMAIN Networks
          /\ Worlds[w].block \in {"none", "blocked"}

VARIABLES
    world,
    settings,   \* the name of Watchdog.cfg
    state,      \* Machine.current, which state.json keeps; DEGRADED counts as HEALTHY
    active,     \* name of the active config (Machine keeps its ID)
    step,       \* where the event loop is
    hint,       \* Watchdog: the detection of this episode
    results,    \* parallelProbe's
    todo,       \* configs whose result is not recorded yet
    viable,     \* ranked configs this round has not tried yet
    tried,      \* how many it has tried
    passed,     \* whether the last one passed verify
    entries,    \* DB.entries
    file        \* scores.json

VARIABLES
    attempts,   \* history: attempts by ID, counted like an entry's Sessions
    unsaved,    \* history: the last write of scores.json failed
    hurt,       \* history: scores.json was torn or behind when the process died
    changes, reloads, kills, lost

roundVars == <<hint, results, todo, viable, tried, passed>>
dbVars == <<entries, file>>
countVars == <<changes, reloads, kills, lost>>
vars == <<world, settings, state, active, step, roundVars, dbVars, attempts,
          unsaved, hurt, countVars>>

TargetsOf(s) == ProbeTargets(s.defaults, s.domains)

(* The targets are a sequence: ProbeTargets is a fold.                     *)
ASSUME TargetsAssumption ==
    \A s \in DOMAIN SettingsSeen :
        LET targets == TargetsOf(SettingsSeen[s])
        IN /\ Len(targets) \in Nat
           /\ DOMAIN targets = 1..Len(targets)
           /\ SettingsSeen[s].pool \in Int

(* What a probe over a network may say, by settings and network.           *)
Verdicts ==
    [s \in DOMAIN SettingsSeen |-> [n \in DOMAIN Networks |->
        LET c == SettingsSeen[s]
        IN ProbeAll(TargetsOf(c), c.rotate, c.pool, Networks[n], c.useDoH)]]

cfg == SettingsSeen[settings]
MaxAttempts == IF cfg.maxSwitchAttempts <= 0 THEN 3 ELSE cfg.maxSwitchAttempts

DefaultRoute(c) == IF c = NoConfig THEN Worlds[world].direct ELSE Worlds[world].on[c]

NoResults == [tc \in Configs |-> NoNetwork]
RoundStart ==
    /\ results' = NoResults
    /\ todo' = <<>>
    /\ viable' = <<>>
    /\ tried' = 0
    /\ passed' = FALSE

Init ==
    /\ world \in DOMAIN Worlds
    /\ settings \in DOMAIN SettingsSeen /\ ~LoadPanics(cfg.sections)
    /\ state = "HEALTHY"
    /\ active = NoConfig
    /\ step = "idle"
    /\ hint = "undetected"
    /\ results = NoResults
    /\ todo = <<>>
    /\ viable = <<>>
    /\ tried = 0
    /\ passed = FALSE
    /\ entries = <<>>
    /\ file = Missing
    /\ attempts = [id \in IDs |-> 0]
    /\ unsaved = FALSE
    /\ hurt = FALSE
    /\ changes = 0
    /\ reloads = 0
    /\ kills = 0
    /\ lost = 0
-----------------------------------------------------------------------------
(* tick in HEALTHY and DEGRADED: doProbe, over the default route.          *)
doProbePasses ==
    /\ step = "idle"
    /\ state = "HEALTHY"
    /\ \E res \in Verdicts[settings][DefaultRoute(active)] : res.success
    /\ UNCHANGED vars

doProbeFails ==
    /\ step = "idle"
    /\ state = "HEALTHY"
    /\ \E res \in Verdicts[settings][DefaultRoute(active)] : ~res.success
    /\ state' = "PROBING"
    /\ hint' = "undetected"
    /\ UNCHANGED <<world, settings, active, step, results, todo, viable, tried, passed,
                   dbVars, attempts, unsaved, hurt, countVars>>

(* tick in SWITCHING only warns.                                           *)
tickSwitching ==
    /\ step = "idle"
    /\ state = "SWITCHING"
    /\ UNCHANGED vars

(* probeConfig: an Up that fails leaves no result.                         *)
Outcomes(tc) ==
    LET net == Worlds[world].tunnel[tc.name]
    IN IF net = NoNetwork THEN {NoNetwork} ELSE Verdicts[settings][net]

(* doSwitch up to the end of parallelProbe.                                *)
doSwitch ==
    /\ step = "idle"
    /\ state = "PROBING"
    /\ Configs # {}
    /\ hint' = IF hint = "undetected" THEN Worlds[world].block ELSE hint
    /\ results' \in {r \in [Configs -> UNION {Outcomes(tc) : tc \in Configs}] :
                        \A tc \in Configs : r[tc] \in Outcomes(tc)}
    /\ todo' = SetToSeq({tc \in Configs : results'[tc] # NoNetwork})
    /\ step' = "record"
    /\ UNCHANGED <<world, settings, state, active, viable, tried, passed, dbVars, attempts,
                   unsaved, hurt, countVars>>

(* save: os.WriteFile truncates and writes; the caller learns of no error. *)
save(db) ==
    \/ /\ file' = db
       /\ unsaved' = FALSE
       /\ UNCHANGED lost
    \/ /\ lost < MaxLost
       /\ lost' = lost + 1
       /\ file' \in {file, Missing}
       /\ unsaved' = TRUE

WithEntry(id, e) == [i \in DOMAIN entries \cup {id} |-> IF i = id THEN e ELSE entries[i]]

(* The results are recorded and saved one by one.                          *)
RecordProbeResult ==
    /\ step = "record"
    /\ todo # <<>>
    /\ LET tc == Head(todo)
       IN entries' = WithEntry(tc.id, Probed(entryOrDefault(entries, tc.id), results[tc]))
    /\ save(entries')
    /\ todo' = Tail(todo)
    /\ UNCHANGED <<world, settings, state, active, step, hint, results, viable, tried,
                   passed, attempts, hurt, changes, reloads, kills>>

Viable == {tc \in Configs : results[tc] # NoNetwork /\ results[tc].success}

NoneViable ==
    /\ step = "record"
    /\ todo = <<>>
    /\ Viable = {}
    /\ step' = "idle"
    /\ RoundStart
    /\ UNCHANGED <<world, settings, state, active, hint, dbVars, attempts, unsaved, hurt,
                   countVars>>

RankViable ==
    /\ step = "record"
    /\ todo = <<>>
    /\ Viable # {}
    /\ viable' \in Rank(entries, Viable)
    /\ step' = "try"
    /\ UNCHANGED <<world, settings, state, active, hint, results, todo, tried, passed,
                   dbVars, attempts, unsaved, hurt, countVars>>

(* EnterSwitching, apply and verify of the next config.                    *)
Attempt ==
    /\ step = "try"
    /\ viable # <<>>
    /\ tried < MaxAttempts
    /\ LET tc == Head(viable)
       IN /\ passed' \in {res.success : res \in Verdicts[settings][DefaultRoute(tc.name)]}
          /\ attempts' = [attempts EXCEPT ![tc.id] = IF @ < MaxSessions THEN @ + 1 ELSE @]
    /\ state' = "SWITCHING"
    /\ step' = "session"
    /\ UNCHANGED <<world, settings, active, hint, results, todo, viable, tried, dbVars,
                   unsaved, hurt, countVars>>

(* Slip: the outcome is left to be saved with what is recorded next.       *)
RecordSessionUnsaved ==
    /\ step = "session"
    /\ LET id == Head(viable).id
       IN entries' = WithEntry(id, Tried(entryOrDefault(entries, id), passed))
    /\ step' = IF hint = "none" THEN "end" ELSE "dpi"
    /\ UNCHANGED <<world, settings, state, active, roundVars, file, attempts, unsaved, hurt,
                   countVars>>

RecordSession ==
    /\ step = "session"
    /\ LET id == Head(viable).id
       IN entries' = WithEntry(id, Tried(entryOrDefault(entries, id), passed))
    /\ save(entries')
    /\ step' = IF hint = "none" THEN "end" ELSE "dpi"
    /\ UNCHANGED <<world, settings, state, active, roundVars, attempts, hurt, changes,
                   reloads, kills>>

RecordDPIResult ==
    /\ step = "dpi"
    /\ LET id == Head(viable).id
       IN entries' = WithEntry(id, Bypassed(entryOrDefault(entries, id), passed))
    /\ save(entries')
    /\ step' = "end"
    /\ UNCHANGED <<world, settings, state, active, roundVars, attempts, hurt, changes,
                   reloads, kills>>

SwitchFailed ==
    /\ step = "end"
    /\ ~passed
    /\ state' = "PROBING"
    /\ viable' = Tail(viable)
    /\ tried' = tried + 1
    /\ step' = "try"
    /\ UNCHANGED <<world, settings, active, hint, results, todo, passed, dbVars, attempts,
                   unsaved, hurt, countVars>>

SwitchSucceeded ==
    /\ step = "end"
    /\ passed
    /\ state' = "HEALTHY"
    /\ active' = Head(viable).name
    /\ step' = "idle"
    /\ hint' = "undetected"
    /\ RoundStart
    /\ UNCHANGED <<world, settings, dbVars, attempts, unsaved, hurt, countVars>>

(* No more configs, or no more attempts.                                   *)
NoneApplied ==
    /\ step = "try"
    /\ viable = <<>> \/ tried >= MaxAttempts
    /\ step' = "idle"
    /\ RoundStart
    /\ UNCHANGED <<world, settings, state, active, hint, dbVars, attempts, unsaved, hurt,
                   countVars>>
-----------------------------------------------------------------------------
(* UCI is edited and reload called: it makes a new probe engine and a new  *)
(* switch engine, and keeps the database and the detection.                *)
Edited ==
    /\ step = "idle"
    /\ reloads < MaxReloads
    /\ reloads' = reloads + 1
    /\ settings' \in DOMAIN SettingsSeen \ {settings}

Reload ==
    /\ Edited
    /\ ~LoadPanics(cfg'.sections)
    /\ UNCHANGED <<world, state, active, step, roundVars, dbVars, attempts, unsaved, hurt,
                   changes, kills, lost>>

(* The process ends: what is in memory is gone.                            *)
Dies ==
    /\ step' = "down"
    /\ entries' = <<>>
    /\ hint' = "undetected"
    /\ RoundStart
    /\ UNCHANGED <<world, state, active, attempts, unsaved, changes, lost>>

ReloadPanics ==
    /\ Edited
    /\ LoadPanics(cfg'.sections)
    /\ hurt' = (hurt \/ unsaved)
    /\ Dies
    /\ UNCHANGED <<file, kills>>

Killed == kills < MaxKills /\ kills' = kills + 1 /\ Dies /\ UNCHANGED <<settings, reloads>>

Kill ==
    /\ step # "down"
    /\ hurt' = (hurt \/ unsaved)
    /\ UNCHANGED file
    /\ Killed

KillWhileSaving ==
    /\ (step = "record" /\ todo # <<>>) \/ step \in {"session", "dpi"}
    /\ file' = Missing
    /\ hurt' = TRUE
    /\ Killed

(* load: a file that does not parse is an empty database.                  *)
load == IF file = Missing THEN <<>> ELSE file

Start ==
    /\ step = "down"
    /\ ~LoadPanics(cfg.sections)
    /\ step' = "idle"
    /\ entries' = load
    /\ UNCHANGED <<world, settings, state, active, roundVars, file, attempts, unsaved, hurt,
                   countVars>>

(* A daemon that procd starts with such settings is gone at once.          *)
StartPanics ==
    /\ step = "down"
    /\ LoadPanics(cfg.sections)
    /\ UNCHANGED vars

NetChanges ==
    /\ changes < MaxChanges
    /\ changes' = changes + 1
    /\ world' \in DOMAIN Worlds \ {world}
    /\ UNCHANGED <<settings, state, active, step, roundVars, dbVars, attempts, unsaved,
                   hurt, reloads, kills, lost>>

Daemon ==
    \/ doProbePasses \/ doProbeFails \/ tickSwitching \/ doSwitch
    \/ RecordProbeResult \/ NoneViable \/ RankViable
    \/ Attempt \/ RecordSession \/ RecordDPIResult
    \/ SwitchFailed \/ SwitchSucceeded \/ NoneApplied
    \/ Start \/ StartPanics

Next == Daemon \/ Reload \/ ReloadPanics \/ Kill \/ KillWhileSaving \/ NetChanges

Spec == Init /\ [][Next]_vars

(* The ticker keeps the loop going, every call in it is taken to end, and  *)
(* procd starts a daemon that died.                                        *)
FairSpec == Spec /\ WF_vars(Daemon)
-----------------------------------------------------------------------------
Entries ==
    [rtt : 1..5000, loss : 0..100, session : 1..100, sessions : 0..MaxSessions,
     dpi : 0..100, blocked : BOOLEAN]
IsDB(db) == DOMAIN db \subseteq IDs /\ \A id \in DOMAIN db : db[id] \in Entries

(* A file that does not parse is no database.                              *)
ASSUME MissingAssumption == \A S \in SUBSET IDs : Missing \notin [S -> Entries]

(* The variables have their types: every number recorded is in the range   *)
(* that CompositeScore expects.                                            *)
TypeOK ==
    /\ world \in DOMAIN Worlds /\ settings \in DOMAIN SettingsSeen
    /\ state \in {"HEALTHY", "PROBING", "SWITCHING"}
    /\ active \in {tc.name : tc \in Configs} \cup {NoConfig}
    /\ step \in {"idle", "record", "try", "session", "dpi", "end", "down"}
    /\ hint \in {"undetected", "none", "blocked"}
    /\ ToSet(todo) \cup ToSet(viable) \subseteq Configs
    /\ tried \in 0..Cardinality(Configs)
    /\ IsDB(entries)
    /\ file # Missing => IsDB(file)
    /\ attempts \in [IDs -> 0..MaxSessions]

(* The head's first success under a block.                                 *)
FirstBypass(tc) == step = "dpi" /\ passed /\ ~entryOrDefault(entries, tc.id).blocked

(* A failed attempt never raises the config's score and a passed one never *)
(* lowers it, except that a first success under a block takes the average  *)
(* from neutral to 0.3 (RecordSession, RecordDPIResult, CompositeScore).   *)
OutcomesMoveScores ==
    [][(step \in {"session", "dpi"} /\ step' \in {"dpi", "end"}) =>
           LET tc == Head(viable)
           IN IF passed THEN FirstBypass(tc) \/ Score(entries', tc) >= Score(entries, tc)
              ELSE Score(entries', tc) <= Score(entries, tc)]_vars

(* Attempts with each config that its entry does not count.                *)
Uncounted(db) == [id \in IDs |-> attempts[id] - entryOrDefault(db, id).sessions]

(* Restarts lose of the history at most the attempt each was in, of all    *)
(* configs together, unless a write had failed or was cut; and nothing is  *)
(* counted twice (RecordSession, save, load).                              *)
HistorySurvives ==
    step # "down" /\ ~hurt =>
        /\ \A id \in IDs : Uncounted(entries)[id] >= 0
        /\ SumFunction(Uncounted(entries)) <= kills + IF step = "session" THEN 1 ELSE 0

(* What a target needs, seen without the daemon: its name resolves one way *)
(* or the other, and what its type asks for is there.                      *)
Answers(t, net) ==
    /\ t.literal \/ net.dns
    /\ CASE t.type = "icmp" -> {<<t.host, 80>>, <<t.host, 443>>} \cap net.open # {}
         [] t.type = "tcp"  -> <<t.host, Port(t)>> \in net.open
         [] t.type \in {"http", "https"} -> <<t.host, Port(t)>> \in net.open /\ t.host \in net.answers
         [] OTHER -> FALSE
Answering(net) ==
    Cardinality({i \in DOMAIN TargetsOf(cfg) : Answers(TargetsOf(cfg)[i], net)})

(* Its port 443 would do, but the dial of port 80 uses up the probe's time.*)
Hanging(t, net) == t.type = "icmp" /\ <<t.host, 80>> \in net.dropped
AnsweringInTime(net) ==
    Cardinality({i \in DOMAIN TargetsOf(cfg) :
                    Answers(TargetsOf(cfg)[i], net) /\ ~Hanging(TargetsOf(cfg)[i], net)})

SampleSize ==
    LET n == Len(TargetsOf(cfg))
    IN IF cfg.rotate /\ cfg.pool > 0 /\ cfg.pool < n THEN cfg.pool ELSE n

(* Targets that are down by themselves do not bring a working tunnel down: *)
(* HEALTHY is left only if as many of the targets as make half a sample do *)
(* not answer, or DoH hangs.  A DoH endpoint that is blocked costs nothing *)
(* (selectTargets, lookupHost, aggregate).  An icmp target with a dropped  *)
(* port 80 counts as one that does not answer, whatever its port 443 does  *)
(* (probeICMP).                                                            *)
WorkingTunnelKept ==
    [][state = "HEALTHY" /\ state' = "PROBING" =>
           LET net == Networks[DefaultRoute(active)]
           IN \/ cfg.useDoH /\ net.doh = "hangs"
              \/ 2 * (Len(TargetsOf(cfg)) - AnsweringInTime(net))
                     >= SampleSize]_vars

(* An attempt passes only through a network on which more targets answer   *)
(* than make half a sample, or whose DoH resolves what the system resolver *)
(* does not (verify, aggregate).                                           *)
CommittedOnMajority ==
    [][step = "try" /\ step' = "session" /\ passed' =>
           LET net == Networks[DefaultRoute(Head(viable).name)]
           IN \/ cfg.useDoH /\ net.doh = "ok" /\ ~net.dns
              \/ 2 * Answering(net) > SampleSize]_vars

(* A config that works whatever sample is drawn.                           *)
Works(tc) ==
    /\ \A res \in Outcomes(tc) : res # NoNetwork /\ res.success
    /\ \A res \in Verdicts[settings][DefaultRoute(tc.name)] : res.success

(* What an entry comes down to when every attempt fails.                   *)
AtWorst(e) ==
    [e EXCEPT !.session = 1, !.sessions = MaxSessions,
              !.dpi = IF hint = "blocked" THEN 0 ELSE @,
              !.blocked = @ \/ hint = "blocked"]

(* Rivals that no number of failures takes below tc.                       *)
AlwaysAhead(tc) ==
    {d \in Configs \ {tc} : CompositeScore(AtWorst(entryOrDefault(entries, d.id)), d)
                                >= Score(entries, tc)}

(* Scores steer the rounds to a config that works: it is tried sooner or   *)
(* later, although better rated ones pass the probe and fail the verify in *)
(* every round, provided that fewer of them stay ahead for ever than a     *)
(* round makes attempts, and the daemon was not killed while it applied a  *)
(* config (RecordSession, RecordDPIResult, Rank, MaxSwitchAttempts).       *)
WorkingConfigFound ==
    <>[](/\ ~LoadPanics(cfg.sections)
         /\ \E tc \in Configs :
                Works(tc) /\ Cardinality(AlwaysAhead(tc)) < MaxAttempts)
        => []<>(state = "HEALTHY") \/ <>[](state = "SWITCHING")

(* "Falls back to defaults on any error" (LoadDaemonConfigFromUCI): the    *)
(* daemon goes down only when it is killed, whatever UCI holds.            *)
DownOnlyIfKilled == step = "down" => kills > 0
=============================================================================
