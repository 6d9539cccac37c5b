------------------------------ MODULE Watchdog ------------------------------
(***************************************************************************)
(* The daemon's event loop (daemon/internal/watchdog/watchdog.go) driving  *)
(* the state machine, the apply loop of switch.Engine.ProbeAndSwitch as    *)
(* far as the state machine sees it, and what surrounds the process: the   *)
(* signal channel, the settings UCI holds and LuCI edits, the tunnel       *)
(* configs that are enabled, procd, crashes and the network.               *)
(*                                                                         *)
(* pc is the point at which the loop's single goroutine is.  A step ends   *)
(* where the code waits for the outside (a probe, a detection, a tunnel    *)
(* command), because signals, time, edits and crashes can come in between. *)
(***************************************************************************)
EXTENDS Machine, Sequences, FiniteSets

CONSTANTS
    BaseIDs,          \* configs that may stand in the config directory
    CandidatesOf,     \* base ID -> IDs of the candidates built from it
    MaxViable,        \* longest list of viable candidates of a round
    DaemonConfigs,    \* settings UCI may hold
    Detections,       \* results dpi.Detect may return
    NoDetection,      \* the zero DetectionResult
    MaxCrashes,       \* bound on crashes
    MaxEdits,         \* bound on edits of settings and of the config store
    MaxTerms,         \* bound on SIGTERMs
    MinOutage         \* least degraded + probing threshold of any settings

ASSUME CandidatesAssumption ==
    CandidatesOf \in [BaseIDs -> SUBSET ConfigIDs]
ASSUME DaemonConfigsAssumption ==
    DaemonConfigs \subseteq
        [degradedThreshold : Int, probingThreshold : Int,
         maxSwitchAttempts : Int, cooldown : 0..MaxAge]

(* dpi.BlockType as its String method names it.                            *)
BlockTypes == {"none", "tcp_block", "http_dpi", "tls_dpi", "protocol_dpi"}

(* The two fields of DetectionResult that steer the switch; confidence in  *)
(* tenths.                                                                 *)
ASSUME DetectionsAssumption ==
    Detections \cup {NoDetection} \subseteq [block : BlockTypes, confidence : 0..10]
ASSUME MinOutageAssumption ==
    /\ MinOutage \in Int
    /\ \A c \in DaemonConfigs :
           MinOutage <= c.degradedThreshold + c.probingThreshold
ASSUME BoundsAssumption ==
    {MaxViable, MaxCrashes, MaxEdits, MaxTerms} \subseteq Nat

VARIABLES
    pc,                   \* where the event loop is
    cfg,                  \* Watchdog.cfg
    sigCh,                \* the channel given to signal.Notify
    lastDPIResult,        \* Watchdog.lastDPIResult
    lastStateWasProbing,  \* Watchdog.lastStateWasProbing
    candidates,           \* doSwitch: IDs LoadAll's configs lead to
    hint,                 \* doSwitch: dpiHint
    viable,               \* ProbeAndSwitch: ranked candidates
    attempt,              \* ProbeAndSwitch: index into viable
    dpiFile,              \* the detection result saved in the state dir
    uci,                  \* the settings UCI holds now
    enabled,              \* enabled configs in the config directory
    hupOwed,              \* LuCI has written and has not signalled yet
    netUp                 \* a majority of probe targets is reachable

(* History: what has happened, for the properties; no action reads it.     *)
VARIABLES
    streak,       \* failed probes since the last good one or switch
    verified,     \* IDs that passed verify after being applied
    episode,      \* detections of this PROBING episode of this process
    sinceCommit,  \* time since the last successful switch
    tryNext,      \* what SwitchFailed returned last in this round
    stopAsked,    \* a SIGTERM was sent to the running process
    crashes, edits, terms

loopVars == <<lastDPIResult, lastStateWasProbing, candidates, hint, viable, attempt>>
envVars == <<uci, enabled, hupOwed, netUp>>
countVars == <<crashes, edits, terms>>
historyVars == <<streak, verified, episode, sinceCommit, tryNext, stopAsked>>
vars == <<machineVars, pc, cfg, sigCh, loopVars, dpiFile, envVars, historyVars,
          countVars>>

Down == {"stopped", "crashed"}
Running == {"starting", "idle", "probe", "detect", "pool", "try", "apply", "verify"}
InRound == {"try", "apply", "verify"}

Rankings == UNION {[1..n -> ConfigIDs] : n \in 0..MaxViable}

(* cfg.MaxSwitchAttempts as ProbeAndSwitch uses it.                        *)
maxAttempts == IF cfg.maxSwitchAttempts <= 0 THEN 3 ELSE cfg.maxSwitchAttempts

(* Low-confidence classifications do not bias variant generation.          *)
dpiHint(result) == IF result.confidence < 6 THEN "none" ELSE result.block

TypeOK ==
    /\ MachineTypeOK
    /\ pc \in Down \cup Running
    /\ cfg \in DaemonConfigs /\ uci \in DaemonConfigs
    /\ sigCh \in {<<>>, <<"HUP">>, <<"TERM">>}
    /\ lastDPIResult \in Detections \cup {NoDetection}
    /\ dpiFile \in Detections \cup {NoDetection}
    /\ lastStateWasProbing \in BOOLEAN
    /\ candidates \subseteq ConfigIDs
    /\ hint \in BlockTypes
    /\ viable \in Rankings
    /\ attempt \in Nat
    /\ enabled \subseteq BaseIDs
    /\ hupOwed \in BOOLEAN /\ netUp \in BOOLEAN
    /\ streak \in Nat
    /\ verified \subseteq ConfigIDs
    /\ episode \in Seq(Detections)
    /\ sinceCommit \in 0..MaxAge
    /\ tryNext \in BOOLEAN /\ stopAsked \in BOOLEAN
    /\ crashes \in Nat /\ edits \in Nat /\ terms \in Nat

Init ==
    /\ MachineInit
    /\ pc = "starting"
    /\ uci \in DaemonConfigs /\ cfg = uci
    /\ sigCh = <<>>
    /\ lastDPIResult = NoDetection /\ dpiFile = NoDetection
    /\ lastStateWasProbing = FALSE
    /\ candidates = {} /\ hint = "none" /\ viable = <<>> /\ attempt = 0
    /\ enabled \in SUBSET BaseIDs
    /\ hupOwed = FALSE /\ netUp \in BOOLEAN
    /\ streak = 0 /\ verified = {} /\ episode = <<>> /\ sinceCommit = MaxAge
    /\ tryNext = TRUE /\ stopAsked = FALSE
    /\ crashes = 0 /\ edits = 0 /\ terms = 0
-----------------------------------------------------------------------------
(* The life of the process.                                                *)

(* main and New: settings from UCI, machine and last detection from disk.  *)
Start ==
    /\ pc \in Down
    /\ pc' = "starting"
    /\ cfg' = uci
    /\ load
    /\ lastDPIResult' = dpiFile
    /\ lastStateWasProbing' = FALSE
    /\ candidates' = {} /\ hint' = "none" /\ viable' = <<>> /\ attempt' = 0
    /\ sigCh' = <<>>
    /\ episode' = <<>> /\ tryNext' = TRUE
    /\ UNCHANGED <<dpiFile, envVars, streak, verified, sinceCommit, stopAsked,
                   countVars>>

(* Run: signal.Notify and the ticker are in place.                         *)
Run ==
    /\ pc = "starting"
    /\ pc' = "idle"
    /\ UNCHANGED <<machineVars, cfg, sigCh, loopVars, dpiFile, envVars,
                   historyVars, countVars>>

Crash ==
    /\ pc \in Running
    /\ crashes < MaxCrashes
    /\ crashes' = crashes + 1
    /\ pc' = "crashed"
    /\ stopAsked' = FALSE
    /\ UNCHANGED <<machineVars, cfg, sigCh, loopVars, dpiFile, envVars, streak,
                   verified, episode, sinceCommit, tryNext, edits, terms>>
-----------------------------------------------------------------------------
(* Signals.                                                                *)

(* Slip: the channel is unbuffered, so a busy loop misses the signal.      *)
DeliverUnbuffered(sig) ==
    \/ pc \in Down /\ UNCHANGED <<pc, sigCh>>
    \/ pc = "starting" /\ pc' = "crashed" /\ UNCHANGED sigCh
    \/ /\ pc \in Running \ {"starting"}
       /\ sigCh' = IF pc = "idle" /\ sigCh = <<>> THEN <<sig>> ELSE sigCh
       /\ UNCHANGED pc

(* Slip: one more signal is taken in than the channel has room for.        *)
DeliverOverfull(sig) ==
    \/ pc \in Down /\ UNCHANGED <<pc, sigCh>>
    \/ pc = "starting" /\ pc' = "crashed" /\ UNCHANGED sigCh
    \/ /\ pc \in Running \ {"starting"}
       /\ sigCh' = IF Len(sigCh) <= 1 THEN Append(sigCh, sig) ELSE sigCh
       /\ UNCHANGED pc

(***************************************************************************)
(* What the process makes of a signal.  Before signal.Notify the default   *)
(* action ends it; afterwards the runtime sends to sigCh without blocking  *)
(* and drops the signal when the buffer (capacity 1) is full.              *)
(***************************************************************************)
Deliver(sig) ==
    \/ /\ pc \in Down
       /\ UNCHANGED <<pc, sigCh>>
    \/ /\ pc = "starting"
       /\ pc' = IF sig = "TERM" THEN "stopped" ELSE "crashed"
       /\ UNCHANGED sigCh
    \/ /\ pc \in Running \ {"starting"}
       /\ sigCh' = IF sigCh = <<>> THEN <<sig>> ELSE sigCh
       /\ UNCHANGED pc

(* /etc/init.d/vpn-watchdog stop.                                          *)
Terminate ==
    /\ pc \in Running
    /\ terms < MaxTerms
    /\ terms' = terms + 1
    /\ Deliver("TERM")
    /\ stopAsked' = (pc # "starting")
    /\ UNCHANGED <<machineVars, cfg, loopVars, dpiFile, envVars, streak, verified,
                   episode, sinceCommit, tryNext, crashes, edits>>

(* LuCI commits the form to UCI, then signals the daemon.                  *)
EditSettings(c) ==
    /\ edits < MaxEdits
    /\ edits' = edits + 1
    /\ uci' = c
    /\ hupOwed' = TRUE
    /\ UNCHANGED <<machineVars, pc, cfg, sigCh, loopVars, dpiFile, enabled, netUp,
                   historyVars, crashes, terms>>

(* LuCI adds, deletes, enables or disables tunnel configs, then signals.   *)
EditConfigs(ids) ==
    /\ edits < MaxEdits
    /\ edits' = edits + 1
    /\ enabled' = ids
    /\ hupOwed' = TRUE
    /\ UNCHANGED <<machineVars, pc, cfg, sigCh, loopVars, dpiFile, uci, netUp,
                   historyVars, crashes, terms>>

SendHUP ==
    /\ hupOwed
    /\ hupOwed' = FALSE
    /\ Deliver("HUP")
    /\ UNCHANGED <<machineVars, cfg, loopVars, dpiFile, uci, enabled, netUp,
                   historyVars, countVars>>

(* reload: the machine, the detection and the PROBING flag are kept.       *)
reload ==
    /\ cfg' = uci
    /\ UNCHANGED pc

HandleSignal ==
    /\ pc = "idle"
    /\ sigCh # <<>>
    /\ sigCh' = Tail(sigCh)
    /\ \/ /\ Head(sigCh) = "HUP"
          /\ reload
          /\ UNCHANGED stopAsked
       \/ /\ Head(sigCh) = "TERM"
          /\ pc' = "stopped"
          /\ stopAsked' = FALSE
          /\ UNCHANGED cfg
    /\ UNCHANGED <<machineVars, loopVars, dpiFile, envVars, streak, verified,
                   episode, sinceCommit, tryNext, countVars>>
-----------------------------------------------------------------------------
(* tick.                                                                   *)

(* HEALTHY or DEGRADED: doProbe up to the call of ProbeAll.                *)
TickProbe ==
    /\ pc = "idle"
    /\ current \in {"HEALTHY", "DEGRADED"}
    /\ ~(current = "HEALTHY" /\ InCooldown(cfg.cooldown))
    /\ pc' = "probe"
    /\ UNCHANGED <<machineVars, cfg, sigCh, loopVars, dpiFile, envVars,
                   historyVars, countVars>>

(* doProbe from the result of ProbeAll on.                                 *)
ProbeSucceeds ==
    /\ pc = "probe"
    /\ netUp
    /\ pc' = "idle"
    /\ RecordSuccess
    /\ lastStateWasProbing' = FALSE
    /\ streak' = 0
    /\ UNCHANGED <<cfg, sigCh, lastDPIResult, candidates, hint, viable, attempt,
                   dpiFile, envVars, verified, episode, sinceCommit, tryNext,
                   stopAsked, countVars>>

ProbeFails ==
    /\ pc = "probe"
    /\ ~netUp
    /\ pc' = "idle"
    /\ RecordFailure(cfg.degradedThreshold, cfg.probingThreshold)
    /\ streak' = streak + 1
    /\ episode' = IF current' = "PROBING" THEN <<>> ELSE episode
    /\ UNCHANGED <<cfg, sigCh, loopVars, dpiFile, envVars, verified, sinceCommit,
                   tryNext, stopAsked, countVars>>

(* PROBING: doSwitch up to the detection, if one is needed.  With no       *)
(* enabled config doSwitch returns and the tick has changed nothing.       *)
TickSwitch ==
    /\ pc = "idle"
    /\ current = "PROBING"
    /\ enabled # {}
    /\ candidates' = UNION {CandidatesOf[b] : b \in enabled}
    /\ pc' = IF lastStateWasProbing THEN "pool" ELSE "detect"
    /\ hint' = IF lastStateWasProbing THEN dpiHint(lastDPIResult) ELSE hint
    /\ UNCHANGED <<machineVars, cfg, sigCh, lastDPIResult, lastStateWasProbing,
                   viable, attempt, dpiFile, envVars, historyVars, countVars>>

(* SaveDetection drops a write error the way save() does.                  *)
Detect(result) ==
    /\ pc = "detect"
    /\ pc' = "pool"
    /\ lastDPIResult' = result
    /\ lastStateWasProbing' = TRUE
    /\ hint' = dpiHint(result)
    /\ \/ dpiFile' = result
       \/ SaveMayFail /\ dpiFile' \in {dpiFile, NoDetection}
    /\ episode' = Append(episode, result)
    /\ UNCHANGED <<machineVars, cfg, sigCh, candidates, viable, attempt, envVars,
                   streak, verified, sinceCommit, tryNext, stopAsked, countVars>>

(***************************************************************************)
(* ProbeAndSwitch up to the ranking: any list of candidates may turn out   *)
(* viable, the empty one included (then it returns and the next tick tries *)
(* again).  A variant can be listed twice, a base config cannot: the pool  *)
(* may hold the same variant as a learned and as a fresh one.              *)
(***************************************************************************)
ParallelProbe(ranking) ==
    /\ pc = "pool"
    /\ \A i \in DOMAIN ranking :
           /\ ranking[i] \in candidates
           /\ ranking[i] \in BaseIDs =>
                  \A j \in DOMAIN ranking : ranking[j] = ranking[i] => j = i
    /\ pc' = IF ranking = <<>> THEN "idle" ELSE "try"
    /\ viable' = ranking
    /\ attempt' = 0
    /\ tryNext' = TRUE
    /\ UNCHANGED <<machineVars, cfg, sigCh, lastDPIResult, lastStateWasProbing,
                   candidates, hint, dpiFile, envVars, streak, verified, episode,
                   sinceCommit, stopAsked, countVars>>

(* Slip: the config is made the active one before it is verified.          *)
TryNextConfigCommits ==
    /\ pc = "try"
    /\ attempt < Len(viable) /\ attempt < maxAttempts
    /\ pc' = "apply"
    /\ current' = "SWITCHING"
    /\ switchAttempts' = switchAttempts + 1
    /\ activeConfigID' = viable[attempt + 1]
    /\ UNCHANGED <<consecutiveFails, sinceSwitch>>
    /\ save
    /\ UNCHANGED <<cfg, sigCh, loopVars, dpiFile, envVars, historyVars, countVars>>

(* The head of the apply loop: the next viable config, if attempts remain. *)
TryNextConfig ==
    /\ pc = "try"
    /\ attempt < Len(viable) /\ attempt < maxAttempts
    /\ pc' = "apply"
    /\ EnterSwitching
    /\ UNCHANGED <<cfg, sigCh, loopVars, dpiFile, envVars, historyVars, countVars>>

Exhausted ==
    /\ pc = "try"
    /\ ~(attempt < Len(viable) /\ attempt < maxAttempts)
    /\ pc' = "idle"
    /\ UNCHANGED <<machineVars, cfg, sigCh, loopVars, dpiFile, envVars,
                   historyVars, countVars>>

AttemptFails ==
    /\ pc' = "try"
    /\ attempt' = attempt + 1
    /\ tryNext' = TryNext(maxAttempts)
    /\ SwitchFailed(maxAttempts)
    /\ UNCHANGED <<cfg, sigCh, lastDPIResult, lastStateWasProbing, candidates,
                   hint, viable, dpiFile, uci, enabled, hupOwed, streak, verified,
                   episode, sinceCommit, stopAsked, countVars>>

(* Up of the new tunnel, done or failed, can change what is reachable.     *)
ApplyFails ==
    /\ pc = "apply"
    /\ netUp' \in BOOLEAN
    /\ AttemptFails

ApplySucceeds ==
    /\ pc = "apply"
    /\ netUp' \in BOOLEAN
    /\ pc' = "verify"
    /\ UNCHANGED <<machineVars, cfg, sigCh, loopVars, dpiFile, uci, enabled,
                   hupOwed, historyVars, countVars>>

(* Verify failed: the new tunnel is taken down again.                      *)
VerifyFails ==
    /\ pc = "verify"
    /\ ~netUp
    /\ netUp' \in BOOLEAN
    /\ AttemptFails

(* Slip: the flag is not reset for the next PROBING entry.                 *)
VerifySucceedsKeepsFlag ==
    /\ pc = "verify"
    /\ netUp
    /\ pc' = "idle"
    /\ SwitchSucceeded(viable[attempt + 1])
    /\ streak' = 0
    /\ verified' = verified \cup {viable[attempt + 1]}
    /\ sinceCommit' = 0
    /\ UNCHANGED <<cfg, sigCh, loopVars, dpiFile, envVars, episode, tryNext,
                   stopAsked, countVars>>

(* Slip: the result of verify is not looked at.                            *)
VerifySucceedsUnchecked ==
    /\ pc = "verify"
    /\ pc' = "idle"
    /\ SwitchSucceeded(viable[attempt + 1])
    /\ lastStateWasProbing' = FALSE
    /\ streak' = 0
    /\ verified' = verified \cup {viable[attempt + 1]}
    /\ sinceCommit' = 0
    /\ UNCHANGED <<cfg, sigCh, lastDPIResult, candidates, hint, viable, attempt,
                   dpiFile, envVars, episode, tryNext, stopAsked, countVars>>

VerifySucceeds ==
    /\ pc = "verify"
    /\ netUp
    /\ pc' = "idle"
    /\ SwitchSucceeded(viable[attempt + 1])
    /\ lastStateWasProbing' = FALSE
    /\ streak' = 0
    /\ verified' = verified \cup {viable[attempt + 1]}
    /\ sinceCommit' = 0
    /\ UNCHANGED <<cfg, sigCh, lastDPIResult, candidates, hint, viable, attempt,
                   dpiFile, envVars, episode, tryNext, stopAsked, countVars>>
-----------------------------------------------------------------------------
(* Time and the network.                                                   *)

Pass ==
    /\ MachineAges
    /\ sinceCommit' = Older(sinceCommit)
    /\ UNCHANGED <<pc, cfg, sigCh, loopVars, dpiFile, envVars, streak, verified,
                   episode, tryNext, stopAsked, countVars>>

NetChanges ==
    /\ netUp' = ~netUp
    /\ UNCHANGED <<machineVars, pc, cfg, sigCh, loopVars, dpiFile, uci, enabled,
                   hupOwed, historyVars, countVars>>

(* A tick's work from one wait to the next.                                *)
Work ==
    \/ ProbeSucceeds \/ ProbeFails
    \/ \E result \in Detections : Detect(result)
    \/ \E ranking \in Rankings : ParallelProbe(ranking)
    \/ TryNextConfig \/ Exhausted
    \/ ApplyFails \/ ApplySucceeds \/ VerifyFails \/ VerifySucceeds

Tick == TickProbe \/ TickSwitch

Environment ==
    \/ Crash \/ Terminate \/ SendHUP \/ Pass \/ NetChanges
    \/ \E c \in DaemonConfigs : EditSettings(c)
    \/ \E ids \in SUBSET BaseIDs : EditConfigs(ids)

Next == Start \/ Run \/ HandleSignal \/ Tick \/ Work \/ Environment

Spec == Init /\ [][Next]_vars

(***************************************************************************)
(* Every wait of the loop ends: probes, detection and verify have their    *)
(* timeouts; the commands of apply, Down and the policy run on the loop's  *)
(* own context, without one, and are assumed to end.  The ticker keeps     *)
(* firing, procd respawns a crashed daemon (packaging's respawn            *)
(* parameter), time goes on, and LuCI's kill follows its write.  Handling  *)
(* a signal is strongly fair: between ticks select chooses at random among *)
(* what is ready.                                                          *)
(***************************************************************************)
Fairness ==
    /\ WF_vars(Work) /\ WF_vars(Tick) /\ SF_vars(HandleSignal) /\ WF_vars(Run)
    /\ WF_vars(pc = "crashed" /\ Start)
    /\ WF_vars(Pass) /\ WF_vars(SendHUP)

FairSpec == Spec /\ Fairness
-----------------------------------------------------------------------------
(* Inductive invariants.                                                   *)

(* Where the loop is determines the state the machine is in.               *)
ControlInv ==
    /\ pc = "probe" => current \in {"HEALTHY", "DEGRADED"}
    /\ pc \in {"detect", "pool", "try"} => current = "PROBING"
    /\ pc \in {"apply", "verify"} => current = "SWITCHING" /\ attempt < Len(viable)

(* The flag lastStateWasProbing says that this episode has its detection.  *)
DetectionInv ==
    /\ Len(episode) <= 1
    /\ lastStateWasProbing =>
           /\ current \in {"PROBING", "SWITCHING"}
           /\ Len(episode) = 1 /\ lastDPIResult = episode[1]
    /\ ~lastStateWasProbing /\ current \in {"PROBING", "SWITCHING"} => episode = <<>>
    /\ pc = "detect" => ~lastStateWasProbing
    /\ pc \in InRound \cup {"pool"} =>
           lastStateWasProbing /\ hint = dpiHint(lastDPIResult)

(* The file holds what the running process has (if no write fails), and    *)
(* both have the true age of the last switch.                              *)
PersistenceInv ==
    /\ pc \in Running => disk = Snapshot
    /\ disk.sinceSwitch = sinceCommit
    /\ pc = "probe" /\ current = "HEALTHY" => sinceSwitch >= cfg.cooldown
-----------------------------------------------------------------------------
(* Safety.                                                                 *)

(***************************************************************************)
(* doSwitch's promise "Run only once per PROBING entry": an episode of     *)
(* PROBING holds at most one detection, and no candidate is tried without  *)
(* one or under the hint of an earlier episode, whatever ticks, reloads    *)
(* and failed rounds come in between.                                      *)
(***************************************************************************)
OneDetectionPerEpisode ==
    /\ Len(episode) <= 1
    /\ pc \in InRound \cup {"pool"} =>
           Len(episode) = 1 /\ hint = dpiHint(episode[1])

(***************************************************************************)
(* The active config the daemon reports, or would report after a crash now *)
(* (SwitchSucceeded, save, load), is one that was applied and then passed  *)
(* verify; a failed attempt never leaves its ID behind.                    *)
(***************************************************************************)
ActiveWasVerified ==
    {activeConfigID, disk.activeConfigID} \subseteq verified \cup {NoConfig}

(***************************************************************************)
(* Coalescing signals in a channel of capacity 1 loses no edit (Run,       *)
(* reload): once LuCI has signalled, a running daemon either works with    *)
(* the settings UCI holds or has a signal waiting that it still handles.   *)
(***************************************************************************)
NoLostReload ==
    pc \in Running /\ ~hupOwed /\ cfg # uci => sigCh # <<>>

(***************************************************************************)
(* RecordFailure gives the connection up only after as many failed probes  *)
(* in a row as the two thresholds in force ask for, counted across         *)
(* restarts and reloads.                                                   *)
(***************************************************************************)
OutageBeforeProbing ==
    [][current = "DEGRADED" /\ current' = "PROBING" /\ pc = "probe" =>
          streak' >= cfg.degradedThreshold + cfg.probingThreshold]_vars

(***************************************************************************)
(* The cooldown after a switch (InCooldown) holds across a crash and       *)
(* restart: until it is over, failed probes do not leave HEALTHY.          *)
(***************************************************************************)
CooldownSurvivesRestart ==
    [][pc = "probe" /\ current = "HEALTHY" /\ current' = "DEGRADED" =>
          sinceCommit >= cfg.cooldown]_vars

(***************************************************************************)
(* A config is tried only while SwitchFailed has not said to stop: "Returns*)
(* true if we should try the next config, false if max attempts reached"   *)
(* (machine.go).  ProbeAndSwitch drops the returned value.                 *)
(***************************************************************************)
GiveUpHonoured ==
    [][pc = "try" /\ pc' = "apply" => tryNext]_vars

(***************************************************************************)
(* The daemon implements Failover when writes of state.json succeed.  A    *)
(* process that is down is seen as the state it will resume in.            *)
(***************************************************************************)
F == INSTANCE Failover WITH
        state  <- IF pc \in Down THEN disk.current ELSE current,
        active <- IF pc \in Down THEN disk.activeConfigID ELSE activeConfigID,
        missed <- streak

ImplementsFailover == F!Spec
-----------------------------------------------------------------------------
(* Liveness.                                                               *)

(***************************************************************************)
(* DEGRADED is transient (RecordSuccess, RecordFailure): however probes    *)
(* alternate and thresholds are edited, the daemon recovers or gives up.   *)
(***************************************************************************)
DegradedResolves ==
    (pc \in Running /\ current = "DEGRADED") ~> (pc \in Down \/ current # "DEGRADED")

(***************************************************************************)
(* An outage that lasts is acted on: the daemon ends up looking for        *)
(* another config for good, and as long as one is enabled it probes the    *)
(* candidates again and again, unless it was stopped.  The exception is a  *)
(* process killed in SWITCHING, which finds itself there again and does    *)
(* nothing (tick, SwitchingResolves).                                      *)
(***************************************************************************)
OutageActedOn ==
    <>[]~netUp /\ []<>(current # "SWITCHING") =>
        \/ <>[](pc = "stopped")
        \/ /\ <>[](current \in {"PROBING", "SWITCHING"})
           /\ <>[](enabled = {}) \/ []<>(pc = "pool")

(***************************************************************************)
(* SWITCHING ends, with HEALTHY or with PROBING (the apply loop).          *)
(***************************************************************************)
SwitchingResolves == (current = "SWITCHING") ~> (current # "SWITCHING")

(* The same for a process that has not been killed.                        *)
SwitchingResolvesUnlessKilled ==
    (current = "SWITCHING") ~> (current # "SWITCHING" \/ crashes > 0)

(***************************************************************************)
(* Run blocks "until ctx is cancelled or signal received": a SIGTERM sent  *)
(* to the running daemon ends it.                                          *)
(***************************************************************************)
TermStops == stopAsked ~> (pc \in Down)
=============================================================================
