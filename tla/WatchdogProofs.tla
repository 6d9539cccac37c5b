--------------------------- MODULE WatchdogProofs ---------------------------
(***************************************************************************)
(* Proofs about Watchdog for every set of configs, every settings, every   *)
(* bound, with and without failing writes of state.json.                   *)
(***************************************************************************)
EXTENDS Watchdog, TLAPS

(* What the constants are, in the form the proofs use.                     *)
LEMMA ConstantTypes ==
    /\ NoConfig \notin ConfigIDs
    /\ MaxAge \in Nat
    /\ SaveMayFail \in BOOLEAN
    /\ CandidatesOf \in [BaseIDs -> SUBSET ConfigIDs]
    /\ \A c \in DaemonConfigs :
          /\ c.degradedThreshold \in Int /\ c.probingThreshold \in Int
          /\ c.maxSwitchAttempts \in Int
          /\ c.cooldown \in 0..MaxAge
    /\ \A d \in Detections \cup {NoDetection} :
          d.block \in BlockTypes /\ d.confidence \in 0..10
BY NoConfigAssumption, MaxAgeAssumption, SaveMayFailAssumption,
   CandidatesAssumption, DaemonConfigsAssumption, DetectionsAssumption

(* A ranking's entries are config IDs.                                     *)
LEMMA RankingEntries ==
    ASSUME NEW r \in Rankings, NEW i \in Nat, i < Len(r)
    PROVE  r[i + 1] \in ConfigIDs
<1>1. PICK n \in 0..MaxViable : r \in [1..n -> ConfigIDs]
  BY DEF Rankings
<1>2. n \in Nat /\ Len(r) = n
  BY <1>1, BoundsAssumption
<1>3. i + 1 \in 1..n
  BY <1>2
<1> QED
  BY <1>1, <1>3

LEMMA HintType ==
    ASSUME NEW d \in Detections \cup {NoDetection}
    PROVE  dpiHint(d) \in BlockTypes
BY ConstantTypes DEF dpiHint, BlockTypes

LEMMA OlderType ==
    ASSUME NEW a \in 0..MaxAge
    PROVE  Older(a) \in 0..MaxAge /\ Older(a) >= a
BY ConstantTypes DEF Older

(* Everything save can leave in the file is a persisted state.             *)
LEMMA SaveType ==
    ASSUME save, disk \in PersistedState, current' \in States,
           activeConfigID' \in IDs, sinceSwitch' \in 0..MaxAge
    PROVE  disk' \in PersistedState
<1>1. Unreadable \in PersistedState
  BY ConstantTypes DEF Unreadable, PersistedState, States, IDs
<1>2. Snapshot' \in PersistedState
  BY DEF Snapshot, PersistedState
<1> QED
  BY <1>1, <1>2 DEF save
-----------------------------------------------------------------------------
(***************************************************************************)
(* Type correctness.  TypeOK alone is not inductive: the config committed  *)
(* by VerifySucceeds is an ID only because attempt points into viable,     *)
(* which ControlInv says.                                                  *)
(***************************************************************************)
LEMMA InitTyped == Init => TypeOK /\ ControlInv
<1> SUFFICES ASSUME Init PROVE TypeOK /\ ControlInv
  OBVIOUS
<1> USE DEF Init, MachineInit
<1>1. MachineTypeOK
  BY ConstantTypes DEF MachineTypeOK, States, IDs, Unreadable, PersistedState
<1>2. viable \in Rankings
  <2>1. <<>> \in [1..0 -> ConfigIDs]
    OBVIOUS
  <2> QED
    BY <2>1, BoundsAssumption DEF Rankings
<1>3. episode \in Seq(Detections)
  OBVIOUS
<1>4. sinceCommit \in 0..MaxAge /\ hint \in BlockTypes
  BY ConstantTypes DEF BlockTypes
<1>5. pc \in Down \cup Running
  BY DEF Running, Down
<1>6. TypeOK
  BY <1>1, <1>2, <1>3, <1>4, <1>5 DEF TypeOK
<1> QED
  BY <1>6 DEF ControlInv

LEMMA NextTyped == TypeOK /\ ControlInv /\ [Next]_vars => TypeOK' /\ ControlInv'
<1> SUFFICES ASSUME TypeOK, ControlInv, [Next]_vars PROVE TypeOK' /\ ControlInv'
  OBVIOUS
<1> USE DEF TypeOK, ControlInv, Running, Down
<1>0. <<>> \in Rankings /\ <<>> \in Seq(Detections)
  <2>1. <<>> \in [1..0 -> ConfigIDs]
    OBVIOUS
  <2> QED
    BY <2>1, BoundsAssumption DEF Rankings
<1>1. CASE Start
  <2>1. MachineTypeOK'
    BY <1>1 DEF Start, load, MachineTypeOK, PersistedState
  <2> QED
    BY <1>0, <1>1, <2>1 DEF Start, envVars, countVars, BlockTypes
<1>2. CASE Run
  BY <1>2 DEF Run, machineVars, MachineTypeOK, loopVars, envVars, historyVars, countVars
<1>3. CASE Crash
  <2>1. crashes' \in Nat
    BY <1>3 DEF Crash
  <2>2. stopAsked' \in BOOLEAN
    BY <1>3 DEF Crash
  <2> QED
    BY <1>3, <2>1, <2>2 DEF Crash, machineVars, MachineTypeOK, loopVars, envVars
(* A signal changes at most the channel, or ends a process that starts.    *)
<1>4a. ASSUME NEW sig \in {"HUP", "TERM"}, Deliver(sig)
       PROVE  /\ pc' = pc \/ pc' \in Down
              /\ sigCh' \in {<<>>, <<"HUP">>, <<"TERM">>}
  BY <1>4a DEF Deliver
<1>4. CASE Terminate
  <2>1. /\ pc' = pc \/ pc' \in Down
        /\ sigCh' \in {<<>>, <<"HUP">>, <<"TERM">>}
    BY <1>4, <1>4a DEF Terminate
  <2>2. terms' \in Nat /\ stopAsked' \in BOOLEAN
    BY <1>4 DEF Terminate
  <2> QED
    BY <1>4, <2>1, <2>2 DEF Terminate, machineVars, MachineTypeOK, loopVars, envVars
<1>5. CASE SendHUP
  <2>1. /\ pc' = pc \/ pc' \in Down
        /\ sigCh' \in {<<>>, <<"HUP">>, <<"TERM">>}
    BY <1>5, <1>4a DEF SendHUP
  <2> QED
    BY <1>5, <2>1 DEF SendHUP, machineVars, MachineTypeOK, loopVars, historyVars,
       countVars
<1>6. ASSUME NEW c \in DaemonConfigs, EditSettings(c) PROVE TypeOK' /\ ControlInv'
  BY <1>6 DEF EditSettings, machineVars, MachineTypeOK, loopVars, historyVars
<1>7. ASSUME NEW ids \in SUBSET BaseIDs, EditConfigs(ids) PROVE TypeOK' /\ ControlInv'
  BY <1>7 DEF EditConfigs, machineVars, MachineTypeOK, loopVars, historyVars
<1>8. CASE HandleSignal
  <2>1. Tail(sigCh) = <<>>
    BY <1>8 DEF HandleSignal
  <2> QED
    BY <1>8, <2>1 DEF HandleSignal, reload, machineVars, MachineTypeOK, loopVars,
       envVars, countVars
<1>9. CASE TickProbe
  BY <1>9 DEF TickProbe, machineVars, MachineTypeOK, loopVars, envVars, historyVars,
     countVars
<1>10. CASE ProbeSucceeds
  <2>1. MachineTypeOK'
    BY <1>10, SaveType DEF ProbeSucceeds, RecordSuccess, MachineTypeOK, States
  <2> QED
    BY <1>10, <2>1 DEF ProbeSucceeds, envVars, countVars
<1>11. CASE ProbeFails
  <2>1. MachineTypeOK'
    BY <1>11, SaveType DEF ProbeFails, RecordFailure, MachineTypeOK, States
  <2>2. streak' \in Nat /\ episode' \in Seq(Detections)
    BY <1>0, <1>11 DEF ProbeFails
  <2> QED
    BY <1>11, <2>1, <2>2 DEF ProbeFails, loopVars, envVars, countVars
<1>12. CASE TickSwitch
  <2>1. candidates' \subseteq ConfigIDs
    BY <1>12, ConstantTypes DEF TickSwitch
  <2>2. hint' \in BlockTypes
    BY <1>12, HintType DEF TickSwitch
  <2> QED
    BY <1>12, <2>1, <2>2 DEF TickSwitch, machineVars, MachineTypeOK, envVars,
       historyVars, countVars
<1>13. ASSUME NEW result \in Detections, Detect(result) PROVE TypeOK' /\ ControlInv'
  <2>1. episode' \in Seq(Detections)
    BY <1>13 DEF Detect
  <2>2. hint' \in BlockTypes
    BY <1>13, HintType DEF Detect
  <2> QED
    BY <1>13, <2>1, <2>2 DEF Detect, machineVars, MachineTypeOK, envVars, countVars
<1>14. ASSUME NEW ranking \in Rankings, ParallelProbe(ranking)
       PROVE  TypeOK' /\ ControlInv'
  BY <1>14 DEF ParallelProbe, machineVars, MachineTypeOK, envVars, countVars
<1>15. CASE TryNextConfig
  <2>1. MachineTypeOK'
    BY <1>15, SaveType DEF TryNextConfig, EnterSwitching, MachineTypeOK, States
  <2> QED
    BY <1>15, <2>1 DEF TryNextConfig, EnterSwitching, loopVars, envVars, historyVars,
       countVars
<1>16. CASE Exhausted
  BY <1>16 DEF Exhausted, machineVars, MachineTypeOK, loopVars, envVars, historyVars,
     countVars
<1>17. ASSUME AttemptFails, netUp' \in BOOLEAN PROVE TypeOK' /\ ControlInv'
  <2>1. MachineTypeOK'
    BY <1>17, SaveType DEF AttemptFails, SwitchFailed, MachineTypeOK, States
  <2>2. tryNext' \in BOOLEAN
    BY <1>17 DEF AttemptFails, TryNext
  <2> QED
    BY <1>17, <2>1, <2>2 DEF AttemptFails, SwitchFailed, countVars
<1>18. CASE ApplySucceeds
  BY <1>18 DEF ApplySucceeds, machineVars, MachineTypeOK, loopVars, historyVars,
     countVars
<1>19. CASE VerifySucceeds
  <2>1. viable[attempt + 1] \in ConfigIDs
    BY <1>19, RankingEntries DEF VerifySucceeds
  <2>2. MachineTypeOK'
    BY <1>19, <2>1, SaveType, ConstantTypes
       DEF VerifySucceeds, SwitchSucceeded, MachineTypeOK, States, IDs
  <2>3. sinceCommit' \in 0..MaxAge /\ verified' \subseteq ConfigIDs
    BY <1>19, <2>1, ConstantTypes DEF VerifySucceeds
  <2> QED
    BY <1>19, <2>2, <2>3 DEF VerifySucceeds, envVars, countVars
<1>20. CASE Pass
  <2>1. MachineTypeOK'
    BY <1>20, OlderType DEF Pass, MachineAges, MachineTypeOK, PersistedState
  <2> QED
    BY <1>20, <2>1, OlderType DEF Pass, MachineAges, loopVars, envVars, countVars
<1>21. CASE NetChanges
  BY <1>21 DEF NetChanges, machineVars, MachineTypeOK, loopVars, historyVars, countVars
<1>22. CASE UNCHANGED vars
  BY <1>22 DEF vars, machineVars, MachineTypeOK, loopVars, envVars, historyVars,
     countVars
<1> QED
  BY <1>1, <1>2, <1>3, <1>4, <1>5, <1>6, <1>7, <1>8, <1>9, <1>10, <1>11, <1>12, <1>13,
     <1>14, <1>15, <1>16, <1>17, <1>18, <1>19, <1>20, <1>21, <1>22
     DEF Next, Tick, Work, Environment, ApplyFails, VerifyFails

(***************************************************************************)
(* Type correctness of the daemon, its files and its surroundings.         *)
(***************************************************************************)
THEOREM TypeCorrect == Spec => [](TypeOK /\ ControlInv)
BY InitTyped, NextTyped, PTL DEF Spec
-----------------------------------------------------------------------------
(* The configs in memory and on disk went through verify.                  *)
LEMMA NextActive ==
    TypeOK /\ ControlInv /\ ActiveWasVerified /\ [Next]_vars => ActiveWasVerified'
<1> SUFFICES ASSUME TypeOK, ControlInv, ActiveWasVerified, [Next]_vars
             PROVE  ActiveWasVerified'
  OBVIOUS
<1> USE DEF ActiveWasVerified
(* save writes the new active ID, keeps the file, or makes it unreadable.  *)
<1>1. ASSUME save PROVE disk'.activeConfigID \in
                            {activeConfigID', disk.activeConfigID, NoConfig}
  BY <1>1 DEF save, Snapshot, Unreadable
<1>2. CASE UNCHANGED <<activeConfigID, disk>> /\ verified' = verified
  BY <1>2
<1>3. CASE Start
  BY <1>3 DEF Start, load
<1>4. CASE Pass
  BY <1>4 DEF Pass, MachineAges, TypeOK, MachineTypeOK, PersistedState
<1>5. CASE ProbeSucceeds
  BY <1>1, <1>5 DEF ProbeSucceeds, RecordSuccess
<1>6. CASE ProbeFails
  BY <1>1, <1>6 DEF ProbeFails, RecordFailure
<1>7. CASE TryNextConfig
  BY <1>1, <1>7 DEF TryNextConfig, EnterSwitching, historyVars
<1>8. CASE AttemptFails
  BY <1>1, <1>8 DEF AttemptFails, SwitchFailed
<1>9. CASE VerifySucceeds
  BY <1>1, <1>9 DEF VerifySucceeds, SwitchSucceeded
<1>10. CASE Run \/ Exhausted \/ ApplySucceeds \/ TickProbe \/ TickSwitch
  BY <1>2, <1>10 DEF Run, Exhausted, ApplySucceeds, TickProbe, TickSwitch,
     machineVars, historyVars
<1>11. CASE HandleSignal \/ Crash \/ Terminate \/ SendHUP \/ NetChanges
  BY <1>2, <1>11 DEF HandleSignal, Crash, Terminate, SendHUP, NetChanges,
     machineVars, historyVars
<1>12. ASSUME \/ \E c \in DaemonConfigs : EditSettings(c)
              \/ \E ids \in SUBSET BaseIDs : EditConfigs(ids)
              \/ \E result \in Detections : Detect(result)
              \/ \E ranking \in Rankings : ParallelProbe(ranking)
       PROVE  ActiveWasVerified'
  BY <1>2, <1>12 DEF EditSettings, EditConfigs, Detect, ParallelProbe, machineVars,
     historyVars
<1>13. CASE UNCHANGED vars
  BY <1>2, <1>13 DEF vars, machineVars, historyVars
<1> QED
  BY <1>3, <1>4, <1>5, <1>6, <1>7, <1>8, <1>9, <1>10, <1>11, <1>12, <1>13
     DEF Next, Tick, Work, Environment, ApplyFails, VerifyFails

(***************************************************************************)
(* No unverified config is ever the active one, nor becomes it after a     *)
(* crash, even when writes of state.json fail or are torn.                 *)
(***************************************************************************)
THEOREM ActiveAlwaysVerified == Spec => []ActiveWasVerified
<1>1. Init => ActiveWasVerified
  BY DEF Init, MachineInit, Unreadable, ActiveWasVerified
<1> QED
  BY <1>1, NextActive, TypeCorrect, PTL DEF Spec
-----------------------------------------------------------------------------
(* One detection per PROBING episode.                                      *)
LEMMA NextDetection ==
    TypeOK /\ ControlInv /\ DetectionInv /\ [Next]_vars => DetectionInv'
<1> SUFFICES ASSUME TypeOK, ControlInv, DetectionInv, [Next]_vars
             PROVE  DetectionInv'
  OBVIOUS
<1> USE DEF DetectionInv, InRound
<1>0. episode \in Seq(Detections)
  BY DEF TypeOK
<1>1. CASE Start
  BY <1>1 DEF Start
<1>2. CASE \/ Run \/ Crash \/ TickProbe \/ NetChanges \/ Exhausted \/ ApplySucceeds
  BY <1>2 DEF Run, Crash, TickProbe, NetChanges, Exhausted, ApplySucceeds,
     machineVars, loopVars, historyVars
<1>3. CASE Pass
  BY <1>3 DEF Pass, MachineAges, loopVars
<1>4. CASE Terminate \/ SendHUP
  BY <1>4 DEF Terminate, SendHUP, Deliver, machineVars, loopVars, historyVars
<1>5. CASE HandleSignal
  BY <1>5 DEF HandleSignal, reload, machineVars, loopVars
<1>6. ASSUME \/ \E c \in DaemonConfigs : EditSettings(c)
             \/ \E ids \in SUBSET BaseIDs : EditConfigs(ids)
      PROVE  DetectionInv'
  BY <1>6 DEF EditSettings, EditConfigs, machineVars, loopVars, historyVars
<1>7. CASE ProbeSucceeds
  BY <1>7 DEF ProbeSucceeds, RecordSuccess, ControlInv
<1>8. CASE ProbeFails
  <2>1. current \in {"HEALTHY", "DEGRADED"} /\ ~lastStateWasProbing
    BY <1>8 DEF ProbeFails, ControlInv
  <2>2. current' \in {"HEALTHY", "DEGRADED", "PROBING"}
    BY <1>8, <2>1 DEF ProbeFails, RecordFailure
  <2>3. Len(episode') <= 1 /\ (current' = "PROBING" => episode' = <<>>)
    BY <1>8 DEF ProbeFails
  <2> QED
    BY <1>8, <2>1, <2>2, <2>3 DEF ProbeFails, loopVars
<1>9. CASE TickSwitch
  BY <1>9 DEF TickSwitch, machineVars, historyVars
<1>10. ASSUME NEW result \in Detections, Detect(result) PROVE DetectionInv'
  <2>1. episode = <<>> /\ current = "PROBING"
    BY <1>10 DEF Detect, ControlInv
  <2>2. Len(episode') = 1 /\ episode'[1] = result
    BY <1>10, <2>1 DEF Detect
  <2> QED
    BY <1>10, <2>1, <2>2 DEF Detect, machineVars
<1>11. ASSUME NEW ranking \in Rankings, ParallelProbe(ranking) PROVE DetectionInv'
  BY <1>11 DEF ParallelProbe, machineVars
<1>12. CASE TryNextConfig
  BY <1>12 DEF TryNextConfig, EnterSwitching, loopVars, historyVars
<1>13. ASSUME AttemptFails, pc \in {"apply", "verify"} PROVE DetectionInv'
  BY <1>13 DEF AttemptFails, SwitchFailed
<1>14. CASE VerifySucceeds
  BY <1>14 DEF VerifySucceeds, SwitchSucceeded
<1>15. CASE UNCHANGED vars
  BY <1>15 DEF vars, machineVars, loopVars, historyVars
<1> QED
  BY <1>1, <1>2, <1>3, <1>4, <1>5, <1>6, <1>7, <1>8, <1>9, <1>10, <1>11, <1>12, <1>13,
     <1>14, <1>15 DEF Next, Tick, Work, Environment, ApplyFails, VerifyFails

(***************************************************************************)
(* doSwitch detects once per PROBING episode, and a round works under the  *)
(* hint of its own episode's detection.                                    *)
(***************************************************************************)
THEOREM DetectionOnce == Spec => []OneDetectionPerEpisode
<1>1. Init => DetectionInv
  BY DEF Init, MachineInit, DetectionInv, InRound
<1>2. DetectionInv => OneDetectionPerEpisode
  BY DEF DetectionInv, OneDetectionPerEpisode
<1> QED
  BY <1>1, <1>2, NextDetection, TypeCorrect, PTL DEF Spec
-----------------------------------------------------------------------------
(* A signal in a full channel is dropped, but the one in it is enough.     *)
SignalInv == NoLostReload /\ (pc = "starting" => sigCh = <<>>)

LEMMA NextSignal == TypeOK /\ SignalInv /\ [Next]_vars => SignalInv'
<1> SUFFICES ASSUME TypeOK, SignalInv, [Next]_vars PROVE SignalInv'
  OBVIOUS
<1> USE DEF SignalInv, NoLostReload, Running, Down
<1>1. CASE Start
  BY <1>1 DEF Start, envVars
<1>2. CASE Terminate
  BY <1>2 DEF Terminate, Deliver, envVars
<1>3. CASE SendHUP
  BY <1>3 DEF SendHUP, Deliver
<1>4. CASE HandleSignal
  BY <1>4 DEF HandleSignal, reload, envVars
<1>5. ASSUME NEW c \in DaemonConfigs, EditSettings(c) PROVE SignalInv'
  BY <1>5 DEF EditSettings
<1>6. ASSUME NEW ids \in SUBSET BaseIDs, EditConfigs(ids) PROVE SignalInv'
  BY <1>6 DEF EditConfigs
<1>7. ASSUME pc' = pc \/ (pc \in Running /\ pc' # "starting"),
             UNCHANGED <<cfg, sigCh, uci, hupOwed>>
      PROVE  SignalInv'
  BY <1>7
<1>8. CASE Run \/ Crash \/ Tick \/ Pass \/ NetChanges
  BY <1>7, <1>8 DEF Run, Crash, Tick, TickProbe, TickSwitch, Pass, NetChanges, envVars
<1>9. CASE Work
  BY <1>7, <1>9 DEF Work, ProbeSucceeds, ProbeFails, Detect, ParallelProbe,
     TryNextConfig, Exhausted, ApplyFails, ApplySucceeds, VerifyFails,
     VerifySucceeds, AttemptFails, envVars
<1>10. CASE UNCHANGED vars
  BY <1>7, <1>10 DEF vars, envVars
<1> QED
  BY <1>1, <1>2, <1>3, <1>4, <1>5, <1>6, <1>8, <1>9, <1>10 DEF Next, Environment

(***************************************************************************)
(* Whatever signals are dropped, no edit LuCI has signalled is lost.       *)
(***************************************************************************)
THEOREM ReloadNeverLost == Spec => []NoLostReload
<1>1. Init => SignalInv
  BY DEF Init, SignalInv, NoLostReload
<1>2. SignalInv => NoLostReload
  BY DEF SignalInv
<1> QED
  BY <1>1, <1>2, NextSignal, TypeCorrect, PTL DEF Spec
-----------------------------------------------------------------------------
(* The machine's counter never exceeds the failures that happened.         *)
FailsInv == consecutiveFails <= streak

LEMMA NextFails == TypeOK /\ FailsInv /\ [Next]_vars => FailsInv'
<1> SUFFICES ASSUME TypeOK, FailsInv, [Next]_vars PROVE FailsInv'
  OBVIOUS
<1> USE DEF FailsInv
<1>0. consecutiveFails \in Nat /\ streak \in Nat
  BY DEF TypeOK, MachineTypeOK
<1>1. CASE Start
  BY <1>0, <1>1 DEF Start, load
<1>2. CASE ProbeSucceeds
  BY <1>0, <1>2 DEF ProbeSucceeds, RecordSuccess
<1>3. CASE ProbeFails
  BY <1>0, <1>3 DEF ProbeFails, RecordFailure
<1>4. CASE VerifySucceeds
  BY <1>0, <1>4 DEF VerifySucceeds, SwitchSucceeded
<1>5. CASE Pass
  BY <1>0, <1>5 DEF Pass, MachineAges
<1>6. CASE TryNextConfig
  BY <1>0, <1>6 DEF TryNextConfig, EnterSwitching, historyVars
<1>7. CASE AttemptFails
  BY <1>0, <1>7 DEF AttemptFails, SwitchFailed
<1>8. ASSUME UNCHANGED <<consecutiveFails, streak>> PROVE FailsInv'
  BY <1>8
<1>9. CASE Run \/ HandleSignal \/ Tick \/ Exhausted \/ ApplySucceeds
  BY <1>8, <1>9 DEF Run, HandleSignal, Tick, TickProbe, TickSwitch, Exhausted,
     ApplySucceeds, machineVars, historyVars
<1>10. ASSUME \/ \E result \in Detections : Detect(result)
              \/ \E ranking \in Rankings : ParallelProbe(ranking)
       PROVE  FailsInv'
  BY <1>8, <1>10 DEF Detect, ParallelProbe, machineVars
<1>11. ASSUME Environment, ~Pass PROVE FailsInv'
  BY <1>8, <1>11 DEF Environment, Crash, Terminate, SendHUP, NetChanges, EditSettings,
     EditConfigs, machineVars, historyVars
<1>12. CASE UNCHANGED vars
  BY <1>8, <1>12 DEF vars, machineVars, historyVars
<1> QED
  BY <1>1, <1>2, <1>3, <1>4, <1>5, <1>6, <1>7, <1>9, <1>10, <1>11, <1>12
     DEF Next, Work, ApplyFails, VerifyFails

(* Only a failed probe leads from DEGRADED to PROBING at pc = "probe".     *)
LEMMA StepOutage ==
    TypeOK /\ FailsInv /\ [Next]_vars =>
        [current = "DEGRADED" /\ current' = "PROBING" /\ pc = "probe" =>
            streak' >= cfg.degradedThreshold + cfg.probingThreshold]_vars
<1> SUFFICES ASSUME TypeOK, FailsInv, Next, pc = "probe",
                    current = "DEGRADED", current' = "PROBING"
             PROVE  streak' >= cfg.degradedThreshold + cfg.probingThreshold
  OBVIOUS
<1>1. ProbeFails
  BY DEF Next, Start, Run, HandleSignal, Tick, TickProbe, TickSwitch, Work,
     ProbeSucceeds, RecordSuccess, Detect, ParallelProbe, TryNextConfig, Exhausted,
     ApplyFails, ApplySucceeds, VerifyFails, VerifySucceeds, Environment, Crash,
     Terminate, SendHUP, Pass, MachineAges, NetChanges, EditSettings, EditConfigs,
     machineVars, Down
<1>2. GivesUp(cfg.degradedThreshold, cfg.probingThreshold)
  BY <1>1 DEF ProbeFails, RecordFailure, Degrades
<1>3. /\ cfg.degradedThreshold \in Int /\ cfg.probingThreshold \in Int
      /\ consecutiveFails \in Nat /\ streak \in Nat
  BY ConstantTypes DEF TypeOK, MachineTypeOK
<1> QED
  BY <1>1, <1>2, <1>3 DEF GivesUp, ProbeFails, FailsInv

(***************************************************************************)
(* The connection is given up only after the outage the thresholds ask for.*)
(***************************************************************************)
THEOREM OutageAlwaysBeforeProbing == Spec => OutageBeforeProbing
<1>1. Init => FailsInv
  BY DEF Init, MachineInit, FailsInv
<1> QED
  BY <1>1, NextFails, StepOutage, TypeCorrect, PTL DEF Spec, OutageBeforeProbing
-----------------------------------------------------------------------------
(***************************************************************************)
(* Persistence, for a state directory whose writes succeed.                *)
(***************************************************************************)
LEMMA NextPersistence ==
    ASSUME SaveMayFail = FALSE
    PROVE  TypeOK /\ ControlInv /\ PersistenceInv /\ [Next]_vars => PersistenceInv'
<1> SUFFICES ASSUME TypeOK, ControlInv, PersistenceInv, [Next]_vars
             PROVE  PersistenceInv'
  OBVIOUS
<1> USE DEF PersistenceInv, Running, Down
<1>0. ASSUME save PROVE disk' = Snapshot'
  BY <1>0 DEF save
<1>1. /\ disk \in PersistedState /\ sinceSwitch \in 0..MaxAge
      /\ cfg.cooldown \in 0..MaxAge /\ sinceCommit \in 0..MaxAge
  BY ConstantTypes DEF TypeOK, MachineTypeOK
<1>2. CASE Start
  BY <1>1, <1>2 DEF Start, load, Snapshot, PersistedState
<1>3. CASE TickProbe
  BY <1>1, <1>3 DEF TickProbe, InCooldown, machineVars, historyVars, Snapshot
<1>4. CASE ProbeSucceeds
  BY <1>0, <1>4 DEF ProbeSucceeds, RecordSuccess, Snapshot
<1>5. CASE ProbeFails
  BY <1>0, <1>5 DEF ProbeFails, RecordFailure, Snapshot
<1>6. CASE TryNextConfig
  BY <1>0, <1>6 DEF TryNextConfig, EnterSwitching, historyVars, Snapshot
<1>7. ASSUME AttemptFails, pc \in {"apply", "verify"} PROVE PersistenceInv'
  BY <1>0, <1>7 DEF AttemptFails, SwitchFailed, Snapshot
<1>8. CASE VerifySucceeds
  BY <1>0, <1>8 DEF VerifySucceeds, SwitchSucceeded, Snapshot
<1>9. CASE Pass
  <2>1. disk'.sinceSwitch = Older(disk.sinceSwitch)
    BY <1>1, <1>9 DEF Pass, MachineAges, PersistedState
  <2>2. pc \in Running => disk' = Snapshot'
    BY <1>1, <1>9 DEF Pass, MachineAges, Snapshot
  <2>3. sinceSwitch' >= sinceSwitch /\ sinceSwitch' \in 0..MaxAge
    BY <1>1, <1>9, OlderType DEF Pass, MachineAges
  <2> QED
    BY <1>1, <1>9, <2>1, <2>2, <2>3 DEF Pass, MachineAges
<1>10. ASSUME UNCHANGED <<machineVars, cfg, sinceCommit>>,
              pc' = pc \/ (pc \in Running /\ pc' # "probe")
       PROVE  PersistenceInv'
  BY <1>10 DEF machineVars, Snapshot
<1>11. CASE HandleSignal
  BY <1>11 DEF HandleSignal, reload, machineVars, Snapshot
<1>12. CASE Run \/ TickSwitch \/ Exhausted \/ ApplySucceeds
  BY <1>10, <1>12 DEF Run, TickSwitch, Exhausted, ApplySucceeds, historyVars
<1>13. ASSUME \/ \E result \in Detections : Detect(result)
              \/ \E ranking \in Rankings : ParallelProbe(ranking)
       PROVE  PersistenceInv'
  BY <1>10, <1>13 DEF Detect, ParallelProbe
<1>14. CASE Crash \/ Terminate \/ SendHUP \/ NetChanges
  BY <1>10, <1>14 DEF Crash, Terminate, SendHUP, Deliver, NetChanges, historyVars
<1>15. ASSUME \/ \E c \in DaemonConfigs : EditSettings(c)
              \/ \E ids \in SUBSET BaseIDs : EditConfigs(ids)
       PROVE  PersistenceInv'
  BY <1>10, <1>15 DEF EditSettings, EditConfigs, historyVars
<1>16. CASE UNCHANGED vars
  BY <1>10, <1>16 DEF vars, historyVars
<1> QED
  BY <1>2, <1>3, <1>4, <1>5, <1>6, <1>7, <1>8, <1>9, <1>11, <1>12, <1>13, <1>14, <1>15,
     <1>16 DEF Next, Tick, Work, Environment, ApplyFails, VerifyFails

LEMMA InitPersistence == Init => PersistenceInv
BY ConstantTypes DEF Init, MachineInit, PersistenceInv, Unreadable, Snapshot

(* Only a failed probe leads from HEALTHY to DEGRADED at pc = "probe".     *)
LEMMA StepCooldown ==
    PersistenceInv /\ [Next]_vars =>
        [pc = "probe" /\ current = "HEALTHY" /\ current' = "DEGRADED" =>
            sinceCommit >= cfg.cooldown]_vars
<1> SUFFICES ASSUME PersistenceInv, pc = "probe", current = "HEALTHY"
             PROVE  sinceCommit >= cfg.cooldown
  OBVIOUS
<1> QED
  BY DEF PersistenceInv, Running, Snapshot

(***************************************************************************)
(* The cooldown after a switch is respected across crashes.                *)
(***************************************************************************)
THEOREM CooldownAlwaysSurvives ==
    ASSUME SaveMayFail = FALSE
    PROVE  Spec => CooldownSurvivesRestart
BY InitPersistence, NextPersistence, StepCooldown, TypeCorrect, PTL
   DEF Spec, CooldownSurvivesRestart
-----------------------------------------------------------------------------
(* Every step of the daemon is a step of Failover or changes none of it.   *)
LEMMA StepImplements ==
    ASSUME SaveMayFail = FALSE
    PROVE  TypeOK /\ ControlInv /\ FailsInv /\ PersistenceInv /\ [Next]_vars
              => [F!Next]_(F!vars)
<1> SUFFICES ASSUME TypeOK, ControlInv, FailsInv, PersistenceInv, [Next]_vars
             PROVE  F!Next \/ UNCHANGED F!vars
  OBVIOUS
<1> DEFINE state == IF pc \in Down THEN disk.current ELSE current
           active == IF pc \in Down THEN disk.activeConfigID ELSE activeConfigID
<1> USE DEF Running, Down
<1>0. /\ pc \in Running => disk.current = current /\ disk.activeConfigID = activeConfigID
      /\ pc \in Down \cup Running
      /\ streak \in Nat /\ consecutiveFails \in Nat
  BY DEF PersistenceInv, Snapshot, TypeOK, MachineTypeOK
<1>1. ASSUME state' = state, active' = active, streak' = streak
      PROVE  UNCHANGED F!vars
  BY <1>1 DEF F!vars
<1>2. ASSUME UNCHANGED <<current, activeConfigID, streak>>,
             disk'.current = disk.current, disk'.activeConfigID = disk.activeConfigID,
             pc \in Running \/ pc' = pc
      PROVE  UNCHANGED F!vars
  BY <1>0, <1>1, <1>2
<1>3. CASE Start
  BY <1>0, <1>1, <1>3 DEF Start, load
<1>4. CASE ProbeSucceeds
  <2>1. F!Works
    BY <1>4 DEF ProbeSucceeds, RecordSuccess, ControlInv, F!Works
  <2> QED
    BY <2>1 DEF F!Next
<1>5. CASE ProbeFails
  <2>1. current' = "PROBING" => streak' >= MinOutage
    <3>1. /\ cfg.degradedThreshold \in Int /\ cfg.probingThreshold \in Int
          /\ MinOutage \in Int
          /\ MinOutage <= cfg.degradedThreshold + cfg.probingThreshold
      BY MinOutageAssumption, ConstantTypes DEF TypeOK
    <3>2. current' = "PROBING" => GivesUp(cfg.degradedThreshold, cfg.probingThreshold)
      BY <1>5 DEF ProbeFails, RecordFailure, ControlInv, Degrades
    <3> QED
      BY <1>0, <1>5, <3>1, <3>2 DEF ProbeFails, GivesUp, FailsInv
  <2>2. F!Misses
    BY <1>0, <1>5, <2>1 DEF ProbeFails, RecordFailure, ControlInv, Degrades, GivesUp,
       F!Misses
  <2> QED
    BY <2>2 DEF F!Next
<1>6. CASE TryNextConfig
  <2>1. F!Attempt
    BY <1>6 DEF TryNextConfig, EnterSwitching, historyVars, ControlInv, F!Attempt
  <2> QED
    BY <2>1 DEF F!Next
<1>7. ASSUME AttemptFails, pc \in {"apply", "verify"} PROVE F!Next
  <2>1. F!Reject
    BY <1>7 DEF AttemptFails, SwitchFailed, ControlInv, F!Reject
  <2> QED
    BY <2>1 DEF F!Next
<1>8. CASE VerifySucceeds
  <2>1. viable[attempt + 1] \in ConfigIDs
    BY <1>8, RankingEntries DEF VerifySucceeds, ControlInv, TypeOK
  <2>2. F!Commit
    BY <1>8, <2>1 DEF VerifySucceeds, SwitchSucceeded, ControlInv, F!Commit
  <2> QED
    BY <2>2 DEF F!Next
<1>9. CASE Pass
  <2>1. disk'.current = disk.current /\ disk'.activeConfigID = disk.activeConfigID
    BY <1>9 DEF Pass, MachineAges, TypeOK, MachineTypeOK, PersistedState
  <2> QED
    BY <1>2, <1>9, <2>1 DEF Pass, MachineAges
<1>10. CASE Run \/ HandleSignal \/ Tick \/ Exhausted \/ ApplySucceeds
  BY <1>2, <1>10 DEF Run, HandleSignal, Tick, TickProbe, TickSwitch, Exhausted,
     ApplySucceeds, machineVars, historyVars
<1>11. ASSUME \/ \E result \in Detections : Detect(result)
              \/ \E ranking \in Rankings : ParallelProbe(ranking)
       PROVE  UNCHANGED F!vars
  BY <1>2, <1>11 DEF Detect, ParallelProbe, machineVars
<1>12. CASE Crash \/ Terminate \/ SendHUP \/ NetChanges
  BY <1>2, <1>12 DEF Crash, Terminate, SendHUP, Deliver, NetChanges, machineVars,
     historyVars
<1>13. ASSUME \/ \E c \in DaemonConfigs : EditSettings(c)
              \/ \E ids \in SUBSET BaseIDs : EditConfigs(ids)
       PROVE  UNCHANGED F!vars
  BY <1>2, <1>13 DEF EditSettings, EditConfigs, machineVars, historyVars
<1>14. CASE UNCHANGED vars
  BY <1>2, <1>14 DEF vars, machineVars, historyVars
<1> QED
  BY <1>3, <1>4, <1>5, <1>6, <1>7, <1>8, <1>9, <1>10, <1>11, <1>12, <1>13, <1>14
     DEF Next, Work, Environment, ApplyFails, VerifyFails

(***************************************************************************)
(* The daemon implements Failover: with writes that succeed, crashes and   *)
(* restarts at any point are invisible in state, active config and count.  *)
(***************************************************************************)
THEOREM Implementation ==
    ASSUME SaveMayFail = FALSE
    PROVE  Spec => ImplementsFailover
<1>1. Init => F!Init
  BY DEF Init, MachineInit, F!Init, Down
<1>2. Init => FailsInv
  BY DEF Init, MachineInit, FailsInv
<1> QED
  BY <1>1, <1>2, NextFails, InitPersistence, NextPersistence, StepImplements,
     TypeCorrect, PTL DEF Spec, ImplementsFailover, F!Spec
=============================================================================
