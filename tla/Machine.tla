------------------------------ MODULE Machine ------------------------------
(***************************************************************************)
(* The watchdog's state machine (daemon/internal/state/machine.go): the    *)
(* in-memory fields of Machine, the file state.json they are persisted to, *)
(* and one action operator per method.  Every method runs under m.mu and   *)
(* only the event loop calls the mutating ones, so a method is one step.   *)
(*                                                                         *)
(* lastSwitch is kept as the time elapsed since it.  MaxAge stands for     *)
(* "MaxAge or longer ago, or never" (the zero time): no cooldown is longer *)
(* than MaxAge, so InCooldown cannot tell those apart.                     *)
(***************************************************************************)
EXTENDS Integers

CONSTANTS
    ConfigIDs,    \* IDs a tunnel config (base or variant) can have
    NoConfig,     \* the empty ID
    MaxAge,       \* elapsed time is counted up to here
    SaveMayFail   \* TRUE: a write of state.json may fail or be torn by a crash

ASSUME NoConfigAssumption == NoConfig \notin ConfigIDs
ASSUME MaxAgeAssumption == MaxAge \in Nat
ASSUME SaveMayFailAssumption == SaveMayFail \in BOOLEAN

VARIABLES
    current,           \* Machine.current
    consecutiveFails,  \* Machine.consecutiveFails
    activeConfigID,    \* Machine.activeConfigID
    sinceSwitch,       \* time since Machine.lastSwitch
    switchAttempts,    \* Machine.switchAttempts
    disk               \* what load() would make of state.json

machineVars ==
    <<current, consecutiveFails, activeConfigID, sinceSwitch, switchAttempts, disk>>

States == {"HEALTHY", "DEGRADED", "PROBING", "SWITCHING"}

IDs == ConfigIDs \cup {NoConfig}

PersistedState ==
    [current : States, activeConfigID : IDs, sinceSwitch : 0..MaxAge]

(***************************************************************************)
(* load() leaves New's defaults alone when the file is missing or does not *)
(* parse (an empty or cut-off JSON text never parses).                     *)
(***************************************************************************)
Unreadable ==
    [current |-> "HEALTHY", activeConfigID |-> NoConfig, sinceSwitch |-> MaxAge]

MachineTypeOK ==
    /\ current \in States
    /\ consecutiveFails \in Nat
    /\ activeConfigID \in IDs
    /\ sinceSwitch \in 0..MaxAge
    /\ switchAttempts \in Nat
    /\ disk \in PersistedState

(* A router that has just booted: /tmp is empty.                           *)
MachineInit ==
    /\ current = "HEALTHY"
    /\ consecutiveFails = 0
    /\ activeConfigID = NoConfig
    /\ sinceSwitch = MaxAge
    /\ switchAttempts = 0
    /\ disk = Unreadable

Snapshot ==
    [current |-> current, activeConfigID |-> activeConfigID,
     sinceSwitch |-> sinceSwitch]

(***************************************************************************)
(* save() persists three of the five fields.  os.WriteFile truncates and   *)
(* then writes, and every error is dropped: a failed write leaves the old  *)
(* file (it could not be opened) or an unreadable one.  A crash inside the *)
(* write is the unreadable outcome followed by a crash.                    *)
(***************************************************************************)
save ==
    \/ disk' = Snapshot'
    \/ SaveMayFail /\ disk' \in {disk, Unreadable}

(* Slip: lastSwitch is not restored.                                       *)
loadForgetsSwitch ==
    /\ current' = disk.current
    /\ activeConfigID' = disk.activeConfigID
    /\ sinceSwitch' = MaxAge
    /\ consecutiveFails' = 0
    /\ switchAttempts' = 0
    /\ UNCHANGED disk

(* New: what the process starts with.  The two counters are not persisted. *)
load ==
    /\ current' = disk.current
    /\ activeConfigID' = disk.activeConfigID
    /\ sinceSwitch' = disk.sinceSwitch
    /\ consecutiveFails' = 0
    /\ switchAttempts' = 0
    /\ UNCHANGED disk

(* Slip: the counter is reset only on the way back from DEGRADED.          *)
RecordSuccessKeepsFails ==
    /\ UNCHANGED <<activeConfigID, sinceSwitch, switchAttempts>>
    /\ \/ current = "DEGRADED" /\ current' = "HEALTHY" /\ consecutiveFails' = 0 /\ save
       \/ current # "DEGRADED" /\ UNCHANGED <<current, consecutiveFails, disk>>

(* Slip: a good probe resets the counter and nothing else.                 *)
RecordSuccessStays ==
    /\ consecutiveFails' = 0
    /\ UNCHANGED <<current, activeConfigID, sinceSwitch, switchAttempts, disk>>

RecordSuccess ==
    /\ consecutiveFails' = 0
    /\ UNCHANGED <<activeConfigID, sinceSwitch, switchAttempts>>
    /\ \/ current = "DEGRADED" /\ current' = "HEALTHY" /\ save
       \/ current # "DEGRADED" /\ UNCHANGED <<current, disk>>

(* RecordFailure acts only in HEALTHY and DEGRADED; it counts in any state.*)
Degrades(degradedThreshold) ==
    current = "HEALTHY" /\ consecutiveFails + 1 >= degradedThreshold

GivesUp(degradedThreshold, probingThreshold) ==
    /\ current = "DEGRADED"
    /\ consecutiveFails + 1 >= degradedThreshold + probingThreshold

RecordFailure(degradedThreshold, probingThreshold) ==
    /\ UNCHANGED <<activeConfigID, sinceSwitch>>
    /\ \/ /\ Degrades(degradedThreshold)
          /\ current' = "DEGRADED"
          /\ consecutiveFails' = consecutiveFails + 1
          /\ UNCHANGED switchAttempts
          /\ save
       \/ /\ GivesUp(degradedThreshold, probingThreshold)
          /\ current' = "PROBING"
          /\ consecutiveFails' = 0
          /\ switchAttempts' = 0
          /\ save
       \/ /\ ~Degrades(degradedThreshold)
          /\ ~GivesUp(degradedThreshold, probingThreshold)
          /\ consecutiveFails' = consecutiveFails + 1
          /\ UNCHANGED <<current, switchAttempts, disk>>

EnterSwitching ==
    /\ current' = "SWITCHING"
    /\ switchAttempts' = switchAttempts + 1
    /\ UNCHANGED <<consecutiveFails, activeConfigID, sinceSwitch>>
    /\ save

(* Slip: the save is forgotten.                                            *)
SwitchSucceededUnsaved(configID) ==
    /\ current' = "HEALTHY"
    /\ activeConfigID' = configID
    /\ sinceSwitch' = 0
    /\ consecutiveFails' = 0
    /\ switchAttempts' = 0
    /\ UNCHANGED disk

SwitchSucceeded(configID) ==
    /\ current' = "HEALTHY"
    /\ activeConfigID' = configID
    /\ sinceSwitch' = 0
    /\ consecutiveFails' = 0
    /\ switchAttempts' = 0
    /\ save

(* The value SwitchFailed returns: TRUE if the next config should be tried.*)
TryNext(maxAttempts) == switchAttempts < maxAttempts

(* Slip: the state is left alone when the attempts are used up.            *)
SwitchFailedStays(maxAttempts) ==
    /\ current' = IF TryNext(maxAttempts) THEN "PROBING" ELSE current
    /\ switchAttempts' = IF TryNext(maxAttempts) THEN switchAttempts ELSE 0
    /\ UNCHANGED <<consecutiveFails, activeConfigID, sinceSwitch>>
    /\ save

SwitchFailed(maxAttempts) ==
    /\ current' = "PROBING"
    /\ switchAttempts' = IF TryNext(maxAttempts) THEN switchAttempts ELSE 0
    /\ UNCHANGED <<consecutiveFails, activeConfigID, sinceSwitch>>
    /\ save

InCooldown(cooldown) == sinceSwitch < cooldown

Older(age) == IF age < MaxAge THEN age + 1 ELSE age

(* The clock advances for lastSwitch in memory and in the file alike.      *)
MachineAges ==
    /\ sinceSwitch' = Older(sinceSwitch)
    /\ disk' = [disk EXCEPT !.sinceSwitch = Older(@)]
    /\ UNCHANGED <<current, consecutiveFails, activeConfigID, switchAttempts>>
=============================================================================
