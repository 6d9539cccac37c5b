------------------------------ MODULE Failover ------------------------------
(***************************************************************************)
(* What the watchdog promises, as docs/architecture.md's state diagram and *)
(* table describe it: four states, one active config, and the number of    *)
(* probes that have failed in a row.  There is no process, no file and no  *)
(* crash here: a daemon that implements this resumes after a restart as if *)
(* nothing had happened.                                                   *)
(***************************************************************************)
EXTENDS Integers

CONSTANTS
    ConfigIDs,
    NoConfig,
    MinOutage   \* failed probes in a row before any config may be given up

VARIABLES
    state,
    active,
    missed

vars == <<state, active, missed>>

Init == state = "HEALTHY" /\ active = NoConfig /\ missed = 0

(* A good probe: back to (or still) HEALTHY.                               *)
Works ==
    /\ state \in {"HEALTHY", "DEGRADED"}
    /\ state' = "HEALTHY" /\ missed' = 0
    /\ UNCHANGED active

(* A failed probe may be one too many, but only for the next state.        *)
Misses ==
    /\ missed' = missed + 1
    /\ \/ state = "HEALTHY" /\ state' \in {"HEALTHY", "DEGRADED"}
       \/ state = "DEGRADED" /\ state' = "DEGRADED"
       \/ state = "DEGRADED" /\ state' = "PROBING" /\ missed' >= MinOutage
    /\ UNCHANGED active

Attempt == state = "PROBING" /\ state' = "SWITCHING" /\ UNCHANGED <<active, missed>>

Reject == state = "SWITCHING" /\ state' = "PROBING" /\ UNCHANGED <<active, missed>>

Commit ==
    /\ state = "SWITCHING"
    /\ state' = "HEALTHY" /\ missed' = 0
    /\ active' \in ConfigIDs

Next == Works \/ Misses \/ Attempt \/ Reject \/ Commit

Spec == Init /\ [][Next]_vars
=============================================================================
