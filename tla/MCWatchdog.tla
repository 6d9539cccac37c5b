----------------------------- MODULE MCWatchdog -----------------------------
(* Instances of Watchdog for TLC.                                          *)
EXTENDS Watchdog

CONSTANTS b1, b2, v1

MCConfigIDs == {b1, b2, v1}
MCBaseIDs == {b1, b2}
(* v1 is a DPI variant of b1.                                              *)
MCCandidatesOf == [b \in MCBaseIDs |-> IF b = b1 THEN {b1, v1} ELSE {b2}]

(* b1 and its variant only.                                                *)
MCTwoIDs == {b1, v1}
MCOneBase == {b1}
MCNoVariants == [b \in MCOneBase |-> {b1}]
MCOneCandidatesOf == [b \in MCOneBase |-> {b1, v1}]

Settings(degraded, probing, attempts, cooldown) ==
    [degradedThreshold |-> degraded, probingThreshold |-> probing,
     maxSwitchAttempts |-> attempts, cooldown |-> cooldown]

(* The defaults scaled down, and an edit: thresholds and attempts differ,  *)
(* and 0 attempts means 3.                                                 *)
MCSettings == {Settings(1, 1, 2, 1), Settings(2, 1, 0, 2)}
MCSomeSettings == {Settings(1, 1, 2, 1), Settings(2, 2, 1, 1)}
MCOneSettings == {Settings(1, 1, 2, 1)}

MCNoDetection == [block |-> "none", confidence |-> 0]
(* One detection above and one below the confidence that counts.           *)
MCDetections ==
    {[block |-> "tls_dpi", confidence |-> 9], [block |-> "tcp_block", confidence |-> 5]}
MCOneDetection == {[block |-> "tls_dpi", confidence |-> 9]}
=============================================================================
