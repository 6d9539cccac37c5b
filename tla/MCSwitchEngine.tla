--------------------------- MODULE MCSwitchEngine ---------------------------
(* Instances of SwitchEngine for TLC.                                      *)
EXTENDS SwitchEngine

CONSTANTS b1, v1, x1, a1

(* A WireGuard config, a DPI variant of it, a VLESS and an AmneziaWG one.  *)
MCCandidates == {b1, v1, x1, a1}
MCNoAmnezia == {b1, v1, x1}
MCBase == [c \in Candidates |-> IF c = v1 THEN b1 ELSE c]
MCProtocol == [c \in Candidates |->
    IF c = x1 THEN "vless" ELSE IF c = a1 THEN "awg" ELSE "wg"]
MCTable == [c \in Candidates |->
    IF c = b1 THEN 101 ELSE IF c = v1 THEN 102 ELSE IF c = x1 THEN 103 ELSE 104]
MCIface == [c \in Candidates |->
    IF c = b1 THEN "wg0" ELSE IF c = v1 THEN "vw1" ELSE IF c = x1 THEN "sb0" ELSE "awg0"]
MCDevice == [c \in Candidates |-> IF c = a1 THEN "awg0-awg" ELSE MCIface[c]]
MCPort == [c \in Candidates |-> 10800 + MCTable[c]]

(* With a routing_table_id in b1's file: clones of a config keep it.       *)
MCSharedTable == [MCTable EXCEPT ![v1] = MCTable[b1]]
=============================================================================
