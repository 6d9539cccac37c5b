------------------------------- MODULE Policy -------------------------------
(***************************************************************************)
(* The selector policy (daemon/internal/policy/policy.go): the firewall    *)
(* rules that set a tunnel's mark on packets to the configured addresses.  *)
(* Apply and Clear are the action operators; a command they run can fail.  *)
(***************************************************************************)
EXTENDS Integers, Sequences, SequencesExt

CONSTANTS
    Backend,      \* what detectToolchain found: "nft", "iptables" or "none"
    NoMark,       \* packets keep mark 0
    PolicyFails   \* TRUE: firewall commands may fail

ASSUME BackendAssumption == Backend \in {"nft", "iptables", "none"}
ASSUME PolicyFailsAssumption == PolicyFails \in BOOLEAN

VARIABLES
    marks,    \* the marks our rules set, in the order of the rules
    members   \* TRUE: the address set exists and holds the selectors

policyVars == <<marks, members>>

PolicyInit == marks = <<>> /\ members = FALSE

(* MARK does not end the traversal: the last rule that matches decides.    *)
EffectiveMark == IF members /\ marks # <<>> THEN Last(marks) ELSE NoMark

(* iptables -D: one rule with this mark goes, and there is never another.  *)
Without(mark) ==
    IF mark \notin ToSet(marks) THEN marks
    ELSE RemoveAt(marks, CHOOSE i \in DOMAIN marks : marks[i] = mark)

(* Clear drops nft's whole table, but of iptables only the rule with this  *)
(* mark; ipset destroy fails while another rule refers to the set.         *)
Clear(mark) ==
    \/ /\ Backend = "nft"
       /\ marks' = <<>> /\ members' = FALSE
    \/ /\ Backend = "iptables"
       /\ marks' = Without(mark)
       /\ members' = (members /\ Without(mark) # <<>>)
    \/ /\ Backend = "none"
       /\ UNCHANGED policyVars

(* Slip: the chain is not flushed before the rule is added.                *)
applyNFTUnflushed(mark) ==
    marks' = Append(marks, mark) /\ members' = TRUE

(* The set is refilled, then the chain is made to hold the rule.           *)
applyNFT(mark) ==
    \/ marks' = <<mark>> /\ members' = TRUE
    \/ /\ PolicyFails
       /\ \/ UNCHANGED policyVars                      \* flush set failed
          \/ members' = TRUE /\ UNCHANGED marks        \* flush chain failed
          \/ members' = TRUE /\ marks' = <<>>          \* add rule failed

applyIPTables(mark) ==
    \/ marks' = Append(Without(mark), mark) /\ members' = TRUE
    \/ /\ PolicyFails
       /\ \/ UNCHANGED policyVars                      \* ipset create failed
          \/ members' = FALSE /\ UNCHANGED marks       \* every ipset add failed
          \/ members' = TRUE /\ marks' = Without(mark) \* iptables -A failed

(* collectSelectors finds nothing when none is configured or no name       *)
(* resolves; Apply then clears.                                            *)
Apply(mark, found) ==
    \/ ~found /\ Clear(mark)
    \/ found /\ Backend = "nft" /\ applyNFT(mark)
    \/ found /\ Backend = "iptables" /\ applyIPTables(mark)
    \/ found /\ Backend = "none" /\ UNCHANGED policyVars
=============================================================================
