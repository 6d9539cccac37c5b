------------------------------ MODULE Settings ------------------------------
(***************************************************************************)
(* What the daemon makes of its configuration (daemon/internal/config/     *)
(* store.go), as functions of what the files and UCI hold.                 *)
(*                                                                         *)
(* A probe target is [host, port, type, literal]; literal: the host is an  *)
(* IP address.  A config file is [parses, id, enabled, protocol, body,     *)
(* security]: body is the protocol whose section the file has, security    *)
(* what VLESS runs over.                                                   *)
(***************************************************************************)
EXTENDS Integers, SequencesExt

Protocols == {"wg", "awg", "vless"}

(* loadUCIProbeTargets.  uci show begins each section with a line for the  *)
(* section itself, vpn-watchdog.@probe_target[0]=probe_target, in which    *)
(* nothing follows the index: key[idxEnd+2:] is out of range, a panic.     *)
LoadPanics(sections) == sections # <<>>

(* uci show prints a list on one line, 'a' 'b', and only the outer quotes  *)
(* are trimmed: two values or more become one that is no host's name.      *)
SeveralInOne == "a' 'b"

loadUCIStringList(values) ==
    IF Len(values) > 1 THEN <<SeveralInOne>> ELSE SelectSeq(values, LAMBDA v : v # "")

DomainTarget(d) == [host |-> d, port |-> 443, type |-> "https", literal |-> FALSE]

(* At most max of the domains that are not targets yet.                    *)
appendDomainProbeTargets(base, domains, max) ==
    FoldLeft(LAMBDA targets, d :
                 IF Len(targets) >= Len(base) + max
                    \/ \E i \in DOMAIN targets : targets[i].host = d
                 THEN targets ELSE Append(targets, DomainTarget(d)),
             base, domains)

(* LoadDaemonConfigFromUCI, if it does not panic: the targets probed are   *)
(* the defaults and up to three of the user's domains.                     *)
ProbeTargets(defaults, domains) ==
    appendDomainProbeTargets(defaults, loadUCIStringList(domains), 3)

validate(file) == file.protocol \in Protocols /\ file.body = file.protocol

(* loadFile: the ID, from the file's name if the file has none.            *)
IDOf(name, file) == IF file.id = "" THEN name ELSE file.id

(* LoadAll, as a set of what scoring looks at, with the file's name: files *)
(* that do not parse or are not valid are skipped.  Nothing keeps two of   *)
(* them from having one ID.  dir maps names to files.                      *)
LoadAll(dir) ==
    LET used == {n \in DOMAIN dir : dir[n].parses /\ validate(dir[n]) /\ dir[n].enabled}
    IN {[name |-> n, id |-> IDOf(n, dir[n]), protocol |-> dir[n].protocol,
         security |-> dir[n].security] : n \in used}
=============================================================================
