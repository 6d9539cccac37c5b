------------------------------ MODULE Tunnels ------------------------------
(***************************************************************************)
(* The tunnel managers (daemon/internal/tunnel): WireGuard and AmneziaWG   *)
(* drive wg-quick and awg-quick with a config file, whose name is that of  *)
(* the interface; VLESS drives a sing-box process per config ID and the ip *)
(* rules itself.  The state is the kernel's and the managers'.  Up runs    *)
(* several commands, and goroutines bring tunnels up in parallel, so it is *)
(* split where another goroutine, a timeout or a crash can come in between.*)
(***************************************************************************)
EXTENDS Integers, FiniteSets

CONSTANTS
    Candidates,   \* IDs of base configs and variants
    NoConfig,
    Base,         \* candidate -> base config it was built from (or itself)
    Protocol,     \* candidate -> "wg", "awg" or "vless"
    Table,        \* candidate -> routing table ID, which is also its mark
    Iface,        \* candidate -> its interface_name; a variant's is the one
                  \* that probeConfig makes up for it
    Device,       \* candidate -> the interface wg-quick makes of its file
    Port          \* candidate -> local port of its sing-box

ASSUME CandidatesAssumption ==
    /\ NoConfig \notin Candidates
    /\ Base \in [Candidates -> Candidates]
    /\ \A c \in Candidates : Base[Base[c]] = Base[c]
    /\ Protocol \in [Candidates -> {"wg", "awg", "vless"}]
    /\ \A c \in Candidates : Protocol[Base[c]] = Protocol[c]
ASSUME TableAssumption == Table \in [Candidates -> Nat]
ASSUME PortAssumption == Port \in [Candidates -> Nat]

(* confPath: the file of a WireGuard config is <interface_name>.conf, that *)
(* of an AmneziaWG one is <interface_name>-awg.conf.                       *)
ASSUME DeviceAssumption ==
    /\ DOMAIN Iface = Candidates /\ DOMAIN Device = Candidates
    /\ \A c \in Candidates : Device[c] = Iface[c] <=> Protocol[c] # "awg"

VARIABLES
    ifc,     \* interface -> config it runs, or NoConfig if absent
    confs,   \* interface -> config in the file of that name, or NoConfig
    rules,   \* tables an "ip rule fwmark" points to
    procs    \* candidate -> its sing-box: "none"; "tracked" by procMap;
             \* "dead": tracked, but it has ended; "orphan": not tracked

tunnelVars == <<ifc, confs, rules, procs>>

Names == {Iface[c] : c \in Candidates} \cup {Device[c] : c \in Candidates}

(* Driven by wg-quick or awg-quick.                                        *)
Quick(c) == Protocol[c] \in {"wg", "awg"}

TunnelTypeOK ==
    /\ ifc \in [Names -> Candidates \cup {NoConfig}]
    /\ confs \in [Names -> Candidates \cup {NoConfig}]
    /\ rules \subseteq {Table[c] : c \in Candidates}
    /\ procs \in [Candidates -> {"none", "tracked", "dead", "orphan"}]

TunnelInit ==
    /\ ifc = [n \in Names |-> NoConfig]
    /\ confs = [n \in Names |-> NoConfig]
    /\ rules = {}
    /\ procs = [c \in Candidates |-> "none"]

LinkUp(c) ==
    IF Quick(c) THEN \E d \in Names : ifc[d] = c ELSE procs[c] \in {"tracked", "orphan"}

(* Somebody accepts connections on a local port.                           *)
Listens(port) ==
    \E c \in Candidates :
        ~Quick(c) /\ Port[c] = port /\ procs[c] \in {"tracked", "orphan"}

(* Traffic with the config's mark goes through its tunnel.                 *)
Carries(c) == LinkUp(c) /\ Table[c] \in rules

(* killProc: the process of procMap, if there is one.                      *)
killProc(c) ==
    procs' = [procs EXCEPT ![c] = IF @ = "orphan" THEN @ ELSE "none"]

(***************************************************************************)
(* c's wg-quick or awg-quick takes interface d down by its file, which     *)
(* holds config f.  It dies if there is no such interface of its kind; the *)
(* PreDown hook (ip rule del) comes first and its failure ends the script. *)
(***************************************************************************)
QuickDown(c, d, f) ==
    LET downs == /\ ifc[d] # NoConfig /\ Protocol[ifc[d]] = Protocol[c]
                 /\ Table[f] \in rules
    IN  \/ /\ downs
           /\ rules' = rules \ {Table[f]}
           /\ ifc' = [ifc EXCEPT ![d] = NoConfig]
        \/ /\ ~downs
           /\ UNCHANGED <<rules, ifc>>

(* Up as far as making room, for the interface name n and the interface d  *)
(* of the file: wg-quick takes down what is in the way if an interface n   *)
(* exists (unless ctx is over), VLESS kills this config's process.         *)
UpBegin(c, n, d, ctxOver) ==
    \/ /\ Quick(c)
       /\ confs' = [confs EXCEPT ![d] = c]
       /\ \/ ifc[n] # NoConfig /\ ~ctxOver /\ QuickDown(c, d, c)
          \/ (ifc[n] = NoConfig \/ ctxOver) /\ UNCHANGED <<rules, ifc>>
       /\ UNCHANGED procs
    \/ /\ ~Quick(c)
       /\ killProc(c)
       /\ UNCHANGED <<ifc, confs, rules>>

(* The interface is made, or sing-box started.  If somebody else has its   *)
(* port the new process ends at once, and procMap keeps it all the same.   *)
LinkAdd(c, d) ==
    \/ /\ Quick(c)
       /\ ifc[d] = NoConfig
       /\ ifc' = [ifc EXCEPT ![d] = c]
       /\ UNCHANGED <<confs, rules, procs>>
    \/ /\ ~Quick(c)
       /\ procs' = [procs EXCEPT ![c] =
                        IF @ = "orphan" THEN @
                        ELSE IF Listens(Port[c]) THEN "dead" ELSE "tracked"]
       /\ UNCHANGED <<ifc, confs, rules>>

RuleAdd(c) ==
    /\ Table[c] \notin rules
    /\ rules' = rules \cup {Table[c]}
    /\ UNCHANGED <<ifc, confs, procs>>

(* Up gives up: wg-quick's trap removes the interface, VLESS kills its     *)
(* process.                                                                *)
LinkDel(c, d) ==
    \/ /\ Quick(c)
       /\ ifc' = [ifc EXCEPT ![d] = IF @ = c THEN NoConfig ELSE @]
       /\ UNCHANGED <<confs, rules, procs>>
    \/ /\ ~Quick(c)
       /\ killProc(c)
       /\ UNCHANGED <<ifc, confs, rules>>

(* Slip: the rule is not rolled back.                                      *)
RouteFailsUnrolled(c, ctxOver) ==
    /\ killProc(c)
    /\ UNCHANGED <<ifc, confs, rules>>

(* setupRouting fails after the rule: it is rolled back, but with the same *)
(* ctx, and a command does not even start under one that is over.          *)
RouteFails(c, ctxOver) ==
    /\ killProc(c)
    /\ rules' = IF ctxOver THEN rules ELSE rules \ {Table[c]}
    /\ UNCHANGED <<ifc, confs>>

(* Down with a live ctx: without a file ip link del of the interface n,    *)
(* else wg-quick down of whatever the file holds.                          *)
TunnelDown(c, n, d) ==
    \/ /\ Quick(c) /\ confs[d] = NoConfig
       /\ ifc' = [ifc EXCEPT ![n] = NoConfig]
       /\ UNCHANGED <<confs, rules, procs>>
    \/ /\ Quick(c) /\ confs[d] # NoConfig
       /\ QuickDown(c, d, confs[d])
       /\ UNCHANGED <<confs, procs>>
    \/ /\ ~Quick(c)
       /\ rules' = rules \ {Table[c]}
       /\ killProc(c)
       /\ UNCHANGED <<ifc, confs>>

(* Down with a ctx that is over: no command runs, killProc does.           *)
TunnelDownLate(c) ==
    \/ Quick(c) /\ UNCHANGED tunnelVars
    \/ ~Quick(c) /\ killProc(c) /\ UNCHANGED <<ifc, confs, rules>>

(* The daemon is gone: interfaces, rules and sing-box processes (in their  *)
(* own process groups) stay, procMap does not.                             *)
Orphaned == [c \in Candidates |->
    IF procs[c] = "tracked" THEN "orphan"
    ELSE IF procs[c] = "dead" THEN "none" ELSE procs[c]]

TunnelsOrphaned ==
    /\ procs' = Orphaned
    /\ UNCHANGED <<ifc, confs, rules>>
=============================================================================
