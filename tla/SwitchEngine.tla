---------------------------- MODULE SwitchEngine ----------------------------
(***************************************************************************)
(* switch.Engine (daemon/internal/switch/switch.go): rounds of             *)
(* ProbeAndSwitch over the tunnels and the selector policy.  A round       *)
(* brings every candidate up in a goroutine of its own, probes it, takes   *)
(* the temporary tunnels down, and applies and verifies viable candidates  *)
(* one by one.  The state machine and the scores are seen only through     *)
(* the active ID and the (arbitrary) order of the viable candidates.       *)
(***************************************************************************)
EXTENDS Policy, Tunnels

CONSTANTS
    AIEnabled,     \* the AI advisor may propose a candidate
    Timeouts,      \* ParallelProbeTimeout may run out during a probe phase
    CommandsFail,  \* tunnel commands may fail on their own
    WaitsFail,     \* an interface that was made may not show up in time
    MaxPool,       \* bound on the candidates of a round
    MaxCrashes     \* bound on crashes

ASSUME SwitchesAssumption ==
    {AIEnabled, Timeouts, CommandsFail, WaitsFail} \subseteq BOOLEAN
ASSUME BoundsAssumption == MaxCrashes \in Nat /\ MaxPool \in Nat

VARIABLES
    phase,     \* where ProbeAndSwitch is
    activeID,  \* the machine's active config
    up,        \* candidate -> where its Up or probe is
    res,       \* candidate -> its parallelProbeResult
    ctxOver,   \* probCtx has timed out
    viable,    \* candidates the apply loop has not tried yet
    cur,       \* the candidate being applied
    advised    \* the AI recommendation that the round has tried

VARIABLES
    leftBefore,    \* history: candidates with remains when the round began
    late,          \* history: candidates whose Up met the timeout this round
    unseen,        \* history: candidates whose interface did not appear
    interrupted,   \* history: crashed while a candidate was being applied
    crashes

engineVars == <<phase, activeID, up, res, ctxOver, viable, cur, advised>>
historyVars == <<leftBefore, late, unseen, interrupted, crashes>>
vars == <<policyVars, tunnelVars, engineVars, historyVars>>

Phases == {"idle", "probe", "teardown", "rank", "try", "apply", "verify", "down"}
Steps == {"off", "start", "link", "rule", "route", "wait", "settle", "probing", "failed", "done"}
Results == {"none", "err", "bad", "good"}

(* The interface of a candidate and the one of its file: probeConfig       *)
(* renames a variant, but not the active one.                              *)
NamedAs(c) == IF Base[c] # c /\ c # activeID THEN c ELSE Base[c]
NameOf(c) == Iface[NamedAs(c)]
DeviceOf(c) == Device[NamedAs(c)]

Remains(c) == LinkUp(c) \/ (Table[c] \in rules)

TypeOK ==
    /\ TunnelTypeOK
    /\ marks \in Seq({Table[c] : c \in Candidates}) /\ members \in BOOLEAN
    /\ Backend = "nft" => Len(marks) <= 1
    /\ phase \in Phases
    /\ activeID \in Candidates \cup {NoConfig}
    /\ up \in [Candidates -> Steps]
    /\ res \in [Candidates -> Results]
    /\ ctxOver \in BOOLEAN
    /\ viable \subseteq Candidates
    /\ {cur, advised} \subseteq Candidates \cup {NoConfig}
    /\ leftBefore \subseteq Candidates
    /\ unseen \subseteq Candidates /\ late \subseteq Candidates
    /\ interrupted \in BOOLEAN
    /\ crashes \in Nat

AllOff == [c \in Candidates |-> "off"]
NoResults == [c \in Candidates |-> "none"]

(* ProbeAndSwitch keeps nothing: what it held is gone when it returns.     *)
Forgotten ==
    /\ up' = AllOff /\ res' = NoResults
    /\ ctxOver' = FALSE /\ viable' = {} /\ cur' = NoConfig /\ advised' = NoConfig
    /\ leftBefore' = {} /\ late' = {} /\ unseen' = {}

Init ==
    /\ PolicyInit /\ TunnelInit
    /\ phase = "idle" /\ activeID = NoConfig
    /\ up = AllOff /\ res = NoResults
    /\ ctxOver = FALSE /\ viable = {} /\ cur = NoConfig /\ advised = NoConfig
    /\ leftBefore = {} /\ late = {} /\ unseen = {} /\ interrupted = FALSE /\ crashes = 0
-----------------------------------------------------------------------------
(* parallelProbe.                                                          *)

(* The pool: base configs, and variants of them.                           *)
BeginRound(pool) ==
    /\ phase = "idle"
    /\ pool # {} /\ Cardinality(pool) <= MaxPool
    /\ \A c \in pool : Base[c] \in pool
    /\ phase' = "probe"
    /\ up' = [c \in Candidates |-> IF c \in pool THEN "start" ELSE "off"]
    /\ res' = NoResults
    /\ ctxOver' = FALSE /\ advised' = NoConfig /\ viable' = {} /\ cur' = NoConfig
    /\ leftBefore' = {c \in Candidates : Remains(c)}
    /\ late' = {} /\ unseen' = {}
    /\ UNCHANGED <<policyVars, tunnelVars, activeID, interrupted, crashes>>

(* ParallelProbeTimeout runs out.                                          *)
Expire ==
    /\ Timeouts
    /\ phase = "probe" /\ ~ctxOver
    /\ ctxOver' = TRUE
    /\ UNCHANGED <<policyVars, tunnelVars, phase, activeID, up, res, viable, cur,
                   advised, historyVars>>

(* probeConfig does not bring the active config up.                        *)
SkipUp(c) ==
    /\ phase = "probe" /\ up[c] = "start"
    /\ c = activeID
    /\ up' = [up EXCEPT ![c] = "probing"]
    /\ UNCHANGED <<policyVars, tunnelVars, phase, activeID, res, ctxOver, viable,
                   cur, advised, historyVars>>

(* An Up is under way: a goroutine's, or apply's of the current candidate. *)
Uplifting(c) == (phase = "probe" /\ c # activeID) \/ (phase = "apply" /\ c = cur)

MgrUp(c) ==
    /\ Uplifting(c) /\ up[c] = "start"
    /\ UpBegin(c, NameOf(c), DeviceOf(c), ctxOver)
    /\ up' = [up EXCEPT ![c] = "link"]
    /\ UNCHANGED <<policyVars, phase, activeID, res, ctxOver, viable, cur, advised,
                   historyVars>>

MgrLink(c) ==
    /\ Uplifting(c) /\ up[c] = "link"
    /\ Quick(c) => ~ctxOver
    /\ LinkAdd(c, DeviceOf(c))
    /\ up' = [up EXCEPT ![c] = "rule"]
    /\ UNCHANGED <<policyVars, phase, activeID, res, ctxOver, viable, cur, advised,
                   historyVars>>

(* The link is not made: wg-quick is not run under a dead ctx, finds the   *)
(* interface there already, or fails on its own; sing-box does not start.  *)
MgrLinkFails(c) ==
    /\ Uplifting(c) /\ up[c] = "link"
    /\ \/ Quick(c) /\ (ctxOver \/ ifc[DeviceOf(c)] # NoConfig)
       \/ CommandsFail
    /\ up' = [up EXCEPT ![c] = "failed"]
    /\ UNCHANGED <<policyVars, tunnelVars, phase, activeID, res, ctxOver, viable,
                   cur, advised, historyVars>>

(* ip rule add: the PostUp hook of wg-quick, or, once somebody listens on  *)
(* the port (waitForPort), the first command of setupRouting.              *)
MgrRule(c) ==
    /\ Uplifting(c) /\ up[c] = "rule" /\ ~ctxOver
    /\ Quick(c) \/ Listens(Port[c])
    /\ RuleAdd(c)
    /\ up' = [up EXCEPT ![c] = IF Quick(c) THEN "wait" ELSE "route"]
    /\ UNCHANGED <<policyVars, phase, activeID, res, ctxOver, viable, cur, advised,
                   historyVars>>

(* Slip: the error of ip rule add is ignored.                              *)
MgrRuleFailsIgnored(c) ==
    /\ Uplifting(c) /\ up[c] = "rule" /\ ~ctxOver
    /\ CommandsFail
    /\ up' = [up EXCEPT ![c] = "settle"]
    /\ UNCHANGED <<policyVars, tunnelVars, phase, activeID, res, ctxOver, viable,
                   cur, advised, historyVars>>

(* ip rule add fails (the kernel refuses a rule that exists), or nobody    *)
(* listens on sing-box's port in time; what was started is stopped again.  *)
MgrRuleFails(c) ==
    /\ Uplifting(c) /\ up[c] = "rule" /\ ~ctxOver
    /\ \/ Table[c] \in rules
       \/ ~Quick(c) /\ ~Listens(Port[c])
       \/ CommandsFail
    /\ LinkDel(c, DeviceOf(c))
    /\ up' = [up EXCEPT ![c] = "failed"]
    /\ UNCHANGED <<policyVars, phase, activeID, res, ctxOver, viable, cur, advised,
                   historyVars>>

(* Out of time: wg-quick is killed and its trap does not run.              *)
MgrRuleLate(c) ==
    /\ Uplifting(c) /\ up[c] = "rule" /\ ctxOver
    /\ \/ Quick(c) /\ UNCHANGED tunnelVars
       \/ ~Quick(c) /\ LinkDel(c, DeviceOf(c))
    /\ late' = late \cup {c}
    /\ up' = [up EXCEPT ![c] = "failed"]
    /\ UNCHANGED <<policyVars, phase, activeID, res, ctxOver, viable, cur, advised,
                   leftBefore, unseen, interrupted, crashes>>

(* VLESS: ip route add, and the iptables REDIRECT.                         *)
MgrRoute(c) ==
    /\ Uplifting(c) /\ up[c] = "route" /\ ~ctxOver
    /\ up' = [up EXCEPT ![c] = "settle"]
    /\ UNCHANGED <<policyVars, tunnelVars, phase, activeID, res, ctxOver, viable,
                   cur, advised, historyVars>>

MgrRouteFails(c) ==
    /\ Uplifting(c) /\ up[c] = "route"
    /\ \/ ctxOver /\ late' = late \cup {c}
       \/ CommandsFail /\ ~ctxOver /\ UNCHANGED late
    /\ RouteFails(c, ctxOver)
    /\ up' = [up EXCEPT ![c] = "failed"]
    /\ UNCHANGED <<policyVars, phase, activeID, res, ctxOver, viable, cur, advised,
                   leftBefore, unseen, interrupted, crashes>>

(***************************************************************************)
(* wg-quick is done, and waitForInterface looks for interface_name, which  *)
(* awg-quick does not make.  If it does not show up Up returns an error    *)
(* and takes nothing back.                                                 *)
(***************************************************************************)
MgrWait(c) ==
    /\ Uplifting(c) /\ Quick(c) /\ up[c] = "wait"
    /\ ifc[NameOf(c)] # NoConfig
    /\ up' = [up EXCEPT ![c] = "settle"]
    /\ UNCHANGED <<policyVars, tunnelVars, phase, activeID, res, ctxOver, viable,
                   cur, advised, historyVars>>

MgrWaitFails(c) ==
    /\ Uplifting(c) /\ Quick(c) /\ up[c] = "wait"
    /\ ifc[NameOf(c)] = NoConfig \/ WaitsFail
    /\ unseen' = unseen \cup {c}
    /\ up' = [up EXCEPT ![c] = "failed"]
    /\ UNCHANGED <<policyVars, tunnelVars, phase, activeID, res, ctxOver, viable,
                   cur, advised, leftBefore, late, interrupted, crashes>>

(* The settling time is over.                                              *)
Settled(c) ==
    /\ phase = "probe" /\ up[c] = "settle"
    /\ up' = [up EXCEPT ![c] = "probing"]
    /\ UNCHANGED <<policyVars, tunnelVars, phase, activeID, res, ctxOver, viable,
                   cur, advised, historyVars>>

(* ctx ends while settling: Down is called with that same ctx.             *)
SettleExpires(c) ==
    /\ phase = "probe" /\ up[c] = "settle" /\ ctxOver
    /\ TunnelDownLate(c)
    /\ late' = late \cup {c}
    /\ up' = [up EXCEPT ![c] = "failed"]
    /\ UNCHANGED <<policyVars, phase, activeID, res, ctxOver, viable, cur, advised,
                   leftBefore, unseen, interrupted, crashes>>

(* Slip: the early return misses wg.Done.                                  *)
ReturnErrorNotDone(c) ==
    /\ phase = "probe" /\ up[c] = "failed"
    /\ res' = [res EXCEPT ![c] = "err"]
    /\ UNCHANGED <<policyVars, tunnelVars, phase, activeID, up, ctxOver, viable, cur,
                   advised, historyVars>>

(* The goroutine returns.  Packets whose mark has no rule use the main     *)
(* table, so a probe can succeed whether or not the tunnel stands.         *)
ReturnError(c) ==
    /\ phase = "probe" /\ up[c] = "failed"
    /\ up' = [up EXCEPT ![c] = "done"]
    /\ res' = [res EXCEPT ![c] = "err"]
    /\ UNCHANGED <<policyVars, tunnelVars, phase, activeID, ctxOver, viable, cur,
                   advised, historyVars>>

ReturnProbe(c, result) ==
    /\ phase = "probe" /\ up[c] = "probing"
    /\ result \in {"bad", "good"} /\ (ctxOver => result = "bad")
    /\ up' = [up EXCEPT ![c] = "done"]
    /\ res' = [res EXCEPT ![c] = result]
    /\ UNCHANGED <<policyVars, tunnelVars, phase, activeID, ctxOver, viable, cur,
                   advised, historyVars>>

(* wg.Wait: the first probe phase is followed by the teardown, that of the *)
(* AI recommendation is not.                                               *)
AllReturned ==
    /\ phase = "probe"
    /\ \A c \in Candidates : up[c] \in {"off", "done"}

BeginTeardown ==
    /\ AllReturned /\ advised = NoConfig
    /\ phase' = "teardown"
    /\ ctxOver' = FALSE
    /\ UNCHANGED <<policyVars, tunnelVars, activeID, up, res, viable, cur, advised,
                   historyVars>>

(* Slip: the active config is taken down with the others.                  *)
ToTearDownAll(c) == up[c] = "done" /\ res[c] # "err"

ToTearDown(c) == up[c] = "done" /\ res[c] # "err" /\ c # activeID

(* The loop goes through the results in order; the order does not matter   *)
(* for what is modelled, so any is allowed.                                *)
Teardown(c) ==
    /\ phase = "teardown"
    /\ ToTearDown(c)
    /\ TunnelDown(c, NameOf(c), DeviceOf(c))
    /\ up' = [up EXCEPT ![c] = "off"]
    /\ UNCHANGED <<policyVars, phase, activeID, res, ctxOver, viable, cur, advised,
                   historyVars>>

TornDown ==
    /\ phase = "teardown"
    /\ \A c \in Candidates : ~ToTearDown(c)
    /\ phase' = "rank"
    /\ up' = AllOff /\ res' = NoResults
    /\ viable' = {c \in Candidates : res[c] = "good"}
    /\ UNCHANGED <<policyVars, tunnelVars, activeID, ctxOver, cur, advised, historyVars>>

(* At least one viable candidate: on to the apply loop.                    *)
Rank ==
    /\ phase = "rank" /\ viable # {}
    /\ phase' = "try"
    /\ leftBefore' = {} /\ late' = {} /\ unseen' = {}
    /\ UNCHANGED <<policyVars, tunnelVars, activeID, up, res, ctxOver, viable, cur,
                   advised, interrupted, crashes>>

(* None: the round ends, unless the AI advisor recommends a candidate.     *)
NoneViable ==
    /\ phase = "rank" /\ viable = {}
    /\ phase' = "idle"
    /\ Forgotten
    /\ UNCHANGED <<policyVars, tunnelVars, activeID, interrupted, crashes>>

Recommend(c) ==
    /\ AIEnabled
    /\ phase = "rank" /\ viable = {} /\ advised = NoConfig
    /\ Base[c] # c
    /\ phase' = "probe" /\ advised' = c /\ ctxOver' = FALSE
    /\ up' = [AllOff EXCEPT ![c] = "start"]
    /\ res' = NoResults
    /\ UNCHANGED <<policyVars, tunnelVars, activeID, viable, cur, historyVars>>

AIProbed ==
    /\ AllReturned /\ advised # NoConfig
    /\ phase' = "rank"
    /\ ctxOver' = FALSE
    /\ up' = AllOff /\ res' = NoResults
    /\ viable' = {c \in Candidates : res[c] = "good"}
    /\ UNCHANGED <<policyVars, tunnelVars, activeID, cur, advised, historyVars>>
-----------------------------------------------------------------------------
(* The apply loop.                                                         *)

(* The next candidate in the ranking; the loop may also end early, at      *)
(* MaxSwitchAttempts.                                                      *)
TryConfig(c) ==
    /\ phase = "try" /\ c \in viable
    /\ phase' = "apply"
    /\ cur' = c /\ viable' = viable \ {c}
    /\ up' = [AllOff EXCEPT ![c] = "start"]
    /\ UNCHANGED <<policyVars, tunnelVars, activeID, res, ctxOver, advised,
                   historyVars>>

GiveUp ==
    /\ phase = "try" /\ (viable = {} \/ cur # NoConfig)
    /\ phase' = "idle"
    /\ Forgotten
    /\ UNCHANGED <<policyVars, tunnelVars, activeID, interrupted, crashes>>

(* apply after Up: the policy is best effort.                              *)
Applied(found) ==
    /\ phase = "apply" /\ up[cur] = "settle"
    /\ phase' = "verify"
    /\ Apply(Table[cur], found)
    /\ UNCHANGED <<tunnelVars, activeID, up, res, ctxOver, viable, cur, advised,
                   historyVars>>

ApplyFails ==
    /\ phase = "apply" /\ up[cur] = "failed"
    /\ phase' = "try"
    /\ Clear(Table[cur])
    /\ UNCHANGED <<tunnelVars, activeID, up, res, ctxOver, viable, cur, advised,
                   historyVars>>

(* Slip: the policy keeps the mark of the candidate that failed.           *)
VerifyFailsKeepsPolicy ==
    /\ phase = "verify"
    /\ phase' = "try"
    /\ TunnelDown(cur, NameOf(cur), DeviceOf(cur))
    /\ UNCHANGED <<policyVars, activeID, up, res, ctxOver, viable, cur, advised,
                   historyVars>>

VerifyFails ==
    /\ phase = "verify"
    /\ phase' = "try"
    /\ TunnelDown(cur, NameOf(cur), DeviceOf(cur))
    /\ Clear(Table[cur])
    /\ UNCHANGED <<activeID, up, res, ctxOver, viable, cur, advised, historyVars>>

VerifySucceeds ==
    /\ phase = "verify"
    /\ phase' = "idle"
    /\ activeID' = cur
    /\ interrupted' = FALSE
    /\ Forgotten
    /\ UNCHANGED <<policyVars, tunnelVars, crashes>>
-----------------------------------------------------------------------------
(* The daemon ends without taking anything down, and comes back.           *)
Crash ==
    /\ phase # "down" /\ crashes < MaxCrashes
    /\ crashes' = crashes + 1
    /\ phase' = "down"
    /\ interrupted' = (interrupted \/ phase \in {"apply", "verify"})
    /\ TunnelsOrphaned
    /\ Forgotten
    /\ UNCHANGED <<policyVars, activeID>>

Restart ==
    /\ phase = "down"
    /\ phase' = "idle"
    /\ UNCHANGED <<policyVars, tunnelVars, activeID, up, res, ctxOver, viable,
                   cur, advised, historyVars>>

Goroutine(c) ==
    \/ SkipUp(c) \/ MgrUp(c) \/ MgrLink(c) \/ MgrLinkFails(c) \/ MgrRule(c)
    \/ MgrRuleFails(c) \/ MgrRuleLate(c) \/ MgrRoute(c) \/ MgrRouteFails(c)
    \/ MgrWait(c) \/ MgrWaitFails(c)
    \/ Settled(c) \/ SettleExpires(c) \/ ReturnError(c)
    \/ \E result \in Results : ReturnProbe(c, result)

Engine ==
    \/ BeginTeardown \/ TornDown \/ Rank \/ NoneViable \/ AIProbed \/ GiveUp
    \/ \E c \in Candidates : Teardown(c) \/ TryConfig(c)
    \/ \E found \in BOOLEAN : Applied(found)
    \/ ApplyFails \/ VerifyFails \/ VerifySucceeds

Next ==
    \/ \E pool \in SUBSET Candidates : BeginRound(pool)
    \/ \E c \in Candidates : Goroutine(c) \/ Recommend(c)
    \/ Engine
    \/ Expire \/ Crash \/ Restart

Spec == Init /\ [][Next]_vars

(* Every command and probe ends, and the process goes on: some goroutine   *)
(* or the loop takes a step.  No more is asked of the scheduler.           *)
Fairness == WF_vars(Engine \/ \E c \in Candidates : Goroutine(c))

FairSpec == Spec /\ Fairness
-----------------------------------------------------------------------------
(***************************************************************************)
(* "Zero-disruption parallel probing": while candidates are probed and     *)
(* their tunnels taken down again, in any interleaving, the active tunnel  *)
(* keeps its link and its rule.                                            *)
(***************************************************************************)
ActiveUndisturbed ==
    [][activeID # NoConfig /\ phase \in {"probe", "teardown"} /\ Carries(activeID) =>
          Carries(activeID)']_vars

(***************************************************************************)
(* "Tears down all temp tunnels": when a round ranks what it has probed    *)
(* only the active tunnel, and what was there when the round began, is     *)
(* left.                                                                   *)
(***************************************************************************)
TempTunnelsTornDown ==
    phase = "rank" =>
        \A c \in Candidates : Remains(c) => c = activeID \/ c \in leftBefore

(***************************************************************************)
(* What the teardown misses has one of three reasons: the candidate met    *)
(* the timeout in its Up, its interface did not appear, or it is the AI    *)
(* advisor's, which is probed after the teardown.  Neither a command that  *)
(* fails nor another candidate's goroutine leaves anything behind.         *)
(***************************************************************************)
RemainsExplained ==
    phase = "rank" =>
        \A c \in Candidates : Remains(c) =>
            c \in {activeID, advised} \cup leftBefore \cup late \cup unseen

(***************************************************************************)
(* The config that becomes active stands: link and rule.                   *)
(***************************************************************************)
CommittedCarries ==
    [][activeID' # activeID => Carries(activeID')]_vars

(***************************************************************************)
(* "If this is the currently active config, it is already running": the    *)
(* round that skips its Up finds the active config's tunnel standing.      *)
(***************************************************************************)
ActiveIsRunning ==
    phase = "probe" /\ activeID # NoConfig /\ up[activeID] = "start" =>
        Carries(activeID)

(***************************************************************************)
(* Between rounds selected traffic is marked for the active tunnel or not  *)
(* at all: a candidate that failed never keeps it.                         *)
(***************************************************************************)
SelectorsFollowActive ==
    phase = "idle" /\ ~interrupted =>
        EffectiveMark = NoMark \/ (activeID # NoConfig /\ EffectiveMark = Table[activeID])

(***************************************************************************)
(* "Probes each through its dedicated table", "Independent connectivity    *)
(* testing per tunnel": while commands do not fail on their own and there  *)
(* is time, no candidate's Up fails in the parallel probe because of       *)
(* another candidate; only because its interface did not appear, or of     *)
(* what it left itself in an earlier round.                                *)
(***************************************************************************)
ProbesIndependent ==
    phase = "probe" /\ ~ctxOver /\ ~CommandsFail =>
        \A c \in Candidates : up[c] = "failed" => c \in unseen \cup leftBefore

(***************************************************************************)
(* Every round ends: no goroutine leaves wg.Wait waiting.                  *)
(***************************************************************************)
RoundEnds == (phase = "probe") ~> (phase \in {"idle", "down"})
=============================================================================
