# A TLA+ development of DarkRoute's vpn-watchdog

`vpn-watchdog` is a Go daemon for OpenWrt routers.  It probes whether the
network can be reached, and when it cannot, looks for a VPN configuration (or a
DPI-evading variant of one) that works, and switches to it.  The modules here
are translated from `daemon/internal/*`, `daemon/cmd`, the init script and the
LuCI controller; TLC checks them on small instances and TLAPS proves the
theorems of `WatchdogProofs`, `SwitchEngineProofs`, `PoolProofs`, `CandidateProofs` and
`ScoresProofs`, with the lemmas of `FoldProofs` and `VariantsProofs`, for every value of
the constants.

## 1. Inventory

| Component | State it keeps | Operations | What makes it correct |
|---|---|---|---|
| State machine (`state/machine.go`) | state, failure count, active ID, last switch, attempts; `state.json` | RecordSuccess, RecordFailure, EnterSwitching, SwitchSucceeded, SwitchFailed, load, save | only the documented transitions; the active ID passed verify; what is persisted resumes sensibly |
| Event loop (`watchdog/watchdog.go`, `cmd/`) | settings, last detection, "this PROBING episode has its detection", signal channel | New, Run, tick, doProbe, doSwitch, reload | one detection per episode, reloads not lost, an outage is acted on, a stop stops |
| Switch engine (`switch/switch.go`) | nothing between rounds; in a round the pool, results, ranking, attempt | ProbeAndSwitch = parallelProbe, teardown, rank, apply/verify loop, AI fallback | the active tunnel is not disturbed, temporary ones go away, a round ends, the committed config stands |
| Tunnel managers (`tunnel/*.go`) | wg-quick files, sing-box processes; in the kernel interfaces, ip rules, routes | Up, Down, IsUp for WireGuard, AmneziaWG, VLESS | Up replaces, Down removes, a failed Up leaves nothing |
| Selector policy (`policy/policy.go`) | nft table, or ipset and iptables rules | Apply, Clear | selected traffic goes to the active tunnel or nowhere special |
| Configuration (`config/*.go`) | UCI settings, JSON files of tunnel configs | LoadDaemonConfigFromUCI, LoadAll | settings in force are UCI's |
| DPI detection (`dpi/detector.go`) | last result on disk | Detect, SaveDetection, LoadDetection | classification; a low confidence does not bias |
| Candidate pool (`dpi/variants.go`, `dpi/persist.go`, `strategy/selector.go`) | learned variants, on tmpfs and flash | GenerateVariants, SelectVariants, RecordSuccess, GetCandidates | a learned variant is what worked; the strategy's kinds survive the cap |
| AI advisor (`aiadvisor/*.go`) | call window, presets, attempt log | Recommend, SavePreset, MarkSuccess, MarkFailure | rate limit, cooldown, only validated recommendations |
| Scoring (`scoring/scoring.go`) | moving averages per config; `scores.json` | RecordProbeResult, RecordSession, RecordDPIResult, Rank, load, save | outcomes move scores the right way and survive restarts; a config that works is tried in the end |
| Probe engine (`probe/*.go`) | none | ProbeAll | targets that are down by themselves do not bring a tunnel down, nothing is committed on a minority |
| LuCI and init script | UCI, config files | edit then SIGHUP; start, stop, respawn | |

How they interact.  One goroutine, the event loop, calls the probe engine, the
state machine and the switch engine, in order; it is blocked while a tick runs.
The switch engine starts one goroutine per candidate and waits for all of them;
these share the kernel's interfaces and rules with the active tunnel and with
each other.  procd, LuCI and the kernel act on their own: signals come at any
time into a channel of capacity 1, files are edited under the loop, the process
is killed and respawned between any two steps.  The HTTP status API only reads.

Hard behaviours: a crash between two steps of a switch; signals while the loop is busy; a
reload that changes thresholds in mid-count; the probe timeout between two commands of an
Up, after which no clean-up command runs; goroutines interleaving on interfaces and rules; a
re-apply of what is already up; failed writes of `state.json` and `scores.json`; verdicts
from a random sample of targets; a working config ranked behind ones that fail.
`PROJECT.json` lists each hazard at its line with the properties that cover it, or why none
does yet.

## 2. Plan

1. `Machine`, `Failover`, `Watchdog`: the failover itself.  Done, and proved.
2. `Policy`, `Tunnels`, `SwitchEngine`: what a round does to the router.  Done; all of
   its safety is proved.
3. `Detector`, `Variants`, `Pool`: where a round's candidates come from, what is
   learned from it, and the AI advisor.  Done; all of its safety is proved.
4. `Settings`, `Probe`, `Scoring`, `Scores`: what a probe says, what is made of
   its results and of the attempts' outcomes, and which config is tried first.  Done;
   all of its safety is proved.
5. Shared routing tables, as an instance of `SwitchEngine`.  Done (Engine_tables).
6. To come: more properties of `Detect`, `GenerateVariants` and `SelectVariants` (beyond
   `DiagnosisSteers`).
7. Proofs to come: those of the properties of 6.  Every safety property of a passing run is
   proved.

`Watchdog` extends `Machine` and refines `Failover`.  `SwitchEngine` extends
`Policy` and `Tunnels`, `Pool` extends `Variants` and `Detector`, `Scores` extends
`Settings`, `Probe` and `Scoring`.  The first two meet at the apply loop, which both have: in
`Watchdog` with the state machine and with tunnels seen only as "the network is
reachable or not", in `SwitchEngine` with tunnels and rules and with the state
machine seen only as the active ID.  `Pool` is the part of the round before and
after that, over many rounds: the others take the pool as given.  `Scores` takes the
pool as given too, and follows what decides over its members from round to round.

## 3. The modules and the code

**Machine** has the fields of `state.Machine` and one action operator per
method; every method runs under the mutex, so each is one step.  `save` may fail
or tear the file when `SaveMayFail`: `os.WriteFile` truncates first and its
error is dropped.  `load` ignores an unreadable file.  `lastSwitch` is kept as
an age, counted up to `MaxAge`.

**Watchdog** is the event loop.  `pc` says where its goroutine is; a step ends
where the code waits (probe, detection, bring-up, verify), since signals, edits,
time and crashes come in there.

| Action | Code |
|---|---|
| Start, Run | `New`; `Run` up to `signal.Notify` (a signal before it kills) |
| TickProbe, ProbeSucceeds, ProbeFails | `tick`, `doProbe` before and after `ProbeAll` |
| TickSwitch, Detect, ParallelProbe | `doSwitch` up to the detection, to `ProbeAndSwitch`, and to the ranking |
| TryNextConfig, ApplyFails, ApplySucceeds, VerifyFails, VerifySucceeds, Exhausted | the apply loop of `ProbeAndSwitch` |
| HandleSignal, Deliver | the signal cases of `Run`; what the Go runtime does with a signal |
| EditSettings, EditConfigs, SendHUP, Terminate | LuCI, the init script and procd |
| Crash, Pass, NetChanges | the environment |

In SWITCHING no tick action is enabled: the code only logs there.  With no
enabled config `doSwitch` returns; that too is the absence of a step.  The order
of viable candidates is any order, a superset of what the scores yield.
`streak`, `verified`, `episode`, `sinceCommit`, `tryNext`, `stopAsked` are
history: no action reads them except to keep them.

**Failover** is what `docs/architecture.md` draws: four states, the active
config, failed probes in a row, and no process.  `Watchdog!ImplementsFailover`
maps a process that is down to the state it will resume in.

**Policy**: the marks our rules set, in rule order, and whether the address set
is there.  **Tunnels**: interfaces, wg-quick files, ip rules, sing-box processes
(tracked by `procMap`, dead but still tracked, or orphaned by a crash).  A candidate has
an `interface_name` (`Iface`) and the interface its file makes (`Device`): for WireGuard
the two are one, for AmneziaWG the file is `<interface_name>-awg.conf`
(`amneziawg.go:162`) and so is the interface, less the suffix.  A VLESS one has a local
`Port`; a sing-box whose port somebody has ends at once, and `waitForPort` finds the other.
Up is split where another goroutine, the timeout or a crash can come in: making room, the
link, the rule, VLESS's route and redirect, the wait for the interface.  That wait looks for
`Iface`; if nothing of that name is there, or it does not appear in time (`WaitsFail`), Up
returns an error and takes nothing back.  wg-quick and ip are external and modelled from how
the managers drive them: `ip rule add` refuses a rule that exists, a failed hook
ends wg-quick and its trap removes the interface, wg-quick down runs its PreDown hook
(`ip rule del`) first and dies there if the rule is not there, it fails for an interface
that is not there, a command under a finished context does not start.

**SwitchEngine** is `ProbeAndSwitch` over both.  Each candidate of the pool has a
place in its Up or probe (`up`) and a result (`res`).  `MgrUp` ... `MgrWaitFails`
are the managers' steps, taken by a goroutine in the probe phase and by `apply`
afterwards.  Probes and verify may come out either way, except under a finished
context.  A candidate's `Table` is its mark as well; `NamedAs` has the renaming of
variants in `probeConfig`.  The AI advisor's candidate (`advised`) is probed after the
teardown, and no second teardown follows.  `leftBefore`, `late`, `unseen` (the interface did
not appear) and `interrupted` are history.

**Detector** has `dpi.Detect` as a function of what the network answers at each
stage, with the reason codes and confidences (in hundredths) of the classifiers.
**Variants** has the pure functions on candidates: what `GenerateVariants` makes
of a base config, what a strategy keeps of that, what a learned entry stores
(`Learned`) and gives back (`rebuildVariant`), what an AI answer must satisfy and
is made into.  An ID is a triple of base, family and value.

**Pool** is the round as far as candidates go.

| Action | Code |
|---|---|
| BuildPool, Probe | `ProbeAndSwitch` up to and after the parallel probe, with `GetCandidates`, `GenerateVariants`, `GetActive` |
| RateLimited, AskInVain, Recommend | `Manager.Recommend`: no token; no usable answer; a variant made of it |
| AIProbePasses, AIProbeFails | `SavePreset`, `MarkFailure` |
| AttemptFails, VerifiedBase, RecordSuccess | the apply loop, as far as what is learned goes |
| WriteRuntime, WritePersistent | the two writes of `LearnedDB.save` |
| Kill, Reboot, Start, Reload, EditConfig, Pass | the process, the router, `New`, `reload`, LuCI, time |

A kill between or in the two writes leaves the copies different, or one of them
unreadable; `load` prefers the persistent copy whichever is newer.  `reload`
makes a new `Manager` and with it a new rate window.  The pool is a set: its
members are probed in parallel and ranked afterwards, in any order here.  `bases` is the
round's `baseCandidates`: an answer is built on the config as it was when the round began.
Writes of the presets' file are taken to succeed.  `MarkSuccess` changes a counter
nothing reads.  The magic headers of AmneziaWG variants, random numbers, are left out.
`worked`, `cut`, `hurt`, `probed`, `calls` are history.

**Settings**, **Probe** and **Scoring** are pure functions: the probe targets that
come out of UCI and the configs that come out of the directory; which targets a probe
draws, how each ends over a network, and the verdict; an entry's averages and scores.
A network says how the DoH endpoint behaves, whether names resolve without it, which
ports a dial reaches and which it gets no reply from at all, which hosts answer and how long
that takes.  An icmp target is dialled on port 80 and then 443 on one context of 5 s, so a
port 80 that is dropped leaves nothing for 443 (`probe.go:229`).  Fractions are in
hundredths and RTTs in milliseconds, rounded down at each step; `Sessions` stops at
the 8th, where `1 - exp(-n/6)` is taken to have arrived.  The session average stays
above 0, as a float does.

**Scores** is the daemon as far as the scores go.

| Action | Code |
|---|---|
| doProbePasses, doProbeFails, tickSwitching | `tick`, `doProbe`; thresholds and cooldown are left to `Watchdog` |
| doSwitch | `doSwitch` and `parallelProbe`: the detection, and the results of all candidates |
| RecordProbeResult | the loop that records results, with the save of each |
| NoneViable, RankViable | the filter, and `Rank` |
| Attempt, RecordSession, RecordDPIResult, SwitchFailed, SwitchSucceeded, NoneApplied | the apply loop; the outcome is recorded before the machine moves |
| Reload, ReloadPanics | an edit in UCI, and `reload` |
| Kill, KillWhileSaving, Start, StartPanics | the process; `load` |
| NetChanges | the environment |

A write of `scores.json` may fail, leaving the old file or none that parses; the next
write makes up for it, a kill before that does not.  A world gives each config one
network for its probe and one for when it is applied, so that a config can pass the
probe and fail the verify.  A variant is one more config here; the AI's candidate,
tried only when nothing else is viable, is left to `Pool`.  Results and candidates are told
apart by the name of their file, entries by ID: two candidates of one ID (two files that
name one, or a learned and a fresh variant, `switch.go:80-94`) share an entry, and the
attempts of one move the score of both.  `attempts`, `unsaved`,
`hurt` are history.

Definitions whose comment begins with "Slip" are not part of any specification:
each is a definition with a plausible programming mistake in it, used to see that
a property notices.

## 4. Runs

| Run | Checks | Instance |
|---|---|---|
| Watchdog_safety | TypeOK, OneDetectionPerEpisode, NoLostReload, OutageBeforeProbing, CooldownSurvivesRestart, ImplementsFailover | see the cfg: crashes, edits and SIGTERM each at least once, two settings |
| Watchdog_faults | ActiveWasVerified, DegradedResolves, OutageActedOn (but for a daemon stuck in SWITCHING after a kill), SwitchingResolvesUnlessKilled | failing and torn saves, one crash, fairness |
| Watchdog_stuck | SwitchingResolves is violated: a crash in SWITCHING is for ever (`watchdog.go:125`) | |
| Engine_rounds | TypeOK, RemainsExplained, SelectorsFollowActive, ActiveUndisturbed, CommittedCarries, RoundEnds | a WireGuard config, a variant of it, a VLESS config, each with table, interface and port of its own; timeout, failing commands, interfaces that do not appear, one crash, AI candidate; nft with commands that succeed; fairness |
| Engine_leak | TempTunnelsTornDown is violated: AmneziaWG's `Up` waits for an interface that awg-quick does not make (`amneziawg.go:127`) | those of Engine_rounds and an AmneziaWG config; no timeout, no failing command, no late interface, no AI, no crash |
| Engine_active | ActiveIsRunning is violated: the active tunnel is gone after a failed re-apply (`switch.go:199`; for VLESS the re-apply fails at its own ip rule, `vless.go:210`) | as Engine_leak |
| Pool_rounds | TypeOK, LearnedSurvives, LearnedAsItWorked, AIStaysOnAllowlist, PresetsProbed, CallsBounded, DiagnosisSteers | a VLESS config with two contents and an AmneziaWG one, three networks, answers on and off the allowlist and of an unknown base; a kill, reboots, failing writes, an edit or a reload |
| Pool_ids | PoolIDsUnique is violated: a learned variant is also generated afresh under the same ID, so two goroutines share an interface (`switch.go:301`) | a WireGuard config, the generator's own lists |
| Pool_proved | PriorityProved is violated, in two ways: a learned variant comes back without its port (`persist.go:208`), and a preset is kept before verify (`switch.go:151`) | a WireGuard config, the generator's own lists, an AI answer; no kill, no failing write, no edit |
| Engine_tables | ProbesIndependent is violated: a variant has its base's `routing_table_id` (`tunnel.go:96`) | as Engine_leak, the variant on its base's table |
| Scores_rounds | TypeOK, HistorySurvives, OutcomesMoveScores, WorkingTunnelKept, CommittedOnMajority, WorkingConfigFound | a slow WireGuard config and two fast VLESS ones of one ID among files that are skipped; four worlds; the default targets with one domain, two domains, or a target of the user's; one attempt per round or three; one kill, one failing write, one edit, one change of the world; fairness |
| Scores_uci | DownOnlyIfKilled is violated: reading a `probe_target` section panics (`store.go:258`); the packaged `vpn-watchdog.config` has three, so the daemon of a default installation does not start | |

Bounds.  Three IDs are enough for a base config, its variant and a rival. Thresholds of 1
and 2 with two settings reach the edit that moves a threshold past the count.  One or two
crashes and edits suffice since each property speaks of one restart or one reload in
relation to a switch; `MaxAge` exceeds every cooldown, so older ages cannot be told apart.
`Engine_rounds` has no bound on the number of rounds: the state space is finite without one
(about 1.3 million states). The same properties hold with the AmneziaWG config as a fourth
candidate and rounds of at most two (2.5 million).  In `Pool_rounds` one entry is learned at
a time and may succeed twice, the least with which what is stored can differ from what
worked first; the window lasts two steps of time, the least with which calls of two windows
fall into one hour; the cap on variants is 1, so that what is generated first is all there
is.  A kill at each point of a save and any number of reboots after it are in; a second kill
in a later save can lose both copies, which `LearnedSurvives` excuses by `hurt`.
`Scores_rounds` has no bound on rounds either: the averages converge.  Its two configs, one
of them in two files, are enough for "better rated and does not work"; with one attempt per
round the slow one is reached only through the scores.  One kill and one failing write make
a history that is behind and one that is not.  The world `starved` of Scores_uci's instance,
in which rivals stay ahead for ever, is not among those of Scores_rounds:
`WorkingConfigFound` does not speak of it.  `View` in Pool_rounds forgets what worked once a
write has failed; the properties ask for it until then only, so no violation is hidden.
Samples are drawn from four targets by three, the least in which a target can be left out
and a majority be lost by the draw; networks that answer in part are met by health probes
and verifies only, where no average depends on the draw.

Beyond the runs.  Each of the following is what TLC says of a variation of a run's
instance.

* *Signals and attempts.*  `TermStops` and `GiveUpHonoured` of `Watchdog` are stated but not
  in a run; TLC refutes both on the instance of Watchdog_safety: a SIGTERM that comes while a
  SIGHUP waits in the channel of capacity 1 is dropped (`watchdog.go:85`), and
  `ProbeAndSwitch` goes on after `SwitchFailed` has said stop (`switch.go:208`).
* *A daemon stuck in SWITCHING.*  `OutageActedOn` names it as its exception: killed while it
  applies a config the daemon comes back in SWITCHING, where a tick only logs, and then no
  outage is acted on (Watchdog_stuck).
* *Tunnels left behind.*  `TempTunnelsTornDown` ("Tears down all temp tunnels",
  `switch.go:57`) is refuted by each of these alone: an AmneziaWG config (Engine_leak); the
  timeout, since `Down` at `switch.go:325` runs its commands under the context that is over;
  an interface that does not appear in time (`wireguard.go:101`); the AI advisor's
  candidate, whose probe (`switch.go:148`) no teardown follows; a shared routing table; a
  shared interface name.  With failing commands and a crash only, it holds.
* *Shared interface names and local ports.*  The repository's README asks the user for a
  unique `interface_name`, `routing_table_id` (line 396) and `local_port` (line 383), and
  `architecture.md:132` for the table.  The code checks none of the three: `validate`
  (`store.go:83`) looks at other fields, LuCI's form gives every config of a protocol the
  same name unless the user types one (`wg0`, `awg0`, `app.js:214`), and variants
  keep an explicit table and local port of their base (`variants.go:408-439`).  The runs give
  each candidate its own, and the theorems have that as hypotheses.  Without: with shared
  tables `ProbesIndependent` (Engine_tables) and `ActiveUndisturbed` are refuted; with a
  shared `Port` so is `CommittedCarries`, as `waitForPort` finds the other process and the
  config that is committed has none.  With a shared interface name alone and WireGuard
  configs `ActiveUndisturbed` still holds where one expects it to fail: the second `Up` does
  run `wg-quick down` first (`wireguard.go:93`), but on its own file, whose PreDown hook
  deletes a rule that is not there and ends the script.  It is refuted with an active base
  config, its variant, a third config of the base's interface name, and a crash.
* *Firewall.*  With the iptables backend in place of nft TLC refutes
  `SelectorsFollowActive`: `Clear` removes only the rule with the mark it is given, and after
  a switch whose selectors do not resolve the rule of the config before is still there,
  although `policy.go:47` "ensures old rules are removed".  With nft it is refuted too if the
  firewall's commands may fail.
* *Scores.*  Without the premise on rivals that stay ahead TLC refutes `WorkingConfigFound`
  (world `starved`): speed counts for up to 35 points and failures cost about 12 (24 under a
  block), so as many fast configs that fail every verify as a round makes attempts keep a slow
  one that works from ever being tried.  The exceptions in the safety properties are
  behaviours too: a first success under a block lowers the score; a DoH endpoint that hangs
  uses up the time of the system resolver, and an icmp target's dropped port 80 that of its
  port 443, and a working tunnel is given up.
* *UCI lists.*  The lists of LuCI (`vpn_domain` and its like) come as one line, which
  `loadUCIStringList` takes for one value: two domains are one name that does not resolve,
  that selects no traffic and fails as a probe target.  The other modules' settings are
  those a daemon can start with, that is, without `probe_target` sections.

What the documentation promises of candidates and the code does not do:

* *"Persists the effective params"* (`switch.go:60`).  `LearnedEntry` has no place for an
  endpoint port, a path, ECH, or AmneziaWG's magic headers H1-H4, which `awgVariants` draws
  afresh for every variant (`variants.go:142`, `:280`): a learned variant has the base
  config's again.  Pool_proved; `LearnedAsItWorked` speaks of the four fields that are stored.
* *"После этого демон делает verify, при успехе сохраняет временный AI-пресет"*
  (`README.md:636`), *"temporary presets with verify + cooldown rollback"*
  (`architecture.md:168`).  The preset is saved after the probe and before the verify, and a
  failed verify rests nothing.  Pool_proved; `PresetsProbed` says what is so.
* *"Strict allowlist validation for tunable fields"* (`architecture.md:166`).
  `ValidateRecommendation` never looks at a VLESS fingerprint, which `README.md:635` names
  among the fields of the allowlist; the instance of Pool_rounds has an answer with one that
  nothing knows, and it is taken.  `AIStaysOnAllowlist` speaks of the fields that are bounded.
* Under the hint `protocol_dpi` the obfuscation profiles are not "prioritised"
  (`variants.go:114`) under the balanced profile, since `Detect` gives that hint only with the
  reason `tcp_rst_fast`, for which `patternsForReason` picks ports and MTUs before it looks
  at the hint, and six places are soon taken.
* With the default of 8 variants and the generator's own lists, the six fingerprints and six
  transports fill every place, whatever was detected, so a VLESS config never gets the
  port, path and ECH variants that the repository's README (line 625) says usually work
  first; of the cap it recommends, 12, at most two are left for them.

Fairness.  Liveness rests on every command the daemon runs coming to an end.  Timeouts
see to that for the parallel probe (`switch.go:279`), verify (`:369`), the detection
(`watchdog.go:180`), each probe, the AI call and the policy's name resolution.  The commands
of apply, teardown and policy (`wg-quick`, `ip`, `nft` and so on) run on the event loop's
context, which has none (`switch.go:124`, `:179`): one that hangs stops the loop, and
`SwitchingResolvesUnlessKilled`, `RoundEnds` and the others say nothing of such a system.
Beyond that: the ticker fires, time passes, LuCI's signal follows its write, procd
respawns a crashed process (`respawn 60 5 5`), and Go's `select` picks at random
among ready cases, hence strong fairness of HandleSignal.  In the engine something that
can go on does, one weak fairness for all goroutines together.  In `Scores` the ticker
fires, what it calls ends, and procd starts the daemon again.  A stopped process is not
restarted, the network owes nothing.

## 5. Proofs

`WatchdogProofs`, for all constants satisfying the assumptions of `Machine` and
`Watchdog` (any sets of IDs, any thresholds, bounds, settings):

* `TypeCorrect`: `TypeOK` and `ControlInv`, which ties `pc` to the machine's
  state (TypeOK alone is not inductive: VerifySucceeds needs `attempt` to be an
  index of `viable`).
* `ActiveAlwaysVerified`, `ReloadNeverLost`, `OutageAlwaysBeforeProbing`: by
  invariants relating the active ID in memory and on disk, the channel and the
  settings, the count and the streak.
* `DetectionOnce`: by `DetectionInv`, which says what the flag
  `lastStateWasProbing` stands for at each `pc`.
* `CooldownAlwaysSurvives` and `Implementation`: by `PersistenceInv` (file =
  memory while the process runs), and assuming `SaveMayFail = FALSE`; with
  failing saves neither holds, as a restart resumes an older state.
  `Implementation` shows that every step maps to a step of `Failover` or a stutter.

`SwitchEngineProofs`, for any candidates, protocols, tables and bases, every interleaving
of the goroutines, with timeouts, failing commands and any number of crashes:

* `TypeCorrect`: `TypeOK` with `CurInv`, that a candidate is being applied exactly when the
  loop says so.
* `CommittedAlwaysCarries`: under `DistinctPorts`, by `ApplyInv`.  While a config is applied
  and verified its link stands from the step that makes it on and its rule from the next; no
  other goroutine runs then, and what `apply` undoes it undoes before verify.
* `ActiveNeverDisturbed`: under `DistinctTables` and `DistinctNames`.  `Carries(activeID)`
  alone is not inductive, since it does not say
  whose interface a goroutine works on.  `NamesInv` says that an interface is named after
  what it runs or after its base, `VariantInv` that an active variant is also on the name it
  was probed on, `ConfsInv` that the file a temporary tunnel is taken down with is its own,
  `ProbedInv` that the active config is only probed.
* `RemainsAlwaysExplained`: under the same two hypotheses, by `TornInv`, which says of every
  temporary tunnel what of it is there, from where its goroutine is, and `DownInv`, that the
  goroutines are through when the teardown begins.
* `TornDownInTime`: the documented promise (`TempTunnelsTornDown`, which Engine_leak refutes)
  holds where all its exceptions are ruled out (no timeout, interfaces that appear, no
  AmneziaWG config, no AI advisor, nothing shared), although commands fail and the process
  dies.
* `SelectorsAlwaysFollow`: by `MarkInv`, for a round in any phase; the property speaks only of
  the time between rounds.
* Hypotheses.  `DistinctTables`, `DistinctNames` (of the interfaces that files make) and
  `DistinctPorts` are what the repository's documentation asks the user for and the code
  does not check (section 4, beyond the runs); without them the theorems are false.
  `SelectorsAlwaysFollow` assumes a backend other than iptables and firewall commands that do
  not fail; TLC has a counterexample without either.

`CandidateProofs`, for any configs, detections, recommendations, answers and lists of
the generator, over failing writes, kills, reboots, reloads and edits:

* `PoolTypeCorrect`: by `TypeInv`.  `TypeOK` is not inductive: an entry rebuilds to a candidate
  of the right form only if its base is one of the configs (`EntriesOK`), and a save has one
  candidate to record (`PhaseOK`).
* `AIAlwaysOnAllowlist`: by `AllowInv`, which follows MTU, port, transport and AWG profile
  from an answer that passed `ValidateRecommendation` through the candidate built of it, the
  preset kept, the entry learned and either of its two files, back into a candidate.  Each is
  then an allowed one or the base config's own.
* `LearnedAlwaysAsItWorked`, of the four fields that are stored: by `SoundInv`, that a
  candidate's parameters are those its ID stands for, and `KeptInv`, that each copy that
  `load` may read holds what carried traffic last, or what was being saved when a kill came.
  It assumes `OneProtocol`: an edit keeps a config's protocol.  LuCI allows another, and
  then it is false: TLC has a trace of 7 states in which a variant is learned from a VLESS
  config, the config becomes a WireGuard one under the same ID, and the entry is rebuilt on
  that.
* `DiagnosisAlwaysSteers`: from `StoreOK` alone, by where the lists put what was asked for.
  After a TLS block a fingerprint is the first variant generated and the first selected, so
  no cap reaches it (`FingerprintSelected`).  After an HTTP block a transport is the first
  generated, but the patterns put the paths before it; no ID is selected twice and path
  variants differ only in the path's name, so it is within the first six as long as there
  are at most five paths (`PathsFew`, `TransportWithinSix`).  That is the hypothesis
  `FewPaths`, true of `vlessPathVariants` (`dpi/variants.go:50`) by no margin: with a sixth
  path and a larger `DPIMaxVariants` TLC has a trace of two states in which the balanced
  profile answers an HTTP block with six paths and no transport.  `Detected` says which
  blocks a reason code goes with.
* Assumed in `Pool` and `Variants`, and evaluated by TLC: a base config is of one of the three
  protocols, and one that is not VLESS has no fingerprint or transport; a profile has a
  name; an hour is not empty; the value for "no recommendation" is none.

`VariantsProofs` has no theorem of its own: it says of each operator what a list of variants
may hold and what it begins with.  The loops of the generator and of `SelectVariants` are
recursive functions over the rounds made; that such a loop runs to its end and keeps what
each round keeps is shown once, in `FoldProofs`, by the least counterexample.

`ScoresProofs`, for any configs, networks, worlds and settings:

* `TypeCorrect`, `OutcomesAlwaysMoveScores`: by `IInv`, which is `TypeOK` and `RoundInv`.
  `TypeOK` alone is not inductive: an entry stays within its range only if what is recorded
  is a result of a probe.  `RoundInv` says what a round knows at each step (a config still
  to be tried was measured, and was recorded).  That candidates are tried in the order of
  their scores is not claimed: two of one ID share an entry, and the attempt of one moves
  the other within the order made before.  Lemmas bound `ewma`, the parts of the composite
  score and how an outcome moves each; that an attempt makes confidence grow as it moves the
  average is the step that needs the arithmetic.
* `WorkingTunnelsKept` and `AlwaysCommittedOnMajority`: by counting.  A verdict is a
  majority of a sample; `VerdictCounts` carries it over to all targets, from what each
  kind of probe does over a network (`lookupHost`, `runProbe`) and cardinalities of
  subsets.  `WorkingTunnelsKept` has the two exceptions of its property: a DoH endpoint that
  hangs, and an icmp target whose port 80 is dropped, which counts as not answering.
* `HistoryAlwaysSurvives`: by `CountInv`.  Of the attempts of all configs together, those not
  counted are at most one per kill, and one more while an outcome is pending; the file is
  the database unless the last write failed; after a death that does not hurt the same holds
  of what `load` will give.  An attempt is pending only if the entry can count further,
  which the property leaves out.  The sum is the community modules' `SumFunction`;
  `FoldProofs` shows that it exists and that a change of one value moves it by as much.
* Assumed: finitely many files; a file that does not parse is no database; a probe ends within
  `ProbeTimeout`;
  the targets are a sequence, which is so of every value `TargetsOf` has (it is a fold,
  and what a fold yields is out of the provers' reach; TLC evaluates the assumption).

`PoolProofs`, for any configs, detections and recommendations, with failing writes:

* `LearnedAlwaysSurvives`: by `CopiesInv`.  What worked is in memory while the process
  runs, in the persistent copy if that can be read, in the runtime copy if only that
  can; the property speaks of memory alone, which `load` overwrites.  While a save is
  under way the candidate that is about to count is already in memory.
* `PresetsAlwaysProbed`: by `PresetInv`.  A preset's recommendation is for the base it is
  kept under and has passed a probe; expiry, failures and edits of the base keep that,
  and `presetVariant` has the parameters of the candidate that passed.  Assumed: a base
  config's ID is that of its file.
* `CallsAlwaysBounded`: by `CallsInv`, which relates the limiter's window to the calls of the
  last hour: those made before the window began are at most the quota, and those since are
  at most what the window has counted.

Only model-checked: all liveness (`OutageActedOn`, `DegradedResolves`,
`SwitchingResolvesUnlessKilled`, `RoundEnds`, `WorkingConfigFound`), which needs fairness
and ENABLED.  What is found violated in the other runs is by its nature not proved.

## 6. Not modelled

Parsing and rendering of configuration, the HTTP status API, logging, network I/O of probes
and detections below "a dial reaches it", the AI provider (any answer of a set), the attempt
log and the classes of probe errors (shown and logged only), `Store.Save` and `Delete` (no
caller).  Two candidates of one ID in one pool (a variant both learned and freshly
generated) are in `Scores` and in `Watchdog`'s rankings but not in `SwitchEngine`'s pools.
There the instances have distinct interface names, those `probeConfig` makes up included,
and distinct local ports; section 4 says what TLC finds without.  The random magic headers
of AmneziaWG variants have no model.  PROBING is left only by a verified switch; that a
network which recovers by itself is not noticed there is how the code works.
