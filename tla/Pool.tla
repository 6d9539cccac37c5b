-------------------------------- MODULE Pool --------------------------------
(***************************************************************************)
(* Where the candidates of a round come from, over many rounds: the pool   *)
(* ProbeAndSwitch builds (daemon/internal/switch/switch.go), the learned   *)
(* variants and their two files (dpi/persist.go), the AI advisor's rate    *)
(* window and presets (aiadvisor/), and what happens to them when the      *)
(* process is killed, reloaded or rebooted and base configs are edited.    *)
(*                                                                         *)
(* The pool is a set of [from, tc]: every member is probed in parallel and *)
(* ranked afterwards, so the order it was put together in has no effect.   *)
(* Tunnels are the matter of SwitchEngine, the states that of Watchdog.    *)
(***************************************************************************)
EXTENDS Variants, Detector, FiniteSets

CONSTANTS
    BaseIDs,
    ConfigsOf,        \* base ID -> configs its file may hold
    AutoTuned,        \* base IDs with auto-tune on, globally and their own
    Absent,           \* no enabled config of that ID
    DPIProfile, DPIMaxVariants,
    NetworksSeen,     \* networks dpi.Detect may meet
    Recommendations,  \* what the provider may answer
    AIEnabled, MinConfidence, MaxCallsPerHour,
    Hour, PresetTTL, ProbeRest,   \* in units of time (30 minutes is the least)
    Unreadable,       \* a file that is missing or does not parse
    NoPreset, NoRecommendation,
    WritesFail,       \* writing a file may fail or be cut
    MaxViable,        \* bound on viable candidates of a round
    MaxLearned,       \* bound on learned entries
    MaxCount,         \* bound on their success counts
    MaxEdits, MaxKills

ASSUME BaseAssumption ==
    /\ AutoTuned \subseteq BaseIDs
    /\ \A b \in BaseIDs :
          /\ Absent \notin ConfigsOf[b]
          /\ \A tc \in ConfigsOf[b] :
                /\ tc = BaseConfig(b, tc.protocol, tc.params)
                /\ tc.protocol \in {"wg", "awg", "vless"}
                /\ DOMAIN tc.params = DOMAIN Unset
                /\ tc.protocol # "vless" => tc.params.fp = "" /\ tc.params.tr = ""
ASSUME NetworksAssumption == NetworksSeen \subseteq Networks
ASSUME PoolBounds ==
    {DPIMaxVariants, MinConfidence, MaxCallsPerHour, Hour, PresetTTL, ProbeRest,
     MaxViable, MaxLearned, MaxCount, MaxEdits, MaxKills} \subseteq Nat

ASSUME HourAssumption == Hour > 0
ASSUME RecommendationAssumption == NoRecommendation \notin Recommendations

VARIABLES
    store,         \* base ID -> its config, or Absent
    learned,       \* LearnedDB.entries
    runtimeDB,     \* {stateDir}/dpi_learned.json, on tmpfs
    persistentDB,  \* /etc/vpn-watchdog/dpi_learned.json
    presets,       \* PresetStore.presets (memory and file)
    window,        \* Manager: age of windowStart, callsInWindow
    phase,         \* where ProbeAndSwitch is
    bases,         \* baseCandidates, while the advisor may still be asked
    pool,          \* candidates being probed, and where they come from
    viable,        \* candidates not tried yet; the one switched to, when saving
    rec            \* the recommendation being probed

VARIABLES
    worked,    \* history: ID -> parameters of its last recorded success
    cut,       \* history: candidates whose recording was cut short
    hurt,      \* history: a write failed, or the only readable copy was lost
    probed,    \* history: recommendations whose candidate passed a probe
    calls,     \* history: ages of the calls this Manager made, below Hour
    edits, kills

storeVars == <<store, learned, runtimeDB, persistentDB>>
aiVars == <<presets, window>>
roundVars == <<phase, bases, pool, viable, rec>>
historyVars == <<worked, cut, hurt, probed, calls, edits, kills>>
vars == <<storeVars, aiVars, roundVars, historyVars>>

Saving == {"saveRuntime", "savePersistent"}
Phases == {"down", "idle", "probe", "ask", "aiProbe", "try"} \cup Saving

Empty == [id \in {} |-> NoEntry]
Present == {b \in BaseIDs : store[b] # Absent}
NothingWorked == [id \in {} |-> Unset]
NoWindow == [age |-> 0, calls |-> 0]
SeenDetections == {Detect(net) : net \in NetworksSeen}
Only(S) == CHOOSE x \in S : TRUE

(* doSwitch: a detection that is not sure does not bias the variants.      *)
dpiHint(result) == IF result.confidence < 60 THEN "none" ELSE result.block

(* Entries are of variants, and of no more than succeeded.                 *)
IsDB(db) ==
    \A id \in DOMAIN db :
        /\ id[1] \in BaseIDs /\ id[2] # "base"
        /\ DOMAIN db[id] = DOMAIN NoEntry /\ db[id].count \in 1..MaxCount
IsFile(file) == file # Unreadable => IsDB(file)

TypeOK ==
    /\ \A b \in BaseIDs : store[b] \in ConfigsOf[b] \cup {Absent}
    /\ IsDB(learned) /\ IsFile(runtimeDB) /\ IsFile(persistentDB)
    /\ \A b \in BaseIDs : presets[b] # NoPreset =>
           /\ presets[b].rec \in Recommendations /\ presets[b].rec.base = b
           /\ presets[b].ttl \in 0..PresetTTL /\ presets[b].rest \in 0..ProbeRest
    /\ window.age \in 0..Hour
    /\ MaxCallsPerHour > 0 => window.calls \in 0..MaxCallsPerHour
    /\ phase \in Phases
    /\ bases \subseteq UNION {ConfigsOf[b] : b \in BaseIDs}
    /\ \A c \in {m.tc : m \in pool} \cup viable : BaseIDOf(c) \in BaseIDs
    /\ rec \in Recommendations \cup {NoRecommendation}
    /\ phase = "aiProbe" <=> rec # NoRecommendation
    /\ phase \in Saving => Cardinality(viable) = 1 /\ \A c \in viable : IsVariant(c)
    /\ phase = "try" => viable # {}

Init ==
    /\ store \in {s \in [BaseIDs -> UNION {ConfigsOf[b] : b \in BaseIDs}] :
                     \A b \in BaseIDs : s[b] \in ConfigsOf[b]}
    /\ learned = Empty /\ runtimeDB = Unreadable /\ persistentDB = Unreadable
    /\ presets = [b \in BaseIDs |-> NoPreset] /\ window = NoWindow
    /\ phase = "idle" /\ bases = {} /\ pool = {} /\ viable = {}
    /\ rec = NoRecommendation
    /\ worked = NothingWorked /\ cut = {} /\ hurt = FALSE
    /\ probed = {} /\ calls = <<>> /\ edits = 0 /\ kills = 0
-----------------------------------------------------------------------------
(* Building the pool.                                                      *)

GetCandidates(b) ==
    {rebuildVariant(store[b], id, learned[id]) :
        id \in {i \in DOMAIN learned : i[1] = b /\ learned[i].count > 0}}

FreshVariants(b, result) ==
    IF b \notin AutoTuned THEN {}
    ELSE LET hint == dpiHint(result)
         IN ToSet(SelectVariants(DPIProfile, result.reason, hint, result.confidence,
                                 GenerateVariants(store[b], hint, DPIMaxVariants)))

(* GetActive: neither expired nor disabled.                                *)
PresetActive(b) == presets[b] # NoPreset /\ presets[b].ttl > 0 /\ presets[b].rest = 0

presetVariant(b) ==
    [BuildVariantFromRecommendation(store[b], presets[b].rec)
        EXCEPT !.id = <<b, "ai", "preset">>]

Listed(source, tcs) == {[from |-> source, tc |-> c] : c \in tcs}

(* doSwitch and ProbeAndSwitch up to the parallel probe.                   *)
BuildPool(result) ==
    /\ phase = "idle"
    /\ Present # {}
    /\ phase' = "probe"
    /\ bases' = {store[b] : b \in Present}
    /\ pool' = UNION {Listed("learned", GetCandidates(b)) \cup Listed("base", {store[b]})
                         \cup Listed("fresh", FreshVariants(b, result))
                         \cup IF AIEnabled /\ PresetActive(b)
                              THEN Listed("preset", {presetVariant(b)}) ELSE {} :
                         b \in Present}
    /\ UNCHANGED <<storeVars, aiVars, viable, rec, historyVars>>

(* Any candidates may turn out viable; with none the advisor is asked.     *)
Probe(passed) ==
    /\ phase = "probe"
    /\ viable' = passed
    /\ pool' = {}
    /\ phase' = IF passed # {} THEN "try" ELSE IF AIEnabled THEN "ask" ELSE "idle"
    /\ bases' = IF phase' = "ask" THEN bases ELSE {}
    /\ UNCHANGED <<storeVars, aiVars, rec, historyVars>>
-----------------------------------------------------------------------------
(* The AI advisor.                                                         *)

CurrentWindow == IF window.age >= Hour THEN NoWindow ELSE window

(* Slip: the call that fills the window is let through once more.          *)
acquireTokenLate ==
    /\ MaxCallsPerHour > 0 => CurrentWindow.calls <= MaxCallsPerHour
    /\ window' = IF MaxCallsPerHour > 0
                 THEN [CurrentWindow EXCEPT !.calls = @ + 1] ELSE window

acquireToken ==
    /\ MaxCallsPerHour > 0 => CurrentWindow.calls < MaxCallsPerHour
    /\ window' = IF MaxCallsPerHour > 0
                 THEN [CurrentWindow EXCEPT !.calls = @ + 1] ELSE window

(* Recommend without a token: the window may still begin anew.             *)
RateLimited ==
    /\ phase = "ask"
    /\ MaxCallsPerHour > 0 /\ CurrentWindow.calls >= MaxCallsPerHour
    /\ window' = CurrentWindow
    /\ phase' = "idle" /\ bases' = {}
    /\ UNCHANGED <<storeVars, presets, pool, viable, rec, historyVars>>

(* Recommend: one call of the provider.                                    *)
Ask ==
    /\ phase = "ask"
    /\ acquireToken
    /\ calls' = Append(calls, 0)
    /\ bases' = {}
    /\ UNCHANGED <<storeVars, presets, pool, worked, cut, hurt, probed, edits, kills>>

(* The call fails, or its answer is rejected.                              *)
AskInVain ==
    /\ Ask
    /\ phase' = "idle"
    /\ UNCHANGED <<viable, rec>>

(* findBaseConfig looks among the configs the round began with.  viable is *)
(* the candidate made of the answer, rec the answer.                       *)
Recommend(answer) ==
    /\ Ask
    /\ ValidateRecommendation(answer, MinConfidence)
    /\ phase' = "aiProbe"
    /\ rec' = answer
    /\ \E tc \in bases :
          /\ BaseIDOf(tc) = answer.base
          /\ viable' = {BuildVariantFromRecommendation(tc, answer)}

SavePreset(b, answer) ==
    presets' = [presets EXCEPT ![b] = [rec |-> answer, ttl |-> PresetTTL, rest |-> 0]]

MarkFailure(b) ==
    presets' = IF presets[b] = NoPreset THEN presets
               ELSE [presets EXCEPT ![b].rest = ProbeRest]

(* The recommendation becomes a preset before it is applied and verified.  *)
AIProbePasses ==
    /\ phase = "aiProbe"
    /\ phase' = "try"
    /\ SavePreset(rec.base, rec)
    /\ probed' = probed \cup {rec}
    /\ rec' = NoRecommendation
    /\ UNCHANGED <<storeVars, window, bases, pool, viable, worked, cut, hurt, calls,
                   edits, kills>>

(* Slip: the recommendation becomes a preset before its probe is looked at. *)
AIProbeFailsSaved ==
    /\ phase = "aiProbe"
    /\ phase' = "idle"
    /\ SavePreset(rec.base, rec)
    /\ viable' = {} /\ rec' = NoRecommendation
    /\ UNCHANGED <<storeVars, window, bases, pool, historyVars>>

AIProbeFails ==
    /\ phase = "aiProbe"
    /\ phase' = "idle"
    /\ MarkFailure(rec.base)
    /\ viable' = {} /\ rec' = NoRecommendation
    /\ UNCHANGED <<storeVars, window, bases, pool, historyVars>>
-----------------------------------------------------------------------------
(* The apply loop, as far as what is learned goes.                         *)

(* Apply or verify failed; the attempts may be used up.  Presets are not   *)
(* touched by it.                                                          *)
AttemptFails(c) ==
    /\ phase = "try"
    /\ c \in viable
    /\ viable' \in {viable \ {c}, {}}
    /\ phase' = IF viable' = {} THEN "idle" ELSE "try"
    /\ UNCHANGED <<storeVars, aiVars, bases, pool, rec, historyVars>>

VerifiedBase(c) ==
    /\ phase = "try"
    /\ c \in viable /\ ~IsVariant(c)
    /\ phase' = "idle"
    /\ viable' = {}
    /\ UNCHANGED <<storeVars, aiVars, bases, pool, rec, historyVars>>

WithEntry(db, id, e) == [i \in DOMAIN db \cup {id} |-> IF i = id THEN e ELSE db[i]]

(* Slip: the base config is learned as well.                               *)
RecordSuccessOfBase(c) ==
    LET e == IF c.id \in DOMAIN learned THEN learned[c.id] ELSE NoEntry
    IN /\ phase = "try"
       /\ c \in viable
       /\ c.id \notin DOMAIN learned => Cardinality(DOMAIN learned) < MaxLearned
       /\ e.count < MaxCount
       /\ learned' = WithEntry(learned, c.id, Learned(e, c))
       /\ viable' = {c}
       /\ phase' = "saveRuntime"
       /\ UNCHANGED <<store, runtimeDB, persistentDB, aiVars, bases, pool, rec,
                      historyVars>>

(* LearnedDB.RecordSuccess, its two writes still to come.                  *)
RecordSuccess(c) ==
    LET e == IF c.id \in DOMAIN learned THEN learned[c.id] ELSE NoEntry
    IN /\ phase = "try"
       /\ c \in viable /\ IsVariant(c)
       /\ c.id \notin DOMAIN learned => Cardinality(DOMAIN learned) < MaxLearned
       /\ e.count < MaxCount
       /\ learned' = WithEntry(learned, c.id, Learned(e, c))
       /\ viable' = {c}
       /\ phase' = "saveRuntime"
       /\ UNCHANGED <<store, runtimeDB, persistentDB, aiVars, bases, pool, rec,
                      historyVars>>

(* save: errors of both writes are tolerated.                              *)
WriteRuntime ==
    /\ phase = "saveRuntime"
    /\ phase' = "savePersistent"
    /\ \/ runtimeDB' = learned /\ UNCHANGED hurt
       \/ WritesFail /\ runtimeDB' \in {runtimeDB, Unreadable} /\ hurt' = TRUE
    /\ UNCHANGED <<store, learned, persistentDB, aiVars, bases, pool, viable, rec,
                   worked, cut, probed, calls, edits, kills>>

WritePersistent ==
    /\ phase = "savePersistent"
    /\ phase' = "idle"
    /\ viable' = {}
    /\ worked' = WithEntry(worked, Only(viable).id, Only(viable).params)
    /\ \/ persistentDB' = learned /\ UNCHANGED hurt
       \/ /\ WritesFail
          /\ persistentDB' \in {persistentDB, Unreadable}
          /\ hurt' = TRUE
    /\ UNCHANGED <<store, learned, runtimeDB, aiVars, bases, pool, rec, cut, probed,
                   calls, edits, kills>>
-----------------------------------------------------------------------------
(* The process.                                                            *)

(* Nothing is left to load of what worked.                                 *)
BothLost == runtimeDB' = Unreadable /\ persistentDB' = Unreadable /\ worked # NothingWorked

(* Killed.  A write that was going on leaves an unreadable file.           *)
Kill ==
    /\ phase # "down"
    /\ kills < MaxKills
    /\ kills' = kills + 1
    /\ phase' = "down"
    /\ bases' = {} /\ pool' = {} /\ viable' = {} /\ rec' = NoRecommendation
    /\ runtimeDB' \in {runtimeDB} \cup (IF phase = "saveRuntime" THEN {Unreadable} ELSE {})
    /\ persistentDB' \in {persistentDB} \cup (IF phase = "savePersistent" THEN {Unreadable} ELSE {})
    /\ cut' = IF phase \in Saving THEN cut \cup viable ELSE cut
    /\ hurt' = (hurt \/ BothLost)
    /\ UNCHANGED <<store, learned, aiVars, worked, probed, calls, edits>>

(* Power off: tmpfs is gone.                                               *)
Reboot ==
    /\ phase = "down"
    /\ runtimeDB' = Unreadable
    /\ UNCHANGED persistentDB
    /\ hurt' = (hurt \/ BothLost)
    /\ UNCHANGED <<store, learned, aiVars, roundVars, worked, cut, probed,
                   calls, edits, kills>>

(* Slip: the tmpfs copy is taken and the persistent one is not looked at.  *)
loadRuntime == learned' = IF runtimeDB # Unreadable THEN runtimeDB ELSE Empty

(* The persistent copy first, whichever is newer.                          *)
load ==
    learned' = IF persistentDB # Unreadable THEN persistentDB
               ELSE IF runtimeDB # Unreadable THEN runtimeDB ELSE Empty

(* A new Manager counts its calls from zero; presets come from their file. *)
NewManager == window' = NoWindow /\ calls' = <<>> /\ UNCHANGED presets

Start ==
    /\ phase = "down"
    /\ phase' = "idle"
    /\ load
    /\ NewManager
    /\ UNCHANGED <<store, runtimeDB, persistentDB, bases, pool, viable, rec, worked, cut,
                   hurt, probed, edits, kills>>

(* reload makes a new Engine and with it a new Manager; the learned DB and *)
(* the scores are kept.                                                    *)
Reload ==
    /\ phase = "idle"
    /\ edits < MaxEdits
    /\ edits' = edits + 1
    /\ NewManager
    /\ UNCHANGED <<storeVars, roundVars, worked, cut, hurt, probed, kills>>

(* LuCI changes, removes or adds a base config, at any time.               *)
EditConfig(b, tc) ==
    /\ edits < MaxEdits
    /\ tc # store[b]
    /\ edits' = edits + 1
    /\ store' = [store EXCEPT ![b] = tc]
    /\ UNCHANGED <<learned, runtimeDB, persistentDB, aiVars, roundVars, worked, cut, hurt,
                   probed, calls, kills>>

Less(n) == IF n = 0 THEN 0 ELSE n - 1

(* Calls are in the order they were made: those of the last hour are the   *)
(* ones from the first that is.                                            *)
Recent(ages) ==
    LET recent == {i \in DOMAIN ages : ages[i] < Hour}
    IN IF recent = {} THEN <<>>
       ELSE SubSeq(ages, CHOOSE i \in recent : \A j \in recent : i <= j, Len(ages))

Pass ==
    /\ window' = [window EXCEPT !.age = IF @ < Hour THEN @ + 1 ELSE @]
    /\ presets' = [b \in BaseIDs |->
                      IF presets[b] = NoPreset THEN NoPreset
                      ELSE [presets[b] EXCEPT !.ttl = Less(@), !.rest = Less(@)]]
    /\ calls' = Recent([i \in DOMAIN calls |-> calls[i] + 1])
    /\ UNCHANGED <<storeVars, roundVars, worked, cut, hurt, probed, edits, kills>>

(* Sets of up to MaxViable of the candidates in the pool.                  *)
Passed == UNION {kSubset(n, {m.tc : m \in pool}) : n \in 0..MaxViable}

Next ==
    \/ \E result \in SeenDetections : BuildPool(result)
    \/ \E passed \in Passed : Probe(passed)
    \/ RateLimited \/ AskInVain
    \/ \E answer \in Recommendations : Recommend(answer)
    \/ AIProbePasses \/ AIProbeFails
    \/ \E c \in viable : AttemptFails(c) \/ VerifiedBase(c) \/ RecordSuccess(c)
    \/ WriteRuntime \/ WritePersistent
    \/ Kill \/ Reboot \/ Start \/ Reload
    \/ \E b \in BaseIDs : \E tc \in ConfigsOf[b] \cup {Absent} : EditConfig(b, tc)
    \/ Pass

Spec == Init /\ [][Next]_vars
-----------------------------------------------------------------------------
(***************************************************************************)
(* A variant that carried traffic stays known (RecordSuccess, save, load): *)
(* whatever write a kill cuts and however often the router reboots, a      *)
(* running daemon has an entry for it, unless a write failed or the power  *)
(* went while the runtime copy was the only readable one.                  *)
(***************************************************************************)
LearnedSurvives ==
    phase # "down" /\ ~hurt => DOMAIN worked \subseteq DOMAIN learned

(***************************************************************************)
(* The four fields an entry stores (Learned, rebuildVariant), the MTU, the *)
(* fingerprint, the transport and the AWG profile, are in a learned        *)
(* candidate what they were when it carried traffic the last time (or in a *)
(* success whose recording was cut), whatever was edited since and         *)
(* whichever copy it was loaded from.  Nothing else of the success is      *)
(* stored: the port, the path, ECH and the magic headers of an AWG variant *)
(* are the base config's again (PriorityProved).                           *)
(***************************************************************************)
AsItWorked(id, p) ==
    LET now == rebuildVariant(store[id[1]], id, learned[id]).params
    IN /\ p.mtu > 0 => now.mtu = p.mtu
       /\ p.fp # "" => now.fp = p.fp
       /\ p.tr # "" => now.tr = p.tr
       /\ id[2] = "awg" => now.junk = p.junk /\ now.pads = p.pads

LearnedAsItWorked ==
    phase \notin Saving \cup {"down"} /\ ~hurt =>
        \A id \in DOMAIN worked \cap DOMAIN learned :
            id[1] \in Present =>
                \E p \in {worked[id]} \cup {c.params : c \in {d \in cut : d.id = id}} :
                    AsItWorked(id, p)

(***************************************************************************)
(* What the validator (ValidateRecommendation) bounds in an answer is      *)
(* within its bounds in every candidate of the AI advisor, however it came *)
(* about: as a recommendation, as a preset kept over restarts, or rebuilt  *)
(* from its success.  Its MTU, port, transport and junk are allowed ones   *)
(* or the base config's own.  This is all the validator looks at: it takes *)
(* any VLESS fingerprint, and of a path it checks the length alone.        *)
(***************************************************************************)
AIStaysOnAllowlist ==
    \A c \in {d \in {m.tc : m \in pool} \cup viable : Family(d) = "ai"} :
        LET own(field) == {tc.params[field] : tc \in ConfigsOf[BaseIDOf(c)]}
        IN /\ c.params.mtu \in 1200..1420 \cup own("mtu")
           /\ c.params.port \in 1..MaxPort \cup own("port")
           /\ c.params.tr \in {"tcp", "ws", "grpc", "httpupgrade"} \cup own("tr")
           /\ c.params.junk \in ToSet(Profiles) \cup own("junk")

(***************************************************************************)
(* A preset takes part in a round only if a candidate made from the same   *)
(* recommendation has passed a probe (SavePreset), in this life of the     *)
(* daemon or an earlier one, whatever failed since.  A probe is all it     *)
(* takes: the preset is saved before the recommendation is applied and     *)
(* verified, and a failed verify does not rest it (PriorityProved).        *)
(***************************************************************************)
PresetsProbed ==
    \A m \in pool : m.from = "preset" => \E answer \in probed :
        /\ answer.base = BaseIDOf(m.tc)
        /\ \E tc \in ConfigsOf[answer.base] :
              BuildVariantFromRecommendation(tc, answer).params = m.tc.params

(***************************************************************************)
(* The advisor's window (acquireToken) lets at most two full quotas of     *)
(* calls into any hour of one Manager, however calls and windows fall.     *)
(***************************************************************************)
CallsBounded == MaxCallsPerHour > 0 => Len(calls) <= 2 * MaxCallsPerHour

(* Variants of b generated for the round that begins.                      *)
FreshOf(b, family) ==
    {m \in pool' : m.from = "fresh" /\ BaseIDOf(m.tc) = b /\ Family(m.tc) = family}

(***************************************************************************)
(* What was surely detected gets past both caps: a VLESS config in a pool  *)
(* comes with another fingerprint after a block of TLS, and with another   *)
(* transport after one of HTTP, if there is one to rotate to (variants.go: *)
(* "to cycle through when TLS DPI is detected", "to try when HTTP-layer    *)
(* DPI is detected").  compat only keeps some transports.                  *)
(***************************************************************************)
DiagnosisSteers ==
    [][phase = "idle" /\ phase' = "probe" =>
           \A result \in {r \in SeenDetections : r.confidence >= 60} :
               BuildPool(result) =>
                   \A b \in AutoTuned \cap {a \in Present : store[a].protocol = "vless"} :
                       /\ (result.reason[1] = "tls" /\ vlessFingerprintVariants(store[b]) # <<>>)
                              => FreshOf(b, "fp") # {}
                       /\ (/\ result.reason[1] = "http" /\ DPIProfile # "compat"
                           /\ vlessTransportVariants(store[b]) # <<>>)
                              => FreshOf(b, "tr") # {}]_vars
-----------------------------------------------------------------------------
(* What comments and documents promise and this model refutes.             *)

(***************************************************************************)
(* probeConfig derives a unique interface name from a variant's ID "to     *)
(* avoid collisions" in the parallel probe: no ID is twice in a pool.      *)
(***************************************************************************)
PoolIDsUnique == \A m, n \in pool : m.tc.id = n.tc.id => m = n

(***************************************************************************)
(* What goes before the base configs is proved: the learned variants of a  *)
(* pool "worked before" (switch.go), a preset is saved "after verify, on   *)
(* success" (README.md).  A candidate with their very parameters was       *)
(* applied and verified.                                                   *)
(***************************************************************************)
Verified == {worked[id] : id \in DOMAIN worked} \cup {c.params : c \in cut}

PriorityProved ==
    \A m \in pool : m.from \in {"learned", "preset"} => m.tc.params \in Verified
=============================================================================
