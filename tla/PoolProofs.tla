----------------------------- MODULE PoolProofs -----------------------------
(***************************************************************************)
(* Proofs about Pool for every set of configs, detections and              *)
(* recommendations, and every bound.                                       *)
(***************************************************************************)
EXTENDS Pool, VariantsProofs

Worked == DOMAIN worked

(* Where what worked is kept while no write has failed: in memory, in the  *)
(* copy that load would take, and nowhere only if nothing worked yet.      *)
CopiesInv ==
    /\ phase \in Saving => \E c : viable = {c} /\ c.id \in DOMAIN learned
    /\ ~hurt =>
          /\ phase # "down" => Worked \subseteq DOMAIN learned
          /\ persistentDB # Unreadable => Worked \subseteq DOMAIN persistentDB
          /\ persistentDB = Unreadable /\ runtimeDB # Unreadable
                => Worked \subseteq DOMAIN runtimeDB
          /\ phase = "down" /\ persistentDB = Unreadable /\ runtimeDB = Unreadable
                => worked = NothingWorked
          /\ phase = "savePersistent" => runtimeDB = learned

LEMMA InitCopies == Init => CopiesInv
BY DEF Init, CopiesInv, Saving, Worked, NothingWorked

LEMMA Grows ==
    ASSUME NEW id, NEW e, NEW db
    PROVE  DOMAIN WithEntry(db, id, e) = {id} \cup DOMAIN db
BY DEF WithEntry

LEMMA RecordCopies ==
    ASSUME CopiesInv, NEW c, RecordSuccess(c)
    PROVE  CopiesInv'
<1>1. DOMAIN learned' = {c.id} \cup DOMAIN learned
  BY Grows DEF RecordSuccess
<1>2. /\ phase = "try" /\ phase' = "saveRuntime" /\ viable' = {c}
      /\ UNCHANGED <<runtimeDB, persistentDB, worked, hurt>>
  BY DEF RecordSuccess, historyVars
<1> QED
  BY <1>1, <1>2 DEF CopiesInv, Saving, Worked

LEMMA WriteRuntimeCopies ==
    ASSUME CopiesInv, WriteRuntime
    PROVE  CopiesInv'
<1>1. /\ phase = "saveRuntime" /\ phase' = "savePersistent"
      /\ UNCHANGED <<learned, persistentDB, worked, viable>>
      /\ (runtimeDB' = learned /\ hurt' = hurt) \/ hurt' = TRUE
  BY DEF WriteRuntime
<1> QED
  BY <1>1 DEF CopiesInv, Saving, Worked

LEMMA WritePersistentCopies ==
    ASSUME CopiesInv, WritePersistent
    PROVE  CopiesInv'
<1>1. /\ phase = "savePersistent" /\ phase' = "idle"
      /\ UNCHANGED <<learned, runtimeDB>>
      /\ (persistentDB' = learned /\ hurt' = hurt) \/ hurt' = TRUE
  BY DEF WritePersistent
<1>2. PICK c : viable = {c} /\ c.id \in DOMAIN learned
  BY <1>1 DEF CopiesInv, Saving
<1>3. Only(viable) = c
  BY <1>2 DEF Only
<1>4. Worked' = {c.id} \cup Worked
  BY <1>3, Grows DEF WritePersistent, Worked
<1> QED
  BY <1>1, <1>2, <1>4 DEF CopiesInv, Saving

LEMMA KillCopies ==
    ASSUME CopiesInv, Kill
    PROVE  CopiesInv'
<1>1. /\ phase # "down" /\ phase' = "down"
      /\ UNCHANGED <<learned, worked>>
      /\ hurt' = (hurt \/ BothLost)
      /\ runtimeDB' = runtimeDB \/ (phase = "saveRuntime" /\ runtimeDB' = Unreadable)
      /\ persistentDB' = persistentDB
            \/ (phase = "savePersistent" /\ persistentDB' = Unreadable)
  BY DEF Kill
<1> QED
  BY <1>1 DEF CopiesInv, Saving, Worked, BothLost

LEMMA RebootCopies ==
    ASSUME CopiesInv, Reboot
    PROVE  CopiesInv'
BY DEF CopiesInv, Reboot, roundVars, Saving, Worked, BothLost

LEMMA StartCopies ==
    ASSUME CopiesInv, Start
    PROVE  CopiesInv'
<1>1. DOMAIN NothingWorked = {}
  BY DEF NothingWorked
<1> QED
  BY <1>1 DEF CopiesInv, Start, load, Saving, Worked

LEMMA NextCopies == CopiesInv /\ [Next]_vars => CopiesInv'
<1> SUFFICES ASSUME CopiesInv, [Next]_vars PROVE CopiesInv'
  OBVIOUS
<1>1. CASE \E c \in viable : RecordSuccess(c)
  BY <1>1, RecordCopies
<1>2. CASE WriteRuntime \/ WritePersistent \/ Kill \/ Reboot \/ Start
  BY <1>2, WriteRuntimeCopies, WritePersistentCopies, KillCopies, RebootCopies,
     StartCopies
<1>3. ASSUME UNCHANGED <<learned, runtimeDB, persistentDB, worked, hurt>>,
             \/ phase \notin Saving \cup {"down"} /\ phase' \notin Saving \cup {"down"}
             \/ UNCHANGED <<phase, viable>>
      PROVE  CopiesInv'
  BY <1>3 DEF CopiesInv, Saving, Worked
<1>4. CASE \/ \E result \in SeenDetections : BuildPool(result)
           \/ \E passed \in Passed : Probe(passed)
           \/ RateLimited \/ AskInVain
           \/ \E answer \in Recommendations : Recommend(answer)
  BY <1>3, <1>4 DEF BuildPool, Probe, RateLimited, AskInVain, Recommend, Ask, Saving,
     storeVars, aiVars, historyVars
<1>5. CASE \/ AIProbePasses \/ AIProbeFails
           \/ \E c \in viable : AttemptFails(c) \/ VerifiedBase(c)
  BY <1>3, <1>5 DEF AIProbePasses, AIProbeFails, AttemptFails, VerifiedBase, Saving,
     storeVars, aiVars, historyVars
<1>6. CASE \/ Reload
           \/ \E b \in BaseIDs : \E tc \in ConfigsOf[b] \cup {Absent} : EditConfig(b, tc)
           \/ Pass \/ UNCHANGED vars
  BY <1>3, <1>6 DEF Reload, EditConfig, Pass, vars, storeVars, aiVars, roundVars,
     historyVars
<1> QED
  BY <1>1, <1>2, <1>4, <1>5, <1>6 DEF Next

(* A variant that carried traffic stays known to a running daemon, over    *)
(* kills inside either write, reboots and reloads, unless a write failed   *)
(* or the only readable copy was lost (RecordSuccess, save, load).         *)
THEOREM LearnedAlwaysSurvives == Spec => []LearnedSurvives
<1>1. CopiesInv => LearnedSurvives
  BY DEF CopiesInv, LearnedSurvives, Worked
<1> QED
  BY <1>1, InitCopies, NextCopies, PTL DEF Spec
-----------------------------------------------------------------------------
(* A preset comes from a recommendation that passed a probe, and those in  *)
(* the pool are made of one.                                               *)
IsPreset(p, b) ==
    \E answer \in probed : \E ttl, rest :
        answer.base = b /\ p = [rec |-> answer, ttl |-> ttl, rest |-> rest]

(* The configs a round began with were read from their files.              *)
BasesOK == bases \subseteq UNION {ConfigsOf[b] : b \in BaseIDs}

PresetInv ==
    /\ BasesOK
    /\ \A b \in BaseIDs : store[b] \in ConfigsOf[b] \cup {Absent}
    /\ store = [b \in BaseIDs |-> store[b]]
    /\ presets = [b \in BaseIDs |-> presets[b]]
    /\ \A b \in BaseIDs : presets[b] # NoPreset => IsPreset(presets[b], b)
    /\ phase = "aiProbe" => rec.base \in BaseIDs
    /\ PresetsProbed

LEMMA InitPresets == Init => PresetInv
<1> SUFFICES ASSUME Init PROVE PresetInv
  OBVIOUS
<1>1. /\ \A b \in BaseIDs : store[b] \in ConfigsOf[b]
      /\ store = [b \in BaseIDs |-> store[b]]
  BY DEF Init
<1>2. presets = [b \in BaseIDs |-> presets[b]] /\ \A b \in BaseIDs : presets[b] = NoPreset
  BY DEF Init
<1> QED
  BY <1>1, <1>2 DEF Init, BasesOK, PresetInv, PresetsProbed

(* What the daemon takes from the file of a base config.                   *)
LEMMA BaseRead ==
    ASSUME NEW b \in BaseIDs, NEW tc \in ConfigsOf[b]
    PROVE  /\ tc = [id |-> <<b, "base", "">>, protocol |-> tc.protocol, params |-> tc.params]
           /\ IsBase(tc) /\ BaseIDOf(tc) = b /\ Family(tc) = "base"
           /\ tc.protocol # "vless" => tc.params.fp = "" /\ tc.params.tr = ""
<1>1. /\ tc = BaseConfig(b, tc.protocol, tc.params)
      /\ tc.protocol \in {"wg", "awg", "vless"} /\ DOMAIN tc.params = DOMAIN Unset
      /\ tc.protocol # "vless" => tc.params.fp = "" /\ tc.params.tr = ""
  BY BaseAssumption
<1>2. tc = [id |-> <<b, "base", "">>, protocol |-> tc.protocol, params |-> tc.params]
  BY <1>1 DEF BaseConfig
<1>3. tc.id = <<b, "base", "">>
  <2>1. \A i, p, q : tc = [id |-> i, protocol |-> p, params |-> q] => tc.id = i
    OBVIOUS
  <2> QED
    BY <1>2, <2>1, Zenon
<1>4. tc = [id |-> tc.id, protocol |-> tc.protocol, params |-> tc.params]
  BY <1>2, <1>3, Zenon
<1>5. IsBase(tc)
  BY <1>1, <1>4, Zenon DEF IsBase, HasFields
<1>6. BaseIDOf(tc) = b /\ Family(tc) = "base"
  BY <1>3, IDParts
<1> QED
  BY <1>1, <1>2, <1>5, <1>6, Zenon

(* A preset's candidate is the recommended one under an ID of its own.     *)
LEMMA PresetVariant ==
    ASSUME NEW b \in BaseIDs, store[b] \in ConfigsOf[b],
           NEW built, built = BuildVariantFromRecommendation(store[b], presets[b].rec)
    PROVE  /\ presetVariant(b).id = <<b, "ai", "preset">>
           /\ presetVariant(b).protocol = store[b].protocol
           /\ presetVariant(b).params = built.params
<1>1. HasFields(store[b])
  BY BaseRead DEF IsBase
<1>2. built = [id |-> built.id, protocol |-> store[b].protocol, params |-> built.params]
  BY <1>1, Recommended
<1>3. presetVariant(b) = [built EXCEPT !.id = <<b, "ai", "preset">>]
  BY DEF presetVariant
<1> DEFINE i == built.id
           p == store[b].protocol
           q == built.params
           j == <<b, "ai", "preset">>
           v == presetVariant(b)
<1>4. built = [id |-> i, protocol |-> p, params |-> q] /\ v = [built EXCEPT !.id = j]
  BY <1>2, <1>3
<1> HIDE DEF i, p, q, j, v
<1>5. v.id = j /\ v.protocol = p /\ v.params = q
  BY <1>4
<1> QED
  BY <1>5, Zenon DEF j, p, q, v

LEMMA PresetVariantParams ==
    ASSUME NEW b \in BaseIDs, store[b] \in ConfigsOf[b]
    PROVE  LET built == BuildVariantFromRecommendation(store[b], presets[b].rec)
           IN presetVariant(b).params = built.params /\ BaseIDOf(presetVariant(b)) = b
BY PresetVariant DEF BaseIDOf

(* The configs a round begins with are those of the store.                 *)
LEMMA BasesBegin ==
    ASSUME \A b \in BaseIDs : store[b] \in ConfigsOf[b] \cup {Absent},
           NEW result, BuildPool(result)
    PROVE  BasesOK'
<1>1. bases' = {store[b] : b \in Present}
  BY DEF BuildPool
<1>2. \A b \in Present : b \in BaseIDs /\ store[b] \in ConfigsOf[b]
  BY DEF Present
<1> QED
  BY <1>1, <1>2 DEF BasesOK

(* A recommended candidate is made of one of them, and rec of its base.    *)
LEMMA RecommendedOf ==
    ASSUME BasesOK, NEW answer, Recommend(answer)
    PROVE  /\ answer.base \in BaseIDs
           /\ \E tc \in ConfigsOf[answer.base] :
                  viable' = {BuildVariantFromRecommendation(tc, answer)}
<1>1. PICK tc \in bases :
          /\ BaseIDOf(tc) = answer.base
          /\ viable' = {BuildVariantFromRecommendation(tc, answer)}
  BY DEF Recommend
<1>2. PICK b \in BaseIDs : tc \in ConfigsOf[b]
  BY DEF BasesOK
<1>3. BaseIDOf(tc) = b
  BY <1>2, BaseRead, Zenon
<1> QED
  BY <1>1, <1>2, <1>3, Zenon

LEMMA BuildPoolPresets ==
    ASSUME PresetInv, NEW result, BuildPool(result)
    PROVE  PresetInv'
<1>1. /\ phase' = "probe"
      /\ UNCHANGED <<store, presets, probed, rec>>
  BY DEF BuildPool, storeVars, aiVars, historyVars
<1>2. ASSUME NEW m \in pool', m.from = "preset"
      PROVE  \E b \in Present : PresetActive(b) /\ m.tc = presetVariant(b)
  BY <1>2 DEF BuildPool, Listed
<1>3. ASSUME NEW m \in pool', m.from = "preset"
      PROVE  \E answer \in probed :
                /\ answer.base = BaseIDOf(m.tc)
                /\ \E tc \in ConfigsOf[answer.base] :
                      BuildVariantFromRecommendation(tc, answer).params = m.tc.params
  <2>1. PICK b \in Present : PresetActive(b) /\ m.tc = presetVariant(b)
    BY <1>2, <1>3
  <2>2. b \in BaseIDs /\ store[b] \in ConfigsOf[b]
    BY DEF Present, PresetInv
  <2>3. IsPreset(presets[b], b)
    BY <2>1, <2>2 DEF PresetActive, PresetInv
  <2>4. presets[b].rec \in probed /\ presets[b].rec.base = b
    BY <2>3 DEF IsPreset
  <2> QED
    BY <2>1, <2>2, <2>4, PresetVariantParams
<1>4. PresetsProbed'
  BY <1>1, <1>3 DEF PresetsProbed
<1>5. BasesOK'
  BY BasesBegin DEF PresetInv
<1> QED
  BY <1>1, <1>4, <1>5 DEF PresetInv, IsPreset

LEMMA SavePresets ==
    ASSUME PresetInv, AIProbePasses
    PROVE  PresetInv'
<1> DEFINE fresh == [rec |-> rec, ttl |-> PresetTTL, rest |-> 0]
<1>1. /\ rec.base \in BaseIDs
      /\ presets' = [presets EXCEPT ![rec.base] = fresh]
      /\ probed' = probed \cup {rec}
      /\ phase' = "try" /\ UNCHANGED <<store, bases, pool>>
  BY DEF AIProbePasses, SavePreset, PresetInv, storeVars
<1>2. \A b \in BaseIDs : presets'[b] = IF b = rec.base THEN fresh ELSE presets[b]
  BY <1>1 DEF PresetInv
<1>3. \A b \in BaseIDs : presets'[b] # NoPreset => IsPreset(presets[b], b)'
  <2> SUFFICES ASSUME NEW b \in BaseIDs, presets'[b] # NoPreset
               PROVE  IsPreset(presets[b], b)'
    OBVIOUS
  <2>1. CASE b = rec.base
    <3>1. presets'[b] = fresh /\ rec \in probed'
      BY <1>1, <1>2, <2>1
    <3> QED
      BY <3>1, <2>1 DEF IsPreset
  <2>2. CASE b # rec.base
    <3>1. presets'[b] = presets[b]
      BY <1>2, <2>2
    <3>2. PICK answer, ttl, rest :
              /\ answer \in probed /\ answer.base = b
              /\ presets[b] = [rec |-> answer, ttl |-> ttl, rest |-> rest]
      BY <3>1 DEF PresetInv, IsPreset
    <3>3. answer \in probed'
      BY <1>1, <3>2
    <3> QED
      BY <3>1, <3>2, <3>3, Zenon DEF IsPreset
  <2> QED
    BY <2>1, <2>2
<1>4. presets' = [b \in BaseIDs |-> presets'[b]]
  BY <1>1 DEF PresetInv
<1>5. PresetsProbed'
  BY <1>1 DEF PresetInv, PresetsProbed
<1>6. /\ \A b \in BaseIDs : store'[b] \in ConfigsOf[b] \cup {Absent}
      /\ store' = [b \in BaseIDs |-> store'[b]]
      /\ phase' # "aiProbe" /\ BasesOK'
  BY <1>1 DEF PresetInv, BasesOK
<1> QED
  BY <1>3, <1>4, <1>5, <1>6, Zenon DEF PresetInv

LEMMA FailPresets ==
    ASSUME PresetInv, AIProbeFails
    PROVE  PresetInv'
<1>1. /\ rec.base \in BaseIDs /\ MarkFailure(rec.base)
      /\ phase' = "idle" /\ UNCHANGED <<store, bases, pool, probed>>
  BY DEF AIProbeFails, PresetInv, storeVars, historyVars
<1>2. ASSUME NEW b \in BaseIDs, presets'[b] # NoPreset
      PROVE  IsPreset(presets'[b], b)
  <2>1. CASE presets'[b] = presets[b]
    BY <1>2, <2>1 DEF PresetInv
  <2>2. CASE presets'[b] # presets[b]
    <3>1. presets[b] # NoPreset /\ presets'[b] = [presets[b] EXCEPT !.rest = ProbeRest]
      BY <1>1, <2>2 DEF MarkFailure, PresetInv
    <3>2. PICK answer, ttl, rest :
              /\ answer \in probed /\ answer.base = b
              /\ presets[b] = [rec |-> answer, ttl |-> ttl, rest |-> rest]
      BY <3>1 DEF PresetInv, IsPreset
    <3>3. presets'[b] = [rec |-> answer, ttl |-> ttl, rest |-> ProbeRest]
      BY <3>1, <3>2
    <3> QED
      BY <3>2, <3>3, Zenon DEF IsPreset
  <2> QED
    BY <2>1, <2>2
<1>3. presets' = [b \in BaseIDs |-> presets'[b]]
  BY <1>1 DEF MarkFailure, PresetInv
<1>4. PresetsProbed'
  BY <1>1 DEF PresetInv, PresetsProbed
<1> QED
  BY <1>1, <1>2, <1>3, <1>4 DEF PresetInv, BasesOK, IsPreset

LEMMA PassPresets ==
    ASSUME PresetInv, Pass
    PROVE  PresetInv'
<1>1. /\ presets' = [b \in BaseIDs |->
                       IF presets[b] = NoPreset THEN NoPreset
                       ELSE [presets[b] EXCEPT !.ttl = Less(@), !.rest = Less(@)]]
      /\ UNCHANGED <<store, bases, pool, probed, phase, rec>>
  BY DEF Pass, storeVars, roundVars
<1>2. ASSUME NEW b \in BaseIDs, presets'[b] # NoPreset
      PROVE  IsPreset(presets'[b], b)
  <2>1. presets[b] # NoPreset
    BY <1>1, <1>2
  <2>2. PICK answer, ttl, rest :
            /\ answer \in probed /\ answer.base = b
            /\ presets[b] = [rec |-> answer, ttl |-> ttl, rest |-> rest]
    BY <2>1 DEF PresetInv, IsPreset
  <2>3. presets'[b] = [presets[b] EXCEPT !.ttl = Less(@), !.rest = Less(@)]
    BY <1>1, <2>1, Zenon
  <2> DEFINE p == presets[b]
             p1 == [p EXCEPT !.ttl = Less(p.ttl)]
             p2 == [p1 EXCEPT !.rest = Less(p1.rest)]
  <2>4. presets'[b] = p2
    BY <2>3
  <2> HIDE DEF p, p1, p2
  <2>5. p = [rec |-> answer, ttl |-> ttl, rest |-> rest]
    BY <2>2 DEF p
  <2>6. p1 = [rec |-> answer, ttl |-> Less(p.ttl), rest |-> rest]
    BY <2>5 DEF p1
  <2>7. p2 = [rec |-> answer, ttl |-> Less(p.ttl), rest |-> Less(p1.rest)]
    BY <2>6 DEF p2
  <2> QED
    BY <2>2, <2>4, <2>7, Zenon DEF IsPreset
<1>3. presets' = [b \in BaseIDs |-> presets'[b]]
  BY <1>1
<1>4. PresetsProbed'
  BY <1>1 DEF PresetInv, PresetsProbed
<1> QED
  BY <1>1, <1>2, <1>3, <1>4 DEF PresetInv, BasesOK, IsPreset

LEMMA EditPresets ==
    ASSUME PresetInv, NEW b \in BaseIDs, NEW tc \in ConfigsOf[b] \cup {Absent},
           EditConfig(b, tc)
    PROVE  PresetInv'
<1>1. /\ store' = [store EXCEPT ![b] = tc]
      /\ UNCHANGED <<presets, bases, pool, probed, phase, rec>>
  BY DEF EditConfig, aiVars, roundVars
<1>2. \A a \in BaseIDs : store'[a] = IF a = b THEN tc ELSE store[a]
  BY <1>1 DEF PresetInv
<1>3. store' = [a \in BaseIDs |-> store'[a]]
  BY <1>1 DEF PresetInv
<1>4. PresetsProbed'
  BY <1>1 DEF PresetInv, PresetsProbed
<1> QED
  BY <1>1, <1>2, <1>3, <1>4 DEF PresetInv, BasesOK, IsPreset

LEMMA NextPresets == PresetInv /\ [Next]_vars => PresetInv'
<1> SUFFICES ASSUME PresetInv, [Next]_vars PROVE PresetInv'
  OBVIOUS
<1>1. CASE \/ \E result \in SeenDetections : BuildPool(result)
           \/ AIProbePasses \/ AIProbeFails \/ Pass
           \/ \E b \in BaseIDs : \E tc \in ConfigsOf[b] \cup {Absent} : EditConfig(b, tc)
  BY <1>1, BuildPoolPresets, SavePresets, FailPresets, PassPresets, EditPresets
<1>2. ASSUME UNCHANGED <<store, presets, probed>>, pool' \subseteq pool,
             bases' \subseteq bases,
             phase' = "aiProbe" => rec'.base \in BaseIDs
      PROVE  PresetInv'
  <2>1. PresetsProbed'
    BY <1>2 DEF PresetInv, PresetsProbed
  <2> QED
    BY <1>2, <2>1 DEF PresetInv, BasesOK, IsPreset
<1>3. CASE \/ \E passed \in Passed : Probe(passed)
           \/ RateLimited \/ AskInVain
  BY <1>2, <1>3 DEF Probe, RateLimited, AskInVain, Ask, storeVars, aiVars, historyVars
<1>4. CASE \E answer \in Recommendations : Recommend(answer)
  BY <1>2, <1>4, RecommendedOf DEF Recommend, Ask, storeVars, PresetInv
<1>5. CASE \E c \in viable : AttemptFails(c) \/ VerifiedBase(c) \/ RecordSuccess(c)
  BY <1>2, <1>5 DEF AttemptFails, VerifiedBase, RecordSuccess, storeVars, aiVars,
     historyVars
<1>6. CASE WriteRuntime \/ WritePersistent \/ Kill
  BY <1>2, <1>6 DEF WriteRuntime, WritePersistent, Kill, aiVars
<1>7. CASE Reboot \/ Start \/ Reload \/ UNCHANGED vars
  BY <1>2, <1>7 DEF Reboot, Start, Reload, NewManager, vars, storeVars, aiVars,
     roundVars, historyVars, PresetInv
<1> QED
  BY <1>1, <1>3, <1>4, <1>5, <1>6, <1>7 DEF Next

(* A preset takes part in a round only if a candidate of the same          *)
(* recommendation has reached the internet, over kills, restarts and edits *)
(* of the base config (SavePreset after the probe, GetActive).             *)
THEOREM PresetsAlwaysProbed == Spec => []PresetsProbed
<1>1. PresetInv => PresetsProbed
  BY DEF PresetInv
<1> QED
  BY <1>1, InitPresets, NextPresets, PTL DEF Spec
-----------------------------------------------------------------------------
(* Ages of calls in the order they were made.                              *)
Ages(s) == s \in Seq(Nat) /\ \A i, j \in 1..Len(s) : i <= j => s[j] <= s[i]

LEMMA LaterAges ==
    ASSUME NEW s, Ages(s), NEW m \in 1..Len(s), NEW r, r = SubSeq(s, m, Len(s))
    PROVE  /\ Ages(r) /\ Len(r) = Len(s) - (m - 1)
           /\ \A i \in 1..Len(r) : r[i] = s[i + (m - 1)] /\ r[i] <= s[m]
<1>1. s \in Seq(Nat) /\ Len(s) \in Nat /\ m \in Nat
  BY DEF Ages
<1>2. r \in Seq(Nat) /\ Len(r) = Len(s) - (m - 1)
  BY <1>1
<1>3. \A i \in 1..Len(r) : r[i] = s[i + (m - 1)]
  BY <1>1, <1>2
<1>4. \A i \in 1..Len(r) : i + (m - 1) \in 1..Len(s) /\ m <= i + (m - 1)
  BY <1>1, <1>2
<1>5. ASSUME NEW i \in 1..Len(r), NEW j \in 1..Len(r), i <= j
      PROVE  r[j] <= r[i]
  <2>1. i + (m - 1) <= j + (m - 1)
    BY <1>1, <1>2, <1>5
  <2>2. s[j + (m - 1)] <= s[i + (m - 1)]
    BY <1>4, <2>1 DEF Ages
  <2> QED
    BY <1>3, <2>2
<1>6. \A i \in 1..Len(r) : s[i + (m - 1)] <= s[m]
  BY <1>4 DEF Ages
<1> QED
  BY <1>2, <1>3, <1>5, <1>6 DEF Ages

(* Recent drops the calls that are no longer in the last hour, and no      *)
(* others: how many, k, and what is left.                                  *)
LEMMA RecentDrops ==
    ASSUME NEW s, Ages(s)
    PROVE  \E k \in 0..Len(s) :
              /\ Ages(Recent(s)) /\ Len(Recent(s)) = Len(s) - k
              /\ \A i \in 1..Len(Recent(s)) : Recent(s)[i] = s[i + k] /\ Recent(s)[i] < Hour
<1>1. Hour \in Nat /\ s \in Seq(Nat) /\ Len(s) \in Nat /\ DOMAIN s = 1..Len(s)
  BY PoolBounds DEF Ages
<1> DEFINE recent == {i \in DOMAIN s : s[i] < Hour}
<1>2. CASE recent = {}
  <2>1. Recent(s) = <<>>
    BY <1>2 DEF Recent
  <2>2. Len(Recent(s)) = Len(s) - Len(s) /\ Ages(Recent(s)) /\ Len(Recent(s)) = 0
    BY <1>1, <2>1 DEF Ages
  <2>3. \A i \in 1..Len(Recent(s)) : FALSE
    BY <2>2
  <2>4. Len(s) \in 0..Len(s)
    BY <1>1
  <2> QED
    BY <2>2, <2>3, <2>4
<1>3. CASE recent # {}
  <2> DEFINE T == recent
  <2>a. T \subseteq Nat /\ T # {}
    BY <1>1, <1>3
  <2> HIDE DEF T
  <2>b. \E i \in T : \A j \in T : i <= j
    BY <2>a, LeastNat, Zenon
  <2>1. \E i \in recent : \A j \in recent : i <= j
    BY <2>b, Zenon DEF T
  <2>2. PICK m \in recent : /\ \A j \in recent : m <= j
                            /\ Recent(s) = SubSeq(s, m, Len(s))
    BY <1>3, <2>1, Zenon DEF Recent
  <2>3. m \in 1..Len(s) /\ s[m] < Hour
    BY <1>1, <2>2
  <2>4. /\ Ages(Recent(s)) /\ Len(Recent(s)) = Len(s) - (m - 1)
        /\ \A i \in 1..Len(Recent(s)) :
              Recent(s)[i] = s[i + (m - 1)] /\ Recent(s)[i] <= s[m]
    BY <2>2, <2>3, LaterAges, Zenon
  <2>5. \A i \in 1..Len(Recent(s)) : Recent(s)[i] \in Nat
    BY <2>4 DEF Ages
  <2>6. \A i \in 1..Len(Recent(s)) : Recent(s)[i] < Hour
    BY <1>1, <2>3, <2>4, <2>5
  <2>7. m - 1 \in 0..Len(s)
    BY <1>1, <2>3
  <2> QED
    BY <2>4, <2>6, <2>7
<1> QED
  BY <1>2, <1>3
(***************************************************************************)
(* The rate window.  Of the calls of the last hour all but the last        *)
(* window.calls are older than the window; those are at most a quota, for  *)
(* a window begins when the one before is an hour old, and what was asked  *)
(* before that one is no longer in the last hour.                          *)
(***************************************************************************)
Fits(w) ==
    /\ w = [age |-> w.age, calls |-> w.calls]
    /\ w.age \in 0..Hour /\ w.calls \in 0..MaxCallsPerHour
    /\ \E p \in 0..MaxCallsPerHour :
          /\ p <= Len(calls) /\ Len(calls) <= p + w.calls
          /\ \A i \in 1..p : w.age <= calls[i]

CallsInv ==
    /\ Ages(calls) /\ \A i \in 1..Len(calls) : calls[i] < Hour
    /\ MaxCallsPerHour > 0 => Fits(window)

LEMMA CallsConstants ==
    Hour \in Nat /\ Hour > 0 /\ MaxCallsPerHour \in Nat
BY PoolBounds, HourAssumption

LEMMA NewWindow ==
    ASSUME CallsInv, MaxCallsPerHour > 0
    PROVE  Fits(CurrentWindow)
<1>1. CASE window.age < Hour
  BY <1>1, CallsConstants DEF CallsInv, Fits, CurrentWindow
<1>2. CASE ~(window.age < Hour)
  <2>1. window.age = Hour /\ CurrentWindow = NoWindow
    BY <1>2, CallsConstants DEF CallsInv, Fits, CurrentWindow
  <2>2. PICK p \in 0..MaxCallsPerHour :
            /\ p <= Len(calls) /\ Len(calls) <= p + window.calls
            /\ \A i \in 1..p : window.age <= calls[i]
    BY DEF CallsInv, Fits
  <2>3. calls \in Seq(Nat) /\ Len(calls) \in Nat
    BY DEF CallsInv, Ages
  <2>4. p = 0
    <3>1. p \in Nat /\ (p # 0 => 1 \in 1..p /\ 1 \in 1..Len(calls))
      BY <2>2, <2>3, CallsConstants
    <3>2. p # 0 => Hour <= calls[1] /\ calls[1] < Hour /\ calls[1] \in Nat
      BY <2>1, <2>2, <2>3, <3>1 DEF CallsInv
    <3> QED
      BY <3>2, CallsConstants
  <2>5. window.calls \in 0..MaxCallsPerHour
    BY DEF CallsInv, Fits
  <2>6. Len(calls) \in 0..MaxCallsPerHour
    BY <2>2, <2>3, <2>4, <2>5, CallsConstants
  <2>7. \A i \in 1..Len(calls) : 0 <= calls[i]
    BY <2>3
  <2>8. NoWindow.age = 0 /\ NoWindow.calls = 0
        /\ NoWindow = [age |-> NoWindow.age, calls |-> NoWindow.calls]
    BY DEF NoWindow
  <2>9. Len(calls) <= Len(calls) /\ Len(calls) <= Len(calls) + 0
    BY <2>3
  <2> QED
    BY <2>1, <2>6, <2>7, <2>8, <2>9, CallsConstants DEF Fits
<1> QED
  BY <1>1, <1>2
LEMMA CallMade ==
    ASSUME CallsInv, acquireToken, calls' = Append(calls, 0)
    PROVE  CallsInv'
<1>1. calls \in Seq(Nat) /\ Len(calls) \in Nat
  BY DEF CallsInv, Ages
<1>2. /\ calls' \in Seq(Nat) /\ Len(calls') = Len(calls) + 1
      /\ \A i \in 1..Len(calls) : calls'[i] = calls[i]
      /\ calls'[Len(calls) + 1] = 0
  BY <1>1
<1>3. \A i \in 1..Len(calls') : i \in 1..Len(calls) \/ (i = Len(calls) + 1 /\ calls'[i] = 0)
  BY <1>1, <1>2
<1>4. ASSUME NEW i \in 1..Len(calls'), NEW j \in 1..Len(calls'), i <= j
      PROVE  calls'[j] <= calls'[i]
  <2>1. CASE j \in 1..Len(calls)
    <3>1. i \in 1..Len(calls)
      BY <1>1, <1>4, <2>1
    <3> QED
      BY <1>2, <1>4, <2>1, <3>1 DEF CallsInv, Ages
  <2>2. CASE calls'[j] = 0
    BY <1>2, <2>2
  <2> QED
    BY <1>3, <2>1, <2>2
<1>5. Ages(calls')
  BY <1>2, <1>4 DEF Ages
<1>6. \A i \in 1..Len(calls') : calls'[i] < Hour
  BY <1>2, <1>3, CallsConstants DEF CallsInv
<1>7. ASSUME MaxCallsPerHour > 0
      PROVE  Fits(window)'
  <2> DEFINE w == CurrentWindow
  <2>1. Fits(w) /\ w.calls < MaxCallsPerHour
    BY <1>7, NewWindow DEF acquireToken
  <2>2. window' = [w EXCEPT !.calls = @ + 1]
    BY <1>7 DEF acquireToken
  <2> HIDE DEF w
  <2>3. /\ window' = [age |-> w.age, calls |-> w.calls + 1]
        /\ w.age \in 0..Hour /\ w.calls \in 0..MaxCallsPerHour
    BY <2>1, <2>2 DEF Fits
  <2>4. PICK p \in 0..MaxCallsPerHour :
            /\ p <= Len(calls) /\ Len(calls) <= p + w.calls
            /\ \A i \in 1..p : w.age <= calls[i]
    BY <2>1 DEF Fits
  <2>5. /\ p <= Len(calls') /\ Len(calls') <= p + (w.calls + 1)
        /\ \A i \in 1..p : w.age <= calls'[i]
        /\ w.calls + 1 \in 0..MaxCallsPerHour
    BY <1>1, <1>2, <2>1, <2>3, <2>4, CallsConstants
  <2>6. /\ window'.age = w.age /\ window'.calls = w.calls + 1
        /\ window' = [age |-> window'.age, calls |-> window'.calls]
    BY <2>3
  <2> QED
    BY <2>3, <2>4, <2>5, <2>6 DEF Fits
<1> QED
  BY <1>5, <1>6, <1>7 DEF CallsInv, Ages

LEMMA HourPasses ==
    ASSUME CallsInv, Pass
    PROVE  CallsInv'
<1> DEFINE aged == [i \in DOMAIN calls |-> calls[i] + 1]
<1>1. /\ calls \in Seq(Nat) /\ Len(calls) \in Nat
      /\ calls' = Recent(aged)
      /\ window' = [window EXCEPT !.age = IF @ < Hour THEN @ + 1 ELSE @]
  <2>1. calls \in Seq(Nat) /\ Len(calls) \in Nat
    BY DEF CallsInv, Ages
  <2>2. calls' = Recent(aged)
    BY Zenon DEF Pass
  <2>3. window' = [window EXCEPT !.age = IF @ < Hour THEN @ + 1 ELSE @]
    BY Zenon DEF Pass
  <2> QED
    BY <2>1, <2>2, <2>3
<1>2. /\ aged \in Seq(Nat) /\ Len(aged) = Len(calls)
      /\ \A i \in 1..Len(calls) : aged[i] = calls[i] + 1
  <2>1. DOMAIN calls = 1..Len(calls) /\ \A i \in 1..Len(calls) : calls[i] \in Nat
    BY <1>1
  <2>2. aged \in [1..Len(calls) -> Nat] /\ \A i \in 1..Len(calls) : aged[i] = calls[i] + 1
    BY <2>1
  <2>3. \A n \in Nat : \A f \in [1..n -> Nat] : f \in Seq(Nat) /\ Len(f) = n
    OBVIOUS
  <2> HIDE DEF aged
  <2> QED
    BY <1>1, <2>2, <2>3
<1> HIDE DEF aged
<1>3. Ages(aged)
  <2> SUFFICES ASSUME NEW i \in 1..Len(calls), NEW j \in 1..Len(calls), i <= j
               PROVE  aged[j] <= aged[i]
    BY <1>2 DEF Ages
  <2>1. calls[j] <= calls[i] /\ calls[i] \in Nat /\ calls[j] \in Nat
    BY <1>1 DEF CallsInv, Ages
  <2> QED
    BY <1>2, <2>1
<1>4. PICK k \in 0..Len(aged) :
          /\ Ages(calls') /\ Len(calls') = Len(aged) - k
          /\ \A i \in 1..Len(calls') : calls'[i] = aged[i + k] /\ calls'[i] < Hour
  BY <1>1, <1>3, RecentDrops
<1>5. ASSUME MaxCallsPerHour > 0
      PROVE  Fits(window)'
  <2>1. Fits(window)
    BY <1>5 DEF CallsInv
  <2>2. PICK p \in 0..MaxCallsPerHour :
            /\ p <= Len(calls) /\ Len(calls) <= p + window.calls
            /\ \A i \in 1..p : window.age <= calls[i]
    BY <2>1 DEF Fits
  <2> DEFINE q == IF k <= p THEN p - k ELSE 0
             age == IF window.age < Hour THEN window.age + 1 ELSE window.age
  <2>3. /\ window' = [age |-> age, calls |-> window.calls]
        /\ window.age \in 0..Hour /\ window.calls \in 0..MaxCallsPerHour
    BY <1>1, <2>1 DEF Fits
  <2>4. /\ window'.age = age /\ window'.calls = window.calls
        /\ window' = [age |-> window'.age, calls |-> window'.calls]
        /\ age \in 0..Hour /\ age <= window.age + 1
    BY <2>3, CallsConstants
  <2>5. p \in Nat /\ k \in Nat /\ Len(calls') \in Nat /\ Len(calls') = Len(calls) - k
    BY <1>1, <1>2, <1>4, CallsConstants
  <2>6. /\ q \in 0..MaxCallsPerHour /\ q <= Len(calls')
        /\ Len(calls') <= q + window.calls
    BY <2>2, <2>3, <2>5, CallsConstants
  <2>7. \A i \in 1..q : i \in 1..Len(calls') /\ i + k \in 1..p /\ i + k \in 1..Len(calls)
    BY <2>2, <2>5
  <2>8. ASSUME NEW i \in 1..q
        PROVE  window'.age <= calls'[i]
    <3>1. calls'[i] = calls[i + k] + 1 /\ window.age <= calls[i + k]
      BY <1>2, <1>4, <2>2, <2>7
    <3>2. calls[i + k] \in Nat
      BY <1>1, <2>7
    <3> QED
      BY <2>3, <2>4, <3>1, <3>2, CallsConstants
  <2> HIDE DEF q, age
  <2> QED
    BY <2>3, <2>4, <2>6, <2>8 DEF Fits
<1> QED
  BY <1>4, <1>5 DEF CallsInv, Ages

LEMMA NextCalls ==
    ASSUME CallsInv, [Next]_vars
    PROVE  CallsInv'
<1>1. CASE AskInVain \/ \E answer \in Recommendations : Recommend(answer)
  BY <1>1, CallMade DEF AskInVain, Recommend, Ask
<1>2. CASE RateLimited
  <2>1. calls' = calls /\ window' = CurrentWindow
    BY <1>2 DEF RateLimited, historyVars
  <2> QED
    BY <2>1, NewWindow DEF CallsInv, Fits
<1>3. CASE Start \/ Reload
  <2>1. calls' = <<>> /\ window' = NoWindow
    BY <1>3 DEF Start, Reload, NewManager
  <2>2. Ages(<<>>) /\ Len(<<>>) = 0
    BY DEF Ages
  <2>3. /\ window'.age = 0 /\ window'.calls = 0
        /\ window' = [age |-> window'.age, calls |-> window'.calls]
    BY <2>1 DEF NoWindow
  <2>4. MaxCallsPerHour > 0 => Fits(window)'
    BY <2>1, <2>2, <2>3, CallsConstants DEF Fits
  <2> QED
    BY <2>1, <2>2, <2>4 DEF CallsInv
<1>4. CASE Pass
  BY <1>4, HourPasses
<1>5. CASE UNCHANGED <<window, calls>>
  BY <1>5 DEF CallsInv, Fits, Ages
<1>6. CASE \/ \E result \in SeenDetections : BuildPool(result)
           \/ \E passed \in Passed : Probe(passed)
           \/ AIProbePasses \/ AIProbeFails
           \/ \E c \in viable : AttemptFails(c) \/ VerifiedBase(c) \/ RecordSuccess(c)
  BY <1>5, <1>6 DEF BuildPool, Probe, AIProbePasses, AIProbeFails, AttemptFails,
     VerifiedBase, RecordSuccess, aiVars, historyVars
<1>7. CASE \/ WriteRuntime \/ WritePersistent \/ Kill \/ Reboot
           \/ \E b \in BaseIDs : \E tc \in ConfigsOf[b] \cup {Absent} : EditConfig(b, tc)
           \/ UNCHANGED vars
  BY <1>5, <1>7 DEF WriteRuntime, WritePersistent, Kill, Reboot, EditConfig, vars,
     aiVars, historyVars
<1> QED
  BY <1>1, <1>2, <1>3, <1>4, <1>6, <1>7 DEF Next

(***************************************************************************)
(* No hour of one Manager has more than two quotas of calls in it,         *)
(* however the calls fall into the windows (acquireToken): the promised    *)
(* limit itself does not hold across the boundary of two windows.          *)
(***************************************************************************)
THEOREM CallsAlwaysBounded == Spec => []CallsBounded
<1>1. Init => CallsInv
  <2> SUFFICES ASSUME Init PROVE CallsInv
    OBVIOUS
  <2>1. calls = <<>> /\ window = NoWindow
    BY DEF Init
  <2>2. Ages(<<>>) /\ Len(<<>>) = 0
    BY DEF Ages
  <2>3. /\ window.age = 0 /\ window.calls = 0
        /\ window = [age |-> window.age, calls |-> window.calls]
    BY <2>1 DEF NoWindow
  <2>4. MaxCallsPerHour > 0 => Fits(window)
    BY <2>1, <2>2, <2>3, CallsConstants DEF Fits
  <2> QED
    BY <2>1, <2>2, <2>4 DEF CallsInv
<1>2. CallsInv /\ [Next]_vars => CallsInv'
  BY NextCalls
<1>3. CallsInv => CallsBounded
  <2> SUFFICES ASSUME CallsInv, MaxCallsPerHour > 0
               PROVE  Len(calls) <= 2 * MaxCallsPerHour
    BY DEF CallsBounded
  <2>1. Fits(window) /\ Len(calls) \in Nat
    BY DEF CallsInv, Ages
  <2> QED
    BY <2>1, CallsConstants DEF Fits
<1> QED
  BY <1>1, <1>2, <1>3, PTL DEF Spec
=============================================================================
