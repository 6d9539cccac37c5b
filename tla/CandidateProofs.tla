-------------------------- MODULE CandidateProofs ---------------------------
(***************************************************************************)
(* Proofs about the candidates of Pool and what is learned from them, for  *)
(* every set of configs, choices of the generator, detections and          *)
(* recommendations, and every bound: their types, the allowlist of the AI  *)
(* advisor, that a learned candidate is rebuilt as it worked, and that the *)
(* fresh ones answer the diagnosis.                                        *)
(***************************************************************************)
EXTENDS PoolProofs, FiniteSetTheorems

Candidates == {m.tc : m \in pool} \cup viable

(* The three copies of the learned database that can be read.              *)
Copies == {learned} \cup ({runtimeDB, persistentDB} \ {Unreadable})
-----------------------------------------------------------------------------
(* Types.                                                                  *)

PresetsOK ==
    /\ presets = [b \in BaseIDs |-> presets[b]]
    /\ \A b \in BaseIDs : presets[b] # NoPreset =>
           /\ DOMAIN presets[b] = {"rec", "ttl", "rest"}
           /\ presets[b].rec \in Recommendations /\ presets[b].rec.base = b
           /\ presets[b].ttl \in 0..PresetTTL /\ presets[b].rest \in 0..ProbeRest

(* Window: within the hour, and within the quota if there is one.          *)
WindowOK ==
    /\ window = [age |-> window.age, calls |-> window.calls]
    /\ window.age \in 0..Hour
    /\ MaxCallsPerHour > 0 => window.calls \in 0..MaxCallsPerHour

PhaseOK ==
    /\ phase \in Phases
    /\ rec \in Recommendations \cup {NoRecommendation}
    /\ phase = "aiProbe" <=> rec # NoRecommendation
    /\ phase = "aiProbe" => rec.base \in BaseIDs
    /\ phase \in Saving => \E c : viable = {c} /\ IsVariant(c)
    /\ phase \in {"aiProbe", "try"} => viable # {}

StoreOK ==
    /\ store = [b \in BaseIDs |-> store[b]]
    /\ \A b \in BaseIDs : store[b] \in ConfigsOf[b] \cup {Absent}
    /\ BasesOK

EntriesOK == \A db \in Copies : IsDB(db)

OwnBase == \A c \in Candidates : BaseIDOf(c) \in BaseIDs

TypeInv == StoreOK /\ PresetsOK /\ WindowOK /\ PhaseOK /\ EntriesOK /\ OwnBase
-----------------------------------------------------------------------------
(* The allowlist.                                                          *)

(* What a candidate of b may have: what the advisor may say, or b's own.   *)
Own(b, field) == {tc.params[field] : tc \in ConfigsOf[b]}

Allowed(b, p) ==
    /\ p.mtu \in MTURange \cup Own(b, "mtu")
    /\ p.port \in PortRange \cup Own(b, "port")
    /\ p.tr \in AllowedTransports \cup Own(b, "tr")
    /\ p.junk \in ToSet(Profiles) \cup Own(b, "junk")

(* What an entry of an advisor's candidate may keep.                       *)
AllowedEntry(id, e) ==
    /\ e.mtu > 0 => e.mtu \in MTURange \cup Own(id[1], "mtu")
    /\ Says(e.tr) => e.tr \in AllowedTransports \cup Own(id[1], "tr")
    /\ ~Says(e.profile)

AllowInv ==
    /\ \A c \in Candidates : Family(c) = "ai" => Allowed(BaseIDOf(c), c.params)
    /\ \A db \in Copies : \A id \in DOMAIN db :
          id[2] = "ai" => AllowedEntry(id, db[id])
    /\ \A answer \in probed : Bounded(answer)
    /\ phase = "aiProbe" => Bounded(rec)
-----------------------------------------------------------------------------
(* What was learned.                                                       *)

(* A base config may be edited but stays of its protocol.                  *)
OneProtocol ==
    \A b \in BaseIDs : \A tc, td \in ConfigsOf[b] : tc.protocol = td.protocol

ProtocolOf(b) == (CHOOSE tc \in ConfigsOf[b] : TRUE).protocol

Sound(c) ==
    /\ c.protocol = ProtocolOf(BaseIDOf(c))
    /\ c.protocol # "vless" => ~Says(c.params.fp) /\ ~Says(c.params.tr)
    /\ Family(c) = "awg" =>
          /\ c.protocol = "awg" /\ Says(c.id[3])
          /\ c.params.junk = c.id[3] /\ c.params.pads = PadsOf(c.id[3])

SoundEntry(id, e) ==
    id[2] = "awg" => ProtocolOf(id[1]) = "awg" /\ e.profile = id[3] /\ Says(id[3])

SoundCandidates == \A c \in Candidates : Sound(c)
SoundEntries == \A db \in Copies : \A id \in DOMAIN db : SoundEntry(id, db[id])
SoundInv == SoundCandidates /\ SoundEntries

(* The entry e of id, rebuilt, has what p has.                             *)
Fitting(id, e, p) ==
    /\ p.mtu > 0 => e.mtu = p.mtu
    /\ Says(p.fp) => ProtocolOf(id[1]) = "vless" /\ e.fp = p.fp
    /\ Says(p.tr) => ProtocolOf(id[1]) = "vless" /\ e.tr = p.tr
    /\ id[2] = "awg" => /\ ProtocolOf(id[1]) = "awg" /\ Says(e.profile)
                        /\ p.junk = e.profile /\ p.pads = PadsOf(e.profile)

(* What carried traffic under id: the last recorded, or a cut success.     *)
Success(id) == {worked[id]} \cup {c.params : c \in {d \in cut : d.id = id}}

Kept(id, e) == \E p \in Success(id) : Fitting(id, e, p)
AllKept(db) == \A id \in DOMAIN worked \cap DOMAIN db : Kept(id, db[id])

(* While a success is being saved, its entry is ahead of worked.           *)
Ahead(c) ==
    /\ c.id \in DOMAIN learned /\ Fitting(c.id, learned[c.id], c.params)
    /\ \A id \in (DOMAIN worked \cap DOMAIN learned) \ {c.id} : Kept(id, learned[id])

KeptInv == ~hurt =>
    /\ persistentDB # Unreadable => AllKept(persistentDB)
    /\ persistentDB = Unreadable /\ runtimeDB # Unreadable /\ phase # "savePersistent"
          => AllKept(runtimeDB)
    /\ phase \notin Saving \cup {"down"} => AllKept(learned)
    /\ phase \in Saving => \E c : viable = {c} /\ Ahead(c)
    /\ phase = "savePersistent" => runtimeDB = learned
-----------------------------------------------------------------------------
(* Which steps make candidates and entries: all others leave the ones      *)
(* there are, or fewer.                                                    *)

Still == Candidates' \subseteq Candidates /\ Copies' \subseteq Copies \cup {Empty}

LEMMA ProbeStill ==
    ASSUME NEW passed \in Passed, Probe(passed)
    PROVE  Still
<1>1. passed \subseteq {m.tc : m \in pool}
  BY DEF Passed, kSubset
<1>2. pool' = {} /\ viable' = passed /\ UNCHANGED <<learned, runtimeDB, persistentDB>>
  BY DEF Probe, storeVars
<1> QED
  BY <1>1, <1>2 DEF Still, Candidates, Copies

LEMMA SaveStill ==
    ASSUME WriteRuntime \/ WritePersistent \/ Kill \/ Reboot \/ Start
    PROVE  Still
<1>1. CASE WriteRuntime
  <2>1. /\ runtimeDB' \in {learned, runtimeDB, Unreadable}
        /\ UNCHANGED <<learned, persistentDB, pool, viable>>
    BY <1>1 DEF WriteRuntime
  <2> QED
    BY <2>1 DEF Still, Candidates, Copies
<1>2. CASE WritePersistent
  <2>1. /\ persistentDB' \in {learned, persistentDB, Unreadable}
        /\ viable' = {} /\ UNCHANGED <<learned, runtimeDB, pool>>
    BY <1>2 DEF WritePersistent
  <2> QED
    BY <2>1 DEF Still, Candidates, Copies
<1>3. CASE Kill
  <2>1. /\ runtimeDB' \in {runtimeDB, Unreadable}
        /\ persistentDB' \in {persistentDB, Unreadable}
        /\ pool' = {} /\ viable' = {} /\ UNCHANGED learned
    BY <1>3 DEF Kill
  <2> QED
    BY <2>1 DEF Still, Candidates, Copies
<1>4. CASE Reboot
  <2>1. runtimeDB' = Unreadable /\ UNCHANGED <<learned, persistentDB, pool, viable>>
    BY <1>4 DEF Reboot, roundVars
  <2> QED
    BY <2>1 DEF Still, Candidates, Copies
<1>5. CASE Start
  <2>1. /\ \/ learned' \in {persistentDB, runtimeDB} \ {Unreadable}
           \/ learned' = Empty
        /\ UNCHANGED <<runtimeDB, persistentDB, pool, viable>>
    BY <1>5 DEF Start, load
  <2> QED
    BY <2>1 DEF Still, Candidates, Copies
<1> QED
  BY <1>1, <1>2, <1>3, <1>4, <1>5

LEMMA StepsOfCandidates ==
    ASSUME [Next]_vars
    PROVE  \/ \E result \in SeenDetections : BuildPool(result)
           \/ \E answer \in Recommendations : Recommend(answer)
           \/ \E c \in viable : RecordSuccess(c)
           \/ Still
<1>1. CASE \E passed \in Passed : Probe(passed)
  BY <1>1, ProbeStill
<1>2. CASE WriteRuntime \/ WritePersistent \/ Kill \/ Reboot \/ Start
  BY <1>2, SaveStill
<1>3. ASSUME UNCHANGED <<learned, runtimeDB, persistentDB, pool>>, viable' \subseteq viable
      PROVE  Still
  BY <1>3 DEF Still, Candidates, Copies
<1>4. CASE RateLimited \/ AskInVain \/ AIProbePasses \/ AIProbeFails
  BY <1>3, <1>4 DEF RateLimited, AskInVain, Ask, AIProbePasses, AIProbeFails, storeVars
<1>5. CASE \E c \in viable : AttemptFails(c) \/ VerifiedBase(c)
  BY <1>3, <1>5 DEF AttemptFails, VerifiedBase, storeVars
<1>6. CASE \/ Reload \/ Pass \/ UNCHANGED vars
           \/ \E b \in BaseIDs : \E tc \in ConfigsOf[b] \cup {Absent} : EditConfig(b, tc)
  BY <1>3, <1>6 DEF Reload, Pass, EditConfig, vars, storeVars, roundVars
<1> QED
  BY <1>1, <1>2, <1>4, <1>5, <1>6 DEF Next
-----------------------------------------------------------------------------
(* Where a member of a pool comes from.                                    *)

LEMMA FreshMade ==
    ASSUME NEW b \in BaseIDs, store[b] \in ConfigsOf[b], NEW result,
           NEW c \in FreshVariants(b, result)
    PROVE  MadeOf(c, store[b])
<1> DEFINE hint == dpiHint(result)
           generated == GenerateVariants(store[b], hint, DPIMaxVariants)
           selected == SelectVariants(DPIProfile, result.reason, hint, result.confidence,
                                      generated)
<1>1. c \in ToSet(selected)
  BY DEF FreshVariants
<1>2. DPIMaxVariants \in Nat
  BY PoolBounds
<1>3. Made(generated, store[b])
  BY <1>2, BaseRead, GeneratedMade
<1> HIDE DEF generated
<1>4. Made(selected, store[b])
  BY <1>3, SelectedMade
<1> QED
  BY <1>1, <1>4 DEF Made

LEMMA Relearned ==
    ASSUME NEW b \in BaseIDs, store[b] \in ConfigsOf[b], NEW c \in GetCandidates(b)
    PROVE  \E id \in DOMAIN learned :
              /\ id[1] = b /\ c.id = id
              /\ c = rebuildVariant(store[b], id, learned[id])
<1>1. PICK id \in DOMAIN learned :
          id[1] = b /\ c = rebuildVariant(store[b], id, learned[id])
  BY DEF GetCandidates
<1>2. c.id = id
  BY <1>1, RebuiltID, Zenon
<1> QED
  BY <1>1, <1>2

LEMMA PoolMembers ==
    ASSUME NEW result, BuildPool(result), NEW m \in pool'
    PROVE  \E b \in Present :
              \/ m.tc \in GetCandidates(b)
              \/ m.tc = store[b]
              \/ m.tc \in FreshVariants(b, result)
              \/ PresetActive(b) /\ m.tc = presetVariant(b)
BY DEF BuildPool, Listed
-----------------------------------------------------------------------------
(* Types.                                                                  *)

LEMMA InitTypes == Init => TypeInv
<1> SUFFICES ASSUME Init PROVE TypeInv
  OBVIOUS
<1>1. /\ \A b \in BaseIDs : store[b] \in ConfigsOf[b]
      /\ store = [b \in BaseIDs |-> store[b]]
  BY DEF Init
<1>2. presets = [b \in BaseIDs |-> presets[b]] /\ \A b \in BaseIDs : presets[b] = NoPreset
  BY DEF Init
<1>3. WindowOK
  <2>1. window = [age |-> 0, calls |-> 0]
    BY DEF Init, NoWindow
  <2> QED
    BY <2>1, CallsConstants DEF WindowOK
<1>4. PhaseOK
  BY RecommendationAssumption DEF Init, PhaseOK, Phases, Saving
<1>5. EntriesOK /\ OwnBase
  BY DEF Init, EntriesOK, Copies, IsDB, Empty, OwnBase, Candidates
<1> QED
  BY <1>1, <1>2, <1>3, <1>4, <1>5 DEF Init, TypeInv, StoreOK, BasesOK, PresetsOK

LEMMA NextStore ==
    ASSUME StoreOK, [Next]_vars
    PROVE  StoreOK'
<1>1. ASSUME NEW b \in BaseIDs, NEW tc \in ConfigsOf[b] \cup {Absent}, EditConfig(b, tc)
      PROVE  StoreOK'
  <2>1. store' = [store EXCEPT ![b] = tc] /\ UNCHANGED bases
    BY <1>1 DEF EditConfig, roundVars
  <2>2. \A a \in BaseIDs : store'[a] = IF a = b THEN tc ELSE store[a]
    BY <2>1 DEF StoreOK
  <2>3. store' = [a \in BaseIDs |-> store'[a]]
    BY <2>1 DEF StoreOK
  <2> QED
    BY <2>1, <2>2, <2>3 DEF StoreOK, BasesOK
<1>2. ASSUME UNCHANGED store, BasesOK' \/ bases' \subseteq bases
      PROVE  StoreOK'
  BY <1>2 DEF StoreOK, BasesOK
<1>3. CASE \E result \in SeenDetections : BuildPool(result)
  BY <1>2, <1>3, BasesBegin DEF BuildPool, storeVars, StoreOK
<1>4. CASE \/ \E passed \in Passed : Probe(passed)
           \/ RateLimited \/ AskInVain
           \/ \E answer \in Recommendations : Recommend(answer)
           \/ AIProbePasses \/ AIProbeFails
           \/ \E c \in viable : AttemptFails(c) \/ VerifiedBase(c) \/ RecordSuccess(c)
  BY <1>2, <1>4 DEF Probe, RateLimited, AskInVain, Ask, Recommend, AIProbePasses,
     AIProbeFails, AttemptFails, VerifiedBase, RecordSuccess, storeVars
<1>5. CASE WriteRuntime \/ WritePersistent \/ Kill \/ Reboot \/ Start \/ Reload \/ Pass
           \/ UNCHANGED vars
  BY <1>2, <1>5 DEF WriteRuntime, WritePersistent, Kill, Reboot, Start, Reload, Pass,
     vars, storeVars, roundVars
<1> QED
  BY <1>1, <1>3, <1>4, <1>5 DEF Next

LEMMA NextPresetsOK ==
    ASSUME PresetsOK, PhaseOK, [Next]_vars
    PROVE  PresetsOK'
<1>0. PresetTTL \in Nat /\ ProbeRest \in Nat
  BY PoolBounds
<1>1. CASE AIProbePasses
  <2> DEFINE fresh == [rec |-> rec, ttl |-> PresetTTL, rest |-> 0]
  <2>1. /\ presets' = [presets EXCEPT ![rec.base] = fresh]
        /\ rec.base \in BaseIDs /\ rec \in Recommendations
    BY <1>1 DEF AIProbePasses, SavePreset, PhaseOK
  <2>2. \A b \in BaseIDs : presets'[b] = IF b = rec.base THEN fresh ELSE presets[b]
    BY <2>1 DEF PresetsOK
  <2>3. presets' = [b \in BaseIDs |-> presets'[b]]
    BY <2>1 DEF PresetsOK
  <2>4. /\ fresh.rec = rec /\ fresh.ttl = PresetTTL /\ fresh.rest = 0
        /\ DOMAIN fresh = {"rec", "ttl", "rest"}
        /\ PresetTTL \in 0..PresetTTL /\ 0 \in 0..ProbeRest
    BY <1>0
  <2> HIDE DEF fresh
  <2> QED
    BY <2>1, <2>2, <2>3, <2>4 DEF PresetsOK
<1>2. CASE AIProbeFails
  <2> DEFINE p == presets[rec.base]
             rested == [p EXCEPT !.rest = ProbeRest]
  <2>1. rec.base \in BaseIDs /\ (presets' = presets \/
            (p # NoPreset /\ presets' = [presets EXCEPT ![rec.base] = rested]))
    BY <1>2 DEF AIProbeFails, MarkFailure, PhaseOK
  <2>2. CASE presets' = presets
    BY <2>2 DEF PresetsOK
  <2>3. CASE p # NoPreset /\ presets' = [presets EXCEPT ![rec.base] = rested]
    <3>1. \A b \in BaseIDs : presets'[b] = IF b = rec.base THEN rested ELSE presets[b]
      BY <2>3 DEF PresetsOK
    <3>2. presets' = [b \in BaseIDs |-> presets'[b]]
      BY <2>3 DEF PresetsOK
    <3>3. /\ DOMAIN rested = DOMAIN p
          /\ "rest" \in DOMAIN p => rested.rest = ProbeRest
          /\ {"rec", "ttl"} \subseteq DOMAIN p => rested.rec = p.rec /\ rested.ttl = p.ttl
          /\ ProbeRest \in 0..ProbeRest
      BY <1>0
    <3>4. p # NoPreset => {"rec", "ttl", "rest"} = DOMAIN p /\ PresetsOK
      BY <2>1 DEF PresetsOK
    <3> HIDE DEF rested
    <3> QED
      BY <2>1, <2>3, <3>1, <3>2, <3>3, <3>4 DEF PresetsOK
  <2> QED
    BY <2>1, <2>2, <2>3
<1>3. CASE Pass
  <2>1. presets' = [b \in BaseIDs |->
                       IF presets[b] = NoPreset THEN NoPreset
                       ELSE [presets[b] EXCEPT !.ttl = Less(@), !.rest = Less(@)]]
    BY <1>3 DEF Pass
  <2>2. \A p : DOMAIN p = {"rec", "ttl", "rest"} =>
            LET q == [p EXCEPT !.ttl = Less(@), !.rest = Less(@)]
            IN /\ DOMAIN q = DOMAIN p /\ q.rec = p.rec
               /\ q.ttl = Less(p.ttl) /\ q.rest = Less(p.rest)
    OBVIOUS
  <2>3. \A n \in Nat : \A k \in 0..n : Less(k) \in 0..n
    BY DEF Less
  <2>4. ASSUME NEW b \in BaseIDs, presets'[b] # NoPreset
        PROVE  /\ DOMAIN presets'[b] = {"rec", "ttl", "rest"}
               /\ presets'[b].rec \in Recommendations /\ presets'[b].rec.base = b
               /\ presets'[b].ttl \in 0..PresetTTL /\ presets'[b].rest \in 0..ProbeRest
    <3> DEFINE p == presets[b]
               q == [p EXCEPT !.ttl = Less(@), !.rest = Less(@)]
    <3>1. p # NoPreset /\ presets'[b] = q
      BY <2>1, <2>4
    <3>2. /\ DOMAIN p = {"rec", "ttl", "rest"}
          /\ p.rec \in Recommendations /\ p.rec.base = b
          /\ p.ttl \in 0..PresetTTL /\ p.rest \in 0..ProbeRest
      BY <3>1 DEF PresetsOK
    <3>3. /\ DOMAIN q = DOMAIN p /\ q.rec = p.rec
          /\ q.ttl = Less(p.ttl) /\ q.rest = Less(p.rest)
      BY <2>2, <3>2
    <3> HIDE DEF p, q
    <3> QED
      BY <1>0, <2>3, <3>1, <3>2, <3>3
  <2> QED
    BY <2>1, <2>4 DEF PresetsOK
<1>4. CASE UNCHANGED presets
  BY <1>4 DEF PresetsOK
<1>5. CASE \/ \E result \in SeenDetections : BuildPool(result)
           \/ \E passed \in Passed : Probe(passed)
           \/ RateLimited \/ AskInVain
           \/ \E answer \in Recommendations : Recommend(answer)
           \/ \E c \in viable : AttemptFails(c) \/ VerifiedBase(c) \/ RecordSuccess(c)
  BY <1>4, <1>5 DEF BuildPool, Probe, RateLimited, AskInVain, Ask, Recommend,
     AttemptFails, VerifiedBase, RecordSuccess, aiVars
<1>6. CASE \/ WriteRuntime \/ WritePersistent \/ Kill \/ Reboot \/ Start \/ Reload
           \/ \E b \in BaseIDs : \E tc \in ConfigsOf[b] \cup {Absent} : EditConfig(b, tc)
           \/ UNCHANGED vars
  BY <1>4, <1>6 DEF WriteRuntime, WritePersistent, Kill, Reboot, Start, Reload,
     NewManager, EditConfig, vars, aiVars
<1> QED
  BY <1>1, <1>2, <1>3, <1>5, <1>6 DEF Next
LEMMA NextWindow ==
    ASSUME WindowOK, [Next]_vars
    PROVE  WindowOK'
<1> DEFINE w == CurrentWindow
<1>1. /\ w = [age |-> w.age, calls |-> w.calls] /\ w.age \in 0..Hour
      /\ MaxCallsPerHour > 0 => w.calls \in 0..MaxCallsPerHour
  BY CallsConstants DEF WindowOK, CurrentWindow, NoWindow
<1> HIDE DEF w
<1>2. CASE RateLimited
  BY <1>1, <1>2 DEF RateLimited, WindowOK, w
<1>3. CASE AskInVain \/ \E answer \in Recommendations : Recommend(answer)
  <2>1. \/ /\ MaxCallsPerHour > 0 /\ w.calls < MaxCallsPerHour
           /\ window' = [w EXCEPT !.calls = @ + 1]
        \/ ~(MaxCallsPerHour > 0) /\ window' = window
    BY <1>3 DEF AskInVain, Recommend, Ask, acquireToken, w
  <2>2. CASE ~(MaxCallsPerHour > 0) /\ window' = window
    BY <2>2 DEF WindowOK
  <2>3. CASE /\ MaxCallsPerHour > 0 /\ w.calls < MaxCallsPerHour
             /\ window' = [w EXCEPT !.calls = @ + 1]
    <3>1. window' = [age |-> w.age, calls |-> w.calls + 1]
      BY <1>1, <2>3
    <3> QED
      BY <1>1, <2>3, <3>1, CallsConstants DEF WindowOK
  <2> QED
    BY <2>1, <2>2, <2>3
<1>4. CASE Start \/ Reload
  <2>1. window' = [age |-> 0, calls |-> 0]
    BY <1>4 DEF Start, Reload, NewManager, NoWindow
  <2> QED
    BY <2>1, CallsConstants DEF WindowOK
<1>5. CASE Pass
  <2>1. window' = [window EXCEPT !.age = IF @ < Hour THEN @ + 1 ELSE @]
    BY <1>5, Zenon DEF Pass
  <2> QED
    BY <2>1, CallsConstants DEF WindowOK
<1>6. CASE UNCHANGED window
  BY <1>6 DEF WindowOK
<1>7. CASE \/ \E result \in SeenDetections : BuildPool(result)
           \/ \E passed \in Passed : Probe(passed)
           \/ AIProbePasses \/ AIProbeFails
           \/ \E c \in viable : AttemptFails(c) \/ VerifiedBase(c) \/ RecordSuccess(c)
  BY <1>6, <1>7 DEF BuildPool, Probe, AIProbePasses, AIProbeFails, AttemptFails,
     VerifiedBase, RecordSuccess, aiVars
<1>8. CASE \/ WriteRuntime \/ WritePersistent \/ Kill \/ Reboot
           \/ \E b \in BaseIDs : \E tc \in ConfigsOf[b] \cup {Absent} : EditConfig(b, tc)
           \/ UNCHANGED vars
  BY <1>6, <1>8 DEF WriteRuntime, WritePersistent, Kill, Reboot, EditConfig, vars, aiVars
<1> QED
  BY <1>2, <1>3, <1>4, <1>5, <1>7, <1>8 DEF Next

LEMMA NextPhase ==
    ASSUME PhaseOK, StoreOK, [Next]_vars
    PROVE  PhaseOK'
<1>1. CASE \E result \in SeenDetections : BuildPool(result)
  BY <1>1 DEF BuildPool, PhaseOK, Phases, Saving
<1>2. CASE \E passed \in Passed : Probe(passed)
  BY <1>2 DEF Probe, PhaseOK, Phases, Saving
<1>3. CASE RateLimited \/ AskInVain
  BY <1>3 DEF RateLimited, AskInVain, Ask, PhaseOK, Phases, Saving
<1>4. ASSUME NEW answer \in Recommendations, Recommend(answer)
      PROVE  PhaseOK'
  <2>1. answer.base \in BaseIDs /\ viable' # {}
    BY <1>4, RecommendedOf DEF StoreOK
  <2> QED
    BY <1>4, <2>1, RecommendationAssumption DEF Recommend, PhaseOK, Phases, Saving
<1>5. CASE AIProbePasses \/ AIProbeFails
  BY <1>5 DEF AIProbePasses, AIProbeFails, PhaseOK, Phases, Saving
<1>6. CASE \E c \in viable : AttemptFails(c) \/ VerifiedBase(c)
  BY <1>6 DEF AttemptFails, VerifiedBase, PhaseOK, Phases, Saving
<1>7. ASSUME NEW c \in viable, RecordSuccess(c)
      PROVE  PhaseOK'
  <2>1. /\ phase = "try" /\ phase' = "saveRuntime" /\ rec' = rec
        /\ viable' = {c} /\ IsVariant(c)
    BY <1>7 DEF RecordSuccess
  <2> QED
    BY <2>1 DEF PhaseOK, Phases, Saving
<1>8. CASE WriteRuntime
  BY <1>8 DEF WriteRuntime, PhaseOK, Phases, Saving
<1>9. CASE WritePersistent \/ Kill
  BY <1>9 DEF WritePersistent, Kill, PhaseOK, Phases, Saving
<1>10. CASE Start
  BY <1>10 DEF Start, PhaseOK, Phases, Saving
<1>11. CASE \/ Reboot \/ Reload \/ Pass \/ UNCHANGED vars
            \/ \E b \in BaseIDs : \E tc \in ConfigsOf[b] \cup {Absent} : EditConfig(b, tc)
  BY <1>11 DEF Reboot, Reload, Pass, EditConfig, vars, roundVars, PhaseOK
<1> QED
  BY <1>1, <1>2, <1>3, <1>4, <1>5, <1>6, <1>7, <1>8, <1>9, <1>10, <1>11 DEF Next

(* One more entry, or one more success of an entry.                        *)
LEMMA EntryRecorded ==
    ASSUME IsDB(learned), NEW c, c \in viable, RecordSuccess(c), BaseIDOf(c) \in BaseIDs
    PROVE  \E e : /\ learned' = WithEntry(learned, c.id, Learned(e, c))
                  /\ IF c.id \in DOMAIN learned THEN e = learned[c.id] ELSE e = NoEntry
                  /\ e.count \in Nat /\ e.count < MaxCount
                  /\ IsVariant(c)
<1> DEFINE e == IF c.id \in DOMAIN learned THEN learned[c.id] ELSE NoEntry
<1>1. /\ learned' = WithEntry(learned, c.id, Learned(e, c))
      /\ e.count < MaxCount /\ IsVariant(c)
  BY Zenon DEF RecordSuccess
<1>2. MaxCount \in Nat
  BY PoolBounds
<1>3. e.count \in Nat
  BY <1>2 DEF IsDB, NoEntry
<1> QED
  BY <1>1, <1>3, Zenon

LEMMA NextEntries ==
    ASSUME EntriesOK, OwnBase, [Next]_vars
    PROVE  EntriesOK'
<1>1. ASSUME NEW c \in viable, RecordSuccess(c)
      PROVE  EntriesOK'
  <2>1. IsDB(learned) /\ BaseIDOf(c) \in BaseIDs
    BY DEF EntriesOK, Copies, OwnBase, Candidates
  <2>2. PICK e : /\ learned' = WithEntry(learned, c.id, Learned(e, c))
                 /\ e.count \in Nat /\ e.count < MaxCount /\ IsVariant(c)
    BY <1>1, <2>1, EntryRecorded
  <2> DEFINE new == Learned(e, c)
  <2>3. DOMAIN new = DOMAIN NoEntry /\ new.count = e.count + 1
    BY DEF Learned, NoEntry
  <2>4. new.count \in 1..MaxCount
    BY <2>2, <2>3, PoolBounds
  <2> HIDE DEF new
  <2>5. /\ DOMAIN learned' = DOMAIN learned \cup {c.id}
        /\ \A i \in DOMAIN learned' : learned'[i] = IF i = c.id THEN new ELSE learned[i]
    BY <2>2 DEF WithEntry, new
  <2>6. c.id[1] \in BaseIDs /\ c.id[2] # "base"
    BY <2>1, <2>2 DEF BaseIDOf, IsVariant, Family
  <2>7. IsDB(learned)'
    BY <2>1, <2>3, <2>4, <2>5, <2>6 DEF IsDB
  <2>8. UNCHANGED <<runtimeDB, persistentDB>>
    BY <1>1 DEF RecordSuccess
  <2> QED
    BY <2>7, <2>8 DEF EntriesOK, Copies, IsDB
<1>2. CASE Copies' \subseteq Copies \cup {Empty}
  <2>1. IsDB(Empty)
    BY DEF IsDB, Empty
  <2> QED
    BY <1>2, <2>1 DEF EntriesOK, IsDB
<1>3. CASE \/ \E result \in SeenDetections : BuildPool(result)
           \/ \E answer \in Recommendations : Recommend(answer)
  BY <1>2, <1>3 DEF BuildPool, Recommend, Ask, storeVars, Copies
<1> QED
  BY <1>1, <1>2, <1>3, StepsOfCandidates DEF Still

LEMMA NextOwnBase ==
    ASSUME OwnBase, StoreOK, [Next]_vars
    PROVE  OwnBase'
<1>1. ASSUME NEW result, BuildPool(result), NEW m \in pool'
      PROVE  BaseIDOf(m.tc) \in BaseIDs
  <2>1. PICK b \in Present :
            \/ m.tc \in GetCandidates(b)
            \/ m.tc = store[b]
            \/ m.tc \in FreshVariants(b, result)
            \/ PresetActive(b) /\ m.tc = presetVariant(b)
    BY <1>1, PoolMembers
  <2>2. b \in BaseIDs /\ store[b] \in ConfigsOf[b]
    BY DEF Present, StoreOK
  <2>3. CASE m.tc \in GetCandidates(b)
    BY <2>2, <2>3, Relearned DEF BaseIDOf
  <2>4. CASE m.tc = store[b]
    BY <2>2, <2>4, BaseRead
  <2>5. CASE m.tc \in FreshVariants(b, result)
    <3>1. BaseIDOf(m.tc) = BaseIDOf(store[b])
      BY <2>2, <2>5, FreshMade DEF MadeOf
    <3> QED
      BY <2>2, <3>1, BaseRead
  <2>6. CASE m.tc = presetVariant(b)
    BY <2>2, <2>6, PresetVariantParams
  <2> QED
    BY <2>1, <2>3, <2>4, <2>5, <2>6
<1>2. CASE \E result \in SeenDetections : BuildPool(result)
  <2>1. viable' = viable
    BY <1>2 DEF BuildPool
  <2> QED
    BY <1>1, <1>2, <2>1 DEF OwnBase, Candidates
<1>3. ASSUME NEW answer \in Recommendations, Recommend(answer)
      PROVE  OwnBase'
  <2>1. PICK tc \in ConfigsOf[answer.base] :
            viable' = {BuildVariantFromRecommendation(tc, answer)}
    BY <1>3, RecommendedOf DEF StoreOK
  <2>2. answer.base \in BaseIDs /\ pool' = pool
    BY <1>3, RecommendedOf DEF StoreOK, Recommend, Ask
  <2>3. PICK c : c = BuildVariantFromRecommendation(tc, answer) /\ viable' = {c}
    BY <2>1
  <2>4. BaseIDOf(c) = answer.base
    <3>1. answer.base \in BaseIDs
      BY <2>2
    <3>2. HasFields(tc) /\ BaseIDOf(tc) = answer.base
      BY <3>1, BaseRead DEF IsBase
    <3>3. BaseIDOf(BuildVariantFromRecommendation(tc, answer)) = BaseIDOf(tc)
      BY <3>2, Recommended
    <3> QED
      BY <2>3, <3>2, <3>3
  <2> QED
    BY <2>2, <2>3, <2>4 DEF OwnBase, Candidates
<1>4. CASE \E c \in viable : RecordSuccess(c)
  BY <1>4 DEF RecordSuccess, OwnBase, Candidates
<1>5. CASE Still
  BY <1>5 DEF Still, OwnBase
<1> QED
  BY <1>2, <1>3, <1>4, <1>5, StepsOfCandidates

LEMMA NextTypes ==
    ASSUME TypeInv, [Next]_vars
    PROVE  TypeInv'
BY NextStore, NextPresetsOK, NextWindow, NextPhase, NextEntries, NextOwnBase DEF TypeInv

(***************************************************************************)
(* Types of the state of a round, the learned database and its two files   *)
(* (whatever a write or a kill leaves of them), the presets and the        *)
(* window, and that recording goes on for one variant only.                *)
(***************************************************************************)
THEOREM PoolTypeCorrect == Spec => []TypeOK
<1>1. TypeInv => TypeOK
  <2> SUFFICES ASSUME TypeInv PROVE TypeOK
    OBVIOUS
  <2>1. IsDB(learned) /\ IsFile(runtimeDB) /\ IsFile(persistentDB)
    BY DEF TypeInv, EntriesOK, Copies, IsFile
  <2>2. ASSUME phase \in Saving
        PROVE  Cardinality(viable) = 1 /\ \A c \in viable : IsVariant(c)
    <3>1. PICK c : viable = {c} /\ IsVariant(c)
      BY <2>2 DEF TypeInv, PhaseOK
    <3> QED
      BY <3>1, FS_Singleton
  <2>3. \A b \in BaseIDs : store[b] \in ConfigsOf[b] \cup {Absent}
    BY DEF TypeInv, StoreOK
  <2>4. \A b \in BaseIDs : presets[b] # NoPreset =>
           /\ presets[b].rec \in Recommendations /\ presets[b].rec.base = b
           /\ presets[b].ttl \in 0..PresetTTL /\ presets[b].rest \in 0..ProbeRest
    BY DEF TypeInv, PresetsOK
  <2>5. window.age \in 0..Hour /\ (MaxCallsPerHour > 0 => window.calls \in 0..MaxCallsPerHour)
    BY DEF TypeInv, WindowOK
  <2>6. /\ phase \in Phases /\ rec \in Recommendations \cup {NoRecommendation}
        /\ phase = "aiProbe" <=> rec # NoRecommendation
        /\ phase = "try" => viable # {}
    BY DEF TypeInv, PhaseOK
  <2>7. \A c \in {m.tc : m \in pool} \cup viable : BaseIDOf(c) \in BaseIDs
    BY DEF TypeInv, OwnBase, Candidates
  <2>8. bases \subseteq UNION {ConfigsOf[b] : b \in BaseIDs}
    BY DEF TypeInv, StoreOK, BasesOK
  <2> QED
    BY <2>1, <2>2, <2>3, <2>4, <2>5, <2>6, <2>7, <2>8, Zenon DEF TypeOK
<1> QED
  BY <1>1, InitTypes, NextTypes, PTL DEF Spec
-----------------------------------------------------------------------------
(* The allowlist.                                                          *)

(* What the file of b holds is its own.                                    *)
LEMMA OwnFields ==
    ASSUME NEW b, NEW tc \in ConfigsOf[b]
    PROVE  /\ tc.params.mtu \in Own(b, "mtu") /\ tc.params.port \in Own(b, "port")
           /\ tc.params.tr \in Own(b, "tr") /\ tc.params.junk \in Own(b, "junk")
BY DEF Own

LEMMA RelearnedAllowed ==
    ASSUME StoreOK, AllowInv, NEW b \in BaseIDs, store[b] \in ConfigsOf[b],
           NEW c \in GetCandidates(b), Family(c) = "ai"
    PROVE  Allowed(b, c.params)
<1>1. PICK id \in DOMAIN learned :
          /\ id[1] = b /\ c.id = id
          /\ c = rebuildVariant(store[b], id, learned[id])
  BY Relearned
<1> DEFINE tc == store[b]
           e == learned[id]
<1>2. AllowedEntry(id, e)
  BY <1>1 DEF AllowInv, Copies, Family
<1>3. HasFields(tc) /\ c = rebuildVariant(tc, id, e) /\ tc \in ConfigsOf[b]
  BY <1>1, BaseRead DEF IsBase
<1> HIDE DEF tc, e
<1>4. /\ c.params.mtu = IF e.mtu > 0 THEN e.mtu ELSE tc.params.mtu
      /\ c.params.port = tc.params.port
      /\ c.params.tr = IF tc.protocol = "vless" /\ Says(e.tr) THEN e.tr ELSE tc.params.tr
      /\ ~Says(e.profile) => c.params.junk = tc.params.junk
  BY <1>3, Rebuilt
<1>5. /\ tc.params.mtu \in Own(b, "mtu") /\ tc.params.port \in Own(b, "port")
      /\ tc.params.tr \in Own(b, "tr") /\ tc.params.junk \in Own(b, "junk")
  BY <1>3, OwnFields
<1> QED
  BY <1>1, <1>2, <1>4, <1>5 DEF Allowed, AllowedEntry

LEMMA RecommendedAllowed ==
    ASSUME NEW b \in BaseIDs, NEW tc \in ConfigsOf[b], NEW r, Bounded(r),
           NEW c, c = BuildVariantFromRecommendation(tc, r)
    PROVE  Allowed(b, c.params) /\ BaseIDOf(c) = b
<1>1. HasFields(tc) /\ BaseIDOf(tc) = b
  BY BaseRead DEF IsBase
<1>2. /\ BaseIDOf(c) = BaseIDOf(tc)
      /\ c.params.mtu = tc.params.mtu \/ (r.mtu > 0 /\ c.params.mtu = r.mtu)
      /\ c.params.port = tc.params.port \/ (r.port > 0 /\ c.params.port = r.port)
      /\ c.params.tr = IF tc.protocol = "vless" /\ Says(r.tr) THEN r.tr ELSE tc.params.tr
      /\ c.params.junk = tc.params.junk \/ (Says(r.junk) /\ c.params.junk = r.junk)
  BY <1>1, Recommended
<1>3. /\ tc.params.mtu \in Own(b, "mtu") /\ tc.params.port \in Own(b, "port")
      /\ tc.params.tr \in Own(b, "tr") /\ tc.params.junk \in Own(b, "junk")
  BY OwnFields
<1> QED
  BY <1>1, <1>2, <1>3 DEF Allowed, Bounded

LEMMA PoolAllowed ==
    ASSUME StoreOK, PresetInv, AllowInv, NEW result, BuildPool(result), NEW m \in pool',
           Family(m.tc) = "ai"
    PROVE  Allowed(BaseIDOf(m.tc), m.tc.params)
<1>1. PICK b \in Present :
          \/ m.tc \in GetCandidates(b)
          \/ m.tc = store[b]
          \/ m.tc \in FreshVariants(b, result)
          \/ PresetActive(b) /\ m.tc = presetVariant(b)
  BY PoolMembers
<1>2. b \in BaseIDs /\ store[b] \in ConfigsOf[b]
  BY DEF Present, StoreOK
<1>3. CASE m.tc \in GetCandidates(b)
  <2>1. BaseIDOf(m.tc) = b
    BY <1>2, <1>3, Relearned DEF BaseIDOf
  <2> QED
    BY <1>2, <1>3, <2>1, RelearnedAllowed
<1>4. CASE m.tc = store[b]
  BY <1>2, <1>4, BaseRead
<1>5. CASE m.tc \in FreshVariants(b, result)
  BY <1>2, <1>5, FreshMade DEF MadeOf, Families
<1>6. CASE PresetActive(b) /\ m.tc = presetVariant(b)
  <2> DEFINE r == presets[b].rec
             tc == store[b]
             built == BuildVariantFromRecommendation(tc, r)
  <2>1. IsPreset(presets[b], b)
    BY <1>2, <1>6 DEF PresetActive, PresetInv
  <2>2. r \in probed
    BY <2>1 DEF IsPreset
  <2>3. Bounded(r)
    BY <2>2 DEF AllowInv
  <2>4. m.tc.params = built.params /\ BaseIDOf(m.tc) = b
    BY <1>2, <1>6, PresetVariantParams
  <2> HIDE DEF r
  <2>5. Allowed(b, built.params)
    BY <1>2, <2>3, RecommendedAllowed
  <2> QED
    BY <2>4, <2>5
<1> QED
  BY <1>1, <1>3, <1>4, <1>5, <1>6

(* Candidates, copies and recommendations, each for itself.                *)
AllowedCandidates ==
    \A c \in Candidates : Family(c) = "ai" => Allowed(BaseIDOf(c), c.params)
AllowedEntries ==
    \A db \in Copies : \A id \in DOMAIN db :
        id[2] = "ai" => AllowedEntry(id, db[id])
AllowedAnswers ==
    /\ \A answer \in probed : Bounded(answer)
    /\ phase = "aiProbe" => Bounded(rec)

LEMMA NextAllowedCandidates ==
    ASSUME StoreOK, PresetInv, AllowInv, [Next]_vars
    PROVE  AllowedCandidates'
<1>0. AllowedCandidates
  BY DEF AllowInv, AllowedCandidates
<1>1. ASSUME NEW result, BuildPool(result)
      PROVE  AllowedCandidates'
  <2>1. viable' = viable
    BY <1>1 DEF BuildPool
  <2>2. \A m \in pool' : Family(m.tc) = "ai" => Allowed(BaseIDOf(m.tc), m.tc.params)
    BY <1>1, PoolAllowed
  <2> QED
    BY <1>0, <2>1, <2>2 DEF AllowedCandidates, Candidates
<1>2. ASSUME NEW answer \in Recommendations, Recommend(answer)
      PROVE  AllowedCandidates'
  <2>1. PICK tc \in ConfigsOf[answer.base] :
            viable' = {BuildVariantFromRecommendation(tc, answer)}
    BY <1>2, RecommendedOf DEF StoreOK
  <2>2. /\ answer.base \in BaseIDs /\ pool' = pool
        /\ ValidateRecommendation(answer, MinConfidence)
    BY <1>2, RecommendedOf DEF StoreOK, Recommend, Ask
  <2>3. PICK c : c = BuildVariantFromRecommendation(tc, answer) /\ viable' = {c}
    BY <2>1
  <2>4. Bounded(answer)
    BY <2>2, Validated
  <2>5. Allowed(answer.base, c.params) /\ BaseIDOf(c) = answer.base
    BY <2>2, <2>3, <2>4, RecommendedAllowed
  <2> QED
    BY <1>0, <2>2, <2>3, <2>5 DEF AllowedCandidates, Candidates
<1>3. CASE \E c \in viable : RecordSuccess(c)
  BY <1>0, <1>3 DEF RecordSuccess, AllowedCandidates, Candidates
<1>4. CASE Still
  BY <1>0, <1>4 DEF Still, AllowedCandidates
<1> QED
  BY <1>1, <1>2, <1>3, <1>4, StepsOfCandidates

LEMMA NothingSaid ==
    ASSUME NEW id
    PROVE  AllowedEntry(id, NoEntry)
<1>1. NoEntry.mtu = 0 /\ ~Says(NoEntry.tr) /\ ~Says(NoEntry.profile)
  BY Zenon DEF NoEntry, Says
<1>2. ~(NoEntry.mtu > 0)
  BY <1>1
<1> QED
  BY <1>1, <1>2 DEF AllowedEntry

(* What a success of c leaves in its entry.                                *)
LEMMA EntryOf ==
    ASSUME NEW e, NEW c, NEW new, new = Learned(e, c)
    PROVE  /\ new.mtu = IF c.params.mtu > 0 THEN c.params.mtu ELSE e.mtu
           /\ new.tr = IF c.protocol = "vless" THEN c.params.tr ELSE e.tr
           /\ Family(c) = "ai" /\ ~Says(e.profile) => ~Says(new.profile)
<1> DEFINE profile == IF c.protocol = "awg"
                      THEN IF Family(c) = "awg" THEN c.id[3] ELSE ""
                      ELSE e.profile
<1>1. /\ new.mtu = IF c.params.mtu > 0 THEN c.params.mtu ELSE e.mtu
      /\ new.tr = IF c.protocol = "vless" THEN c.params.tr ELSE e.tr
      /\ new.profile = profile
  BY DEF Learned
<1>2. Family(c) = "ai" /\ ~Says(e.profile) => ~Says(profile)
  BY Zenon DEF Says
<1> QED
  BY <1>1, <1>2, Zenon

LEMMA NextAllowedEntries ==
    ASSUME EntriesOK, OwnBase, AllowInv, [Next]_vars
    PROVE  AllowedEntries'
<1>0. AllowedEntries
  BY DEF AllowInv, AllowedEntries
<1>1. ASSUME NEW c \in viable, RecordSuccess(c)
      PROVE  AllowedEntries'
  <2>1. /\ IsDB(learned) /\ BaseIDOf(c) \in BaseIDs
        /\ Family(c) = "ai" => Allowed(BaseIDOf(c), c.params)
    BY DEF EntriesOK, Copies, OwnBase, Candidates, AllowInv
  <2>2. PICK e : /\ learned' = WithEntry(learned, c.id, Learned(e, c))
                 /\ IF c.id \in DOMAIN learned THEN e = learned[c.id] ELSE e = NoEntry
    BY <1>1, <2>1, EntryRecorded
  <2> DEFINE new == Learned(e, c)
  <2>3. /\ new.mtu = IF c.params.mtu > 0 THEN c.params.mtu ELSE e.mtu
        /\ new.tr = IF c.protocol = "vless" THEN c.params.tr ELSE e.tr
        /\ Family(c) = "ai" /\ ~Says(e.profile) => ~Says(new.profile)
    BY EntryOf
  <2>4. c.id[2] = "ai" => AllowedEntry(c.id, e)
    <3>1. c.id \in DOMAIN learned /\ c.id[2] = "ai" => AllowedEntry(c.id, learned[c.id])
      BY <1>0 DEF AllowedEntries, Copies
    <3> QED
      BY <2>2, <3>1, NothingSaid
  <2> HIDE DEF new
  <2>5. c.id[2] = "ai" => AllowedEntry(c.id, new)
    <3> SUFFICES ASSUME c.id[2] = "ai" PROVE AllowedEntry(c.id, new)
      OBVIOUS
    <3>1. Allowed(c.id[1], c.params) /\ AllowedEntry(c.id, e) /\ ~Says(new.profile)
      BY <2>1, <2>3, <2>4, Zenon DEF Family, BaseIDOf, AllowedEntry
    <3> QED
      BY <2>3, <3>1 DEF Allowed, AllowedEntry
  <2>6. /\ DOMAIN learned' = DOMAIN learned \cup {c.id}
        /\ \A i \in DOMAIN learned' : learned'[i] = IF i = c.id THEN new ELSE learned[i]
    BY <2>2 DEF WithEntry, new
  <2>7. UNCHANGED <<runtimeDB, persistentDB>>
    BY <1>1 DEF RecordSuccess
  <2>8. \A id \in DOMAIN learned' :
            id[2] = "ai" => AllowedEntry(id, learned'[id])
    BY <1>0, <2>5, <2>6 DEF AllowedEntries, Copies
  <2> QED
    BY <1>0, <2>7, <2>8 DEF AllowedEntries, Copies
<1>2. CASE Copies' \subseteq Copies \cup {Empty}
  <2>1. DOMAIN Empty = {}
    BY DEF Empty
  <2> QED
    BY <1>0, <1>2, <2>1 DEF AllowedEntries
<1>3. CASE \/ \E result \in SeenDetections : BuildPool(result)
           \/ \E answer \in Recommendations : Recommend(answer)
  BY <1>2, <1>3 DEF BuildPool, Recommend, Ask, storeVars, Copies
<1> QED
  BY <1>1, <1>2, <1>3, StepsOfCandidates DEF Still

LEMMA NextAllowedAnswers ==
    ASSUME AllowedAnswers, [Next]_vars
    PROVE  AllowedAnswers'
<1>1. CASE \E answer \in Recommendations : Recommend(answer)
  BY <1>1, Validated DEF Recommend, Ask, AllowedAnswers
<1>2. CASE AIProbePasses
  BY <1>2 DEF AIProbePasses, AllowedAnswers
<1>3. ASSUME probed' = probed, phase' # "aiProbe" \/ UNCHANGED <<phase, rec>>
      PROVE  AllowedAnswers'
  BY <1>3 DEF AllowedAnswers
<1>4. CASE \/ \E result \in SeenDetections : BuildPool(result)
           \/ \E passed \in Passed : Probe(passed)
           \/ RateLimited \/ AskInVain \/ AIProbeFails
           \/ \E c \in viable : AttemptFails(c) \/ VerifiedBase(c) \/ RecordSuccess(c)
  BY <1>3, <1>4 DEF BuildPool, Probe, RateLimited, AskInVain, Ask, AIProbeFails,
     AttemptFails, VerifiedBase, RecordSuccess, historyVars
<1>5. CASE \/ WriteRuntime \/ WritePersistent \/ Kill \/ Reboot \/ Start \/ Reload \/ Pass
           \/ \E b \in BaseIDs : \E tc \in ConfigsOf[b] \cup {Absent} : EditConfig(b, tc)
           \/ UNCHANGED vars
  BY <1>3, <1>5 DEF WriteRuntime, WritePersistent, Kill, Reboot, Start, Reload, Pass,
     EditConfig, vars, roundVars, historyVars
<1> QED
  BY <1>1, <1>2, <1>4, <1>5 DEF Next
(***************************************************************************)
(* No answer of the provider, whatever became of it, a candidate, a preset *)
(* over restarts or a learned entry in any of its copies, brings into a    *)
(* candidate an MTU, a port, a transport or an AWG profile that            *)
(* ValidateRecommendation refuses.                                         *)
(***************************************************************************)
THEOREM AIAlwaysOnAllowlist == Spec => []AIStaysOnAllowlist
<1> DEFINE Inv == TypeInv /\ PresetInv /\ AllowInv
<1>1. Init => Inv
  <2> SUFFICES ASSUME Init PROVE AllowInv
    BY InitTypes, InitPresets
  <2>1. /\ pool = {} /\ viable = {} /\ probed = {} /\ phase = "idle"
        /\ learned = Empty /\ runtimeDB = Unreadable /\ persistentDB = Unreadable
    BY DEF Init
  <2>2. DOMAIN Empty = {}
    BY DEF Empty
  <2> QED
    BY <2>1, <2>2 DEF AllowInv, Candidates, Copies
<1>2. Inv /\ [Next]_vars => Inv'
  <2> SUFFICES ASSUME Inv, [Next]_vars PROVE Inv'
    OBVIOUS
  <2>1. TypeInv' /\ PresetInv'
    BY NextTypes, NextPresets
  <2>2. AllowedCandidates' /\ AllowedEntries'
    BY NextAllowedCandidates, NextAllowedEntries DEF TypeInv
  <2>3. AllowedAnswers'
    BY NextAllowedAnswers DEF AllowInv, AllowedAnswers
  <2>4. AllowInv'
    BY <2>2, <2>3 DEF AllowInv, AllowedCandidates, AllowedEntries, AllowedAnswers
  <2> QED
    BY <2>1, <2>4
<1>3. Inv => AIStaysOnAllowlist
  BY DEF AllowInv, AIStaysOnAllowlist, Candidates, Allowed, Own, MTURange, PortRange,
     AllowedTransports
<1> QED
  BY <1>1, <1>2, <1>3, PTL DEF Spec
-----------------------------------------------------------------------------
(* What was learned.                                                       *)

LEMMA TheProtocol ==
    ASSUME OneProtocol, NEW b \in BaseIDs, NEW tc \in ConfigsOf[b]
    PROVE  ProtocolOf(b) = tc.protocol
BY DEF OneProtocol, ProtocolOf

LEMMA SoundBase ==
    ASSUME OneProtocol, NEW b \in BaseIDs, NEW tc \in ConfigsOf[b]
    PROVE  /\ Sound(tc) /\ HasFields(tc) /\ BaseIDOf(tc) = b
           /\ tc.protocol = ProtocolOf(b)
           /\ tc.protocol # "vless" => ~Says(tc.params.fp) /\ ~Says(tc.params.tr)
<1>1. /\ IsBase(tc) /\ BaseIDOf(tc) = b /\ Family(tc) = "base"
      /\ tc.protocol # "vless" => tc.params.fp = "" /\ tc.params.tr = ""
  BY BaseRead
<1>2. tc.protocol = ProtocolOf(b)
  BY TheProtocol
<1> QED
  BY <1>1, <1>2 DEF Sound, Says, IsBase

LEMMA SoundRelearned ==
    ASSUME OneProtocol, SoundEntries, NEW b \in BaseIDs, store[b] \in ConfigsOf[b],
           NEW c \in GetCandidates(b)
    PROVE  Sound(c)
<1>1. PICK id \in DOMAIN learned :
          /\ id[1] = b /\ c.id = id
          /\ c = rebuildVariant(store[b], id, learned[id])
  BY Relearned
<1> DEFINE tc == store[b]
           e == learned[id]
<1>2. SoundEntry(id, e)
  BY <1>1 DEF SoundEntries, Copies
<1>3. /\ HasFields(tc) /\ tc.protocol = ProtocolOf(b)
      /\ tc.protocol # "vless" => ~Says(tc.params.fp) /\ ~Says(tc.params.tr)
      /\ c = rebuildVariant(tc, id, e)
  BY <1>1, SoundBase
<1> HIDE DEF tc, e
<1>4. /\ c.protocol = tc.protocol
      /\ c.params.fp = IF tc.protocol = "vless" /\ Says(e.fp) THEN e.fp ELSE tc.params.fp
      /\ c.params.tr = IF tc.protocol = "vless" /\ Says(e.tr) THEN e.tr ELSE tc.params.tr
      /\ tc.protocol = "awg" /\ Says(e.profile)
            => c.params.junk = e.profile /\ c.params.pads = PadsOf(e.profile)
  BY <1>3, Rebuilt
<1>5. BaseIDOf(c) = b /\ Family(c) = id[2] /\ c.id[3] = id[3]
  BY <1>1, Zenon DEF BaseIDOf, Family
<1>6. c.protocol # "vless" => ~Says(c.params.fp) /\ ~Says(c.params.tr)
  BY <1>3, <1>4, Zenon
<1>7. ASSUME Family(c) = "awg"
      PROVE  /\ c.protocol = "awg" /\ Says(c.id[3])
             /\ c.params.junk = c.id[3] /\ c.params.pads = PadsOf(c.id[3])
  <2>1. ProtocolOf(b) = "awg" /\ e.profile = id[3] /\ Says(id[3])
    BY <1>1, <1>2, <1>5, <1>7, Zenon DEF SoundEntry
  <2> QED
    BY <1>3, <1>4, <1>5, <2>1, Zenon
<1> QED
  BY <1>3, <1>4, <1>5, <1>6, <1>7, Zenon DEF Sound

LEMMA SoundMade ==
    ASSUME OneProtocol, NEW b \in BaseIDs, store[b] \in ConfigsOf[b], NEW result,
           NEW c \in FreshVariants(b, result)
    PROVE  Sound(c)
<1>1. MadeOf(c, store[b])
  BY FreshMade
<1>2. /\ BaseIDOf(store[b]) = b /\ store[b].protocol = ProtocolOf(b)
      /\ store[b].protocol # "vless"
            => ~Says(store[b].params.fp) /\ ~Says(store[b].params.tr)
  BY SoundBase
<1>3. \A x \in ToSet(Profiles) : Says(x)
  BY ProfilesAssumption DEF Says
<1> QED
  BY <1>1, <1>2, <1>3, Zenon DEF MadeOf, Sound

LEMMA SoundRecommended ==
    ASSUME OneProtocol, NEW b \in BaseIDs, NEW tc \in ConfigsOf[b], NEW r, NEW c,
           c = BuildVariantFromRecommendation(tc, r)
    PROVE  /\ Sound(c) /\ c.protocol = ProtocolOf(b)
           /\ c.protocol # "vless" => ~Says(c.params.fp) /\ ~Says(c.params.tr)
<1>1. /\ HasFields(tc) /\ BaseIDOf(tc) = b /\ tc.protocol = ProtocolOf(b)
      /\ tc.protocol # "vless" => ~Says(tc.params.fp) /\ ~Says(tc.params.tr)
  BY SoundBase
<1>2. /\ BaseIDOf(c) = BaseIDOf(tc) /\ Family(c) = "ai"
      /\ c = [id |-> c.id, protocol |-> tc.protocol, params |-> c.params]
      /\ c.params.tr = IF tc.protocol = "vless" /\ Says(r.tr) THEN r.tr ELSE tc.params.tr
      /\ tc.protocol # "vless" => c.params.fp = tc.params.fp
  BY <1>1, Recommended
<1>3. c.protocol = tc.protocol
  <2>1. \A i, p, q : c = [id |-> i, protocol |-> p, params |-> q] => c.protocol = p
    OBVIOUS
  <2> QED
    BY <1>2, <2>1, Zenon
<1>4. BaseIDOf(c) = b /\ Family(c) = "ai"
  BY <1>1, <1>2
<1>5. c.protocol # "vless" => ~Says(c.params.fp) /\ ~Says(c.params.tr)
  BY <1>1, <1>2, <1>3, Zenon
<1> QED
  BY <1>1, <1>3, <1>4, <1>5 DEF Sound
LEMMA SoundPool ==
    ASSUME OneProtocol, StoreOK, SoundInv, NEW result, BuildPool(result), NEW m \in pool'
    PROVE  Sound(m.tc)
<1>1. PICK b \in Present :
          \/ m.tc \in GetCandidates(b)
          \/ m.tc = store[b]
          \/ m.tc \in FreshVariants(b, result)
          \/ PresetActive(b) /\ m.tc = presetVariant(b)
  BY PoolMembers
<1>2. b \in BaseIDs /\ store[b] \in ConfigsOf[b]
  BY DEF Present, StoreOK
<1>3. CASE m.tc \in GetCandidates(b)
  BY <1>2, <1>3, SoundRelearned DEF SoundInv
<1>4. CASE m.tc = store[b]
  BY <1>2, <1>4, SoundBase
<1>5. CASE m.tc \in FreshVariants(b, result)
  BY <1>2, <1>5, SoundMade
<1>6. CASE m.tc = presetVariant(b)
  <2> DEFINE tc == store[b]
             v == presetVariant(b)
  <2>1. PICK c : c = BuildVariantFromRecommendation(tc, presets[b].rec)
    OBVIOUS
  <2>2. v.id = <<b, "ai", "preset">> /\ v.protocol = tc.protocol /\ v.params = c.params
    BY <1>2, <2>1, PresetVariant
  <2>3. tc \in ConfigsOf[b]
    BY <1>2
  <2> HIDE DEF v, tc
  <2>4. /\ c.protocol = ProtocolOf(b)
        /\ c.protocol # "vless" => ~Says(c.params.fp) /\ ~Says(c.params.tr)
        /\ tc.protocol = ProtocolOf(b)
    BY <1>2, <2>1, <2>3, SoundRecommended, SoundBase
  <2>5. BaseIDOf(v) = b /\ Family(v) = "ai"
    BY <2>2, IDParts, Zenon
  <2>6. Sound(v)
    BY <2>2, <2>4, <2>5 DEF Sound
  <2> QED
    BY <1>6, <2>6 DEF v
<1> QED
  BY <1>1, <1>3, <1>4, <1>5, <1>6

LEMMA NextSoundCandidates ==
    ASSUME OneProtocol, StoreOK, SoundInv, [Next]_vars
    PROVE  SoundCandidates'
<1>0. SoundCandidates
  BY DEF SoundInv
<1>1. ASSUME NEW result, BuildPool(result)
      PROVE  SoundCandidates'
  <2>1. viable' = viable
    BY <1>1 DEF BuildPool
  <2>2. \A m \in pool' : Sound(m.tc)
    BY <1>1, SoundPool
  <2> QED
    BY <1>0, <2>1, <2>2 DEF SoundCandidates, Candidates
<1>2. ASSUME NEW answer \in Recommendations, Recommend(answer)
      PROVE  SoundCandidates'
  <2>1. PICK tc \in ConfigsOf[answer.base] :
            viable' = {BuildVariantFromRecommendation(tc, answer)}
    BY <1>2, RecommendedOf DEF StoreOK
  <2>2. answer.base \in BaseIDs /\ pool' = pool
    BY <1>2, RecommendedOf DEF StoreOK, Recommend, Ask
  <2>3. PICK c : c = BuildVariantFromRecommendation(tc, answer) /\ viable' = {c}
    BY <2>1
  <2>4. Sound(c)
    BY <2>2, <2>3, SoundRecommended
  <2> QED
    BY <1>0, <2>2, <2>3, <2>4 DEF SoundCandidates, Candidates
<1>3. CASE \E c \in viable : RecordSuccess(c)
  BY <1>0, <1>3 DEF RecordSuccess, SoundCandidates, Candidates
<1>4. CASE Still
  BY <1>0, <1>4 DEF Still, SoundCandidates
<1> QED
  BY <1>1, <1>2, <1>3, <1>4, StepsOfCandidates

LEMMA NextSoundEntries ==
    ASSUME EntriesOK, OwnBase, SoundInv, [Next]_vars
    PROVE  SoundEntries'
<1>0. SoundEntries
  BY DEF SoundInv
<1>1. ASSUME NEW c \in viable, RecordSuccess(c)
      PROVE  SoundEntries'
  <2>1. IsDB(learned) /\ BaseIDOf(c) \in BaseIDs /\ Sound(c)
    BY DEF EntriesOK, Copies, OwnBase, Candidates, SoundInv, SoundCandidates
  <2>2. PICK e : learned' = WithEntry(learned, c.id, Learned(e, c))
    BY <1>1, <2>1, EntryRecorded
  <2> DEFINE new == Learned(e, c)
  <2>3. c.protocol = "awg" /\ Family(c) = "awg" => new.profile = c.id[3]
    BY DEF Learned
  <2> HIDE DEF new
  <2>4. SoundEntry(c.id, new)
    BY <2>1, <2>3, Zenon DEF Sound, SoundEntry, Family, BaseIDOf
  <2>5. /\ DOMAIN learned' = DOMAIN learned \cup {c.id}
        /\ \A i \in DOMAIN learned' : learned'[i] = IF i = c.id THEN new ELSE learned[i]
    BY <2>2 DEF WithEntry, new
  <2>6. UNCHANGED <<runtimeDB, persistentDB>>
    BY <1>1 DEF RecordSuccess
  <2>7. \A id \in DOMAIN learned' : SoundEntry(id, learned'[id])
    BY <1>0, <2>4, <2>5 DEF SoundEntries, Copies
  <2> QED
    BY <1>0, <2>6, <2>7 DEF SoundEntries, Copies
<1>2. CASE Copies' \subseteq Copies \cup {Empty}
  <2>1. DOMAIN Empty = {}
    BY DEF Empty
  <2> QED
    BY <1>0, <1>2, <2>1 DEF SoundEntries
<1>3. CASE \/ \E result \in SeenDetections : BuildPool(result)
           \/ \E answer \in Recommendations : Recommend(answer)
  BY <1>2, <1>3 DEF BuildPool, Recommend, Ask, storeVars, Copies
<1> QED
  BY <1>1, <1>2, <1>3, StepsOfCandidates DEF Still

(* A success puts into the entry what its candidate has.                   *)
LEMMA LearnedFits ==
    ASSUME NEW c, Sound(c), NEW e
    PROVE  Fitting(c.id, Learned(e, c), c.params)
<1> DEFINE new == Learned(e, c)
           p == c.params
<1>1. /\ new.mtu = IF p.mtu > 0 THEN p.mtu ELSE e.mtu
      /\ c.protocol = "vless" => new.fp = p.fp /\ new.tr = p.tr
      /\ c.protocol = "awg" /\ Family(c) = "awg" => new.profile = c.id[3]
  BY DEF Learned
<1> HIDE DEF new, p
<1>2. p.mtu > 0 => new.mtu = p.mtu
  BY <1>1
<1>3. Says(p.fp) => ProtocolOf(c.id[1]) = "vless" /\ new.fp = p.fp
  BY <1>1, Zenon DEF Sound, BaseIDOf, p
<1>4. Says(p.tr) => ProtocolOf(c.id[1]) = "vless" /\ new.tr = p.tr
  BY <1>1, Zenon DEF Sound, BaseIDOf, p
<1>5. c.id[2] = "awg" => /\ ProtocolOf(c.id[1]) = "awg" /\ Says(new.profile)
                         /\ p.junk = new.profile /\ p.pads = PadsOf(new.profile)
  BY <1>1, Zenon DEF Sound, BaseIDOf, Family, p
<1> QED
  BY <1>2, <1>3, <1>4, <1>5, Zenon DEF Fitting, new, p
LEMMA RecordKept ==
    ASSUME KeptInv, SoundInv, EntriesOK, OwnBase, NEW c \in viable, RecordSuccess(c)
    PROVE  KeptInv'
<1>1. IsDB(learned) /\ BaseIDOf(c) \in BaseIDs /\ Sound(c)
  BY DEF EntriesOK, Copies, OwnBase, Candidates, SoundInv, SoundCandidates
<1>2. PICK e : learned' = WithEntry(learned, c.id, Learned(e, c))
  BY <1>1, EntryRecorded
<1> DEFINE new == Learned(e, c)
<1>3. Fitting(c.id, new, c.params)
  BY <1>1, LearnedFits
<1> HIDE DEF new
<1>4. /\ DOMAIN learned' = DOMAIN learned \cup {c.id}
      /\ \A i \in DOMAIN learned' : learned'[i] = IF i = c.id THEN new ELSE learned[i]
  BY <1>2 DEF WithEntry, new
<1>5. /\ phase = "try" /\ phase' = "saveRuntime" /\ viable' = {c}
      /\ UNCHANGED <<runtimeDB, persistentDB, worked, cut, hurt>>
  BY DEF RecordSuccess, historyVars
<1>6. \A id, x : Kept(id, x)' <=> Kept(id, x)
  BY <1>5 DEF Kept, Success
<1>7. \A db : AllKept(db)' <=> AllKept(db)
  BY <1>5, <1>6 DEF AllKept
<1>8. ~hurt => Ahead(c)'
  <2>1. ~hurt => AllKept(learned)
    BY <1>5 DEF KeptInv, Saving
  <2>2. ~hurt => \A id \in (DOMAIN worked \cap DOMAIN learned') \ {c.id} :
                    Kept(id, learned'[id])
    BY <1>4, <2>1 DEF AllKept
  <2>3. c.id \in DOMAIN learned' /\ learned'[c.id] = new
    BY <1>4
  <2> QED
    BY <1>3, <1>5, <1>6, <2>2, <2>3 DEF Ahead
<1> QED
  BY <1>5, <1>7, <1>8 DEF KeptInv, Saving

LEMMA WriteRuntimeKept ==
    ASSUME KeptInv, WriteRuntime
    PROVE  KeptInv'
<1>1. /\ phase = "saveRuntime" /\ phase' = "savePersistent"
      /\ UNCHANGED <<learned, persistentDB, worked, cut, viable>>
      /\ (runtimeDB' = learned /\ hurt' = hurt) \/ hurt' = TRUE
  BY DEF WriteRuntime
<1>2. \A db : AllKept(db)' <=> AllKept(db)
  BY <1>1 DEF AllKept, Kept, Success
<1>3. \A c : Ahead(c)' <=> Ahead(c)
  BY <1>1 DEF Ahead, Kept, Success
<1> QED
  BY <1>1, <1>2, <1>3 DEF KeptInv, Saving

LEMMA WritePersistentKept ==
    ASSUME KeptInv, CopiesInv, WritePersistent
    PROVE  KeptInv'
<1>1. /\ phase = "savePersistent" /\ phase' = "idle"
      /\ UNCHANGED <<learned, runtimeDB, cut>>
      /\ (persistentDB' = learned /\ hurt' = hurt) \/ hurt' = TRUE
      /\ worked' = WithEntry(worked, Only(viable).id, Only(viable).params)
  BY DEF WritePersistent
<1>2. CASE hurt' = TRUE
  BY <1>2 DEF KeptInv
<1>3. CASE persistentDB' = learned /\ ~hurt /\ hurt' = hurt
  <2>1. PICK c : viable = {c} /\ Ahead(c)
    BY <1>1, <1>3 DEF KeptInv, Saving
  <2>2. Only(viable) = c
    BY <2>1 DEF Only
  <2>3. /\ DOMAIN worked' = DOMAIN worked \cup {c.id}
        /\ \A i \in DOMAIN worked' : worked'[i] = IF i = c.id THEN c.params ELSE worked[i]
    BY <1>1, <2>2 DEF WithEntry
  <2>4. ASSUME NEW id \in DOMAIN worked', id \in DOMAIN learned
        PROVE  Kept(id, learned[id])'
    <3>1. CASE id = c.id
      <4>1. worked'[id] = c.params
        BY <2>3, <3>1
      <4>2. Fitting(id, learned[id], worked'[id])
        BY <2>1, <3>1, <4>1 DEF Ahead
      <4> QED
        BY <1>1, <4>2 DEF Kept, Success
    <3>2. CASE id # c.id
      <4>1. worked'[id] = worked[id] /\ Kept(id, learned[id])
        BY <2>1, <2>3, <2>4, <3>2 DEF Ahead
      <4> QED
        BY <1>1, <4>1 DEF Kept, Success
    <3> QED
      BY <3>1, <3>2
  <2>5. AllKept(learned)'
    BY <1>1, <2>4 DEF AllKept
  <2>6. runtimeDB = learned
    BY <1>1, <1>3 DEF KeptInv
  <2> QED
    BY <1>1, <1>3, <2>5, <2>6 DEF KeptInv, Saving, AllKept
<1> QED
  BY <1>1, <1>2, <1>3

LEMMA KillKept ==
    ASSUME KeptInv, Kill
    PROVE  KeptInv'
<1>1. /\ phase # "down" /\ phase' = "down" /\ UNCHANGED <<learned, worked>>
      /\ hurt' = (hurt \/ BothLost)
      /\ runtimeDB' = runtimeDB \/ (phase = "saveRuntime" /\ runtimeDB' = Unreadable)
      /\ persistentDB' = persistentDB
            \/ (phase = "savePersistent" /\ persistentDB' = Unreadable)
      /\ cut' = IF phase \in Saving THEN cut \cup viable ELSE cut
  BY DEF Kill
<1>2. \A id, e : Kept(id, e) => Kept(id, e)'
  <2>1. cut \subseteq cut'
    BY <1>1
  <2> QED
    BY <1>1, <2>1 DEF Kept, Success
<1>3. \A db : AllKept(db) => AllKept(db)'
  BY <1>1, <1>2 DEF AllKept
<1>4. ASSUME ~hurt, phase = "savePersistent"
      PROVE  AllKept(learned)'
  <2>1. PICK c : viable = {c} /\ Ahead(c)
    BY <1>4 DEF KeptInv, Saving
  <2>2. c \in cut'
    BY <1>1, <1>4, <2>1 DEF Saving
  <2>3. Kept(c.id, learned[c.id])'
    BY <1>1, <2>1, <2>2 DEF Ahead, Kept, Success
  <2>4. ASSUME NEW id \in DOMAIN worked \cap DOMAIN learned
        PROVE  Kept(id, learned[id])'
    BY <1>1, <1>2, <2>1, <2>3 DEF Ahead
  <2> QED
    BY <1>1, <2>4 DEF AllKept
<1>5. ~hurt /\ phase = "savePersistent" => runtimeDB = learned
  BY DEF KeptInv
<1> QED
  BY <1>1, <1>3, <1>4, <1>5 DEF KeptInv, Saving

LEMMA DownKept ==
    ASSUME KeptInv, Reboot \/ Start
    PROVE  KeptInv'
<1>1. UNCHANGED <<worked, cut>>
  BY DEF Reboot, Start
<1>2. \A db : AllKept(db)' <=> AllKept(db)
  BY <1>1 DEF AllKept, Kept, Success
<1>3. CASE Reboot
  <2>1. /\ phase = "down" /\ runtimeDB' = Unreadable
        /\ UNCHANGED <<learned, phase, persistentDB>> /\ (hurt => hurt')
    BY <1>3 DEF Reboot, roundVars
  <2> QED
    BY <1>2, <2>1 DEF KeptInv, Saving
<1>4. CASE Start
  <2>1. /\ phase = "down" /\ phase' = "idle"
        /\ learned' = IF persistentDB # Unreadable THEN persistentDB
                      ELSE IF runtimeDB # Unreadable THEN runtimeDB ELSE Empty
        /\ UNCHANGED <<runtimeDB, persistentDB, hurt>>
    BY <1>4 DEF Start, load
  <2>2. AllKept(Empty)
    BY DEF AllKept, Empty
  <2> QED
    BY <1>2, <2>1, <2>2 DEF KeptInv, Saving
<1> QED
  BY <1>3, <1>4

LEMMA NextKept ==
    ASSUME KeptInv, CopiesInv, SoundInv, EntriesOK, OwnBase, [Next]_vars
    PROVE  KeptInv'
<1>1. CASE \E c \in viable : RecordSuccess(c)
  BY <1>1, RecordKept
<1>2. CASE WriteRuntime \/ WritePersistent \/ Kill \/ Reboot \/ Start
  BY <1>2, WriteRuntimeKept, WritePersistentKept, KillKept, DownKept
<1>3. ASSUME UNCHANGED <<learned, runtimeDB, persistentDB, worked, cut, hurt>>,
             \/ phase \notin Saving \cup {"down"} /\ phase' \notin Saving \cup {"down"}
             \/ UNCHANGED <<phase, viable>>
      PROVE  KeptInv'
  <2>1. /\ \A db : AllKept(db)' <=> AllKept(db)
        /\ \A c : Ahead(c)' <=> Ahead(c)
    BY <1>3 DEF AllKept, Ahead, Kept, Success
  <2> QED
    BY <1>3, <2>1 DEF KeptInv, Saving
<1>4. CASE \/ \E result \in SeenDetections : BuildPool(result)
           \/ \E passed \in Passed : Probe(passed)
           \/ RateLimited \/ AskInVain
           \/ \E answer \in Recommendations : Recommend(answer)
  BY <1>3, <1>4 DEF BuildPool, Probe, RateLimited, AskInVain, Recommend, Ask, Saving,
     storeVars, aiVars, historyVars
<1>5. CASE \/ AIProbePasses \/ AIProbeFails
           \/ \E c \in viable : AttemptFails(c) \/ VerifiedBase(c)
  BY <1>3, <1>5 DEF AIProbePasses, AIProbeFails, AttemptFails, VerifiedBase, Saving,
     storeVars, aiVars, historyVars
<1>6. CASE \/ Reload
           \/ \E b \in BaseIDs : \E tc \in ConfigsOf[b] \cup {Absent} : EditConfig(b, tc)
           \/ Pass \/ UNCHANGED vars
  BY <1>3, <1>6 DEF Reload, EditConfig, Pass, vars, storeVars, aiVars, roundVars,
     historyVars
<1> QED
  BY <1>1, <1>2, <1>4, <1>5, <1>6 DEF Next
(* An entry that fits is rebuilt as it worked.                             *)
LEMMA FittingWorks ==
    ASSUME OneProtocol, StoreOK, NEW id, id[1] \in Present, NEW p,
           Fitting(id, learned[id], p)
    PROVE  AsItWorked(id, p)
<1> DEFINE b == id[1]
           tc == store[b]
           e == learned[id]
<1>1. PICK c : c = rebuildVariant(tc, id, e)
  OBVIOUS
<1>2. b \in BaseIDs /\ tc \in ConfigsOf[b]
  BY DEF Present, StoreOK
<1>3. Fitting(id, e, p)
  OBVIOUS
<1> HIDE DEF b, tc, e
<1>4. HasFields(tc) /\ tc.protocol = ProtocolOf(b)
  BY <1>2, SoundBase
<1>5. /\ e.mtu > 0 => c.params.mtu = e.mtu
      /\ c.params.fp = IF tc.protocol = "vless" /\ Says(e.fp) THEN e.fp ELSE tc.params.fp
      /\ c.params.tr = IF tc.protocol = "vless" /\ Says(e.tr) THEN e.tr ELSE tc.params.tr
      /\ tc.protocol = "awg" /\ Says(e.profile)
            => c.params.junk = e.profile /\ c.params.pads = PadsOf(e.profile)
  BY <1>1, <1>4, Rebuilt
<1>6. p.mtu > 0 => c.params.mtu = p.mtu
  BY <1>3, <1>5 DEF Fitting
<1>7. Says(p.fp) => c.params.fp = p.fp
  BY <1>3, <1>4, <1>5, Zenon DEF Fitting, b
<1>8. Says(p.tr) => c.params.tr = p.tr
  BY <1>3, <1>4, <1>5, Zenon DEF Fitting, b
<1>9. id[2] = "awg" => c.params.junk = p.junk /\ c.params.pads = p.pads
  BY <1>3, <1>4, <1>5, Zenon DEF Fitting, b
<1>10. c = rebuildVariant(store[id[1]], id, learned[id])
  BY <1>1 DEF b, tc, e
<1> QED
  BY <1>6, <1>7, <1>8, <1>9, <1>10, Zenon DEF AsItWorked, Says

(***************************************************************************)
(* What an entry stores of a success, the MTU, the fingerprint, the        *)
(* transport and the AWG profile, is in the rebuilt candidate what it was  *)
(* when it carried traffic the last time, or in a success a kill cut       *)
(* short, whichever copy it was loaded from and however its base config    *)
(* was edited within its protocol (RecordSuccess, save, load,              *)
(* rebuildVariant).  Of the other parameters nothing is said.              *)
(***************************************************************************)
THEOREM LearnedAlwaysAsItWorked ==
    ASSUME OneProtocol
    PROVE  Spec => []LearnedAsItWorked
<1> DEFINE Inv == TypeInv /\ CopiesInv /\ SoundInv /\ KeptInv
<1>1. Init => Inv
  <2> SUFFICES ASSUME Init PROVE SoundInv /\ KeptInv
    BY InitTypes, InitCopies
  <2>1. /\ pool = {} /\ viable = {} /\ phase = "idle" /\ worked = NothingWorked
        /\ learned = Empty /\ runtimeDB = Unreadable /\ persistentDB = Unreadable
    BY DEF Init
  <2>2. DOMAIN Empty = {} /\ DOMAIN NothingWorked = {}
    BY DEF Empty, NothingWorked
  <2>3. SoundInv
    BY <2>1, <2>2 DEF SoundInv, SoundCandidates, SoundEntries, Candidates, Copies
  <2>4. KeptInv
    BY <2>1, <2>2 DEF KeptInv, AllKept, Saving
  <2> QED
    BY <2>3, <2>4
<1>2. Inv /\ [Next]_vars => Inv'
  <2> SUFFICES ASSUME Inv, [Next]_vars PROVE Inv'
    OBVIOUS
  <2>1. TypeInv' /\ CopiesInv'
    BY NextTypes, NextCopies
  <2>2. SoundInv'
    BY NextSoundCandidates, NextSoundEntries DEF TypeInv, SoundInv
  <2>3. KeptInv'
    BY NextKept DEF TypeInv
  <2> QED
    BY <2>1, <2>2, <2>3
<1>3. Inv => LearnedAsItWorked
  <2> SUFFICES ASSUME Inv, phase \notin Saving \cup {"down"}, ~hurt,
                      NEW id \in DOMAIN worked \cap DOMAIN learned, id[1] \in Present
               PROVE  \E p \in {worked[id]} \cup {c.params : c \in {d \in cut : d.id = id}} :
                          AsItWorked(id, p)
    BY DEF LearnedAsItWorked
  <2>1. PICK p \in Success(id) : Fitting(id, learned[id], p)
    BY DEF KeptInv, AllKept, Kept
  <2>2. AsItWorked(id, p)
    BY <2>1, FittingWorks DEF TypeInv
  <2> QED
    BY <2>2 DEF Success
<1> QED
  BY <1>1, <1>2, <1>3, PTL DEF Spec
-----------------------------------------------------------------------------
(***************************************************************************)
(* What the detection is for: the ID's family and base of a fresh variant  *)
(* are those it was generated with, and the reason's prefix goes with the  *)
(* block (only a certificate error is a TLS reason without one).           *)
(***************************************************************************)
LEMMA Detected ==
    ASSUME NEW result \in SeenDetections
    PROVE  /\ result.confidence \in Int
           /\ result.reason[1] = "tls" => result.block # "http_dpi"
           /\ result.reason[1] = "http" => result.block = "http_dpi"
<1> DEFINE Told(r) == /\ r.confidence \in Int
                      /\ r.reason[1] = "tls" => r.block # "http_dpi"
                      /\ r.reason[1] = "http" => r.block = "http_dpi"
<1>1. PICK net \in Networks : result = Detect(net)
  BY NetworksAssumption DEF SeenDetections
<1>2. ASSUME NEW block, NEW reason, NEW confidence \in Int,
             reason[1] = "tls" => block # "http_dpi",
             reason[1] = "http" => block = "http_dpi"
      PROVE  Told(DetectionResult(block, reason, confidence))
  BY <1>2 DEF DetectionResult
<1> HIDE DEF Told
<1>3. ASSUME NEW outcome \in TCPOutcomes \ {"ok"} PROVE Told(classifyTCPError(outcome))
  <2>1. \A x : <<"tcp", x>>[1] = "tcp"
    OBVIOUS
  <2>2. \A x, block : \A n \in Int : Told(DetectionResult(block, <<"tcp", x>>, n))
    BY <1>2, <2>1
  <2>3. {90, 80, 30, 70, 55} \subseteq Int
    OBVIOUS
  <2> QED
    BY <2>2, <2>3 DEF classifyTCPError, TCPOutcomes
<1>4. ASSUME NEW outcome PROVE Told(classifyHTTPError(outcome))
  <2>1. \A x : <<"http", x>>[1] = "http"
    OBVIOUS
  <2>2. \A x : \A n \in Int : Told(DetectionResult("http_dpi", <<"http", x>>, n))
    BY <1>2, <2>1
  <2>3. {85, 55} \subseteq Int
    OBVIOUS
  <2> QED
    BY <2>2, <2>3 DEF classifyHTTPError
<1>5. ASSUME NEW outcome \in TLSOutcomes \ {"ok"}, NEW httpOK \in BOOLEAN
      PROVE  Told(classifyTLSError(outcome, httpOK))
  <2>1. \A x : <<"tls", x>>[1] = "tls"
    OBVIOUS
  <2>2. \A x : \A block \in {"none", "tls_dpi"} : \A n \in Int :
            Told(DetectionResult(block, <<"tls", x>>, n))
    BY <1>2, <2>1
  <2>3. {90, 70, 65, 60, 50, 45, 40} \subseteq Int
    OBVIOUS
  <2> QED
    BY <2>2, <2>3 DEF classifyTLSError, TLSOutcomes
<1>6. /\ \A n \in Int : Told(DetectionResult("none", <<"no_probe_targets">>, n))
      /\ \A n \in Int : Told(DetectionResult("none", <<"ok">>, n))
  <2>1. \A x : <<x>>[1] = x
    OBVIOUS
  <2> QED
    BY <1>2, <2>1
<1>7. /\ net.targets \in BOOLEAN /\ net.tcp \in TCPOutcomes /\ net.tls \in TLSOutcomes
  BY <1>1 DEF Networks
<1>8. Told(Detect(net))
  <2>1. CASE ~net.targets
    <3>1. Detect(net) = DetectionResult("none", <<"no_probe_targets">>, 95)
      BY <2>1 DEF Detect
    <3> QED
      BY <1>6, <3>1
  <2>2. CASE net.targets /\ net.tcp # "ok"
    <3>1. Detect(net) = classifyTCPError(net.tcp)
      BY <2>2 DEF Detect
    <3> QED
      BY <1>3, <1>7, <2>2, <3>1
  <2>3. CASE net.targets /\ net.tcp = "ok" /\ likelyDPI(net.http)
    <3>1. Detect(net) = classifyHTTPError(net.http)
      BY <2>3 DEF Detect
    <3> QED
      BY <1>4, <3>1
  <2>4. CASE net.targets /\ net.tcp = "ok" /\ ~likelyDPI(net.http) /\ net.tls # "ok"
    <3> DEFINE httpOK == net.http = "ok"
    <3>1. Detect(net) = classifyTLSError(net.tls, httpOK)
      BY <2>4 DEF Detect
    <3>2. httpOK \in BOOLEAN
      OBVIOUS
    <3> HIDE DEF httpOK
    <3> QED
      BY <1>5, <1>7, <2>4, <3>1, <3>2
  <2>5. CASE net.targets /\ net.tcp = "ok" /\ ~likelyDPI(net.http) /\ net.tls = "ok"
    <3> DEFINE confidence == IF net.http = "ok" THEN 95 ELSE 75
    <3>1. Detect(net) = DetectionResult("none", <<"ok">>, confidence)
      BY <2>5 DEF Detect
    <3>2. confidence \in Int
      OBVIOUS
    <3> HIDE DEF confidence
    <3> QED
      BY <1>6, <3>1, <3>2
  <2> QED
    BY <1>7, <2>1, <2>2, <2>3, <2>4, <2>5
<1> QED
  BY <1>1, <1>8 DEF Told

LEMMA FreshJoins ==
    ASSUME NEW result, BuildPool(result), NEW b \in Present,
           store[b] \in ConfigsOf[b], NEW c \in FreshVariants(b, result)
    PROVE  [from |-> "fresh", tc |-> c] \in FreshOf(b, Family(c))
<1> DEFINE m == [from |-> "fresh", tc |-> c]
<1>1. m \in pool'
  <2>1. m \in Listed("fresh", FreshVariants(b, result))
    BY DEF Listed
  <2> HIDE DEF m
  <2> QED
    BY <2>1 DEF BuildPool
<1>2. b \in BaseIDs
  BY DEF Present
<1>3. BaseIDOf(c) = b
  <2>1. MadeOf(c, store[b])
    BY <1>2, FreshMade
  <2>2. BaseIDOf(store[b]) = b
    BY <1>2, BaseRead, Zenon
  <2> QED
    BY <2>1, <2>2, Zenon DEF MadeOf
<1>4. m.from = "fresh" /\ m.tc = c
  OBVIOUS
<1> HIDE DEF m
<1>5. m \in FreshOf(b, Family(c))
  BY <1>1, <1>3, <1>4 DEF FreshOf
<1> QED
  BY <1>5 DEF m

LEMMA Steers ==
    ASSUME FewPaths, StoreOK, NEW result \in SeenDetections, result.confidence >= 60,
           BuildPool(result), NEW b \in AutoTuned \cap Present,
           store[b].protocol = "vless"
    PROVE  /\ (result.reason[1] = "tls"
                                   /\ vlessFingerprintVariants(store[b]) # <<>>)
                  => FreshOf(b, "fp") # {}
           /\ (/\ result.reason[1] = "http" /\ DPIProfile # "compat"
               /\ vlessTransportVariants(store[b]) # <<>>)
                  => FreshOf(b, "tr") # {}
<1> DEFINE hint == dpiHint(result)
           reason == result.reason
           confidence == result.confidence
           v == GenerateVariants(store[b], hint, DPIMaxVariants)
           selected == SelectVariants(DPIProfile, reason, hint, confidence, v)
<1>1. b \in BaseIDs /\ store[b] \in ConfigsOf[b]
  BY DEF Present, StoreOK
<1>2. IsBase(store[b]) /\ BaseIDOf(store[b]) = b
  BY <1>1, BaseRead, Zenon
<1>3. FreshVariants(b, result) = ToSet(selected)
  BY Zenon DEF FreshVariants
<1>4. /\ confidence \in Int /\ hint = result.block
      /\ reason[1] = "tls" => result.block # "http_dpi"
      /\ reason[1] = "http" => result.block = "http_dpi"
  <2>1. hint = result.block
    BY Detected DEF dpiHint
  <2> QED
    BY <2>1, Detected
<1>5. DPIMaxVariants \in Nat
  BY PoolBounds
<1>6. IsList(v)
  BY <1>2, <1>5, GeneratedMade DEF Made
<1>7. /\ hint # "http_dpi" /\ vlessFingerprintVariants(store[b]) # <<>>
            => v # <<>> /\ Family(v[1]) = "fp"
      /\ hint = "http_dpi" =>
            \A c \in ToSet(v) : Family(c) \in {"tr", "fp"} \/ c.id \in PathIDs(b)
      /\ hint = "http_dpi" /\ vlessTransportVariants(store[b]) # <<>>
            => v # <<>> /\ Family(v[1]) = "tr"
  BY <1>2, <1>5, GeneratedFirst
<1>8. \A c \in ToSet(selected) : FreshOf(b, Family(c)) # {}
  BY <1>1, <1>3, FreshJoins
<1> HIDE DEF hint, v
<1>9. ASSUME reason[1] = "tls", vlessFingerprintVariants(store[b]) # <<>>
      PROVE  FreshOf(b, "fp") # {}
  <2>1. v # <<>> /\ Family(v[1]) = "fp"
    BY <1>4, <1>7, <1>9
  <2>2. \E c \in ToSet(selected) : Family(c) = "fp"
    BY <1>4, <1>6, <1>9, <2>1, FingerprintSelected
  <2> QED
    BY <1>8, <2>2
<1>10. ASSUME reason[1] = "http", DPIProfile # "compat",
              vlessTransportVariants(store[b]) # <<>>
       PROVE  FreshOf(b, "tr") # {}
  <2>1. /\ v # <<>> /\ Family(v[1]) = "tr"
        /\ \A c \in ToSet(v) : Family(c) \in {"tr", "fp"} \/ c.id \in PathIDs(b)
    BY <1>4, <1>7, <1>10
  <2>2. \E c \in ToSet(selected) : Family(c) = "tr"
    BY <1>4, <1>6, <1>10, <2>1, TransportSelected
  <2> QED
    BY <1>8, <2>2
<1> QED
  BY <1>9, <1>10

(***************************************************************************)
(* In every round, whatever the caps, the profile and what the base        *)
(* configs hold: after a sure detection of a TLS block (classifyTLSError)  *)
(* each VLESS config that is tuned is probed with another fingerprint, and *)
(* after one of an HTTP block (classifyHTTPError) with another transport   *)
(* unless the profile is compat, wherever there is one to rotate to.       *)
(***************************************************************************)
THEOREM DiagnosisAlwaysSteers ==
    ASSUME FewPaths
    PROVE  Spec => DiagnosisSteers
<1>1. ASSUME TypeInv, [Next]_vars
      PROVE  [phase = "idle" /\ phase' = "probe" =>
                \A result \in {r \in SeenDetections : r.confidence >= 60} :
                    BuildPool(result) =>
                        \A b \in AutoTuned \cap {a \in Present : store[a].protocol = "vless"} :
                            /\ (result.reason[1] = "tls"
                                   /\ vlessFingerprintVariants(store[b]) # <<>>)
                                   => FreshOf(b, "fp") # {}
                            /\ (/\ result.reason[1] = "http" /\ DPIProfile # "compat"
                                /\ vlessTransportVariants(store[b]) # <<>>)
                                   => FreshOf(b, "tr") # {}]_vars
  BY <1>1, Steers DEF TypeInv
<1> QED
  BY <1>1, InitTypes, NextTypes, PTL DEF Spec, DiagnosisSteers
=============================================================================
