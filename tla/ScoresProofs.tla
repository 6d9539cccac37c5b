---------------------------- MODULE ScoresProofs ----------------------------
(***************************************************************************)
(* Proofs about Scores for every set of configs, networks, worlds and      *)
(* settings, and every bound.                                              *)
(***************************************************************************)
EXTENDS Scores, FoldProofs

RTTs == 0..5000
Results == [success : BOOLEAN, rtt : 0..5000, loss : 0..100]

(* An entry that may be new.                                               *)
Known ==
    [rtt : 0..5000, loss : 0..100, session : 1..100, sessions : 0..MaxSessions,
     dpi : 0..100, blocked : BOOLEAN]

-----------------------------------------------------------------------------
(* The averages.                                                           *)

LEMMA Confidence ==
    /\ MaxSessions = 8
    /\ \A n \in 1..MaxSessions : SampleConf[n] \in 0..100
BY DEF MaxSessions, SampleConf

LEMMA NewIsKnown == NewEntry \in Known
BY Confidence DEF NewEntry, Known

LEMMA EntriesAreKnown == Entries \subseteq Known
BY DEF Entries, Known

LEMMA LookupKnown ==
    ASSUME NEW db, IsDB(db), NEW id
    PROVE  entryOrDefault(db, id) \in Known
BY NewIsKnown, EntriesAreKnown DEF IsDB, entryOrDefault

LEMMA LookupEntry ==
    ASSUME NEW db, IsDB(db), NEW id \in DOMAIN db
    PROVE  entryOrDefault(db, id) \in Entries
BY DEF IsDB, entryOrDefault

(* The updates of two fields, one after the other.                         *)
LEMMA SessionFields ==
    ASSUME NEW e \in Entries, NEW a \in 1..100, NEW n \in 0..MaxSessions
    PROVE  [e EXCEPT !.session = a, !.sessions = n] \in Entries
<1> DEFINE e1 == [e EXCEPT !.session = a]
<1>1. [e EXCEPT !.session = a, !.sessions = n] = [e1 EXCEPT !.sessions = n]
  OBVIOUS
<1>2. e1 \in Entries
  BY DEF Entries
<1> HIDE DEF e1
<1>3. [e1 EXCEPT !.sessions = n] \in Entries
  BY <1>2 DEF Entries
<1> QED
  BY <1>1, <1>3

LEMMA DPIFields ==
    ASSUME NEW e \in Entries, NEW a \in 0..100, NEW b \in BOOLEAN
    PROVE  [e EXCEPT !.dpi = a, !.blocked = b] \in Entries
<1> DEFINE e1 == [e EXCEPT !.dpi = a]
<1>1. [e EXCEPT !.dpi = a, !.blocked = b] = [e1 EXCEPT !.blocked = b]
  OBVIOUS
<1>2. e1 \in Entries
  BY DEF Entries
<1> HIDE DEF e1
<1>3. [e1 EXCEPT !.blocked = b] \in Entries
  BY <1>2 DEF Entries
<1> QED
  BY <1>1, <1>3

(* A moving average stays where its values are.                            *)
LEMMA ProbedType ==
    ASSUME NEW e \in Known, NEW res \in Results
    PROVE  Probed(e, res) \in Entries
<1> DEFINE rttMs == IF res.rtt <= 0 THEN 5000 ELSE res.rtt
           rtt == e.rtt
           loss == e.loss
           resLoss == res.loss
<1>1. /\ rttMs \in 1..5000 /\ resLoss \in 0..100
      /\ rtt \in 0..5000 /\ loss \in 0..100
  BY DEF Results, Known
<1>2. Probed(e, res) = IF rtt = 0 THEN [e EXCEPT !.rtt = rttMs, !.loss = resLoss]
                       ELSE [e EXCEPT !.rtt = ewma(rttMs, rtt), !.loss = ewma(resLoss, loss)]
  BY DEF Probed
<1> HIDE DEF rttMs, rtt, loss, resLoss
<1>3. rtt # 0 => ewma(rttMs, rtt) \in 1..5000
  BY <1>1 DEF ewma
<1>4. ewma(resLoss, loss) \in 0..100
  BY <1>1 DEF ewma
<1> DEFINE r == IF rtt = 0 THEN rttMs ELSE ewma(rttMs, rtt)
           l == IF rtt = 0 THEN resLoss ELSE ewma(resLoss, loss)
           e1 == [e EXCEPT !.rtt = r]
<1>5. r \in 1..5000 /\ l \in 0..100
  BY <1>1, <1>3, <1>4
<1>6. Probed(e, res) = [e1 EXCEPT !.loss = l]
  BY <1>2
<1> HIDE DEF r, l
<1>7. e1 \in Entries
  BY <1>5 DEF Known, Entries
<1> HIDE DEF e1
<1>8. [e1 EXCEPT !.loss = l] \in Entries
  BY <1>5, <1>7 DEF Entries
<1> QED
  BY <1>6, <1>8

LEMMA TriedType ==
    ASSUME NEW e \in Entries, NEW success \in BOOLEAN
    PROVE  Tried(e, success) \in Entries
<1> DEFINE s == e.session
           a == SessionAfter(success, s)
           n == IF e.sessions < MaxSessions THEN e.sessions + 1 ELSE e.sessions
<1>1. n \in 0..MaxSessions /\ s \in 1..100
  BY Confidence DEF Entries
<1>2. Tried(e, success) = [e EXCEPT !.session = a, !.sessions = n]
  BY DEF Tried
<1> HIDE DEF n, s
<1>3. a \in 1..100
  BY <1>1 DEF SessionAfter, ewma, AtLeast
<1> HIDE DEF a
<1>4. \A x \in 1..100 : \A k \in 0..MaxSessions :
          [e EXCEPT !.session = x, !.sessions = k] \in Entries
  BY SessionFields
<1> QED
  BY <1>1, <1>2, <1>3, <1>4, Zenon

LEMMA BypassedType ==
    ASSUME NEW e \in Entries, NEW success \in BOOLEAN
    PROVE  Bypassed(e, success) \in Entries
<1> DEFINE d == e.dpi
           a == ewma(IF success THEN 100 ELSE 0, d)
<1>1. d \in 0..100
  BY DEF Entries
<1>2. Bypassed(e, success) = [e EXCEPT !.dpi = a, !.blocked = TRUE]
  BY Zenon DEF Bypassed
<1> HIDE DEF d
<1>3. a \in 0..100
  BY <1>1 DEF ewma
<1> HIDE DEF a
<1>4. \A b \in BOOLEAN : [e EXCEPT !.dpi = a, !.blocked = b] \in Entries
  BY <1>3, DPIFields
<1>5. [e EXCEPT !.dpi = a, !.blocked = TRUE] \in Entries
  BY <1>4, Zenon
<1> QED
  BY <1>2, <1>5, Zenon

LEMMA WithEntryType ==
    ASSUME IsDB(entries), NEW id \in IDs, NEW e \in Entries
    PROVE  /\ IsDB(WithEntry(id, e))
           /\ DOMAIN WithEntry(id, e) = DOMAIN entries \cup {id}
BY DEF IsDB, WithEntry
-----------------------------------------------------------------------------
(* What outcomes do to scores.                                             *)

LEMMA PerformanceType ==
    ASSUME NEW e \in Known
    PROVE  performance(e) \in Int
<1> DEFINE rtt == e.rtt
           loss == e.loss
<1>1. rtt \in 0..5000 /\ loss \in 0..100
  BY DEF Known
<1>2. performance(e)
        = ((100 - loss) * 120) \div (120 + IF rtt <= 0 THEN 1000 ELSE rtt)
  BY DEF performance
<1> HIDE DEF rtt, loss
<1> DEFINE top == (100 - loss) * 120
           below == 120 + IF rtt <= 0 THEN 1000 ELSE rtt
<1>3. top \in Int /\ below \in Int /\ below > 0
  BY <1>1
<1>4. performance(e) = top \div below
  BY <1>2
<1> HIDE DEF top, below
<1>5. top \div below \in Int
  BY <1>3
<1> QED
  BY <1>4, <1>5

LEMMA ReliabilityType ==
    ASSUME NEW e \in Known
    PROVE  reliability(e) \in Int
<1> DEFINE a == e.session
           n == e.sessions
<1>1. reliability(e) = (a * (IF n = 0 THEN 0 ELSE SampleConf[n])
                         + 50 * (100 - IF n = 0 THEN 0 ELSE SampleConf[n])) \div 100
  BY DEF reliability
<1>2. n \in {0, 1, 2, 3, 4, 5, 6, 7, 8} /\ a \in 1..100
  BY Confidence DEF Known
<1> HIDE DEF a, n
<1> QED
  BY <1>1, <1>2 DEF SampleConf

LEMMA SecurityType ==
    ASSUME NEW tc
    PROVE  protocolSecurity(tc) \in Int
BY DEF protocolSecurity

(* A passed attempt does not lower the score, a failed one does not raise  *)
(* it, although either makes the average count for more.                   *)
LEMMA TriedMoves ==
    ASSUME NEW e \in Known, NEW tc
    PROVE  /\ CompositeScore(Tried(e, TRUE), tc) >= CompositeScore(e, tc)
           /\ CompositeScore(Tried(e, FALSE), tc) <= CompositeScore(e, tc)
<1> DEFINE a == e.session
           n == e.sessions
           Conf(k) == IF k = 0 THEN 0 ELSE SampleConf[k]
           more == IF n < MaxSessions THEN n + 1 ELSE n
           Reliable(s, k) == (s * Conf(k) + 50 * (100 - Conf(k))) \div 100
           sT == SessionAfter(TRUE, a)
           sF == SessionAfter(FALSE, a)
           r == Reliable(a, n)
           rT == Reliable(sT, more)
           rF == Reliable(sF, more)
           p == performance(e)
           q == protocolSecurity(tc)
           d == dpiOf(e)
<1>1. n \in 0..8 /\ a \in 1..100 /\ p \in Int /\ q \in Int /\ d \in Int
  BY Confidence, PerformanceType, SecurityType DEF Known, dpiOf
<1>2. ASSUME NEW success \in BOOLEAN
      PROVE  LET t == Tried(e, success)
             IN /\ t.session = SessionAfter(success, a)
                /\ performance(t) = p
                /\ dpiOf(t) = d
                /\ reliability(t) = Reliable(SessionAfter(success, a), more)
  BY DEF Tried, Known, performance, dpiOf, reliability
<1>3. /\ CompositeScore(e, tc) = 24 * d + 16 * a + 35 * p + 15 * q + 10 * r
      /\ CompositeScore(Tried(e, TRUE), tc) = 24 * d + 16 * sT + 35 * p + 15 * q + 10 * rT
      /\ CompositeScore(Tried(e, FALSE), tc) = 24 * d + 16 * sF + 35 * p + 15 * q + 10 * rF
  <2> DEFINE tT == Tried(e, TRUE)
             tF == Tried(e, FALSE)
  <2>1. /\ tT.session = sT /\ performance(tT) = p /\ dpiOf(tT) = d /\ reliability(tT) = rT
        /\ tF.session = sF /\ performance(tF) = p /\ dpiOf(tF) = d /\ reliability(tF) = rF
    BY <1>2
  <2>2. reliability(e) = r
    BY DEF reliability
  <2> HIDE DEF tT, tF, sT, sF, r, rT, rF
  <2>3. CompositeScore(e, tc) = 24 * d + 16 * a + 35 * p + 15 * q + 10 * r
    BY <2>2 DEF CompositeScore
  <2>4. CompositeScore(tT, tc) = 24 * d + 16 * sT + 35 * p + 15 * q + 10 * rT
    BY <2>1 DEF CompositeScore
  <2>5. CompositeScore(tF, tc) = 24 * d + 16 * sF + 35 * p + 15 * q + 10 * rF
    BY <2>1 DEF CompositeScore
  <2> QED
    BY <2>3, <2>4, <2>5 DEF tT, tF
<1> HIDE DEF a, n, p, q, d
<1>4. /\ 16 * sT + 10 * rT >= 16 * a + 10 * r
      /\ 16 * sF + 10 * rF <= 16 * a + 10 * r
      /\ sT \in Int /\ sF \in Int /\ r \in Int /\ rT \in Int /\ rF \in Int
  <2>1. n \in {0, 1, 2, 3, 4, 5, 6, 7, 8}
    BY <1>1
  <2>2. MaxSessions = 8
    BY Confidence
  <2> QED
    BY <1>1, <2>1, <2>2, SMTT(60) DEF SessionAfter, ewma, AtLeast, SampleConf
<1> HIDE DEF sT, sF, r, rT, rF
<1> DEFINE before == CompositeScore(e, tc)
           good == CompositeScore(Tried(e, TRUE), tc)
           bad == CompositeScore(Tried(e, FALSE), tc)
<1>5. /\ before = 24 * d + 16 * a + 35 * p + 15 * q + 10 * r
      /\ good = 24 * d + 16 * sT + 35 * p + 15 * q + 10 * rT
      /\ bad = 24 * d + 16 * sF + 35 * p + 15 * q + 10 * rF
  BY <1>3
<1> HIDE DEF before, good, bad
<1>6. good >= before /\ bad <= before
  BY <1>1, <1>4, <1>5
<1> QED
  BY <1>6 DEF before, good, bad

(* A failed attempt under a block does not raise the score, and a passed   *)
(* one does not lower it, except for the first.                            *)
LEMMA BypassedMoves ==
    ASSUME NEW e \in Known, NEW tc
    PROVE  /\ e.blocked => CompositeScore(Bypassed(e, TRUE), tc) >= CompositeScore(e, tc)
           /\ CompositeScore(Bypassed(e, FALSE), tc) <= CompositeScore(e, tc)
<1> DEFINE dpi == e.dpi
           dT == ewma(100, dpi)
           dF == ewma(0, dpi)
           d == dpiOf(e)
           rest(x) == 16 * x.session + 35 * performance(x) + 15 * protocolSecurity(tc)
                          + 10 * reliability(x)
           eT == Bypassed(e, TRUE)
           eF == Bypassed(e, FALSE)
<1>1. /\ dpi \in 0..100 /\ e.blocked \in BOOLEAN /\ e.session \in Int
      /\ performance(e) \in Int /\ protocolSecurity(tc) \in Int
  BY PerformanceType, SecurityType DEF Known
<1>2. d = IF ~e.blocked /\ dpi = 0 THEN 50 ELSE dpi
  BY DEF dpiOf
<1>3. /\ eT.dpi = dT /\ eT.blocked = TRUE /\ eT.session = e.session
      /\ performance(eT) = performance(e) /\ reliability(eT) = reliability(e)
      /\ eF.dpi = dF /\ eF.blocked = TRUE /\ eF.session = e.session
      /\ performance(eF) = performance(e) /\ reliability(eF) = reliability(e)
  BY DEF Bypassed, Known, performance, reliability
<1>4. reliability(e) \in Int
  BY ReliabilityType
<1>5. dpiOf(eT) = dT /\ dpiOf(eF) = dF
  BY <1>3 DEF dpiOf
<1> DEFINE x == e.session
           p == performance(e)
           q == protocolSecurity(tc)
           r == reliability(e)
           before == CompositeScore(e, tc)
           good == CompositeScore(eT, tc)
           bad == CompositeScore(eF, tc)
<1> HIDE DEF eT, eF, d, dT, dF
<1>6. /\ before = 24 * d + 16 * x + 35 * p + 15 * q + 10 * r
      /\ good = 24 * dT + 16 * x + 35 * p + 15 * q + 10 * r
      /\ bad = 24 * dF + 16 * x + 35 * p + 15 * q + 10 * r
  BY <1>3, <1>5 DEF CompositeScore, d
<1>7. x \in Int /\ p \in Int /\ q \in Int /\ r \in Int
  BY <1>1, <1>4
<1> HIDE DEF x, p, q, r, before, good, bad, dpi
<1>8. /\ dT \in Int /\ dF \in Int /\ d \in Int
      /\ e.blocked => dT >= d
      /\ dF <= d
  BY <1>1, <1>2 DEF ewma, dT, dF
<1>9. (e.blocked => good >= before) /\ bad <= before
  BY <1>6, <1>7, <1>8
<1> QED
  BY <1>9 DEF before, good, bad, eT, eF
-----------------------------------------------------------------------------
LEMMA CompositeType ==
    ASSUME NEW e \in Known, NEW tc
    PROVE  CompositeScore(e, tc) \in Int
<1> DEFINE d == dpiOf(e)
           a == e.session
           p == performance(e)
           q == protocolSecurity(tc)
           r == reliability(e)
<1>1. d \in Int /\ a \in Int /\ p \in Int /\ q \in Int /\ r \in Int
  BY PerformanceType, SecurityType, ReliabilityType DEF Known, dpiOf
<1>2. CompositeScore(e, tc) = 24 * d + 16 * a + 35 * p + 15 * q + 10 * r
  BY DEF CompositeScore
<1> HIDE DEF d, a, p, q, r
<1> QED
  BY <1>1, <1>2

LEMMA WrittenScore ==
    ASSUME NEW e, NEW tc, entries' = WithEntry(tc.id, e)
    PROVE  Score(entries', tc) = CompositeScore(e, tc)
BY DEF WithEntry, Score, entryOrDefault
-----------------------------------------------------------------------------
(* What a probe returns.                                                   *)

SampleSizeOf(c) ==
    LET n == Len(TargetsOf(c))
    IN IF c.rotate /\ c.pool > 0 /\ c.pool < n THEN c.pool ELSE n

LEMMA TargetsType ==
    ASSUME NEW s \in DOMAIN SettingsSeen
    PROVE  LET targets == TargetsOf(SettingsSeen[s])
           IN /\ Len(targets) \in Nat
              /\ DOMAIN targets = 1..Len(targets)
              /\ IsFiniteSet(DOMAIN targets)
              /\ Cardinality(DOMAIN targets) = Len(targets)
<1> DEFINE targets == TargetsOf(SettingsSeen[s])
           n == Len(targets)
<1>1. n \in Nat /\ DOMAIN targets = 1..n
  BY TargetsAssumption
<1> HIDE DEF n
<1>2. IsFiniteSet(1..n) /\ Cardinality(1..n) = n
  BY <1>1, FS_Interval
<1> QED
  BY <1>1, <1>2 DEF n

(* A verdict is that of a sample of the size in force.                     *)
LEMMA VerdictOfSample ==
    ASSUME NEW s \in DOMAIN SettingsSeen, NEW n \in DOMAIN Networks,
           NEW res \in Verdicts[s][n]
    PROVE  LET c == SettingsSeen[s]
               targets == TargetsOf(c)
           IN \E sample \in SUBSET DOMAIN targets :
                 /\ Cardinality(sample) = SampleSizeOf(c)
                 /\ res = AggResult(Cardinality(sample),
                              Cardinality({i \in sample : runProbe(targets[i], Networks[n], c.useDoH)}),
                              Networks[n].rtt)
<1> DEFINE c == SettingsSeen[s]
           targets == TargetsOf(c)
           size == IF c.pool <= 0 \/ c.pool >= Len(targets) THEN Len(targets) ELSE c.pool
<1>1. PICK sample \in selectTargets(targets, c.rotate, c.pool) :
          res = aggregate(targets, sample, Networks[n], c.useDoH)
  BY DEF Verdicts, ProbeAll
<1>2. /\ Len(targets) \in Nat /\ c.pool \in Int
      /\ Cardinality(DOMAIN targets) = Len(targets)
  BY TargetsType, TargetsAssumption
<1>3. sample \in SUBSET DOMAIN targets /\ Cardinality(sample) = SampleSizeOf(c)
  <2>1. CASE ~c.rotate \/ Len(targets) <= 1
    <3>1. sample = DOMAIN targets
      BY <1>1, <2>1 DEF selectTargets
    <3> HIDE DEF targets
    <3>2. SampleSizeOf(c) = Len(targets)
      BY <1>2, <2>1 DEF SampleSizeOf, targets
    <3> QED
      BY <1>2, <3>1, <3>2
  <2>2. CASE ~(~c.rotate \/ Len(targets) <= 1)
    <3>1. sample \in SUBSET DOMAIN targets /\ Cardinality(sample) = size
      BY <1>1, <2>2 DEF selectTargets, kSubset
    <3>2. SampleSizeOf(c) = size
      BY <1>2, <2>2 DEF SampleSizeOf
    <3> QED
      BY <3>1, <3>2
  <2> QED
    BY <2>1, <2>2
<1> QED
  BY <1>1, <1>3 DEF aggregate

LEMMA AggResultType ==
    \A n, ok \in Nat : \A rtt \in RTTs :
        ok <= n => AggResult(n, ok, rtt) \in Results
<1> SUFFICES ASSUME NEW n \in Nat, NEW ok \in Nat, NEW rtt \in RTTs, ok <= n
             PROVE  AggResult(n, ok, rtt) \in Results
  OBVIOUS
<1> DEFINE loss == IF n = 0 THEN 100 ELSE (100 * (n - ok)) \div n
<1>1. loss \in 0..100
  <2>1. CASE n = 0
    BY <2>1
  <2>2. CASE n # 0
    <3> DEFINE l == (100 * (n - ok)) \div n
    <3>1. 100 * (n - ok) \in 0..(100 * n)
      OBVIOUS
    <3>2. l \in 0..100
      BY <2>2, <3>1
    <3> QED
      BY <2>2, <3>2
  <2> QED
    BY <2>1, <2>2
<1> HIDE DEF loss
<1>2. AggResult(n, ok, rtt) = [success |-> 2 * ok > n, rtt |-> IF ok > 0 THEN rtt ELSE 0,
                               loss |-> loss]
  BY DEF AggResult, loss
<1> QED
  BY <1>1, <1>2 DEF Results, RTTs

LEMMA VerdictType ==
    ASSUME NEW s \in DOMAIN SettingsSeen, NEW n \in DOMAIN Networks
    PROVE  Verdicts[s][n] \subseteq Results
<1> SUFFICES ASSUME NEW res \in Verdicts[s][n] PROVE res \in Results
  OBVIOUS
<1> DEFINE c == SettingsSeen[s]
           targets == TargetsOf(c)
<1>1. PICK sample \in SUBSET DOMAIN targets :
          res = AggResult(Cardinality(sample),
                  Cardinality({i \in sample : runProbe(targets[i], Networks[n], c.useDoH)}),
                  Networks[n].rtt)
  BY VerdictOfSample
<1> DEFINE Ok == {i \in sample : runProbe(targets[i], Networks[n], c.useDoH)}
<1>2. IsFiniteSet(sample) /\ Cardinality(sample) \in Nat
  BY TargetsType, FS_Subset, FS_CardinalityType
<1>3. Cardinality(Ok) \in Nat /\ Cardinality(Ok) <= Cardinality(sample)
  BY <1>2, FS_Subset, FS_CardinalityType
<1>4. Networks[n].rtt \in 0..5000
  BY NetworksAssumption
<1> DEFINE size == Cardinality(sample)
           ok == Cardinality(Ok)
           rtt == Networks[n].rtt
<1>5. size \in Nat /\ ok \in Nat /\ ok <= size /\ rtt \in RTTs
  BY <1>2, <1>3, <1>4 DEF RTTs
<1>6. res = AggResult(size, ok, rtt)
  BY <1>1
<1> HIDE DEF size, ok, rtt
<1>7. AggResult(size, ok, rtt) \in Results
  BY <1>5, AggResultType, Zenon
<1> QED
  BY <1>6, <1>7
-----------------------------------------------------------------------------
(* What a verdict says of the targets.                                     *)

LEMMA Counted ==
    ASSUME NEW S, IsFiniteSet(S), NEW A \in SUBSET S, NEW T \in SUBSET S, NEW B \in SUBSET T
    PROVE  /\ Cardinality(S) \in Nat /\ Cardinality(A) \in Nat
           /\ Cardinality(T) \in Nat /\ Cardinality(B) \in Nat
           /\ B \subseteq A => Cardinality(B) <= Cardinality(A)
           /\ T \cap A \subseteq B
                 => Cardinality(T) - Cardinality(B) <= Cardinality(S) - Cardinality(A)
<1>1. /\ IsFiniteSet(A) /\ IsFiniteSet(T) /\ IsFiniteSet(B)
      /\ IsFiniteSet(S \ A) /\ IsFiniteSet(T \ B)
  BY FS_Subset
<1>2. /\ Cardinality(S) \in Nat /\ Cardinality(A) \in Nat
      /\ Cardinality(T) \in Nat /\ Cardinality(B) \in Nat
  BY <1>1, FS_CardinalityType
<1>3. B \subseteq A => Cardinality(B) <= Cardinality(A)
  BY <1>1, FS_Subset
<1>4. Cardinality(S \ A) = Cardinality(S) - Cardinality(A)
  <2>1. S \cap A = A
    OBVIOUS
  <2> QED
    BY <2>1, FS_Difference
<1>5. Cardinality(T \ B) = Cardinality(T) - Cardinality(B)
  <2>1. T \cap B = B
    OBVIOUS
  <2> QED
    BY <1>1, <2>1, FS_Difference
<1>6. T \cap A \subseteq B => Cardinality(T \ B) <= Cardinality(S \ A)
  <2> HAVE T \cap A \subseteq B
  <2>1. T \ B \in SUBSET (S \ A)
    OBVIOUS
  <2> QED
    BY <1>1, <2>1, FS_Subset
<1> QED
  BY <1>2, <1>3, <1>4, <1>5, <1>6

LEMMA LookupAnswers ==
    ASSUME NEW t, NEW net, NEW useDoH
    PROVE  /\ runProbe(t, net, useDoH) /\ ~(useDoH /\ net.doh = "ok" /\ ~net.dns)
                 => Answers(t, net)
           /\ Answers(t, net) /\ ~Hanging(t, net) /\ ~(useDoH /\ net.doh = "hangs")
                 /\ net.doh \in {"ok", "fails", "hangs"}
                 => runProbe(t, net, useDoH)
<1> DEFINE Open == \/ t.type = "icmp" /\ probeICMP(t, net)
                   \/ t.type = "tcp" /\ probeTCP(t, net)
                   \/ t.type \in {"http", "https"} /\ probeHTTP(t, net)
<1>1. /\ (t.literal \/ net.dns) /\ Open => Answers(t, net)
      /\ Answers(t, net) /\ ~Hanging(t, net) => (t.literal \/ net.dns) /\ Open
  <2>1. CASE t.type = "icmp"
    BY <2>1 DEF Answers, Hanging, probeICMP
  <2>2. CASE t.type = "tcp"
    BY <2>2 DEF Answers, probeTCP
  <2>3. CASE t.type \in {"http", "https"}
    BY <2>3 DEF Answers, probeTCP, probeHTTP
  <2>4. CASE t.type \notin {"icmp", "tcp", "http", "https"}
    BY <2>4 DEF Answers
  <2> QED
    BY <2>1, <2>2, <2>3, <2>4
<1>2. runProbe(t, net, useDoH) <=> lookupHost(t, net, useDoH) /\ Open
  BY DEF runProbe
<1> HIDE DEF Open
<1>3. lookupHost(t, net, useDoH) /\ ~(useDoH /\ net.doh = "ok" /\ ~net.dns)
        => t.literal \/ net.dns
  BY Zenon DEF lookupHost
<1>4. net.doh \in {"ok", "fails", "hangs"} /\ (t.literal \/ net.dns)
         /\ ~(useDoH /\ net.doh = "hangs") => lookupHost(t, net, useDoH)
  BY Zenon DEF lookupHost
<1> QED
  BY <1>1, <1>2, <1>3, <1>4, Zenon

(* More targets answer than make half a sample when a probe passes, and as *)
(* many do not when it fails.                                              *)
LEMMA VerdictCounts ==
    ASSUME settings \in DOMAIN SettingsSeen, NEW n \in DOMAIN Networks,
           NEW res \in Verdicts[settings][n]
    PROVE  LET net == Networks[n]
           IN /\ res.success
                    => \/ cfg.useDoH /\ net.doh = "ok" /\ ~net.dns
                       \/ 2 * Answering(net) > SampleSize
              /\ ~res.success
                    => \/ cfg.useDoH /\ net.doh = "hangs"
                       \/ 2 * (Len(TargetsOf(cfg)) - AnsweringInTime(net)) >= SampleSize
<1> DEFINE net == Networks[n]
           targets == TargetsOf(cfg)
           All == DOMAIN targets
           A == {i \in All : Answers(targets[i], net)}
           T == {i \in All : Answers(targets[i], net) /\ ~Hanging(targets[i], net)}
<1>1. PICK sample \in SUBSET All :
          /\ Cardinality(sample) = SampleSizeOf(cfg)
          /\ res = AggResult(Cardinality(sample),
                       Cardinality({i \in sample : runProbe(targets[i], net, cfg.useDoH)}),
                       net.rtt)
  BY VerdictOfSample DEF cfg
<1> DEFINE B == {i \in sample : runProbe(targets[i], net, cfg.useDoH)}
<1>2. IsFiniteSet(All) /\ Cardinality(All) = Len(targets)
  BY TargetsType DEF cfg
<1>3. /\ SampleSize = Cardinality(sample)
      /\ Answering(net) = Cardinality(A) /\ AnsweringInTime(net) = Cardinality(T)
  BY <1>1 DEF SampleSize, SampleSizeOf, Answering, AnsweringInTime
<1>4. res.success <=> 2 * Cardinality(B) > Cardinality(sample)
  BY <1>1 DEF AggResult
<1>5. net.doh \in {"ok", "fails", "hangs"}
  BY NetworksAssumption
<1>6. ~(cfg.useDoH /\ net.doh = "ok" /\ ~net.dns) => B \subseteq A
  BY <1>1, LookupAnswers
<1>7. ~(cfg.useDoH /\ net.doh = "hangs") => sample \cap T \subseteq B
  BY <1>1, <1>5, LookupAnswers
<1> DEFINE all == Cardinality(All)
           size == Cardinality(sample)
           a == Cardinality(A)
           t == Cardinality(T)
           b == Cardinality(B)
<1>8. /\ all \in Nat /\ size \in Nat /\ a \in Nat /\ t \in Nat /\ b \in Nat
      /\ B \subseteq A => b <= a
      /\ sample \cap T \subseteq B => size - b <= all - t
  <2> HIDE DEF All, A, T, B
  <2>1. A \in SUBSET All /\ T \in SUBSET All /\ B \in SUBSET sample
    BY DEF A, T, B
  <2>2. /\ all \in Nat /\ size \in Nat /\ a \in Nat /\ b \in Nat
        /\ B \subseteq A => b <= a
    BY <1>1, <1>2, <2>1, Counted
  <2>3. t \in Nat /\ (sample \cap T \subseteq B => size - b <= all - t)
    BY <1>1, <1>2, <2>1, Counted
  <2> QED
    BY <2>2, <2>3
<1> HIDE DEF all, size, a, t, b, A, T, B
<1>9. /\ B \subseteq A /\ 2 * b > size => 2 * a > size
      /\ sample \cap T \subseteq B /\ ~(2 * b > size) => 2 * (all - t) >= size
  BY <1>8
<1> QED
  BY <1>2, <1>3, <1>4, <1>6, <1>7, <1>9 DEF all, size, a, t, b
-----------------------------------------------------------------------------
(* The invariant.                                                          *)

Measured(tc) == tc.id \in DOMAIN entries

(* What a round knows: nothing between rounds, a result of the right type  *)
(* for each config, no more attempts than configs, and an entry for each   *)
(* config that may be tried.                                               *)
RoundInv ==
    /\ passed \in BOOLEAN
    /\ \A tc \in Configs : results[tc] # NoNetwork => results[tc] \in Results
    /\ todo \in Seq(Configs) /\ viable \in Seq(Configs)
    /\ \A i \in 1..Len(todo) : results[todo[i]] # NoNetwork
    /\ step \in {"idle", "record", "down"} => viable = <<>> /\ tried = 0
    /\ step \in {"session", "dpi", "end"} => viable # <<>> /\ state = "SWITCHING"
    /\ Len(viable) + tried <= Cardinality(Configs)
    /\ step = "record" =>
          \A tc \in Configs :
              results[tc] # NoNetwork => Measured(tc) \/ \E i \in 1..Len(todo) : todo[i] = tc
    /\ \A i \in 1..Len(viable) : Measured(viable[i])

-----------------------------------------------------------------------------
(* Every step keeps it.                                                    *)

LEMMA MaxSessionsNat == MaxSessions \in Nat
BY Confidence

LEMMA ConfigCount == IsFiniteSet(Configs) /\ Cardinality(Configs) \in Nat
BY ConfigsAssumption, FS_CardinalityType

LEMMA SaveType ==
    ASSUME NEW db, save(db), IsDB(db), file # Missing => IsDB(file)
    PROVE  file' # Missing => IsDB(file')
BY DEF save

(* What an attempt or a probe makes of the database.                       *)
LEMMA RecordType ==
    ASSUME TypeOK, NEW id \in IDs, NEW e \in Entries,
           entries' = WithEntry(id, e), save(entries')
    PROVE  /\ IsDB(entries')
           /\ file' # Missing => IsDB(file')
           /\ DOMAIN entries' = DOMAIN entries \cup {id}
<1>1. IsDB(entries') /\ DOMAIN entries' = DOMAIN entries \cup {id}
  BY WithEntryType DEF TypeOK
<1> QED
  BY <1>1, SaveType DEF TypeOK

LEMMA EmptyDB == IsDB(<<>>)
BY DEF IsDB

(* A round that has not begun.                                             *)
LEMMA FreshRound ==
    ASSUME results = NoResults, todo = <<>>, viable = <<>>, tried = 0, passed = FALSE,
           step \in {"idle", "down"}
    PROVE  /\ RoundInv
           /\ ToSet(todo) \cup ToSet(viable) \subseteq Configs
           /\ tried \in 0..Cardinality(Configs)
<1>1. /\ todo \in Seq(Configs) /\ viable \in Seq(Configs)
      /\ Len(todo) = 0 /\ Len(viable) = 0
  OBVIOUS
<1>2. \A tc \in Configs : results[tc] = NoNetwork
  BY DEF NoResults
<1>3. Len(viable) + tried <= Cardinality(Configs) /\ tried \in 0..Cardinality(Configs)
  BY <1>1, ConfigCount
<1>4. \A i \in 1..0 : FALSE
  OBVIOUS
<1>5. RoundInv
  BY <1>1, <1>2, <1>3, <1>4 DEF RoundInv
<1>6. ToSet(todo) \cup ToSet(viable) \subseteq Configs
  BY DEF ToSet
<1> QED
  BY <1>3, <1>5, <1>6

LEMMA InitInv == Init => TypeOK /\ RoundInv
<1> SUFFICES ASSUME Init PROVE TypeOK /\ RoundInv
  OBVIOUS
<1>1. /\ RoundInv
      /\ ToSet(todo) \cup ToSet(viable) \subseteq Configs
      /\ tried \in 0..Cardinality(Configs)
  BY FreshRound DEF Init
<1>2. TypeOK
  BY <1>1, EmptyDB, MaxSessionsNat DEF Init, TypeOK
<1> QED
  BY <1>1, <1>2

(* Between rounds nothing is left of the last one.                         *)
LEMMA RoundStartInv ==
    ASSUME RoundStart, step' \in {"idle", "down"}
    PROVE  /\ RoundInv'
           /\ (ToSet(todo) \cup ToSet(viable) \subseteq Configs)'
           /\ (tried \in 0..Cardinality(Configs))'
<1>1. /\ todo' \in Seq(Configs) /\ viable' \in Seq(Configs)
      /\ Len(todo') = 0 /\ Len(viable') = 0
  BY DEF RoundStart
<1>2. \A tc \in Configs : results'[tc] = NoNetwork
  BY DEF RoundStart, NoResults
<1>3. Len(viable') + tried' <= Cardinality(Configs) /\ tried' \in 0..Cardinality(Configs)
  BY <1>1, ConfigCount DEF RoundStart
<1>4. \A i \in 1..0 : FALSE
  OBVIOUS
<1>5. RoundInv'
  BY <1>1, <1>2, <1>3, <1>4 DEF RoundStart, RoundInv
<1>6. (ToSet(todo) \cup ToSet(viable) \subseteq Configs)'
  BY DEF RoundStart, ToSet
<1> QED
  BY <1>3, <1>5, <1>6

IInv == TypeOK /\ RoundInv

LEMMA HeadIsConfig ==
    ASSUME NEW q \in Seq(Configs), q # <<>>
    PROVE  /\ Head(q) \in Configs /\ Head(q) = q[1] /\ Head(q).id \in IDs
           /\ Len(q) \in Nat \ {0}
           /\ Tail(q) \in Seq(Configs) /\ Len(Tail(q)) = Len(q) - 1
           /\ \A i \in 1..(Len(q) - 1) : Tail(q)[i] = q[i + 1]
BY DEF IDs

(* What leaves the round, the database and the types alone.                *)
LEMMA Unchanged ==
    ASSUME IInv, UNCHANGED <<state, step, roundVars, entries>>
    PROVE  RoundInv' /\ (ToSet(todo) \cup ToSet(viable) \subseteq Configs)'
<1>1. RoundInv'
  BY DEF IInv, RoundInv, Measured, roundVars
<1> QED
  BY <1>1 DEF IInv, TypeOK, roundVars

LEMMA NextProbe ==
    ASSUME IInv, doProbePasses \/ doProbeFails \/ tickSwitching
    PROVE  IInv'
<1>1. CASE doProbePasses \/ tickSwitching
  BY <1>1, Unchanged DEF IInv, doProbePasses, tickSwitching, vars, dbVars, countVars,
     roundVars, TypeOK
<1>2. CASE doProbeFails
  <2>1. TypeOK'
    BY <1>2 DEF IInv, TypeOK, doProbeFails, dbVars, countVars
  <2>2. RoundInv'
    BY <1>2 DEF IInv, RoundInv, Measured, doProbeFails, dbVars
  <2> QED
    BY <2>1, <2>2 DEF IInv
<1> QED
  BY <1>1, <1>2

LEMMA SeqOfSet ==
    ASSUME NEW S, IsFiniteSet(S)
    PROVE  /\ SetToSeq(S) \in Seq(S)
           /\ \A x \in S : \E i \in 1..Len(SetToSeq(S)) : SetToSeq(S)[i] = x
<1> DEFINE n == Cardinality(S)
           q == SetToSeq(S)
<1>1. n \in Nat /\ Bijection(1..n, S) # {}
  BY FS_CardinalityType DEF ExistsBijection
<1>2. \E f \in [1..n -> S] : IsInjective(f)
  BY <1>1 DEF Bijection, Injection
<1>3. q \in [1..n -> S] /\ IsInjective(q)
  BY <1>2 DEF SetToSeq
<1>4. q \in Injection(1..n, S)
  BY <1>3 DEF Injection
<1>5. IsFiniteSet(1..n) /\ Cardinality(1..n) = n
  BY <1>1, FS_Interval
<1>6. q \in Surjection(1..n, S)
  BY <1>4, <1>5, FS_Injection
<1> HIDE DEF q
<1>7. q \in Seq(S) /\ Len(q) = n
  BY <1>1, <1>3
<1>8. \A x \in S : \E i \in 1..n : q[i] = x
  BY <1>6 DEF Surjection
<1> QED
  BY <1>7, <1>8 DEF q

LEMMA OutcomesType ==
    ASSUME TypeOK, NEW tc \in Configs, NEW res \in Outcomes(tc), res # NoNetwork
    PROVE  res \in Results
<1> DEFINE net == Worlds[world].tunnel[tc.name]
<1>1. net # NoNetwork /\ res \in Verdicts[settings][net]
  BY DEF Outcomes
<1>2. net \in DOMAIN Networks
  BY <1>1, NetworksAssumption DEF TypeOK
<1> QED
  BY <1>1, <1>2, VerdictType DEF TypeOK

LEMMA NextDoSwitch ==
    ASSUME IInv, doSwitch
    PROVE  IInv'
<1> DEFINE got == {tc \in Configs : results'[tc] # NoNetwork}
<1>1. IsFiniteSet(got)
  BY ConfigCount, FS_Subset
<1>2. /\ todo' \in Seq(got)
      /\ \A tc \in got : \E i \in 1..Len(todo') : todo'[i] = tc
  BY <1>1, SeqOfSet DEF doSwitch
<1>3. \A tc \in Configs : results'[tc] # NoNetwork => results'[tc] \in Results
  BY OutcomesType DEF doSwitch, IInv
<1>4. /\ todo' \in Seq(Configs)
      /\ \A i \in 1..Len(todo') : todo'[i] \in Configs /\ results'[todo'[i]] # NoNetwork
  BY <1>2
<1>5. viable = <<>> /\ tried = 0
  BY DEF doSwitch, IInv, RoundInv
<1>6. RoundInv'
  BY <1>2, <1>3, <1>4, <1>5 DEF doSwitch, IInv, RoundInv, Measured, dbVars
<1>7. ToSet(todo') \subseteq Configs
  BY <1>4 DEF ToSet
<1>8. hint' \in {"undetected", "none", "blocked"}
  BY NetworksAssumption DEF doSwitch, IInv, TypeOK
<1>9. TypeOK'
  BY <1>7, <1>8 DEF doSwitch, IInv, TypeOK, dbVars
<1> QED
  BY <1>6, <1>9 DEF IInv

LEMMA NextRecordProbe ==
    ASSUME IInv, RecordProbeResult
    PROVE  IInv'
<1> DEFINE tc == Head(todo)
           e == Probed(entryOrDefault(entries, tc.id), results[tc])
<1>1. /\ todo \in Seq(Configs) /\ todo # <<>>
      /\ \A i \in 1..Len(todo) : results[todo[i]] # NoNetwork
      /\ \A c \in Configs : results[c] # NoNetwork => results[c] \in Results
      /\ viable = <<>> /\ tried = 0
  BY DEF RecordProbeResult, IInv, RoundInv
<1>2. /\ tc \in Configs /\ tc = todo[1] /\ tc.id \in IDs
      /\ Len(todo) \in Nat \ {0}
      /\ todo' \in Seq(Configs) /\ Len(todo') = Len(todo) - 1
      /\ \A i \in 1..(Len(todo) - 1) : todo'[i] = todo[i + 1]
  BY <1>1, HeadIsConfig DEF RecordProbeResult
<1>3. results[tc] \in Results
  BY <1>1, <1>2
<1>4. e \in Entries
  BY <1>3, LookupKnown, ProbedType DEF IInv, TypeOK
<1>5. entries' = WithEntry(tc.id, e) /\ save(entries')
  BY DEF RecordProbeResult
<1> HIDE DEF e, tc
<1>6. /\ IsDB(entries') /\ (file' # Missing => IsDB(file'))
      /\ DOMAIN entries' = DOMAIN entries \cup {tc.id}
  BY <1>2, <1>4, <1>5, RecordType DEF IInv
<1>7. \A i \in 1..Len(todo') : i + 1 \in 1..Len(todo) /\ todo'[i] = todo[i + 1]
  BY <1>2
<1>8. \A c \in Configs : results[c] # NoNetwork =>
          c.id \in DOMAIN entries' \/ \E i \in 1..Len(todo') : todo'[i] = c
  <2> TAKE c \in Configs
  <2> HAVE results[c] # NoNetwork
  <2>1. CASE c.id \in DOMAIN entries
    BY <1>6, <2>1
  <2>2. CASE c.id \notin DOMAIN entries
    <3>1. PICK i \in 1..Len(todo) : todo[i] = c
      BY <2>2 DEF RecordProbeResult, IInv, RoundInv, Measured
    <3>2. CASE i = 1
      BY <1>2, <1>6, <3>1, <3>2
    <3>3. CASE i # 1
      <4>1. i - 1 \in 1..Len(todo') /\ todo'[i - 1] = todo[i]
        BY <1>2, <3>1, <3>3
      <4> QED
        BY <3>1, <4>1
    <3> QED
      BY <3>2, <3>3
  <2> QED
    BY <2>1, <2>2
<1>9. RoundInv'
  BY <1>1, <1>2, <1>7, <1>8 DEF RecordProbeResult, IInv, RoundInv, Measured
<1>10. ToSet(todo') \cup ToSet(viable') \subseteq Configs
  BY <1>1, <1>2 DEF ToSet, RecordProbeResult
<1>11. TypeOK'
  BY <1>6, <1>10 DEF RecordProbeResult, IInv, TypeOK
<1> QED
  BY <1>9, <1>11 DEF IInv

LEMMA NextRoundEnds ==
    ASSUME IInv, NoneViable \/ NoneApplied
    PROVE  IInv'
<1>1. RoundStart /\ step' = "idle"
  BY DEF NoneViable, NoneApplied
<1>2. /\ RoundInv'
      /\ (ToSet(todo) \cup ToSet(viable) \subseteq Configs)'
      /\ (tried \in 0..Cardinality(Configs))'
  BY <1>1, RoundStartInv
<1>3. TypeOK'
  BY <1>2 DEF NoneViable, NoneApplied, IInv, TypeOK, dbVars
<1> QED
  BY <1>2, <1>3 DEF IInv

LEMMA NextRank ==
    ASSUME IInv, RankViable
    PROVE  IInv'
<1> DEFINE n == Cardinality(Viable)
<1>1. Viable \subseteq Configs /\ \A tc \in Viable : results[tc] # NoNetwork
  BY DEF Viable
<1>2. n \in Nat /\ n <= Cardinality(Configs)
  BY <1>1, ConfigCount, FS_Subset, FS_CardinalityType
<1>3. /\ viable' \in [1..n -> Viable]
  BY DEF RankViable, Rank, SetToSeqs
<1>4. /\ viable' \in Seq(Configs) /\ Len(viable') = n
      /\ \A i \in 1..n : viable'[i] \in Viable
  BY <1>1, <1>2, <1>3
<1>5. tried = 0 /\ todo = <<>> /\ entries' = entries /\ step' = "try"
  BY DEF RankViable, IInv, RoundInv, dbVars
<1>6. \A i \in 1..n : viable'[i].id \in DOMAIN entries
  BY <1>1, <1>4, <1>5 DEF RankViable, IInv, RoundInv, Measured
<1>7. RoundInv'
  BY <1>2, <1>4, <1>5, <1>6, ConfigCount DEF RankViable, IInv, RoundInv, Measured
<1>8. ToSet(viable') \subseteq Configs
  BY <1>4 DEF ToSet
<1>9. TypeOK'
  BY <1>8 DEF RankViable, IInv, TypeOK, dbVars
<1> QED
  BY <1>7, <1>9 DEF IInv

(* A config or none: there is a network under the default route.           *)
LEMMA RouteIsNetwork ==
    ASSUME world \in DOMAIN Worlds, NEW c \in {tc.name : tc \in Configs} \cup {NoConfig}
    PROVE  DefaultRoute(c) \in DOMAIN Networks
BY NetworksAssumption DEF DefaultRoute

LEMMA NextAttempt ==
    ASSUME IInv, Attempt
    PROVE  IInv'
<1> DEFINE id == Head(viable).id
           name == Head(viable).name
<1>1. Head(viable) \in Configs /\ id \in IDs
  BY HeadIsConfig DEF Attempt, IInv, RoundInv
<1>2. passed' \in BOOLEAN
  <2>1. DefaultRoute(name) \in DOMAIN Networks
    BY <1>1, RouteIsNetwork DEF IInv, TypeOK
  <2>2. \A res \in Verdicts[settings][DefaultRoute(name)] : res.success \in BOOLEAN
    BY <2>1, VerdictType DEF IInv, TypeOK, Results
  <2> QED
    BY <2>2 DEF Attempt
<1>3. attempts' \in [IDs -> 0..MaxSessions]
  <2> DEFINE k == attempts[id]
             more == IF k < MaxSessions THEN k + 1 ELSE k
  <2>1. k \in 0..MaxSessions
    BY <1>1 DEF IInv, TypeOK
  <2>2. attempts' = [attempts EXCEPT ![id] = more]
    BY DEF Attempt
  <2> HIDE DEF k, id
  <2>3. more \in 0..MaxSessions
    BY <2>1, MaxSessionsNat
  <2> HIDE DEF more
  <2> QED
    BY <2>2, <2>3 DEF IInv, TypeOK
<1>4. RoundInv'
  BY <1>2 DEF Attempt, IInv, RoundInv, Measured, dbVars
<1>5. TypeOK'
  BY <1>3 DEF Attempt, IInv, TypeOK, dbVars
<1> QED
  BY <1>4, <1>5 DEF IInv

LEMMA RecordAttempt ==
    ASSUME IInv, step \in {"session", "dpi"}, step' \in {"dpi", "end"},
           NEW e \in Entries,
           entries' = WithEntry(Head(viable).id, e), save(entries'),
           UNCHANGED <<world, settings, state, active, roundVars, attempts>>
    PROVE  IInv'
<1> DEFINE tc == Head(viable)
<1>1. viable \in Seq(Configs) /\ viable # <<>>
  BY DEF IInv, RoundInv
<1>2. tc \in Configs /\ tc = viable[1] /\ tc.id \in IDs /\ Len(viable) \in Nat \ {0}
  BY <1>1, HeadIsConfig
<1>3. entries' = WithEntry(tc.id, e)
  OBVIOUS
<1> HIDE DEF tc
<1>4. /\ IsDB(entries') /\ (file' # Missing => IsDB(file'))
      /\ DOMAIN entries' = DOMAIN entries \cup {tc.id}
  BY <1>2, <1>3, RecordType DEF IInv
<1>5. RoundInv'
  BY <1>1, <1>4 DEF IInv, RoundInv, Measured, roundVars
<1>6. TypeOK'
  BY <1>4 DEF IInv, TypeOK, roundVars
<1> QED
  BY <1>5, <1>6 DEF IInv

(* The config that is tried has an entry.                                  *)
LEMMA HeadMeasured ==
    ASSUME IInv, step \in {"session", "dpi", "end"}
    PROVE  /\ entryOrDefault(entries, Head(viable).id) \in Entries
           /\ Head(viable) \in Configs
           /\ viable # <<>>
<1>1. /\ viable \in Seq(Configs) /\ viable # <<>>
      /\ \A i \in 1..Len(viable) : viable[i].id \in DOMAIN entries
  BY DEF IInv, RoundInv, Measured
<1>2. Head(viable).id \in DOMAIN entries /\ Head(viable) \in Configs
  BY <1>1, HeadIsConfig
<1> QED
  BY <1>1, <1>2, LookupEntry DEF IInv, TypeOK

LEMMA NextRecord ==
    ASSUME IInv, RecordSession \/ RecordDPIResult
    PROVE  IInv'
<1> DEFINE old == entryOrDefault(entries, Head(viable).id)
<1>1. passed \in BOOLEAN
  BY DEF IInv, RoundInv
<1>2. CASE RecordSession
  <2>1. Tried(old, passed) \in Entries
    BY <1>1, <1>2, HeadMeasured, TriedType DEF RecordSession
  <2> QED
    BY <1>2, <2>1, RecordAttempt DEF RecordSession
<1>3. CASE RecordDPIResult
  <2>1. Bypassed(old, passed) \in Entries
    BY <1>1, <1>3, HeadMeasured, BypassedType DEF RecordDPIResult
  <2> QED
    BY <1>3, <2>1, RecordAttempt DEF RecordDPIResult
<1> QED
  BY <1>2, <1>3

LEMMA NextFailed ==
    ASSUME IInv, SwitchFailed
    PROVE  IInv'
<1>1. viable \in Seq(Configs) /\ viable # <<>>
  BY DEF IInv, RoundInv, SwitchFailed
<1>2. /\ Len(viable) \in Nat \ {0}
      /\ viable' \in Seq(Configs) /\ Len(viable') = Len(viable) - 1
      /\ \A i \in 1..(Len(viable) - 1) : viable'[i] = viable[i + 1]
  BY <1>1, HeadIsConfig DEF SwitchFailed
<1>3. tried' = tried + 1 /\ tried \in Nat /\ entries' = entries /\ step' = "try"
  BY ConfigCount DEF SwitchFailed, IInv, TypeOK, dbVars
<1>4. Len(viable') + tried' <= Cardinality(Configs)
  BY <1>2, <1>3, ConfigCount DEF IInv, RoundInv
<1>5. \A i \in 1..Len(viable') : i + 1 \in 1..Len(viable) /\ viable'[i] = viable[i + 1]
  BY <1>2
<1>6. RoundInv'
  BY <1>2, <1>3, <1>4, <1>5 DEF SwitchFailed, IInv, RoundInv, Measured
<1>7. ToSet(todo') \cup ToSet(viable') \subseteq Configs
  <2>1. ToSet(viable') \subseteq Configs
    BY <1>2 DEF ToSet
  <2> QED
    BY <2>1 DEF SwitchFailed, IInv, TypeOK
<1>8. tried' \in 0..Cardinality(Configs)
  BY <1>2, <1>3, <1>4, ConfigCount
<1>9. TypeOK'
  BY <1>7, <1>8 DEF SwitchFailed, IInv, TypeOK, dbVars
<1> QED
  BY <1>6, <1>9 DEF IInv

LEMMA NextSucceeded ==
    ASSUME IInv, SwitchSucceeded
    PROVE  IInv'
<1>1. Head(viable) \in Configs
  BY HeadMeasured DEF SwitchSucceeded
<1>2. /\ RoundInv'
      /\ (ToSet(todo) \cup ToSet(viable) \subseteq Configs)'
      /\ (tried \in 0..Cardinality(Configs))'
  BY RoundStartInv DEF SwitchSucceeded
<1>3. TypeOK'
  BY <1>1, <1>2 DEF SwitchSucceeded, IInv, TypeOK, dbVars
<1> QED
  BY <1>2, <1>3 DEF IInv

LEMMA NextDown ==
    ASSUME IInv, Dies, settings' \in DOMAIN SettingsSeen,
           file' # Missing => IsDB(file')
    PROVE  IInv'
<1>1. /\ RoundInv'
      /\ (ToSet(todo) \cup ToSet(viable) \subseteq Configs)'
      /\ (tried \in 0..Cardinality(Configs))'
  BY RoundStartInv DEF Dies
<1>2. TypeOK'
  BY <1>1, EmptyDB DEF Dies, IInv, TypeOK
<1> QED
  BY <1>1, <1>2 DEF IInv

LEMMA NextStart ==
    ASSUME IInv, Start
    PROVE  IInv'
<1>1. viable = <<>> /\ tried = 0 /\ Len(viable) = 0
  BY DEF Start, IInv, RoundInv
<1>2. IsDB(entries')
  BY EmptyDB DEF Start, load, IInv, TypeOK
<1>3. \A i \in 1..0 : FALSE
  OBVIOUS
<1>4. RoundInv'
  BY <1>1, <1>3 DEF Start, IInv, RoundInv, roundVars
<1>5. TypeOK'
  BY <1>2 DEF Start, IInv, TypeOK, roundVars
<1> QED
  BY <1>4, <1>5 DEF IInv

LEMMA NextInv == IInv /\ [Next]_vars => IInv'
<1> SUFFICES ASSUME IInv, [Next]_vars PROVE IInv'
  OBVIOUS
<1>1. CASE Daemon
  <2>1. CASE StartPanics
    <3>1. TypeOK'
      BY <2>1 DEF StartPanics, vars, roundVars, dbVars, IInv, TypeOK
    <3> QED
      BY <2>1, <3>1, Unchanged DEF StartPanics, vars, dbVars, IInv
  <2> QED
    BY <1>1, <2>1, NextProbe, NextDoSwitch, NextRecordProbe, NextRoundEnds, NextRank,
       NextAttempt, NextRecord, NextFailed, NextSucceeded, NextStart DEF Daemon
<1>2. CASE Reload
  <2>1. TypeOK'
    BY <1>2 DEF Reload, Edited, roundVars, dbVars, IInv, TypeOK
  <2> QED
    BY <1>2, <2>1, Unchanged DEF Reload, dbVars, IInv
<1>3. CASE ReloadPanics
  BY <1>3, NextDown DEF ReloadPanics, Edited, IInv, TypeOK
<1>4. CASE Kill \/ KillWhileSaving
  BY <1>4, NextDown DEF Kill, KillWhileSaving, Killed, IInv, TypeOK
<1>5. CASE NetChanges
  <2>1. TypeOK'
    BY <1>5 DEF NetChanges, roundVars, dbVars, IInv, TypeOK
  <2> QED
    BY <1>5, <2>1, Unchanged DEF NetChanges, dbVars, IInv
<1>6. CASE UNCHANGED vars
  <2>1. TypeOK'
    BY <1>6 DEF vars, roundVars, dbVars, IInv, TypeOK
  <2> QED
    BY <1>6, <2>1, Unchanged DEF vars, dbVars, IInv
<1> QED
  BY <1>1, <1>2, <1>3, <1>4, <1>5, <1>6 DEF Next
-----------------------------------------------------------------------------
LEMMA Invariance == Spec => []IInv
<1>1. Init => IInv
  BY InitInv DEF IInv
<1> QED
  BY <1>1, NextInv, PTL DEF Spec

(* Every number recorded is in the range that the score is made for, over  *)
(* kills and failed writes of scores.json (RecordProbeResult,              *)
(* RecordSession, RecordDPIResult, load).                                  *)
THEOREM TypeCorrect == Spec => []TypeOK
<1>1. IInv => TypeOK
  BY DEF IInv
<1> QED
  BY <1>1, Invariance, PTL

LEMMA StepMovesScores ==
    ASSUME IInv, Next, step \in {"session", "dpi"}, step' \in {"dpi", "end"}
    PROVE  LET tc == Head(viable)
           IN IF passed THEN FirstBypass(tc) \/ Score(entries', tc) >= Score(entries, tc)
              ELSE Score(entries', tc) <= Score(entries, tc)
<1> DEFINE tc == Head(viable)
           e == entryOrDefault(entries, tc.id)
           before == Score(entries, tc)
           after == Score(entries', tc)
<1>1. e \in Known /\ passed \in BOOLEAN
  BY HeadMeasured, EntriesAreKnown DEF IInv, RoundInv
<1>2. before = CompositeScore(e, tc) /\ before \in Int
  <2>1. before = CompositeScore(e, tc)
    BY DEF Score
  <2> QED
    BY <1>1, <2>1, CompositeType
<1>3. CASE RecordSession
  <2>1. entries' = WithEntry(tc.id, Tried(e, passed))
    BY <1>3 DEF RecordSession
  <2>2. after = CompositeScore(Tried(e, passed), tc)
    BY <2>1, WrittenScore
  <2>3. CASE passed = TRUE
    BY <1>1, <1>2, <2>2, <2>3, TriedMoves
  <2>4. CASE passed = FALSE
    BY <1>1, <1>2, <2>2, <2>4, TriedMoves
  <2> QED
    BY <1>1, <2>3, <2>4
<1>4. CASE RecordDPIResult
  <2>1. entries' = WithEntry(tc.id, Bypassed(e, passed)) /\ step = "dpi"
    BY <1>4 DEF RecordDPIResult
  <2>2. after = CompositeScore(Bypassed(e, passed), tc)
    BY <2>1, WrittenScore
  <2>3. CASE passed = TRUE
    BY <1>1, <1>2, <2>1, <2>2, <2>3, BypassedMoves DEF FirstBypass
  <2>4. CASE passed = FALSE
    BY <1>1, <1>2, <2>2, <2>4, BypassedMoves
  <2> QED
    BY <1>1, <2>3, <2>4
<1>5. CASE NetChanges
  <2>1. after = before
    BY <1>5 DEF NetChanges, dbVars
  <2> QED
    BY <1>2, <2>1
<1>6. RecordSession \/ RecordDPIResult \/ NetChanges
  BY DEF Next, Daemon, doProbePasses, doProbeFails, tickSwitching, doSwitch,
     RecordProbeResult, NoneViable, RankViable, Attempt, SwitchFailed, SwitchSucceeded,
     NoneApplied, Start, StartPanics, Reload, ReloadPanics, Edited, Kill,
     KillWhileSaving, Killed, Dies
<1> QED
  BY <1>3, <1>4, <1>5, <1>6

(* An attempt's outcome moves the score of the config that was tried the   *)
(* right way, whatever its history, although each outcome also makes the   *)
(* history count for more (RecordSession, RecordDPIResult,                 *)
(* CompositeScore).                                                        *)
THEOREM OutcomesAlwaysMoveScores == Spec => OutcomesMoveScores
<1>1. IInv /\ [Next]_vars =>
          [(step \in {"session", "dpi"} /\ step' \in {"dpi", "end"}) =>
              LET tc == Head(viable)
              IN IF passed THEN FirstBypass(tc) \/ Score(entries', tc) >= Score(entries, tc)
                 ELSE Score(entries', tc) <= Score(entries, tc)]_vars
  BY StepMovesScores
<1> QED
  BY <1>1, Invariance, PTL DEF Spec, OutcomesMoveScores

(* HEALTHY is left for PROBING by a failed probe alone.                    *)
LEMMA StepLeavesHealthy ==
    ASSUME IInv, Next, state = "HEALTHY", state' = "PROBING"
    PROVE  LET net == Networks[DefaultRoute(active)]
           IN \/ cfg.useDoH /\ net.doh = "hangs"
              \/ 2 * (Len(TargetsOf(cfg)) - AnsweringInTime(net)) >= SampleSize
<1>1. ~SwitchFailed
  BY DEF SwitchFailed, IInv, RoundInv
<1>2. doProbeFails
  BY <1>1 DEF Next, Daemon, doProbePasses, tickSwitching, doSwitch,
     RecordProbeResult, NoneViable, RankViable, Attempt, RecordSession,
     RecordDPIResult, SwitchSucceeded, NoneApplied, Start, StartPanics, Reload,
     ReloadPanics, Edited, Kill, KillWhileSaving, Killed, Dies, NetChanges, vars
<1>3. DefaultRoute(active) \in DOMAIN Networks /\ settings \in DOMAIN SettingsSeen
  BY RouteIsNetwork DEF IInv, TypeOK
<1>4. PICK res \in Verdicts[settings][DefaultRoute(active)] : ~res.success
  BY <1>2 DEF doProbeFails
<1> QED
  BY <1>3, <1>4, VerdictCounts

(* Targets that are down by themselves do not bring a working tunnel down: *)
(* at least half a sample's worth of the targets do not answer over the    *)
(* active config, or only on port 443 after a dropped port 80, when        *)
(* HEALTHY is left, whatever sample was drawn, unless the DoH endpoint     *)
(* hangs (selectTargets, lookupHost, probeICMP, aggregate).                *)
THEOREM WorkingTunnelsKept == Spec => WorkingTunnelKept
<1>1. IInv /\ [Next]_vars =>
          [state = "HEALTHY" /\ state' = "PROBING" =>
              LET net == Networks[DefaultRoute(active)]
              IN \/ cfg.useDoH /\ net.doh = "hangs"
                 \/ 2 * (Len(TargetsOf(cfg)) - AnsweringInTime(net))
                        >= SampleSize]_vars
  BY StepLeavesHealthy
<1> QED
  BY <1>1, Invariance, PTL DEF Spec, WorkingTunnelKept

LEMMA StepCommits ==
    ASSUME IInv, Next, step = "try", step' = "session", passed'
    PROVE  LET net == Networks[DefaultRoute(Head(viable).name)]
           IN \/ cfg.useDoH /\ net.doh = "ok" /\ ~net.dns
              \/ 2 * Answering(net) > SampleSize
<1> DEFINE name == Head(viable).name
<1>1. Attempt
  BY DEF Next, Daemon, doProbePasses, doProbeFails, tickSwitching, doSwitch,
     RecordProbeResult, NoneViable, RankViable, RecordSession, RecordDPIResult,
     SwitchFailed, SwitchSucceeded, NoneApplied, Start, StartPanics, Reload,
     ReloadPanics, Edited, Kill, KillWhileSaving, Killed, Dies, NetChanges, vars
<1>2. Head(viable) \in Configs
  BY <1>1, HeadIsConfig DEF Attempt, IInv, RoundInv
<1>3. DefaultRoute(name) \in DOMAIN Networks /\ settings \in DOMAIN SettingsSeen
  BY <1>2, RouteIsNetwork DEF IInv, TypeOK
<1>4. PICK res \in Verdicts[settings][DefaultRoute(name)] : res.success = passed'
  BY <1>1 DEF Attempt
<1> QED
  BY <1>3, <1>4, VerdictCounts

(* No config is committed on a minority: an attempt that passes its verify *)
(* goes over a network on which more targets answer than make half a       *)
(* sample, or where DoH alone resolves names (verify, aggregate).          *)
THEOREM AlwaysCommittedOnMajority == Spec => CommittedOnMajority
<1>1. IInv /\ [Next]_vars =>
          [step = "try" /\ step' = "session" /\ passed' =>
              LET net == Networks[DefaultRoute(Head(viable).name)]
              IN \/ cfg.useDoH /\ net.doh = "ok" /\ ~net.dns
                 \/ 2 * Answering(net) > SampleSize]_vars
  BY StepCommits
<1> QED
  BY <1>1, Invariance, PTL DEF Spec, CommittedOnMajority
-----------------------------------------------------------------------------
(* What the database counts of the attempts.                               *)

LEMMA IDsFinite == IsFiniteSet(IDs)
<1> DEFINE f == [tc \in Configs |-> tc.id]
<1>1. f \in Surjection(Configs, IDs)
  BY DEF Surjection, IDs
<1> QED
  BY <1>1, ConfigCount, FS_Surjection

WithinBounds(db, n) ==
    /\ \A id \in IDs : Uncounted(db)[id] >= 0
    /\ SumFunction(Uncounted(db)) <= n

(* An attempt whose outcome still has to be counted.                       *)
Pending ==
    step = "session" /\ entryOrDefault(entries, Head(viable).id).sessions < MaxSessions

(* Every kill costs at most the attempt that was pending, and a file that  *)
(* is behind makes the next death one that hurts.                          *)
CountInv ==
    /\ kills \in Nat
    /\ ~hurt /\ step # "down" =>
          /\ WithinBounds(entries, kills + IF Pending THEN 1 ELSE 0)
          /\ Pending => Uncounted(entries)[Head(viable).id] > 0
          /\ unsaved \/ load = entries
    /\ ~hurt /\ step = "down" => ~unsaved /\ WithinBounds(load, kills)

LEMMA SessionsKnown ==
    ASSUME NEW db, IsDB(db), NEW id
    PROVE  entryOrDefault(db, id).sessions \in 0..MaxSessions
BY LookupKnown DEF Known

LEMMA UncountedType ==
    ASSUME TypeOK, NEW db, IsDB(db)
    PROVE  /\ Uncounted(db) \in [IDs -> Int]
           /\ \A id \in IDs :
                 Uncounted(db)[id] = attempts[id] - entryOrDefault(db, id).sessions
<1> SUFFICES ASSUME NEW id \in IDs
             PROVE  attempts[id] - entryOrDefault(db, id).sessions \in Int
  BY Zenon DEF Uncounted
<1> DEFINE n == entryOrDefault(db, id).sessions
           k == attempts[id]
<1>1. n \in 0..MaxSessions /\ k \in 0..MaxSessions
  BY SessionsKnown DEF TypeOK
<1> HIDE DEF n, k
<1>2. k - n \in Int
  BY <1>1, MaxSessionsNat
<1> QED
  BY <1>2 DEF k, n

LEMMA LoadType ==
    ASSUME TypeOK
    PROVE  IsDB(load)
BY EmptyDB DEF TypeOK, load

(* A database that was written is the one that is loaded.                  *)
LEMMA SavedIsLoaded ==
    ASSUME TypeOK, NEW id \in IDs, NEW e \in Entries,
           entries' = WithEntry(id, e), save(entries')
    PROVE  unsaved' \/ load' = entries'
<1> DEFINE D == DOMAIN entries \cup {id}
<1>1. D \in SUBSET IDs /\ entries' \in [D -> Entries]
  BY DEF TypeOK, IsDB, WithEntry
<1>2. entries' # Missing
  BY <1>1, MissingAssumption
<1> QED
  BY <1>2 DEF save, load

(* A probe's result and a bypass are no attempts.                          *)
LEMMA OthersNotCounted ==
    ASSUME TypeOK, NEW id \in IDs, NEW e,
           e.sessions = entryOrDefault(entries, id).sessions,
           entries' = WithEntry(id, e), attempts' = attempts
    PROVE  Uncounted(entries)' = Uncounted(entries)
<1>1. ASSUME NEW i \in IDs
      PROVE  entryOrDefault(entries', i).sessions = entryOrDefault(entries, i).sessions
  <2>1. CASE i = id
    BY <2>1 DEF entryOrDefault, WithEntry
  <2>2. CASE i # id
    BY <2>2 DEF entryOrDefault, WithEntry
  <2> QED
    BY <2>1, <2>2
<1> QED
  BY <1>1 DEF Uncounted

LEMMA CountFrame ==
    ASSUME CountInv, UNCHANGED <<dbVars, attempts, unsaved, hurt, kills>>,
           \/ UNCHANGED <<step, viable>>
           \/ step \notin {"session", "down"} /\ step' \notin {"session", "down"}
    PROVE  CountInv'
<1>1. /\ entries' = entries /\ kills' = kills /\ hurt' = hurt /\ unsaved' = unsaved
      /\ attempts' = attempts /\ load' = load
  BY DEF dbVars, load
<1>2. /\ Uncounted(entries)' = Uncounted(entries)
      /\ Uncounted(load)' = Uncounted(load)
  BY <1>1 DEF Uncounted
<1>3. CASE UNCHANGED <<step, viable>>
  <2>1. Pending' <=> Pending
    BY <1>1, <1>3 DEF Pending
  <2> QED
    BY <1>1, <1>2, <1>3, <2>1 DEF CountInv, WithinBounds
<1>4. CASE step \notin {"session", "down"} /\ step' \notin {"session", "down"}
  <2>1. ~Pending /\ ~Pending'
    BY <1>4 DEF Pending
  <2> QED
    BY <1>1, <1>2, <1>4, <2>1 DEF CountInv, WithinBounds
<1> QED
  BY <1>3, <1>4

LEMMA CountInit == Init => CountInv
<1> SUFFICES ASSUME Init PROVE CountInv
  OBVIOUS
<1>1. /\ kills = 0 /\ step = "idle" /\ entries = <<>> /\ load = <<>>
      /\ attempts = [id \in IDs |-> 0]
  BY DEF Init, load
<1>2. Uncounted(entries) = [id \in IDs |-> 0]
  <2>1. \A id : entryOrDefault(entries, id).sessions = 0
    BY <1>1 DEF entryOrDefault, NewEntry
  <2> QED
    BY <1>1, <2>1 DEF Uncounted
<1>3. SumFunction(Uncounted(entries)) = 0
  BY <1>2, IDsFinite, SumOfZeros
<1>4. ~Pending
  BY <1>1 DEF Pending
<1> QED
  BY <1>1, <1>2, <1>3, <1>4 DEF CountInv, WithinBounds

(* An attempt is pending, if its config can be counted any further.        *)
LEMMA CountAttempt ==
    ASSUME IInv, CountInv, Attempt
    PROVE  CountInv'
<1> DEFINE id == Head(viable).id
           old == Uncounted(entries)
           new == Uncounted(entries)'
           n == entryOrDefault(entries, id).sessions
           k == attempts[id]
           more == IF k < MaxSessions THEN k + 1 ELSE k
<1>1. /\ id \in IDs /\ step = "try" /\ step' = "session" /\ viable' = viable
      /\ entries' = entries /\ kills' = kills /\ hurt' = hurt /\ unsaved' = unsaved
      /\ load' = load /\ attempts' = [attempts EXCEPT ![id] = more]
  <2>1. viable \in Seq(Configs) /\ viable # <<>>
    BY DEF Attempt, IInv, RoundInv
  <2> QED
    BY <2>1, HeadIsConfig DEF Attempt, dbVars, countVars, load
<1>2. TypeOK /\ TypeOK' /\ IsDB(entries)
  BY NextAttempt DEF IInv, TypeOK
<1>3. /\ old \in [IDs -> Int] /\ new \in [IDs -> Int]
      /\ old[id] = k - n /\ new[id] = more - n
      /\ \A i \in IDs \ {id} : new[i] = old[i]
  <2>1. /\ old \in [IDs -> Int]
        /\ \A i \in IDs : old[i] = attempts[i] - entryOrDefault(entries, i).sessions
    BY <1>2, UncountedType
  <2>2. new = [i \in IDs |-> attempts'[i] - entryOrDefault(entries, i).sessions]
    BY <1>1 DEF Uncounted
  <2>3. attempts'[id] = more /\ \A i \in IDs \ {id} : attempts'[i] = attempts[i]
    BY <1>1, <1>2 DEF TypeOK
  <2>4. more \in Int /\ k \in Int /\ n \in Int
    <3>1. k \in 0..MaxSessions /\ n \in 0..MaxSessions
      BY <1>1, <1>2, SessionsKnown DEF TypeOK
    <3> HIDE DEF k, n
    <3> QED
      BY <3>1, MaxSessionsNat
  <2>5. /\ new[id] = more - n
        /\ \A i \in IDs \ {id} : new[i] = old[i]
    BY <1>1, <2>1, <2>2, <2>3
  <2> HIDE DEF more, k, n
  <2>6. new \in [IDs -> Int]
    <3>1. \A i \in IDs : new[i] \in Int
      BY <2>1, <2>4, <2>5
    <3> QED
      BY <2>2, <3>1, Zenon
  <2> QED
    BY <1>1, <2>1, <2>5, <2>6 DEF k, n
<1>4. /\ SumFunction(old) \in Int
      /\ SumFunction(new) = SumFunction(old) + (new[id] - old[id])
  <2> HIDE DEF id, old, new
  <2> QED
    BY <1>1, <1>3, IDsFinite, SumMoves
<1>5. n \in 0..MaxSessions /\ k \in 0..MaxSessions /\ MaxSessions \in Nat
  BY <1>1, <1>2, SessionsKnown, MaxSessionsNat DEF TypeOK
<1>6. (Pending' <=> n < MaxSessions) /\ ~Pending
  BY <1>1 DEF Pending
<1>7. SUFFICES ASSUME ~hurt
               PROVE  /\ \A i \in IDs : new[i] >= 0
                      /\ SumFunction(new) <= kills + IF n < MaxSessions THEN 1 ELSE 0
                      /\ n < MaxSessions => new[id] > 0
  BY <1>1, <1>6 DEF CountInv, WithinBounds
<1>8. kills \in Nat /\ (\A i \in IDs : old[i] >= 0) /\ SumFunction(old) <= kills
  BY <1>1, <1>6, <1>7 DEF CountInv, WithinBounds
<1> DEFINE sum == SumFunction(old)
           sum2 == SumFunction(new)
<1>9. k - n >= 0
  BY <1>1, <1>3, <1>8
<1> HIDE DEF n, k, id, old, new, sum, sum2
<1>10. sum \in Int /\ sum2 = sum + (new[id] - old[id]) /\ sum <= kills
  BY <1>4, <1>8 DEF sum, sum2
<1>11. n < MaxSessions => new[id] > 0
  BY <1>3, <1>5, <1>9
<1>12. new[id] >= 0
  BY <1>3, <1>5, <1>9
<1>13. sum2 <= kills + IF n < MaxSessions THEN 1 ELSE 0
  <2>1. n < MaxSessions \/ k = MaxSessions
    BY <1>5, <1>9
  <2>2. new[id] - old[id] = more - k
    BY <1>3, <1>5
  <2>3. more - k <= IF n < MaxSessions THEN 1 ELSE 0
    BY <1>5, <2>1
  <2> QED
    BY <1>5, <1>8, <1>10, <2>2, <2>3
<1> QED
  BY <1>3, <1>8, <1>11, <1>12, <1>13 DEF sum2

(* The outcome of the attempt is counted.                                  *)
LEMMA CountSession ==
    ASSUME IInv, CountInv, RecordSession
    PROVE  CountInv'
<1> DEFINE id == Head(viable).id
           e == entryOrDefault(entries, id)
           old == Uncounted(entries)
           new == Uncounted(entries)'
           n == e.sessions
           k == attempts[id]
           more == IF n < MaxSessions THEN n + 1 ELSE n
<1>1. /\ step = "session" /\ step' \in {"end", "dpi"}
      /\ kills' = kills /\ hurt' = hurt /\ attempts' = attempts
      /\ entries' = WithEntry(id, Tried(e, passed)) /\ save(entries')
  BY DEF RecordSession
<1>2. e \in Entries /\ id \in IDs /\ passed \in BOOLEAN
  BY <1>1, HeadMeasured DEF IDs, IInv, RoundInv
<1>3. Tried(e, passed) \in Entries /\ Tried(e, passed).sessions = more
  <2>1. Tried(e, passed) \in Entries
    BY <1>2, TriedType
  <2> HIDE DEF e
  <2>2. Tried(e, passed).sessions = IF e.sessions < MaxSessions THEN e.sessions + 1 ELSE e.sessions
    BY <1>2 DEF Tried, Entries
  <2> QED
    BY <2>1, <2>2 DEF e
<1>4. TypeOK /\ IsDB(entries) /\ TypeOK'
  BY NextRecord DEF IInv, TypeOK
<1>5. unsaved' \/ load' = entries'
  <2> HIDE DEF e, id
  <2> QED
    BY <1>1, <1>2, <1>3, <1>4, SavedIsLoaded
<1>6. /\ old \in [IDs -> Int] /\ new \in [IDs -> Int]
      /\ old[id] = k - n /\ new[id] = k - more
      /\ \A i \in IDs \ {id} : new[i] = old[i]
  <2>1. /\ old \in [IDs -> Int]
        /\ \A i \in IDs : old[i] = attempts[i] - entryOrDefault(entries, i).sessions
    BY <1>4, UncountedType
  <2>2. new = [i \in IDs |-> attempts[i] - entryOrDefault(entries', i).sessions]
    BY <1>1 DEF Uncounted
  <2>3. \A i \in IDs \ {id} : entryOrDefault(entries', i) = entryOrDefault(entries, i)
    BY <1>1 DEF WithEntry, entryOrDefault
  <2>4. entryOrDefault(entries', id) = Tried(e, passed)
    BY <1>1 DEF WithEntry, entryOrDefault
  <2>5. more \in Int /\ k \in Int /\ n \in Int
    <3>1. k \in 0..MaxSessions /\ n \in 0..MaxSessions
      BY <1>2, <1>4, SessionsKnown DEF TypeOK
    <3> HIDE DEF k, n
    <3> QED
      BY <3>1, MaxSessionsNat
  <2>6. new[id] = k - more
    BY <1>2, <1>3, <2>2, <2>4
  <2>7. \A i \in IDs \ {id} : new[i] = old[i]
    BY <2>1, <2>2, <2>3
  <2> HIDE DEF more, k, n
  <2>8. new \in [IDs -> Int]
    <3>1. \A i \in IDs : new[i] \in Int
      BY <2>1, <2>5, <2>6, <2>7
    <3> QED
      BY <2>2, <3>1, Zenon
  <2> QED
    BY <1>2, <2>1, <2>6, <2>7, <2>8 DEF k, n
<1>7. /\ SumFunction(old) \in Int
      /\ SumFunction(new) = SumFunction(old) + (new[id] - old[id])
  <2> HIDE DEF id, old, new
  <2> QED
    BY <1>2, <1>6, IDsFinite, SumMoves
<1>8. n \in 0..MaxSessions /\ k \in 0..MaxSessions /\ MaxSessions \in Nat
  BY <1>2, <1>4, SessionsKnown, MaxSessionsNat DEF TypeOK
<1>9. (Pending <=> n < MaxSessions) /\ ~Pending'
  BY <1>1 DEF Pending
<1>10. SUFFICES ASSUME ~hurt
                PROVE  /\ \A i \in IDs : new[i] >= 0
                       /\ SumFunction(new) <= kills
  <2>1. step' # "down" /\ kills \in Nat
    BY <1>1 DEF CountInv
  <2>2. new = Uncounted(entries)' /\ ~Pending'
    BY <1>9
  <2> HIDE DEF new
  <2>3. kills' + (IF Pending' THEN 1 ELSE 0) = kills
    BY <1>1, <2>1, <2>2
  <2> QED
    BY <1>1, <1>5, <2>1, <2>2, <2>3 DEF CountInv, WithinBounds
<1>11. /\ kills \in Nat /\ (\A i \in IDs : old[i] >= 0)
       /\ SumFunction(old) <= kills + IF n < MaxSessions THEN 1 ELSE 0
       /\ n < MaxSessions => old[id] > 0
  BY <1>1, <1>9, <1>10 DEF CountInv, WithinBounds
<1> DEFINE sum == SumFunction(old)
           sum2 == SumFunction(new)
<1> HIDE DEF n, k, id, e, old, new, sum, sum2
<1>12. sum \in Int /\ sum2 = sum + (new[id] - old[id])
       /\ sum <= kills + IF n < MaxSessions THEN 1 ELSE 0
  BY <1>7, <1>11 DEF sum, sum2
<1>13. old[id] >= 0
  BY <1>2, <1>11
<1>14. new[id] >= 0
  BY <1>6, <1>8, <1>11, <1>13
<1>15. sum2 <= kills
  BY <1>6, <1>8, <1>11, <1>12
<1> QED
  BY <1>6, <1>11, <1>14, <1>15 DEF sum2

LEMMA CountOthers ==
    ASSUME IInv, CountInv, RecordProbeResult \/ RecordDPIResult
    PROVE  CountInv'
<1>1. /\ step \notin {"session", "down"} /\ step' \notin {"session", "down"}
      /\ kills' = kills /\ hurt' = hurt /\ attempts' = attempts
  BY DEF RecordProbeResult, RecordDPIResult
<1>2. Uncounted(entries)' = Uncounted(entries) /\ (unsaved' \/ load' = entries')
  <2>1. CASE RecordProbeResult
    <3> DEFINE tc == Head(todo)
               old == entryOrDefault(entries, tc.id)
               e == Probed(old, results[tc])
    <3>1. tc \in Configs /\ tc.id \in IDs /\ results[tc] \in Results
      <4>1. /\ todo \in Seq(Configs) /\ todo # <<>>
            /\ \A i \in 1..Len(todo) : results[todo[i]] # NoNetwork
        BY <2>1 DEF RecordProbeResult, IInv, RoundInv
      <4>2. tc \in Configs /\ tc.id \in IDs /\ tc = todo[1] /\ 1 \in 1..Len(todo)
        BY <4>1, HeadIsConfig
      <4> QED
        BY <4>1, <4>2 DEF IInv, RoundInv
    <3>2. old \in Known
      BY LookupKnown DEF IInv, TypeOK
    <3>3. entries' = WithEntry(tc.id, e) /\ save(entries')
      BY <2>1 DEF RecordProbeResult
    <3> HIDE DEF tc
    <3>4. e \in Entries
      BY <3>1, <3>2, ProbedType
    <3>5. e.sessions = entryOrDefault(entries, tc.id).sessions
      BY <3>2 DEF Probed, Known
    <3> HIDE DEF e
    <3> QED
      BY <1>1, <3>1, <3>3, <3>4, <3>5, OthersNotCounted, SavedIsLoaded DEF IInv
  <2>2. CASE RecordDPIResult
    <3> DEFINE id == Head(viable).id
               old == entryOrDefault(entries, id)
               e == Bypassed(old, passed)
    <3>1. id \in IDs /\ old \in Entries /\ passed \in BOOLEAN
      BY <2>2, HeadMeasured DEF RecordDPIResult, IDs, IInv, RoundInv
    <3>2. entries' = WithEntry(id, e) /\ save(entries')
      BY <2>2 DEF RecordDPIResult
    <3> HIDE DEF id
    <3>3. e \in Entries
      BY <3>1, BypassedType
    <3>4. e.sessions = entryOrDefault(entries, id).sessions
      BY <3>1 DEF Bypassed, Entries
    <3> HIDE DEF e
    <3> QED
      BY <1>1, <3>1, <3>2, <3>3, <3>4, OthersNotCounted, SavedIsLoaded DEF IInv
  <2> QED
    BY <2>1, <2>2
<1>3. ~Pending /\ ~Pending'
  BY <1>1 DEF Pending
<1> QED
  BY <1>1, <1>2, <1>3 DEF CountInv, WithinBounds

(* A death that does not hurt leaves the file as the database was.         *)
LEMMA CountDeath ==
    ASSUME IInv, CountInv, ReloadPanics \/ Kill \/ KillWhileSaving
    PROVE  CountInv'
<1>1. /\ step' = "down" /\ attempts' = attempts /\ unsaved' = unsaved
      /\ kills \in Nat /\ kills' \in {kills, kills + 1}
  BY DEF ReloadPanics, Kill, KillWhileSaving, Killed, Dies, CountInv
<1>2. kills' \in Nat
  BY <1>1
<1>3. SUFFICES ASSUME ~hurt' PROVE ~unsaved' /\ WithinBounds(load, kills)'
  BY <1>1, <1>2 DEF CountInv
<1>4. ~hurt /\ ~unsaved /\ load' = load /\ step # "down" /\ (Pending => kills' = kills + 1)
  BY <1>3 DEF ReloadPanics, Edited, Kill, KillWhileSaving, Killed, load, Pending
<1>5. load = entries /\ WithinBounds(entries, kills + IF Pending THEN 1 ELSE 0)
  BY <1>4 DEF CountInv
<1> DEFINE sum == SumFunction(Uncounted(load))
<1>6. Uncounted(load)' = Uncounted(load)
  BY <1>1, <1>4 DEF Uncounted
<1>7. /\ \A id \in IDs : Uncounted(load)[id] >= 0
      /\ sum <= kills + IF Pending THEN 1 ELSE 0
  BY <1>5 DEF WithinBounds
<1>8. sum \in Int
  <2>1. PICK f \in [IDs -> Int] : f = Uncounted(load)
    BY UncountedType, LoadType DEF IInv
  <2> QED
    BY <2>1, IDsFinite, SumType
<1> HIDE DEF sum
<1>9. sum <= kills'
  BY <1>1, <1>4, <1>7, <1>8
<1> QED
  BY <1>1, <1>4, <1>6, <1>7, <1>9 DEF WithinBounds, sum

LEMMA CountStart ==
    ASSUME CountInv, Start
    PROVE  CountInv'
<1>1. /\ step = "down" /\ step' = "idle" /\ entries' = load /\ load' = load
      /\ kills' = kills /\ hurt' = hurt /\ unsaved' = unsaved /\ attempts' = attempts
  BY DEF Start, countVars, load
<1>2. Uncounted(entries)' = Uncounted(load)
  BY <1>1 DEF Uncounted
<1>3. ~Pending'
  BY <1>1 DEF Pending
<1>4. kills \in Nat /\ kills + 0 = kills
  BY DEF CountInv
<1> QED
  BY <1>1, <1>2, <1>3, <1>4 DEF CountInv, WithinBounds

LEMMA CountNext == IInv /\ CountInv /\ [Next]_vars => CountInv'
<1> SUFFICES ASSUME IInv, CountInv, [Next]_vars PROVE CountInv'
  OBVIOUS
<1>1. CASE \/ doProbePasses \/ doProbeFails \/ tickSwitching \/ doSwitch
           \/ NoneViable \/ RankViable \/ SwitchFailed \/ SwitchSucceeded \/ NoneApplied
           \/ StartPanics \/ Reload \/ NetChanges \/ UNCHANGED vars
  <2>1. /\ UNCHANGED <<dbVars, attempts, unsaved, hurt, kills>>
        /\ \/ UNCHANGED <<step, viable>>
           \/ step \notin {"session", "down"} /\ step' \notin {"session", "down"}
    BY <1>1 DEF doProbePasses, doProbeFails, tickSwitching, doSwitch, NoneViable,
       RankViable, SwitchFailed, SwitchSucceeded, NoneApplied, StartPanics, Reload,
       Edited, NetChanges, vars, roundVars, countVars
  <2> QED
    BY <2>1, CountFrame
<1> QED
  BY <1>1, CountAttempt, CountSession, CountOthers, CountDeath, CountStart
     DEF Next, Daemon

(* Whatever the configs, networks and settings: of all attempts made, the  *)
(* scores lose over restarts at most one for every kill, and count none    *)
(* twice, unless a write of scores.json had failed or was cut short        *)
(* (RecordSession, save, load).                                            *)
THEOREM HistoryAlwaysSurvives == Spec => []HistorySurvives
<1>1. IInv /\ CountInv => HistorySurvives
  <2> SUFFICES ASSUME CountInv, IInv, step # "down", ~hurt
               PROVE  /\ \A id \in IDs : Uncounted(entries)[id] >= 0
                      /\ SumFunction(Uncounted(entries))
                            <= kills + IF step = "session" THEN 1 ELSE 0
    BY DEF HistorySurvives
  <2> DEFINE sum == SumFunction(Uncounted(entries))
  <2>1. /\ kills \in Nat /\ (\A id \in IDs : Uncounted(entries)[id] >= 0)
        /\ sum <= kills + IF Pending THEN 1 ELSE 0
    BY DEF CountInv, WithinBounds
  <2>2. sum \in Int
    <3>1. PICK f \in [IDs -> Int] : f = Uncounted(entries)
      BY UncountedType DEF IInv, TypeOK
    <3> QED
      BY <3>1, IDsFinite, SumType
  <2> HIDE DEF sum
  <2>3. sum <= kills + IF step = "session" THEN 1 ELSE 0
    BY <2>1, <2>2 DEF Pending
  <2> QED
    BY <2>1, <2>3 DEF sum
<1>2. Init => CountInv
  BY CountInit
<1> QED
  BY <1>1, <1>2, CountNext, Invariance, PTL DEF Spec
=============================================================================
