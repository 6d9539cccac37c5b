------------------------------ MODULE Scoring ------------------------------
(***************************************************************************)
(* scoring.Entry and DB (daemon/internal/scoring/scoring.go) as functions: *)
(* what a result makes of an entry, and how entries rank.  Fractions are   *)
(* in hundredths, RTTs in ms.  A database maps the IDs that have an entry  *)
(* to [rtt, loss, session, sessions, dpi, blocked].                        *)
(***************************************************************************)
EXTENDS Integers, SequencesExt

(* sampleConf, 1 - exp(-n/6), for n = 1, 2, ...; from the last on it is    *)
(* taken to stay, and Sessions is counted no further.                      *)
SampleConf == <<15, 28, 39, 49, 57, 63, 69, 74>>
MaxSessions == Len(SampleConf)

(* entry, entryOrDefault.                                                  *)
NewEntry == [rtt |-> 0, loss |-> 0, session |-> 50, sessions |-> 0, dpi |-> 0, blocked |-> FALSE]

entryOrDefault(db, id) == IF id \in DOMAIN db THEN db[id] ELSE NewEntry

AtLeast(low, n) == IF n < low THEN low ELSE n

(* ewmaAlpha * value + (1 - ewmaAlpha) * average.                          *)
ewma(value, average) == (3 * value + 7 * average) \div 10

(* The session average comes down towards 0 but does not get there, which  *)
(* the score would take for no history.                                    *)
SessionAfter(success, average) == AtLeast(1, ewma(IF success THEN 100 ELSE 0, average))

(* RecordProbeResult on an entry: no success, or less than 1 ms, is 5 s.   *)
Probed(e, res) ==
    LET rttMs == IF res.rtt <= 0 THEN 5000 ELSE res.rtt
    IN IF e.rtt = 0 THEN [e EXCEPT !.rtt = rttMs, !.loss = res.loss]
       ELSE [e EXCEPT !.rtt = ewma(rttMs, @), !.loss = ewma(res.loss, @)]

(* Slip: only an attempt that succeeds is recorded.                        *)
TriedUnpunished(e, success) ==
    IF success
    THEN [e EXCEPT !.session = SessionAfter(success, @),
                   !.sessions = IF @ < MaxSessions THEN @ + 1 ELSE @]
    ELSE e

(* RecordSession on an entry.                                              *)
Tried(e, success) ==
    [e EXCEPT !.session = SessionAfter(success, @),
              !.sessions = IF @ < MaxSessions THEN @ + 1 ELSE @]

(* RecordDPIResult on an entry: from its first result on it is blocked,    *)
(* that is, has a LastBlockType.                                           *)
Bypassed(e, success) ==
    [e EXCEPT !.dpi = ewma(IF success THEN 100 ELSE 0, @), !.blocked = TRUE]

(* protocolSecurity, of a config that is valid.                            *)
protocolSecurity(tc) ==
    CASE tc.protocol = "awg" -> 92
      [] tc.protocol = "wg"  -> 88
      [] tc.protocol = "vless" /\ tc.security = "reality" -> 95
      [] tc.protocol = "vless" /\ tc.security = "tls"     -> 85
      [] OTHER -> 65

reliability(e) ==
    LET conf == IF e.sessions = 0 THEN 0 ELSE SampleConf[e.sessions]
    IN (e.session * conf + 50 * (100 - conf)) \div 100

performance(e) ==
    LET rttMs == IF e.rtt <= 0 THEN 1000 ELSE e.rtt
    IN ((100 - e.loss) * 120) \div (120 + rttMs)

(* An entry without history under DPI is neutral, but the average starts   *)
(* from 0.                                                                 *)
dpiOf(e) == IF ~e.blocked /\ e.dpi = 0 THEN 50 ELSE e.dpi

(* Slip: a config that never got through a block is neutral again.         *)
CompositeScoreForgiving(e, tc) ==
    24 * (IF e.dpi = 0 THEN 50 ELSE e.dpi) + 16 * e.session + 35 * performance(e)
        + 15 * protocolSecurity(tc) + 10 * reliability(e)

(* Between 0 and 10000.  0.40 * availability is 0.24 * dpi + 0.16 * session. *)
CompositeScore(e, tc) ==
    24 * dpiOf(e) + 16 * e.session + 35 * performance(e)
        + 15 * protocolSecurity(tc) + 10 * reliability(e)

Score(db, tc) == CompositeScore(entryOrDefault(db, tc.id), tc)

(* Rank: the orders of configs the sort, which is not stable, may yield.   *)
Rank(db, configs) ==
    {order \in SetToSeqs(configs) : \A i \in 1..(Len(order) - 1) :
        Score(db, order[i]) >= Score(db, order[i + 1])}
=============================================================================
