------------------------------- MODULE Probe -------------------------------
(***************************************************************************)
(* probe.Engine (daemon/internal/probe/probe.go): which targets a probe    *)
(* takes, how each of them ends over a network, and the verdict.           *)
(*                                                                         *)
(* A network is what sockets with one mark meet: [doh, dns, open, dropped, *)
(* answers, rtt].  doh is how the DoH endpoint behaves ("ok", "fails",     *)
(* "hangs"), dns whether the system resolver works, open the <<host, port>>*)
(* pairs a dial reaches, dropped those whose dial gets no reply at all (it *)
(* is refused at the others), answers the hosts that reply to an HTTP      *)
(* request (with any status), rtt how long a probe takes, in ms.           *)
(***************************************************************************)
EXTENDS Integers, FiniteSets, FiniteSetsExt, SequencesExt

(* selectTargets: the index sets a probe may take.  perm is random.        *)
selectTargets(targets, rotate, pool) ==
    LET all == DOMAIN targets
        size == IF pool <= 0 \/ pool >= Len(targets) THEN Len(targets) ELSE pool
    IN IF ~rotate \/ Len(targets) <= 1 THEN {all} ELSE kSubset(size, all)

(* Slip: there is no fallback from DoH to the system resolver.             *)
lookupHostNoFallback(t, net, useDoH) ==
    t.literal \/ (IF useDoH THEN net.doh = "ok" ELSE net.dns)

(* lookupHost: a DoH endpoint that refuses leaves the rest of the timeout  *)
(* to the system resolver; one that hangs outlives the probe's context     *)
(* (6 s against ProbeTimeout), and nothing is left.                        *)
lookupHost(t, net, useDoH) ==
    \/ t.literal
    \/ useDoH /\ net.doh = "ok"
    \/ (useDoH => net.doh = "fails") /\ net.dns

Port(t) == CASE t.port # 0 -> t.port
             [] t.port = 0 /\ t.type = "https" -> 443
             [] OTHER -> 80

(* probeICMP dials, as ICMP needs a capability.  Both dials share the      *)
(* probe's context (5 s, the dialer's own timeout is 10 s): a port 80 that *)
(* is dropped leaves nothing for port 443.                                 *)
probeICMP(t, net) ==
    \/ <<t.host, 80>> \in net.open
    \/ <<t.host, 80>> \notin net.dropped /\ <<t.host, 443>> \in net.open

probeTCP(t, net) == <<t.host, Port(t)>> \in net.open

probeHTTP(t, net) == probeTCP(t, net) /\ t.host \in net.answers

(* runProbe: a type that is none of these is an error.                     *)
runProbe(t, net, useDoH) ==
    /\ lookupHost(t, net, useDoH)
    /\ \/ t.type = "icmp" /\ probeICMP(t, net)
       \/ t.type = "tcp" /\ probeTCP(t, net)
       \/ t.type \in {"http", "https"} /\ probeHTTP(t, net)

(* Slip: a probe passes as soon as one target answers.                     *)
AggResultLenient(n, ok, rtt) ==
    [success |-> ok > 0,
     rtt     |-> IF ok > 0 THEN rtt ELSE 0,
     loss    |-> IF n = 0 THEN 100 ELSE (100 * (n - ok)) \div n]

(* Slip: the loss is not divided by the number of targets.                 *)
AggResultUndivided(n, ok, rtt) ==
    [success |-> 2 * ok > n,
     rtt     |-> IF ok > 0 THEN rtt ELSE 0,
     loss    |-> 100 * (n - ok)]

(* aggregate, of n results of which ok succeeded in rtt ms each; loss is   *)
(* in hundredths.                                                          *)
AggResult(n, ok, rtt) ==
    [success |-> 2 * ok > n,
     rtt     |-> IF ok > 0 THEN rtt ELSE 0,
     loss    |-> IF n = 0 THEN 100 ELSE (100 * (n - ok)) \div n]

(* ProbeTargets over a network: all targets of the sample, concurrently.   *)
aggregate(targets, sample, net, useDoH) ==
    AggResult(Cardinality(sample),
              Cardinality({i \in sample : runProbe(targets[i], net, useDoH)}), net.rtt)

(* The outcomes ProbeAll may have.                                         *)
ProbeAll(targets, rotate, pool, net, useDoH) ==
    {aggregate(targets, sample, net, useDoH) : sample \in selectTargets(targets, rotate, pool)}
=============================================================================
