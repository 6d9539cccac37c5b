------------------------------ MODULE MCScores ------------------------------
(* Instances of Scores for TLC.                                            *)
EXTENDS Scores

(* The defaults of the daemon, and one domain of the user's.               *)
Target(host, port, type, literal) ==
    [host |-> host, port |-> port, type |-> type, literal |-> literal]
MCDefaults ==
    << Target("1.1.1.1", 0, "icmp", TRUE), Target("telegram", 443, "https", FALSE),
       Target("gstatic", 80, "http", FALSE) >>

MCSettings(sections, domains, pool, useDoH, maxSwitchAttempts) ==
    [defaults |-> MCDefaults, sections |-> sections, domains |-> domains, rotate |-> TRUE,
     pool |-> pool, useDoH |-> useDoH, maxSwitchAttempts |-> maxSwitchAttempts]
MCSettingsSeen ==
    [ defaults |-> MCSettings(<<>>, <<"site">>, 3, TRUE, 1),
      domains  |-> MCSettings(<<>>, <<"site", "gstatic">>, 0, FALSE, 0),
      own      |-> MCSettings(<<Target("own", 8080, "tcp", FALSE)>>, <<>>, 3, TRUE, 3) ]

File(parses, id, enabled, protocol, body, security) ==
    [parses |-> parses, id |-> id, enabled |-> enabled, protocol |-> protocol,
     body |-> body, security |-> security]
MCFiles ==
    [ slow     |-> File(TRUE, "", TRUE, "wg", "wg", ""),
      b        |-> File(TRUE, "fast", TRUE, "vless", "vless", "tls"),
      disabled |-> File(TRUE, "", FALSE, "awg", "awg", ""),
      wrong    |-> File(TRUE, "", TRUE, "awg", "wg", ""),
      broken   |-> File(FALSE, "", TRUE, "wg", "wg", "") ]
(* With a second file of one ID: the two share an entry.                   *)
MCFilesShared ==
    [n \in DOMAIN MCFiles \cup {"copy"} |->
        IF n = "copy" THEN File(TRUE, "fast", TRUE, "vless", "vless", "tls") ELSE MCFiles[n]]

Ports == {"1.1.1.1", "telegram", "gstatic", "site"} \X {80, 443}
Hosts == {p[1] : p \in Ports}
NetDropping(doh, dns, down, dropped, rtt) ==
    [doh |-> doh, dns |-> dns, open |-> {p \in Ports : p[1] \notin down} \ dropped,
     dropped |-> dropped, answers |-> Hosts \ down, rtt |-> rtt]
Net(doh, dns, down, rtt) == NetDropping(doh, dns, down, {}, rtt)
MCNetworks ==
    [ near |-> Net("ok", TRUE, {}, 20),
      far  |-> Net("ok", TRUE, {}, 100),
      slow |-> Net("ok", TRUE, {}, 300),
      dead |-> Net("fails", FALSE, Hosts, 0),
      noSite    |-> Net("fails", TRUE, {"site"}, 100),
      dohHangs  |-> Net("hangs", TRUE, {}, 20),
      port80    |-> NetDropping("ok", TRUE, {"site"}, {<<"1.1.1.1", 80>>}, 20),
      dohOnly   |-> Net("ok", FALSE, {"site"}, 20) ]

World(direct, slow, fast, slowOn, fastOn, block) ==
    [direct |-> direct, tunnel |-> [slow |-> slow, b |-> fast, copy |-> NoNetwork],
     on |-> [slow |-> slowOn, b |-> fastOn, copy |-> "dead"], block |-> block]
(* There copy, which has the ID and the entry of b, comes up as well.      *)
WithCopy(w, copy, copyOn) == [w EXCEPT !.tunnel.copy = copy, !.on.copy = copyOn]
MCWorlds ==
    [ (* the better rated config passes its probe only *)
      half    |-> WithCopy(World("dead", "far", "near", "far", "dead", "none"), "near", "far"),
      blocked |-> World("dead", "far", "near", "noSite", "dohHangs", "blocked"),
      (* it works now, but for a target; names resolve over DoH; the slow
         one carries nothing *)
      fast    |-> World("port80", "dead", "near", "dead", "dohOnly", "none"),
      (* the slow one is too slow to be tried *)
      starved |-> World("dead", "slow", "near", "slow", "dead", "none"),
      (* nothing works *)
      dark    |-> World("dead", NoNetwork, NoNetwork, "dead", "dead", "none") ]
(* Without the one in which a config that works is never reached.          *)
MCWorldsServed == [w \in DOMAIN MCWorlds \ {"starved"} |-> MCWorlds[w]]
=============================================================================
