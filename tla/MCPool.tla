------------------------------- MODULE MCPool -------------------------------
(* Instances of Pool for TLC.                                              *)
EXTENDS Pool

(* One or two of each of the generator's choices.                          *)
MCMTUs == <<1280>>
MCPorts == <<443>>
MCFingerprints == <<"chrome">>
MCTransports == <<"ws", "h3">>
MCPaths == <<[slug |-> "api", path |-> "/api", service |-> "api"]>>
MCProfiles == <<"mild", "moderate", "aggressive">>

(* The generator's own lists (those a WireGuard config uses).             *)
AllMTUs == <<1200, 1280, 1360>>
AllPorts == <<443, 80, 53>>

VLESS(mtu, fp, tr) ==
    BaseConfig("x", "vless",
        [Unset EXCEPT !.mtu = mtu, !.port = 8443, !.fp = fp, !.tr = tr, !.security = "tls"])
WG(mtu) == BaseConfig("w", "wg", [Unset EXCEPT !.mtu = mtu, !.port = 51820])

AWG(junk) ==
    BaseConfig("a", "awg", [Unset EXCEPT !.mtu = 1400, !.port = 51820, !.junk = junk])

MCIDs == {"x", "a"}
MCConfigsOf ==
    [b \in MCIDs |-> IF b = "a" THEN {AWG("own")}
                     ELSE {VLESS(0, "firefox", "tcp"), VLESS(1400, "safari", "ws")}]

WGIDs == {"w"}
WGConfigsOf == [b \in WGIDs |-> {WG(1420)}]

Net(tcp, http, tls) == [targets |-> TRUE, tcp |-> tcp, http |-> http, tls |-> tls]
MCNetworks == {Net("ok", "ok", "rst"), Net("ok", "rst", "ok"), Net("ok", "timeout", "ok")}

Answer(base, mtu, fp, tr) ==
    [base |-> base, confidence |-> 80, mtu |-> mtu, port |-> 0, fp |-> fp, tr |-> tr,
     path |-> NoPath, junk |-> ""]

(* One that is taken, with a fingerprint nothing knows; two the validator  *)
(* refuses; one of a base config that is not there.                        *)
MCAnswers == {Answer("x", 1300, "odd", "grpc"), Answer("x", 0, "", "h3"),
              Answer("x", 9000, "", "ws"), Answer("y", 0, "", "")}

(* What Pool_rounds tells states apart by: what worked is of no more use   *)
(* once a write has failed, for the properties ask for it until then only. *)
View == <<storeVars, aiVars, roundVars, hurt, IF hurt THEN <<>> ELSE <<worked, cut>>,
          probed, calls, edits, kills>>

WGAnswers == {Answer("w", 1300, "", "")}
NoAnswers == {}
=============================================================================
