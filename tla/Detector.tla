------------------------------ MODULE Detector ------------------------------
(***************************************************************************)
(* dpi.Detect (daemon/internal/dpi/detector.go): the staged test that      *)
(* classifies an outage, as a function of what the network answers.  A     *)
(* reason code is a tuple whose first element is the code's prefix;        *)
(* confidence is in hundredths.                                            *)
(***************************************************************************)
EXTENDS Integers

(* What can come of one stage: how the dial, the HTTP HEAD on the last     *)
(* port tried and the HTTPS HEAD end.  A refusal is no reset.              *)
TCPOutcomes == {"ok", "rst_fast", "rst", "refused", "timeout", "error"}
HTTPOutcomes == {"ok", "refused", "rst", "timeout", "error"}
TLSOutcomes == {"ok", "certificate", "rst", "timeout", "error"}

Networks ==
    [targets : BOOLEAN, tcp : TCPOutcomes, http : HTTPOutcomes, tls : TLSOutcomes]

DetectionResult(block, reason, confidence) ==
    [block |-> block, reason |-> reason, confidence |-> confidence]

classifyTCPError(outcome) ==
    CASE outcome = "rst_fast" -> DetectionResult("protocol_dpi", <<"tcp", "rst_fast">>, 90)
      [] outcome = "rst"      -> DetectionResult("tcp_block", <<"tcp", "rst">>, 80)
      [] outcome = "refused"  -> DetectionResult("none", <<"tcp", "refused">>, 30)
      [] outcome = "timeout"  -> DetectionResult("tcp_block", <<"tcp", "timeout">>, 70)
      [] outcome = "error"    -> DetectionResult("tcp_block", <<"tcp", "connect_error">>, 55)

(* classifyHTTPError's likelyDPI: the other errors go on to the TLS stage. *)
likelyDPI(outcome) == outcome \in {"rst", "timeout"}

classifyHTTPError(outcome) ==
    IF outcome = "rst" THEN DetectionResult("http_dpi", <<"http", "rst">>, 85)
    ELSE DetectionResult("http_dpi", <<"http", "timeout">>, 55)

(* A TLS failure counts for less when HTTP was not reachable either.       *)
classifyTLSError(outcome, httpOK) ==
    CASE outcome = "certificate" ->
             DetectionResult("none", <<"tls", "certificate_error">>, 90)
      [] outcome = "rst" ->
             DetectionResult("tls_dpi", <<"tls", "rst">>, IF httpOK THEN 70 ELSE 50)
      [] outcome = "timeout" ->
             DetectionResult("tls_dpi", <<"tls", "timeout">>, IF httpOK THEN 65 ELSE 45)
      [] outcome = "error" ->
             DetectionResult("tls_dpi", <<"tls", "handshake_error">>, IF httpOK THEN 60 ELSE 40)

Detect(net) ==
    CASE ~net.targets -> DetectionResult("none", <<"no_probe_targets">>, 95)
      [] net.targets /\ net.tcp # "ok" -> classifyTCPError(net.tcp)
      [] net.targets /\ net.tcp = "ok" /\ likelyDPI(net.http) -> classifyHTTPError(net.http)
      [] net.targets /\ net.tcp = "ok" /\ ~likelyDPI(net.http) /\ net.tls # "ok" ->
             classifyTLSError(net.tls, net.http = "ok")
      [] OTHER -> DetectionResult("none", <<"ok">>, IF net.http = "ok" THEN 95 ELSE 75)
=============================================================================
