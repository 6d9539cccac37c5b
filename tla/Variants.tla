------------------------------ MODULE Variants ------------------------------
(***************************************************************************)
(* The candidates of a round besides the base configs, as functions of a   *)
(* base config: the DPI variants generated from it (dpi/variants.go), the  *)
(* ones a profile selects (strategy/selector.go), the ones rebuilt from    *)
(* what was learned (dpi/persist.go) and the one made from an AI           *)
(* recommendation (aiadvisor/policy.go).                                   *)
(*                                                                         *)
(* A candidate is [id, protocol, params]; its id <<base, family, value>>   *)
(* stands for "<base>:dpi:<family>:<value>".  params holds the fields a    *)
(* variant may change; the protocol decides which of them matter.          *)
(***************************************************************************)
EXTENDS Integers, SequencesExt

CONSTANTS
    MTUs, Ports,               \* mtuVariants, endpointPortVariants
    Fingerprints, Transports,  \* vlessFingerprints, vlessTransports
    Paths,                     \* vlessPathVariants
    Profiles                   \* names of awgProfiles, mild to aggressive

IsList(s) == s \in Seq(ToSet(s))

ASSUME ListsAssumption ==
    /\ IsList(MTUs) /\ IsList(Ports) /\ IsList(Fingerprints) /\ IsList(Transports)
    /\ IsList(Paths) /\ IsList(Profiles)
ASSUME ProfilesAssumption == "" \notin ToSet(Profiles)

(* The elements of s that are in S, in their order.                        *)
Among(s, S) ==
    LET kept[n \in 0..Len(s)] ==
            IF n = 0 THEN <<>>
            ELSE LET before == kept[n - 1]
                 IN IF s[n] \in S THEN Append(before, s[n]) ELSE before
    IN kept[Len(s)]

BaseIDOf(c) == c.id[1]
Family(c) == c.id[2]
IsVariant(c) == Family(c) # "base"

(* The value of a field that is not set.                                   *)
Unset == [mtu |-> 0, port |-> 0, fp |-> "", tr |-> "", path |-> "", ech |-> FALSE,
          security |-> "none", junk |-> "own", pads |-> "own", headers |-> "own"]

BaseConfig(id, protocol, params) ==
    [id |-> <<id, "base", "">>, protocol |-> protocol, params |-> params]

(* A copy of tc with other parameters and an ID of its own.                *)
Variant(tc, family, value, params) ==
    [id |-> <<BaseIDOf(tc), family, value>>, protocol |-> tc.protocol, params |-> params]

(* One variant for each choice but the one the base config has already.    *)
Rotations(tc, family, field, choices) ==
    LET others == Among(choices, ToSet(choices) \ {tc.params[field]})
    IN [i \in DOMAIN others |->
           Variant(tc, family, others[i], [tc.params EXCEPT ![field] = others[i]])]

mtuVariants(tc) == Rotations(tc, "mtu", "mtu", MTUs)

(* wg-, awgEndpointPortVariants and vlessPortVariants: a config without a  *)
(* usable port (0) has none to rotate.                                     *)
portVariants(tc, family) ==
    IF tc.params.port = 0 THEN <<>> ELSE Rotations(tc, family, "port", Ports)

(* Protocol/TCP-level issues: also rotate endpoint ports.                  *)
PortHints == {"protocol_dpi", "tcp_block", "none"}

wgVariants(tc, hint) ==
    mtuVariants(tc) \o IF hint \in PortHints THEN portVariants(tc, "ep") ELSE <<>>

(* An awgProfile by name: junk stands for Jc, Jmin and Jmax, pads for S1   *)
(* and S2 (which only the aggressive one does not leave at 0).             *)
PadsOf(profile) == IF profile = "aggressive" THEN "ten" ELSE "zero"

(* The magic headers of a variant are drawn at random; only a base config  *)
(* with the profile's own headers is taken to have that profile already.   *)
awgProfileVariants(tc, profiles) ==
    LET own == {p \in {tc.params.junk} : tc.params.headers = "profile"}
        others == Among(profiles, ToSet(profiles) \ own)
    IN [i \in DOMAIN others |->
           Variant(tc, "awg", others[i],
                   [tc.params EXCEPT !.junk = others[i], !.pads = PadsOf(others[i]),
                                     !.headers = "drawn"])]

awgVariants(tc, hint) ==
    awgProfileVariants(tc, IF hint = "protocol_dpi" THEN Reverse(Profiles) ELSE Profiles)
        \o mtuVariants(tc)
        \o IF hint \in PortHints THEN portVariants(tc, "ep") ELSE <<>>

vlessFingerprintVariants(tc) == Rotations(tc, "fp", "fp", Fingerprints)

(* A transport variant gets the path "/" when the base has none.           *)
vlessTransportVariants(tc) ==
    LET withPath == [tc EXCEPT !.params.path = IF @ = "" THEN "/" ELSE @]
    IN Rotations(withPath, "tr", "tr", Transports)

(* normalizeTransportPath: gRPC service names have no leading slash.  A    *)
(* member of Paths is [slug, path, service].                               *)
normalizeTransportPath(tr, p) == IF tr = "grpc" THEN p.service ELSE p.path

vlessPathVariantsForTransport(tc) ==
    LET norm(p) == normalizeTransportPath(tc.params.tr, p)
        others == Among(Paths, {p \in ToSet(Paths) : norm(p) # tc.params.path})
    IN IF tc.params.tr \notin {"ws", "httpupgrade", "grpc"} THEN <<>>
       ELSE [i \in DOMAIN others |->
                Variant(tc, "path", others[i].slug,
                        [tc.params EXCEPT !.path = norm(others[i])])]

vlessECHVariants(tc) ==
    IF tc.params.security = "none" \/ tc.params.ech THEN <<>>
    ELSE <<Variant(tc, "ech", "on", [tc.params EXCEPT !.ech = TRUE])>>

(* Slip: transports are rotated first whatever was detected.               *)
vlessVariantsTransportFirst(tc, hint) ==
    LET fp == vlessFingerprintVariants(tc)
        tr == vlessTransportVariants(tc)
    IN tr \o fp \o (IF hint = "http_dpi" THEN <<>> ELSE vlessECHVariants(tc))
           \o (IF hint \in {"http_dpi", "tls_dpi", "none"}
               THEN vlessPathVariantsForTransport(tc) ELSE <<>>)
           \o (IF hint \in PortHints THEN portVariants(tc, "port") ELSE <<>>)

vlessVariants(tc, hint) ==
    LET fp == vlessFingerprintVariants(tc)
        tr == vlessTransportVariants(tc)
    IN (IF hint = "http_dpi" THEN tr \o fp ELSE fp \o tr \o vlessECHVariants(tc))
           \o (IF hint \in {"http_dpi", "tls_dpi", "none"}
               THEN vlessPathVariantsForTransport(tc) ELSE <<>>)
           \o (IF hint \in PortHints THEN portVariants(tc, "port") ELSE <<>>)

(* The first n of a list; the cap is applied to the order of generation.   *)
FirstOf(n, s) == SubSeq(s, 1, IF Len(s) < n THEN Len(s) ELSE n)

GenerateVariants(tc, hint, maxVariants) ==
    FirstOf(IF maxVariants <= 0 THEN 8 ELSE maxVariants,
            CASE tc.protocol = "wg"    -> wgVariants(tc, hint)
              [] tc.protocol = "awg"   -> awgVariants(tc, hint)
              [] tc.protocol = "vless" -> vlessVariants(tc, hint))
-----------------------------------------------------------------------------
(* strategy.SelectVariants.                                                *)

(* A pattern <<family>> or <<family, value>> of an ID.                     *)
Matches(c, pattern) == pattern \in {<<c.id[2]>>, <<c.id[2], c.id[3]>>}

matchByPattern(variants, pattern) ==
    Among(variants, {c \in ToSet(variants) : Matches(c, pattern)})

appendUnique(dst, src) ==
    LET out[n \in 0..Len(src)] ==
            IF n = 0 THEN dst
            ELSE LET before == out[n - 1]
                 IN IF \E i \in DOMAIN before : before[i].id = src[n].id
                    THEN before ELSE Append(before, src[n])
    IN out[Len(src)]

(***************************************************************************)
(* The first case that applies is taken: a reason with the prefix tcp_     *)
(* hides the hint.  Detect gives no reason with the prefix protocol_.      *)
(***************************************************************************)
patternsForReason(reason, hint, safeOnly) ==
    LET protocol == reason[1] = "protocol" \/ hint = "protocol_dpi"
        fixed == {"tls", "http", "tcp"}
    IN
    CASE reason[1] = "tls" ->
             IF safeOnly THEN <<<<"fp">>, <<"mtu">>>>
             ELSE <<<<"fp">>, <<"path">>, <<"tr", "tcp">>, <<"tr", "ws">>, <<"mtu">>>>
      [] reason[1] = "http" ->
             IF safeOnly THEN <<<<"path">>, <<"tr", "ws">>, <<"tr", "httpupgrade">>, <<"mtu">>>>
             ELSE <<<<"path">>, <<"tr", "ws">>, <<"tr", "httpupgrade">>, <<"tr", "grpc">>, <<"mtu">>>>
      [] reason[1] = "tcp" -> <<<<"ep">>, <<"port">>, <<"mtu">>, <<"awg", "mild">>>>
      [] reason[1] \notin fixed /\ protocol ->
             IF safeOnly THEN <<<<"ep">>, <<"port">>, <<"awg", "mild">>, <<"mtu">>>>
             ELSE <<<<"ep">>, <<"port">>, <<"awg", "aggressive">>, <<"awg", "moderate">>,
                    <<"awg", "mild">>, <<"mtu">>>>
      [] reason[1] = "low_confidence" /\ ~protocol -> <<<<"mtu">>>>
      [] reason[1] \notin fixed \cup {"low_confidence"} /\ ~protocol ->
             IF safeOnly THEN <<<<"mtu">>, <<"fp">>>> ELSE <<<<"mtu">>, <<"fp">>, <<"tr">>>>

(* The variants some pattern matches, in the order of the patterns.        *)
InOrderOf(patterns, variants) ==
    LET out[n \in 0..Len(patterns)] ==
            IF n = 0 THEN <<>>
            ELSE appendUnique(out[n - 1], matchByPattern(variants, patterns[n]))
    IN out[Len(patterns)]

compatSelect(reason, hint, variants) ==
    LET chosen == InOrderOf(patternsForReason(reason, hint, TRUE), variants)
        safest == InOrderOf(<<<<"mtu">>, <<"awg", "mild">>>>, variants)
    IN FirstOf(3, CASE chosen # <<>> -> chosen
                    [] chosen = <<>> /\ safest # <<>> -> safest
                    [] OTHER -> <<variants[1]>>)

balancedSelect(reason, hint, variants) ==
    LET tame(c) == hint = "protocol_dpi" \/ ~Matches(c, <<"awg", "aggressive">>)
    IN FirstOf(6, appendUnique(InOrderOf(patternsForReason(reason, hint, FALSE), variants),
                               Among(variants, {c \in ToSet(variants) : tame(c)})))

aggressiveSelect(reason, hint, variants) ==
    appendUnique(InOrderOf(patternsForReason(reason, hint, FALSE), variants), variants)

(* With filterVariantsByProfile in front of it.                            *)
SelectVariants(profile, reason, hint, confidence, variants) ==
    CASE variants = <<>> -> <<>>
      [] variants # <<>> /\ confidence < 40 ->
             compatSelect(<<"low_confidence">>, hint, variants)
      [] variants # <<>> /\ confidence >= 40 /\ profile = "compat" ->
             compatSelect(reason, hint, variants)
      [] variants # <<>> /\ confidence >= 40 /\ profile = "aggressive" ->
             aggressiveSelect(reason, hint, variants)
      [] OTHER -> balancedSelect(reason, hint, variants)
-----------------------------------------------------------------------------
(* dpi.LearnedDB's entries.                                                *)

NoEntry == [mtu |-> 0, fp |-> "", tr |-> "", profile |-> "", count |-> 0]

(* Slip: the parameters are kept as they were at the first success.        *)
LearnedOnce(e, c) ==
    IF e.count > 0 THEN [e EXCEPT !.count = @ + 1]
    ELSE [mtu     |-> c.params.mtu,
          fp      |-> IF c.protocol = "vless" THEN c.params.fp ELSE "",
          tr      |-> IF c.protocol = "vless" THEN c.params.tr ELSE "",
          profile |-> IF c.protocol = "awg" /\ Family(c) = "awg" THEN c.id[3] ELSE "",
          count   |-> 1]

(* RecordSuccess: an entry after one more success of c.                    *)
Learned(e, c) ==
    [mtu     |-> IF c.params.mtu > 0 THEN c.params.mtu ELSE e.mtu,
     fp      |-> IF c.protocol = "vless" THEN c.params.fp ELSE e.fp,
     tr      |-> IF c.protocol = "vless" THEN c.params.tr ELSE e.tr,
     profile |-> IF c.protocol = "awg"
                 THEN IF Family(c) = "awg" THEN c.id[3] ELSE ""
                 ELSE e.profile,
     count   |-> e.count + 1]

rebuildVariant(tc, id, e) ==
    [id |-> id, protocol |-> tc.protocol,
     params |->
        [tc.params EXCEPT
            !.mtu  = IF e.mtu > 0 THEN e.mtu ELSE @,
            !.fp   = IF tc.protocol = "vless" /\ e.fp # "" THEN e.fp ELSE @,
            !.tr   = IF tc.protocol = "vless" /\ e.tr # "" THEN e.tr ELSE @,
            !.junk = IF tc.protocol = "awg" /\ e.profile # "" THEN e.profile ELSE @,
            !.pads = IF tc.protocol = "awg" /\ e.profile # "" THEN PadsOf(e.profile) ELSE @]]
-----------------------------------------------------------------------------
(* aiadvisor: a recommendation has a base ID, a confidence and the fields  *)
(* of params a provider may set (0, "" or NoPath where it says nothing).   *)

NoPath == [slug |-> "", path |-> "", service |-> ""]
MaxPort == 65535

(* Slip: the allowlist of transports is the one of the generator.          *)
ValidateLoosely(rec, minConfidence) ==
    /\ rec.confidence >= minConfidence
    /\ rec.tr \in {""} \cup ToSet(Transports)
    /\ rec.junk \in {""} \cup ToSet(Profiles)

ValidateRecommendation(rec, minConfidence) ==
    /\ rec.confidence >= minConfidence
    /\ rec.mtu = 0 \/ rec.mtu \in 1200..1420
    /\ rec.port \in 0..MaxPort
    /\ rec.tr \in {"", "tcp", "ws", "grpc", "httpupgrade"}
    /\ rec.junk \in {""} \cup ToSet(Profiles)

(* Unlike a generated variant it leaves the pads and the headers alone.    *)
BuildVariantFromRecommendation(tc, rec) ==
    LET vless == tc.protocol = "vless"
        tr == IF vless /\ rec.tr # "" THEN rec.tr ELSE tc.params.tr
    IN Variant(tc, "ai", "",
        [tc.params EXCEPT
            !.mtu  = IF rec.mtu > 0 THEN rec.mtu ELSE @,
            !.port = IF rec.port > 0 /\ (@ > 0 \/ vless) THEN rec.port ELSE @,
            !.tr   = tr,
            !.fp   = IF vless /\ rec.fp # "" THEN rec.fp ELSE @,
            !.path = IF vless /\ rec.path # NoPath
                     THEN normalizeTransportPath(tr, rec.path) ELSE @,
            !.junk = IF tc.protocol = "awg" /\ rec.junk # "" THEN rec.junk ELSE @])
=============================================================================
