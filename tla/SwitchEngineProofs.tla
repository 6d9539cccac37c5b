------------------------- MODULE SwitchEngineProofs -------------------------
(***************************************************************************)
(* Proofs about SwitchEngine for any number of candidates of any protocol, *)
(* every interleaving of their goroutines, and every bound.                *)
(***************************************************************************)
EXTENDS SwitchEngine, TLAPS

-----------------------------------------------------------------------------
(* Types.                                                                  *)

Marks == {Table[c] : c \in Candidates}

PolicyTypeOK ==
    /\ marks \in Seq(Marks) /\ members \in BOOLEAN
    /\ Backend = "nft" => Len(marks) <= 1

(* The rules other than the one of a mark.                                 *)
LEMMA WithoutType ==
    ASSUME NEW mark, marks \in Seq(Marks)
    PROVE  Without(mark) \in Seq(Marks)
<1>1. CASE mark \notin ToSet(marks)
  BY <1>1 DEF Without
<1>2. CASE mark \in ToSet(marks)
  <2>1. \E i \in DOMAIN marks : marks[i] = mark
    BY <1>2 DEF ToSet
  <2>2. PICK i \in DOMAIN marks : Without(mark) = RemoveAt(marks, i)
    BY <1>2, <2>1 DEF Without
  <2> QED
    BY <2>2 DEF RemoveAt
<1> QED
  BY <1>1, <1>2

LEMMA ClearType ==
    ASSUME PolicyTypeOK, NEW mark, Clear(mark)
    PROVE  PolicyTypeOK'
<1>1. Without(mark) \in Seq(Marks)
  BY WithoutType DEF PolicyTypeOK
<1>2. CASE Backend = "nft" /\ marks' = <<>> /\ members' = FALSE
  <2>1. marks' \in Seq(Marks) /\ Len(marks') <= 1
    BY <1>2
  <2>2. members' \in BOOLEAN
    BY <1>2, Zenon
  <2> QED
    BY <2>1, <2>2 DEF PolicyTypeOK, Marks
<1>3. CASE Backend = "iptables" /\ marks' = Without(mark) /\ members' \in BOOLEAN
  BY <1>1, <1>3 DEF PolicyTypeOK, Marks
<1>4. CASE UNCHANGED policyVars
  BY <1>4 DEF PolicyTypeOK, policyVars, Marks
<1> QED
  BY <1>2, <1>3, <1>4 DEF Clear, PolicyTypeOK

LEMMA ApplyType ==
    ASSUME PolicyTypeOK, NEW mark \in Marks, NEW found, Apply(mark, found)
    PROVE  PolicyTypeOK'
<1>1. CASE Clear(mark)
  BY <1>1, ClearType
<1>2. CASE Backend = "nft" /\ applyNFT(mark)
  <2>1. <<mark>> \in Seq(Marks) /\ Len(<<mark>>) <= 1
    OBVIOUS
  <2>2. <<>> \in Seq(Marks) /\ Len(<<>>) <= 1
    OBVIOUS
  <2>3. marks \in Seq(Marks) /\ Len(marks) <= 1
    BY <1>2 DEF PolicyTypeOK
  <2>4. members' \in BOOLEAN
    BY <1>2, Zenon DEF PolicyTypeOK, applyNFT, policyVars
  <2>5. marks' \in {<<mark>>, marks, <<>>}
    BY <1>2, Zenon DEF applyNFT, policyVars
  <2>6. marks' \in Seq(Marks) /\ Len(marks') <= 1
    BY <2>1, <2>2, <2>3, <2>5, Zenon
  <2> QED
    BY <2>4, <2>6 DEF PolicyTypeOK, Marks
<1>3. CASE Backend = "iptables" /\ applyIPTables(mark)
  <2>1. Without(mark) \in Seq(Marks) /\ Append(Without(mark), mark) \in Seq(Marks)
    BY WithoutType DEF PolicyTypeOK
  <2>2. marks' \in Seq(Marks) /\ members' \in BOOLEAN
    BY <1>3, <2>1 DEF PolicyTypeOK, applyIPTables, policyVars
  <2> QED
    BY <1>3, <2>2 DEF PolicyTypeOK, Marks
<1>4. CASE UNCHANGED policyVars
  BY <1>4 DEF PolicyTypeOK, policyVars, Marks
<1> QED
  BY <1>1, <1>2, <1>3, <1>4 DEF Apply

(* The names a round gives to interfaces.                                  *)
LEMMA NameType ==
    ASSUME NEW c \in Candidates
    PROVE  /\ NamedAs(c) \in {c, Base[c]} /\ NamedAs(c) \in Candidates
           /\ NameOf(c) \in Names /\ DeviceOf(c) \in Names
           /\ c # activeID => NameOf(c) = Iface[c] /\ DeviceOf(c) = Device[c]
BY CandidatesAssumption DEF NamedAs, NameOf, DeviceOf, Names

(* Every operation of a manager keeps the kernel's and the managers' state *)
(* well typed.                                                             *)
LEMMA QuickDownType ==
    ASSUME TunnelTypeOK, NEW c, NEW d \in Names, NEW f, QuickDown(c, d, f)
    PROVE  /\ ifc' \in [Names -> Candidates \cup {NoConfig}]
           /\ rules' \subseteq {Table[e] : e \in Candidates}
BY DEF TunnelTypeOK, QuickDown

LEMMA KillProcType ==
    ASSUME TunnelTypeOK, NEW c \in Candidates, killProc(c)
    PROVE  procs' \in [Candidates -> {"none", "tracked", "dead", "orphan"}]
BY DEF TunnelTypeOK, killProc

LEMMA UpBeginType ==
    ASSUME TunnelTypeOK, NEW c \in Candidates, NEW n \in Names, NEW d \in Names,
           UpBegin(c, n, d, ctxOver)
    PROVE  TunnelTypeOK'
<1>1. CASE ~Quick(c)
  BY <1>1, KillProcType DEF UpBegin, TunnelTypeOK
<1>2. CASE Quick(c)
  <2>1. confs' \in [Names -> Candidates \cup {NoConfig}]
    BY <1>2 DEF UpBegin, TunnelTypeOK
  <2> QED
    BY <1>2, <2>1, QuickDownType DEF UpBegin, TunnelTypeOK
<1> QED
  BY <1>1, <1>2

LEMMA LinkAddType ==
    ASSUME TunnelTypeOK, NEW c \in Candidates, NEW d \in Names, LinkAdd(c, d)
    PROVE  TunnelTypeOK'
BY DEF LinkAdd, TunnelTypeOK

LEMMA RuleAddType ==
    ASSUME TunnelTypeOK, NEW c \in Candidates, RuleAdd(c)
    PROVE  TunnelTypeOK'
BY DEF RuleAdd, TunnelTypeOK

LEMMA LinkDelType ==
    ASSUME TunnelTypeOK, NEW c \in Candidates, NEW d \in Names, LinkDel(c, d)
    PROVE  TunnelTypeOK'
<1>1. CASE Quick(c)
  BY <1>1 DEF LinkDel, TunnelTypeOK
<1>2. CASE ~Quick(c)
  BY <1>2, KillProcType DEF LinkDel, TunnelTypeOK
<1> QED
  BY <1>1, <1>2

LEMMA RouteFailsType ==
    ASSUME TunnelTypeOK, NEW c \in Candidates, RouteFails(c, ctxOver)
    PROVE  TunnelTypeOK'
BY KillProcType DEF RouteFails, TunnelTypeOK

LEMMA TunnelDownType ==
    ASSUME TunnelTypeOK, NEW c \in Candidates, NEW n \in Names, NEW d \in Names,
           TunnelDown(c, n, d)
    PROVE  TunnelTypeOK'
<1>1. CASE ~Quick(c)
  BY <1>1, KillProcType DEF TunnelDown, TunnelTypeOK
<1>2. CASE Quick(c)
  BY <1>2, QuickDownType DEF TunnelDown, TunnelTypeOK
<1> QED
  BY <1>1, <1>2

LEMMA TunnelDownLateType ==
    ASSUME TunnelTypeOK, NEW c \in Candidates, TunnelDownLate(c)
    PROVE  TunnelTypeOK'
BY KillProcType DEF TunnelDownLate, TunnelTypeOK, tunnelVars

LEMMA OrphanedType ==
    ASSUME TunnelTypeOK, TunnelsOrphaned
    PROVE  TunnelTypeOK'
BY DEF TunnelsOrphaned, Orphaned, TunnelTypeOK

(* TypeOK but for the tunnels and the policy.                              *)
EngineTypeOK ==
    /\ phase \in Phases
    /\ activeID \in Candidates \cup {NoConfig}
    /\ up \in [Candidates -> Steps]
    /\ res \in [Candidates -> Results]
    /\ ctxOver \in BOOLEAN
    /\ viable \subseteq Candidates
    /\ {cur, advised} \subseteq Candidates \cup {NoConfig}
    /\ leftBefore \subseteq Candidates
    /\ unseen \subseteq Candidates /\ late \subseteq Candidates
    /\ interrupted \in BOOLEAN
    /\ crashes \in Nat

LEMMA TypeParts ==
    /\ TypeOK <=> TunnelTypeOK /\ PolicyTypeOK /\ EngineTypeOK
    /\ TypeOK' <=> TunnelTypeOK' /\ PolicyTypeOK' /\ EngineTypeOK'
BY DEF TypeOK, PolicyTypeOK, EngineTypeOK, Marks

(* A candidate is being applied exactly when the loop says so.             *)
CurInv == phase \in {"apply", "verify"} => cur \in Candidates

LEMMA InitTyped == Init => TypeOK /\ CurInv
<1> SUFFICES ASSUME Init PROVE TypeOK /\ CurInv
  OBVIOUS
<1> USE DEF Init
<1>1. TunnelTypeOK
  BY DEF TunnelInit, TunnelTypeOK
<1>2. PolicyTypeOK
  <2>1. <<>> \in Seq(Marks) /\ Len(<<>>) <= 1
    OBVIOUS
  <2> QED
    BY <2>1 DEF PolicyInit, PolicyTypeOK
<1>3. EngineTypeOK
  BY DEF EngineTypeOK, Phases, Steps, Results, AllOff, NoResults
<1>4. CurInv
  BY DEF CurInv
<1> QED
  BY <1>1, <1>2, <1>3, <1>4, TypeParts

LEMMA TunnelsStayTyped ==
    ASSUME TypeOK, CurInv, [Next]_vars
    PROVE  TunnelTypeOK'
<1> USE TypeParts
<1>1. CASE UNCHANGED tunnelVars
  BY <1>1 DEF tunnelVars, TunnelTypeOK
<1>2. ASSUME NEW c \in Candidates, Goroutine(c)
      PROVE  TunnelTypeOK'
  <2> USE <1>2, NameType
  <2>1. CASE SkipUp(c) \/ MgrLinkFails(c) \/ MgrRoute(c) \/ Settled(c)
             \/ MgrWait(c) \/ MgrWaitFails(c) \/ ReturnError(c)
             \/ \E result \in Results : ReturnProbe(c, result)
    BY <1>1, <2>1 DEF SkipUp, MgrLinkFails, MgrRoute, MgrWait, MgrWaitFails, Settled,
       ReturnError, ReturnProbe
  <2>2. CASE MgrUp(c)
    BY <2>2, UpBeginType DEF MgrUp
  <2>3. CASE MgrLink(c)
    BY <2>3, LinkAddType DEF MgrLink
  <2>4. CASE MgrRule(c)
    BY <2>4, RuleAddType DEF MgrRule
  <2>5. CASE MgrRuleFails(c)
    BY <2>5, LinkDelType DEF MgrRuleFails
  <2>6. CASE MgrRuleLate(c)
    BY <1>1, <2>6, LinkDelType DEF MgrRuleLate
  <2>7. CASE MgrRouteFails(c)
    BY <2>7, RouteFailsType DEF MgrRouteFails
  <2>8. CASE SettleExpires(c)
    BY <2>8, TunnelDownLateType DEF SettleExpires
  <2> QED
    BY <2>1, <2>2, <2>3, <2>4, <2>5, <2>6, <2>7, <2>8 DEF Goroutine
<1>3. ASSUME NEW c \in Candidates, Teardown(c)
      PROVE  TunnelTypeOK'
  BY <1>3, TunnelDownType, NameType DEF Teardown
<1>4. CASE VerifyFails
  BY <1>4, TunnelDownType, NameType DEF VerifyFails, CurInv
<1>5. CASE Crash
  BY <1>5, OrphanedType DEF Crash
<1>6. ASSUME NEW c \in Candidates, Recommend(c) \/ TryConfig(c)
      PROVE  TunnelTypeOK'
  BY <1>1, <1>6 DEF Recommend, TryConfig
<1>7. ASSUME NEW pool \in SUBSET Candidates, BeginRound(pool)
      PROVE  TunnelTypeOK'
  BY <1>1, <1>7 DEF BeginRound
<1>8. ASSUME NEW found \in BOOLEAN, Applied(found)
      PROVE  TunnelTypeOK'
  BY <1>1, <1>8 DEF Applied
<1>9. CASE BeginTeardown \/ TornDown \/ Rank \/ NoneViable \/ AIProbed \/ GiveUp
           \/ ApplyFails \/ VerifySucceeds \/ Expire \/ Restart \/ UNCHANGED vars
  BY <1>1, <1>9 DEF BeginTeardown, TornDown, Rank, NoneViable, AIProbed, GiveUp,
     ApplyFails, VerifySucceeds, Expire, Restart, vars
<1> QED
  BY <1>2, <1>3, <1>4, <1>5, <1>6, <1>7, <1>8, <1>9 DEF Next, Engine

LEMMA PolicyStaysTyped ==
    ASSUME TypeOK, CurInv, [Next]_vars
    PROVE  PolicyTypeOK'
<1> USE TypeParts
<1>1. CASE UNCHANGED policyVars
  BY <1>1 DEF policyVars, PolicyTypeOK, Marks
<1>2. ASSUME NEW c \in Candidates,
             Goroutine(c) \/ Recommend(c) \/ Teardown(c) \/ TryConfig(c)
      PROVE  UNCHANGED policyVars
  BY <1>2 DEF Goroutine, Recommend, Teardown, TryConfig, SkipUp, MgrUp, MgrLink,
     MgrLinkFails, MgrRule, MgrRuleFails, MgrRuleLate, MgrRoute, MgrRouteFails, MgrWait, MgrWaitFails,
     Settled, SettleExpires, ReturnError, ReturnProbe
<1>3. ASSUME NEW found \in BOOLEAN, Applied(found)
      PROVE  PolicyTypeOK'
  <2>1. Table[cur] \in Marks
    BY <1>3 DEF Applied, CurInv, Marks
  <2> QED
    BY <1>3, <2>1, ApplyType DEF Applied
<1>4. CASE ApplyFails \/ VerifyFails
  BY <1>4, ClearType DEF ApplyFails, VerifyFails
<1>5. ASSUME NEW pool \in SUBSET Candidates, BeginRound(pool)
      PROVE  UNCHANGED policyVars
  BY <1>5 DEF BeginRound
<1>6. CASE BeginTeardown \/ TornDown \/ Rank \/ NoneViable \/ AIProbed \/ GiveUp
           \/ VerifySucceeds \/ Expire \/ Crash \/ Restart \/ UNCHANGED vars
  BY <1>1, <1>6 DEF BeginTeardown, TornDown, Rank, NoneViable, AIProbed, GiveUp,
     VerifySucceeds, Expire, Crash, Restart, vars
<1> QED
  BY <1>1, <1>2, <1>3, <1>4, <1>5, <1>6 DEF Next, Engine
LEMMA EngineStaysTyped ==
    ASSUME TypeOK, CurInv, [Next]_vars
    PROVE  EngineTypeOK' /\ CurInv'
<1>1. EngineTypeOK
  BY TypeParts
<1> USE <1>1
<1>2. /\ AllOff \in [Candidates -> Steps]
      /\ NoResults \in [Candidates -> Results]
      /\ NoConfig \in Candidates \cup {NoConfig}
      /\ FALSE \in BOOLEAN
  BY DEF AllOff, NoResults, Steps, Results
<1>3. ASSUME Forgotten, UNCHANGED <<interrupted, crashes>>, phase' \in {"idle", "down"},
             activeID' \in Candidates \cup {NoConfig}
      PROVE  EngineTypeOK' /\ CurInv'
  BY <1>2, <1>3 DEF Forgotten, EngineTypeOK, Phases, CurInv
<1>4. CASE UNCHANGED <<engineVars, historyVars>>
  BY <1>4 DEF EngineTypeOK, CurInv, engineVars, historyVars
<1>5. ASSUME NEW c \in Candidates, Goroutine(c)
      PROVE  EngineTypeOK' /\ CurInv'
  <2>1. /\ phase' = phase /\ cur' = cur /\ activeID' = activeID
        /\ viable' = viable /\ ctxOver' = ctxOver /\ advised' = advised
        /\ leftBefore' = leftBefore
        /\ interrupted' = interrupted /\ crashes' = crashes
    BY <1>5 DEF Goroutine, SkipUp, MgrUp, MgrLink, MgrLinkFails, MgrRule,
       MgrRuleFails, MgrRuleLate, MgrRoute, MgrRouteFails, MgrWait, MgrWaitFails, Settled, SettleExpires,
       ReturnError, ReturnProbe, historyVars
  <2>2. \E s \in Steps : up' = [up EXCEPT ![c] = s]
    BY <1>5 DEF Goroutine, SkipUp, MgrUp, MgrLink, MgrLinkFails, MgrRule,
       MgrRuleFails, MgrRuleLate, MgrRoute, MgrRouteFails, MgrWait, MgrWaitFails, Settled, SettleExpires,
       ReturnError, ReturnProbe, Steps
  <2>3. res' = res \/ \E r \in Results : res' = [res EXCEPT ![c] = r]
    BY <1>5 DEF Goroutine, SkipUp, MgrUp, MgrLink, MgrLinkFails, MgrRule,
       MgrRuleFails, MgrRuleLate, MgrRoute, MgrRouteFails, MgrWait, MgrWaitFails, Settled, SettleExpires,
       ReturnError, ReturnProbe, Results
  <2>4. unseen' \in {unseen, unseen \cup {c}} /\ late' \in {late, late \cup {c}}
    BY <1>5 DEF Goroutine, SkipUp, MgrUp, MgrLink, MgrLinkFails, MgrRule,
       MgrRuleFails, MgrRuleLate, MgrRoute, MgrRouteFails, MgrWait, MgrWaitFails, Settled, SettleExpires,
       ReturnError, ReturnProbe, historyVars
  <2>5. up' \in [Candidates -> Steps] /\ res' \in [Candidates -> Results]
    BY <2>2, <2>3 DEF EngineTypeOK
  <2> QED
    BY <2>1, <2>4, <2>5 DEF EngineTypeOK, CurInv
<1>6. ASSUME NEW c \in Candidates, Recommend(c)
      PROVE  EngineTypeOK' /\ CurInv'
  BY <1>2, <1>6 DEF Recommend, EngineTypeOK, CurInv, Phases, Steps, historyVars
<1>7. ASSUME NEW c \in Candidates, Teardown(c)
      PROVE  EngineTypeOK' /\ CurInv'
  BY <1>7 DEF Teardown, EngineTypeOK, CurInv, Phases, Steps, historyVars
<1>8. ASSUME NEW c \in Candidates, TryConfig(c)
      PROVE  EngineTypeOK' /\ CurInv'
  BY <1>2, <1>8 DEF TryConfig, EngineTypeOK, CurInv, Phases, Steps, historyVars
<1>9. ASSUME NEW pool \in SUBSET Candidates, BeginRound(pool)
      PROVE  EngineTypeOK' /\ CurInv'
  BY <1>2, <1>9 DEF BeginRound, EngineTypeOK, CurInv, Phases, Steps
<1>10. CASE NoneViable \/ GiveUp
  BY <1>3, <1>10 DEF NoneViable, GiveUp, EngineTypeOK
<1>11. CASE VerifySucceeds
  BY <1>2, <1>11 DEF VerifySucceeds, Forgotten, EngineTypeOK, CurInv, Phases
<1>12. CASE Crash
  <2>1. interrupted' \in BOOLEAN
    BY <1>12, Zenon DEF Crash
  <2>2. phase' = "down" /\ Forgotten /\ crashes' = crashes + 1 /\ activeID' = activeID
    BY <1>12, Zenon DEF Crash
  <2>3. crashes' \in Nat /\ phase' \in Phases
    BY <2>2 DEF EngineTypeOK, Phases
  <2>4. CurInv'
    BY <2>2 DEF CurInv
  <2> QED
    BY <1>2, <2>1, <2>2, <2>3, <2>4, Zenon DEF Forgotten, EngineTypeOK
<1>13. CASE BeginTeardown \/ TornDown \/ Rank \/ AIProbed
  BY <1>2, <1>13 DEF BeginTeardown, TornDown, Rank, AIProbed, EngineTypeOK, CurInv,
     Phases, historyVars
<1>14. CASE ApplyFails \/ VerifyFails \/ Expire \/ Restart
  BY <1>2, <1>14 DEF ApplyFails, VerifyFails, Expire, Restart, EngineTypeOK, CurInv,
     Phases, historyVars
<1>15. ASSUME NEW found \in BOOLEAN, Applied(found)
       PROVE  EngineTypeOK' /\ CurInv'
  BY <1>15 DEF Applied, EngineTypeOK, CurInv, Phases, historyVars
<1> QED
  BY <1>4, <1>5, <1>6, <1>7, <1>8, <1>9, <1>10, <1>11, <1>12, <1>13, <1>14, <1>15
     DEF Next, Engine, vars

(***************************************************************************)
(* Type correctness of the engine, its tunnels and its policy; TypeOK      *)
(* alone is not inductive: what Applied writes is a mark only because the  *)
(* apply loop has a current candidate.                                     *)
(***************************************************************************)
THEOREM TypeCorrect == Spec => [](TypeOK /\ CurInv)
<1>1. TypeOK /\ CurInv /\ [Next]_vars => TypeOK' /\ CurInv'
  BY TunnelsStayTyped, PolicyStaysTyped, EngineStaysTyped, TypeParts
<1> QED
  BY InitTyped, <1>1, PTL DEF Spec
-----------------------------------------------------------------------------
(***************************************************************************)
(* A local port is shared by the variants of a config that names one       *)
(* (variants.go clones it); the process that comes second ends, and        *)
(* waitForPort finds the first.                                            *)
(***************************************************************************)
DistinctPorts ==
    \A c, d \in Candidates : ~Quick(c) /\ ~Quick(d) /\ Port[c] = Port[d] => c = d

(***************************************************************************)
(* What becomes active stands.  Carries(cur) when verify succeeds is the   *)
(* work of apply's Up, step by step: once the candidate's link is made it  *)
(* is there under the name apply uses, and from the route on its rule too. *)
(***************************************************************************)
LinkOf(c) == IF Quick(c) THEN ifc[DeviceOf(c)] = c ELSE procs[c] \in {"tracked", "orphan"}

ApplySteps == {"start", "link", "rule", "route", "wait", "settle", "failed"}

ApplyInv ==
    /\ CurInv
    /\ phase = "apply" => up[cur] \in ApplySteps
    /\ phase = "verify" => up[cur] = "settle"
    /\ phase \in {"apply", "verify"} =>
          /\ Quick(cur) /\ up[cur] # "start" => confs[DeviceOf(cur)] = cur
          /\ ~Quick(cur) /\ up[cur] = "link" => procs[cur] \in {"none", "orphan"}
          /\ up[cur] \in {"rule", "route", "wait", "settle"} /\ (Quick(cur) \/ DistinctPorts)
                => LinkOf(cur)
          /\ up[cur] \in {"route", "wait", "settle"} => Table[cur] \in rules

LEMMA LinkOfLinkUp ==
    ASSUME NEW c \in Candidates, LinkOf(c)
    PROVE  LinkUp(c)
BY NameType DEF LinkOf, LinkUp

(* A step of the Up of the candidate that is applied.                      *)
LEMMA UpKeepsApplyInv ==
    ASSUME TypeOK, ApplyInv, phase = "apply", Goroutine(cur)
    PROVE  ApplyInv'
<1>1. /\ cur \in Candidates /\ TunnelTypeOK /\ up \in [Candidates -> Steps]
      /\ DeviceOf(cur) \in Names
  BY TypeParts, NameType DEF ApplyInv, CurInv, EngineTypeOK
<1>2. phase' = phase /\ cur' = cur /\ activeID' = activeID
  BY DEF Goroutine, SkipUp, MgrUp, MgrLink, MgrLinkFails, MgrRule,
     MgrRuleFails, MgrRuleLate, MgrRoute, MgrRouteFails, MgrWait, MgrWaitFails, Settled, SettleExpires,
     ReturnError, ReturnProbe
<1>3. CurInv'
  BY <1>1, <1>2 DEF CurInv
<1>4. DeviceOf(cur)' = DeviceOf(cur) /\ Quick(cur)' = Quick(cur)
  BY <1>2 DEF DeviceOf, NamedAs, Quick
<1> USE <1>1, <1>2, <1>3, <1>4
<1>5. CASE up' = [up EXCEPT ![cur] = "failed"]
  <2>1. confs' = confs /\ up[cur] # "start"
    BY <1>5 DEF Goroutine, SkipUp, MgrUp, MgrLink, MgrLinkFails, MgrRule,
       MgrRuleFails, MgrRuleLate, MgrRoute, MgrRouteFails, MgrWait, MgrWaitFails, Settled,
       SettleExpires, ReturnError, ReturnProbe, LinkDel, RouteFails, tunnelVars
  <2> QED
    BY <1>5, <2>1 DEF ApplyInv, ApplySteps
<1>6. CASE MgrUp(cur)
  <2>1. /\ up'[cur] = "link"
        /\ Quick(cur) => confs'[DeviceOf(cur)] = cur
        /\ ~Quick(cur) => procs'[cur] \in {"none", "orphan"}
    BY <1>6 DEF MgrUp, UpBegin, killProc, TunnelTypeOK
  <2> QED
    BY <2>1 DEF ApplyInv, ApplySteps
<1>7. CASE MgrLink(cur)
  <2>1. up'[cur] = "rule" /\ up[cur] = "link" /\ confs' = confs
    BY <1>7 DEF MgrLink, LinkAdd
  <2>2. Quick(cur) => LinkOf(cur)'
    BY <1>7 DEF MgrLink, LinkAdd, LinkOf, TunnelTypeOK
  <2>3. ASSUME ~Quick(cur), DistinctPorts
        PROVE  LinkOf(cur)'
    <3>1. procs[cur] \in {"none", "orphan"}
      BY <2>1, <2>3 DEF ApplyInv
    <3>2. procs[cur] = "none" => ~Listens(Port[cur])
      BY <2>3 DEF Listens, DistinctPorts
    <3> QED
      BY <1>7, <2>3, <3>1, <3>2 DEF MgrLink, LinkAdd, LinkOf, TunnelTypeOK
  <2> QED
    BY <2>1, <2>2, <2>3 DEF ApplyInv, ApplySteps
<1>8. CASE MgrRule(cur)
  <2>1. up'[cur] \in {"wait", "route"} /\ up[cur] = "rule" /\ confs' = confs
    BY <1>8 DEF MgrRule, RuleAdd
  <2>2. ((Quick(cur) \/ DistinctPorts) => LinkOf(cur)') /\ Table[cur] \in rules'
    BY <1>8, <2>1 DEF MgrRule, RuleAdd, LinkOf, ApplyInv
  <2> QED
    BY <2>1, <2>2 DEF ApplyInv, ApplySteps
<1>9. CASE MgrRoute(cur) \/ MgrWait(cur)
  <2>1. /\ up'[cur] = "settle" /\ up[cur] \in {"route", "wait"}
        /\ UNCHANGED tunnelVars
    BY <1>9 DEF MgrRoute, MgrWait
  <2>2. ((Quick(cur) \/ DistinctPorts) => LinkOf(cur)') /\ Table[cur] \in rules'
    BY <2>1 DEF LinkOf, ApplyInv, tunnelVars
  <2> QED
    BY <2>1, <2>2 DEF ApplyInv, ApplySteps, tunnelVars
<1> QED
  BY <1>5, <1>6, <1>7, <1>8, <1>9 DEF Goroutine, SkipUp, MgrLinkFails,
     MgrRuleFails, MgrRuleLate, MgrRouteFails, MgrWaitFails, Settled, SettleExpires,
     ReturnError, ReturnProbe

LEMMA ApplyInvKept ==
    ASSUME TypeOK, ApplyInv, [Next]_vars
    PROVE  ApplyInv'
<1>1. CASE phase' \notin {"apply", "verify"}
  BY <1>1 DEF ApplyInv, CurInv
<1>2. CASE UNCHANGED vars
  BY <1>2 DEF ApplyInv, CurInv, LinkOf, DeviceOf, NamedAs, Quick, vars, engineVars, tunnelVars
<1>3. ASSUME NEW c \in Candidates, Goroutine(c), phase' \in {"apply", "verify"}
      PROVE  ApplyInv'
  <2>1. phase = "apply" /\ c = cur
    BY <1>3 DEF Goroutine, SkipUp, MgrUp, MgrLink, MgrLinkFails, MgrRule,
       MgrRuleFails, MgrRuleLate, MgrRoute, MgrRouteFails, MgrWait, MgrWaitFails, Settled, SettleExpires,
       ReturnError, ReturnProbe, Uplifting
  <2> QED
    BY <1>3, <2>1, UpKeepsApplyInv
<1>4. ASSUME NEW c \in Candidates, TryConfig(c)
      PROVE  ApplyInv'
  BY <1>4 DEF TryConfig, ApplyInv, CurInv, ApplySteps, AllOff
<1>5. ASSUME NEW found \in BOOLEAN, Applied(found)
      PROVE  ApplyInv'
  BY <1>5 DEF Applied, ApplyInv, CurInv, LinkOf, DeviceOf, NamedAs, Quick, tunnelVars
<1>6. ASSUME NEW pool \in SUBSET Candidates, BeginRound(pool)
      PROVE  ApplyInv'
  BY <1>1, <1>6 DEF BeginRound
<1>7. ASSUME NEW c \in Candidates, Recommend(c) \/ Teardown(c)
      PROVE  ApplyInv'
  BY <1>1, <1>7 DEF Recommend, Teardown
<1>8. CASE BeginTeardown \/ TornDown \/ Rank \/ NoneViable \/ AIProbed \/ GiveUp
           \/ ApplyFails \/ VerifyFails \/ VerifySucceeds \/ Expire \/ Crash \/ Restart
  BY <1>1, <1>8 DEF BeginTeardown, TornDown, Rank, NoneViable, AIProbed, GiveUp,
     ApplyFails, VerifyFails, VerifySucceeds, Expire, Crash, Restart
<1> QED
  BY <1>1, <1>2, <1>3, <1>4, <1>5, <1>6, <1>7, <1>8 DEF Next, Engine

(* Only VerifySucceeds changes the machine's active config.                *)
LEMMA ActiveChanges ==
    ASSUME [Next]_vars, activeID' # activeID
    PROVE  VerifySucceeds
<1>1. ASSUME NEW c \in Candidates, Goroutine(c) \/ Recommend(c) \/ Teardown(c) \/ TryConfig(c)
      PROVE  FALSE
  BY <1>1 DEF Goroutine, Recommend, Teardown, TryConfig, SkipUp, MgrUp, MgrLink,
     MgrLinkFails, MgrRule, MgrRuleFails, MgrRuleLate, MgrRoute, MgrRouteFails, MgrWait, MgrWaitFails,
     Settled, SettleExpires, ReturnError, ReturnProbe
<1>2. ASSUME NEW found \in BOOLEAN, Applied(found)
      PROVE  FALSE
  BY <1>2 DEF Applied
<1>3. ASSUME NEW pool \in SUBSET Candidates, BeginRound(pool)
      PROVE  FALSE
  BY <1>3 DEF BeginRound
<1> QED
  BY <1>1, <1>2, <1>3 DEF Next, Engine, BeginTeardown, TornDown, Rank, NoneViable,
     AIProbed, GiveUp, ApplyFails, VerifyFails, Expire, Crash, Restart, vars, engineVars

(***************************************************************************)
(* The config that becomes active stands, link and rule, whatever failed   *)
(* before: no path of apply and verify commits a config without them, if   *)
(* no two sing-box processes want the same local port.                     *)
(***************************************************************************)
THEOREM CommittedAlwaysCarries ==
    ASSUME DistinctPorts
    PROVE  Spec => CommittedCarries
<1>1. Init => ApplyInv
  BY DEF Init, ApplyInv, CurInv
<1>2. TypeOK /\ ApplyInv /\ [Next]_vars => ApplyInv'
  BY ApplyInvKept
<1>3. ASSUME ApplyInv, [Next]_vars
      PROVE  [activeID' # activeID => Carries(activeID')]_vars
  <2> SUFFICES ASSUME activeID' # activeID PROVE Carries(activeID')
    OBVIOUS
  <2>1. VerifySucceeds
    BY <1>3, ActiveChanges
  <2>2. cur \in Candidates /\ LinkUp(cur) /\ Table[cur] \in rules
    BY <1>3, <2>1, LinkOfLinkUp DEF ApplyInv, CurInv, VerifySucceeds
  <2> QED
    BY <2>1, <2>2 DEF VerifySucceeds, Carries, LinkUp
<1> QED
  BY <1>1, <1>2, <1>3, TypeCorrect, PTL DEF Spec, CommittedCarries
-----------------------------------------------------------------------------
(***************************************************************************)
(* Zero-disruption probing.  An operation on a candidate c reaches the     *)
(* kernel by the interface n of its file, by c's table and by c's process, *)
(* and by nothing else.                                                    *)
(***************************************************************************)
Touches(c, n) ==
    /\ \A m \in Names \ {n} : ifc'[m] = ifc[m] /\ confs'[m] = confs[m]
    /\ ifc'[n] \in {ifc[n], NoConfig, c}
    /\ ~Quick(c) => ifc' = ifc /\ confs' = confs
    /\ \A d \in Candidates \ {c} : procs'[d] = procs[d]
    /\ rules' \subseteq rules \cup {Table[c]}

KeepsRules(c) == \A t \in rules : t # Table[c] => t \in rules'

LEMMA UnchangedTouches ==
    ASSUME UNCHANGED tunnelVars, NEW c, NEW n
    PROVE  Touches(c, n) /\ KeepsRules(c)
BY DEF tunnelVars, Touches, KeepsRules

LEMMA UpBeginTouches ==
    ASSUME TunnelTypeOK, NEW c \in Candidates, NEW n \in Names, NEW d \in Names,
           UpBegin(c, n, d, ctxOver)
    PROVE  Touches(c, d) /\ KeepsRules(c)
<1>1. CASE ~Quick(c)
  BY <1>1 DEF UpBegin, killProc, TunnelTypeOK, Touches, KeepsRules
<1>2. CASE Quick(c)
  BY <1>2 DEF UpBegin, QuickDown, TunnelTypeOK, Touches, KeepsRules
<1> QED
  BY <1>1, <1>2

LEMMA LinkAddTouches ==
    ASSUME TunnelTypeOK, NEW c \in Candidates, NEW d \in Names, LinkAdd(c, d)
    PROVE  Touches(c, d) /\ KeepsRules(c)
BY DEF LinkAdd, TunnelTypeOK, Touches, KeepsRules

LEMMA RuleAddTouches ==
    ASSUME NEW c \in Candidates, NEW n \in Names, RuleAdd(c)
    PROVE  Touches(c, n) /\ KeepsRules(c)
BY DEF RuleAdd, Touches, KeepsRules

LEMMA LinkDelTouches ==
    ASSUME TunnelTypeOK, NEW c \in Candidates, NEW d \in Names, LinkDel(c, d)
    PROVE  Touches(c, d) /\ KeepsRules(c)
BY DEF LinkDel, killProc, TunnelTypeOK, Touches, KeepsRules

LEMMA RouteFailsTouches ==
    ASSUME TunnelTypeOK, NEW c \in Candidates, NEW n \in Names,
           RouteFails(c, ctxOver)
    PROVE  Touches(c, n) /\ KeepsRules(c)
BY DEF RouteFails, killProc, TunnelTypeOK, Touches, KeepsRules

(* Down takes its PreDown hook from the file of that name, whoever wrote   *)
(* it; without a file it would go by the interface name.                   *)
LEMMA TunnelDownTouches ==
    ASSUME TunnelTypeOK, NEW c \in Candidates, NEW n \in Names, NEW d \in Names,
           TunnelDown(c, n, d), Quick(c) => confs[d] = c
    PROVE  Touches(c, d) /\ KeepsRules(c)
<1>1. CASE ~Quick(c)
  BY <1>1 DEF TunnelDown, killProc, TunnelTypeOK, Touches, KeepsRules
<1>2. CASE Quick(c)
  BY <1>2, CandidatesAssumption
     DEF TunnelDown, QuickDown, TunnelTypeOK, Touches, KeepsRules
<1> QED
  BY <1>1, <1>2

LEMMA TunnelDownLateTouches ==
    ASSUME TunnelTypeOK, NEW c \in Candidates, NEW n \in Names, TunnelDownLate(c)
    PROVE  Touches(c, n) /\ KeepsRules(c)
BY UnchangedTouches DEF TunnelDownLate, killProc, TunnelTypeOK, Touches, KeepsRules

LEMMA GoroutineTouches ==
    ASSUME TypeOK, NEW c \in Candidates, Goroutine(c)
    PROVE  /\ Touches(c, DeviceOf(c)) /\ KeepsRules(c)
           /\ activeID' = activeID /\ phase' = phase
           /\ \A d \in Candidates \ {c} : up'[d] = up[d] /\ res'[d] = res[d]
<1> USE TypeParts, NameType
<1>1. /\ activeID' = activeID /\ phase' = phase
      /\ \A d \in Candidates \ {c} : up'[d] = up[d] /\ res'[d] = res[d]
  BY DEF Goroutine, SkipUp, MgrUp, MgrLink, MgrLinkFails, MgrRule, MgrRuleFails,
     MgrRuleLate, MgrRoute, MgrRouteFails, MgrWait, MgrWaitFails, Settled, SettleExpires, ReturnError,
     ReturnProbe, EngineTypeOK
<1>2. CASE SkipUp(c) \/ MgrLinkFails(c) \/ MgrRoute(c) \/ Settled(c)
           \/ MgrWait(c) \/ MgrWaitFails(c) \/ ReturnError(c)
           \/ \E result \in Results : ReturnProbe(c, result)
  BY <1>1, <1>2, UnchangedTouches
     DEF SkipUp, MgrLinkFails, MgrRoute, MgrWait, MgrWaitFails, Settled, ReturnError,
     ReturnProbe
<1>3. CASE MgrUp(c)
  BY <1>1, <1>3, UpBeginTouches DEF MgrUp
<1>4. CASE MgrLink(c)
  BY <1>1, <1>4, LinkAddTouches DEF MgrLink
<1>5. CASE MgrRule(c)
  BY <1>1, <1>5, RuleAddTouches DEF MgrRule
<1>6. CASE MgrRuleFails(c)
  BY <1>1, <1>6, LinkDelTouches DEF MgrRuleFails
<1>7. CASE MgrRuleLate(c)
  BY <1>1, <1>7, LinkDelTouches, UnchangedTouches DEF MgrRuleLate
<1>8. CASE MgrRouteFails(c)
  BY <1>1, <1>8, RouteFailsTouches DEF MgrRouteFails
<1>9. CASE SettleExpires(c)
  BY <1>1, <1>9, TunnelDownLateTouches DEF SettleExpires
<1> QED
  BY <1>2, <1>3, <1>4, <1>5, <1>6, <1>7, <1>8, <1>9 DEF Goroutine
(* Steps of the engine that leave every tunnel alone.                      *)
Quiet ==
    \/ BeginTeardown \/ TornDown \/ Rank \/ NoneViable \/ AIProbed \/ GiveUp
    \/ ApplyFails \/ VerifySucceeds \/ Expire \/ Restart \/ UNCHANGED vars
    \/ \E c \in Candidates : Recommend(c) \/ TryConfig(c)
    \/ \E found \in BOOLEAN : Applied(found)
    \/ \E pool \in SUBSET Candidates : BeginRound(pool)

LEMMA QuietTunnels == Quiet => UNCHANGED tunnelVars
BY DEF Quiet, BeginTeardown, TornDown, Rank, NoneViable, AIProbed, GiveUp,
   ApplyFails, VerifySucceeds, Expire, Restart, vars, Recommend, TryConfig,
   Applied, BeginRound

LEMMA KindsOfSteps ==
    ASSUME [Next]_vars
    PROVE  \/ Quiet \/ Crash \/ VerifyFails
           \/ \E c \in Candidates : Goroutine(c) \/ Teardown(c)
BY DEF Next, Engine, Quiet

(* An interface is the one of the config it runs, or of its base config.   *)
NamesInv ==
    \A n \in Names : ifc[n] # NoConfig => n \in {Device[ifc[n]], Device[Base[ifc[n]]]}

(***************************************************************************)
(* interface_name is free text that nothing checks.  Two configs with one  *)
(* name, or a WireGuard config named like the interface awg-quick makes of *)
(* another, meet in one file and one interface.                            *)
(***************************************************************************)
DistinctNames ==
    \A c, d \in Candidates : Quick(c) /\ Quick(d) /\ Device[c] = Device[d] => c = d

(* An active variant keeps the interface of its own that it was probed on, *)
(* also while it is applied again on the one of its base config.           *)
VariantInv ==
    activeID \in Candidates /\ Quick(activeID) /\ Base[activeID] # activeID =>
        ifc[Device[activeID]] = activeID

(* The file a temporary tunnel is taken down with is its own, and what     *)
(* wg-quick made is there when waitForInterface looks.                     *)
ConfsInv ==
    phase \in {"probe", "teardown"} =>
        \A c \in Candidates \ {activeID} : Quick(c) =>
            /\ up[c] \notin {"off", "start"} => confs[Device[c]] = c
            /\ up[c] \in {"rule", "wait"} => ifc[Device[c]] = c

(* The active config is only probed.                                       *)
ProbedInv ==
    phase \in {"probe", "teardown"} /\ activeID \in Candidates =>
        up[activeID] \in {"off", "start", "probing", "done"}

(* The goroutine of the active config, where it is not brought up, leaves  *)
(* interfaces, files and rules alone.                                      *)
LEMMA ActiveLeavesTunnels ==
    ASSUME TypeOK, NEW c \in Candidates, c = activeID, phase = "probe" \/ phase = "teardown",
           Goroutine(c)
    PROVE  /\ UNCHANGED <<ifc, confs, rules>>
           /\ \A d \in Candidates \ {c} : procs'[d] = procs[d]
<1>1. UNCHANGED tunnelVars \/ SettleExpires(c)
  BY DEF Goroutine, SkipUp, MgrUp, MgrLink, MgrLinkFails, MgrRule, MgrRuleFails,
     MgrRuleLate, MgrRoute, MgrRouteFails, MgrWait, MgrWaitFails, Settled,
     ReturnError, ReturnProbe, Uplifting
<1> QED
  BY <1>1, TypeParts DEF SettleExpires, TunnelDownLate, killProc, tunnelVars, TunnelTypeOK

(* What VerifyFails and Teardown take down was written by their candidate. *)
LEMMA VerifyFailsTouches ==
    ASSUME TypeOK, ApplyInv, VerifyFails
    PROVE  cur \in Candidates /\ Touches(cur, DeviceOf(cur)) /\ KeepsRules(cur)
<1>1. /\ cur \in Candidates /\ NameOf(cur) \in Names /\ DeviceOf(cur) \in Names
      /\ TunnelTypeOK /\ TunnelDown(cur, NameOf(cur), DeviceOf(cur))
      /\ Quick(cur) => confs[DeviceOf(cur)] = cur
  BY NameType, TypeParts DEF VerifyFails, ApplyInv, CurInv
<1> QED
  BY <1>1, TunnelDownTouches

LEMMA TeardownTouches ==
    ASSUME TypeOK, ConfsInv, NEW c \in Candidates, Teardown(c)
    PROVE  /\ c # activeID /\ DeviceOf(c) = Device[c]
           /\ Touches(c, Device[c]) /\ KeepsRules(c)
<1>1. /\ c # activeID /\ up[c] = "done" /\ phase = "teardown"
      /\ NameOf(c) \in Names /\ DeviceOf(c) \in Names /\ DeviceOf(c) = Device[c]
      /\ TunnelTypeOK /\ TunnelDown(c, NameOf(c), DeviceOf(c))
  BY NameType, TypeParts DEF Teardown, ToTearDown
<1>2. Quick(c) => confs[Device[c]] = c
  BY <1>1 DEF ConfsInv
<1> QED
  BY <1>1, <1>2, TunnelDownTouches

LEMMA NamesInvKept ==
    ASSUME TypeOK, ApplyInv, ConfsInv, NamesInv, [Next]_vars
    PROVE  NamesInv'
<1>1. ASSUME NEW c \in Candidates, Touches(c, DeviceOf(c))
      PROVE  NamesInv'
  <2> SUFFICES ASSUME NEW n \in Names, ifc'[n] # NoConfig
               PROVE  n \in {Device[ifc'[n]], Device[Base[ifc'[n]]]}
    BY DEF NamesInv, Names
  <2>1. CASE ifc'[n] = ifc[n]
    BY <2>1 DEF NamesInv
  <2>2. CASE ifc'[n] # ifc[n]
    <3>1. n = DeviceOf(c) /\ ifc'[n] = c
      BY <1>1, <2>2 DEF Touches
    <3> QED
      BY <3>1, NameType DEF DeviceOf
  <2> QED
    BY <2>1, <2>2
<1>2. CASE ifc' = ifc
  BY <1>2 DEF NamesInv, Names
<1>3. Quiet \/ Crash => ifc' = ifc
  BY QuietTunnels DEF tunnelVars, Crash, TunnelsOrphaned
<1>4. VerifyFails => NamesInv'
  BY <1>1, VerifyFailsTouches
<1>5. ASSUME NEW c \in Candidates, Goroutine(c) \/ Teardown(c)
      PROVE  NamesInv'
  BY <1>1, <1>5, GoroutineTouches, TeardownTouches
<1> QED
  BY <1>2, <1>3, <1>4, <1>5, KindsOfSteps

(* Nothing is ever done on the own interface of an active variant.         *)
LEMMA NotTheVariants ==
    ASSUME DistinctNames, NEW c \in Candidates, Quick(c),
           activeID \in Candidates, Quick(activeID), Base[activeID] # activeID
    PROVE  DeviceOf(c) # Device[activeID]
<1>1. NamedAs(c) # activeID /\ NamedAs(c) \in Candidates /\ Quick(NamedAs(c))
  BY CandidatesAssumption DEF NamedAs, Quick
<1> QED
  BY <1>1 DEF DistinctNames, DeviceOf

LEMMA VariantInvKept ==
    ASSUME DistinctNames, TypeOK, ApplyInv, ConfsInv, VariantInv, [Next]_vars
    PROVE  VariantInv'
<1> USE TypeParts
<1>1. ASSUME NEW c \in Candidates, Touches(c, DeviceOf(c)), activeID' = activeID
      PROVE  VariantInv'
  <2> SUFFICES ASSUME activeID \in Candidates, Quick(activeID),
                      Base[activeID] # activeID
               PROVE  ifc'[Device[activeID]] = activeID
    BY <1>1 DEF VariantInv, Quick
  <2>1. ifc[Device[activeID]] = activeID /\ Device[activeID] \in Names
    BY DEF VariantInv, Names
  <2>2. CASE Quick(c)
    BY <1>1, <2>1, <2>2, NotTheVariants DEF Touches
  <2>3. CASE ~Quick(c)
    BY <1>1, <2>1, <2>3 DEF Touches
  <2> QED
    BY <2>2, <2>3
<1>2. CASE ifc' = ifc /\ activeID' = activeID
  BY <1>2 DEF VariantInv, Quick
<1>3. CASE VerifySucceeds
  <2>1. cur \in Candidates /\ (Quick(cur) => LinkOf(cur))
    BY <1>3 DEF VerifySucceeds, ApplyInv, CurInv
  <2>2. ifc' = ifc /\ activeID' = cur
    BY <1>3 DEF VerifySucceeds, tunnelVars
  <2>3. cur # activeID => DeviceOf(cur) = Device[cur]
    BY <2>1, NameType
  <2> QED
    BY <2>1, <2>2, <2>3 DEF VariantInv, LinkOf, Quick
<1>4. CASE Quiet /\ ~VerifySucceeds
  BY <1>2, <1>4, QuietTunnels, ActiveChanges DEF tunnelVars
<1>5. CASE Crash
  BY <1>2, <1>5 DEF Crash, TunnelsOrphaned
<1>6. VerifyFails => VariantInv'
  BY <1>1, VerifyFailsTouches DEF VerifyFails
<1>7. ASSUME NEW c \in Candidates, Goroutine(c) \/ Teardown(c)
      PROVE  VariantInv'
  BY <1>1, <1>7, GoroutineTouches, TeardownTouches DEF Teardown
<1> QED
  BY <1>3, <1>4, <1>5, <1>6, <1>7, KindsOfSteps

LEMMA ConfsInvKept ==
    ASSUME DistinctNames, TypeOK, ConfsInv, [Next]_vars
    PROVE  ConfsInv'
<1> USE TypeParts
<1>1. CASE phase' \notin {"probe", "teardown"}
  BY <1>1 DEF ConfsInv
<1>2. ASSUME NEW c \in Candidates, Goroutine(c), phase' \in {"probe", "teardown"}
      PROVE  ConfsInv'
  <2>1. /\ Touches(c, DeviceOf(c)) /\ activeID' = activeID /\ phase' = phase
        /\ \A d \in Candidates \ {c} : up'[d] = up[d]
    BY <1>2, GoroutineTouches
  <2>2. CASE c = activeID
    <3>1. UNCHANGED <<ifc, confs>>
      BY <1>2, <2>1, <2>2, ActiveLeavesTunnels DEF tunnelVars
    <3> QED
      BY <2>1, <2>2, <3>1 DEF ConfsInv, Quick
  <2>3. CASE c # activeID
    <3>1. DeviceOf(c) = Device[c] /\ DeviceOf(c) \in Names
      BY <2>3, NameType
    <3>2. Quick(c) /\ up'[c] \notin {"off", "start"} => confs'[Device[c]] = c
      <4>1. CASE MgrUp(c)
        BY <3>1, <4>1 DEF MgrUp, UpBegin, TunnelTypeOK
      <4>2. CASE ~MgrUp(c)
        <5>1. confs' = confs /\ up[c] \notin {"off", "start"}
          BY <1>2, <2>1, <2>3, <4>2 DEF Goroutine, SkipUp, MgrLink, MgrLinkFails, MgrRule,
             MgrRuleFails, MgrRuleLate, MgrRoute, MgrRouteFails, MgrWait, MgrWaitFails,
             Settled, SettleExpires, ReturnError, ReturnProbe, LinkAdd, LinkDel, RuleAdd,
             RouteFails, TunnelDownLate, tunnelVars
        <5> QED
          BY <1>2, <2>1, <2>3, <5>1 DEF ConfsInv
      <4> QED
        BY <4>1, <4>2
    <3>3. Quick(c) /\ up'[c] \in {"rule", "wait"} => ifc'[Device[c]] = c
      <4>1. CASE MgrLink(c)
        BY <3>1, <4>1 DEF MgrLink, LinkAdd, TunnelTypeOK
      <4>2. CASE MgrRule(c)
        <5>1. ifc' = ifc /\ up[c] = "rule"
          BY <4>2 DEF MgrRule, RuleAdd
        <5> QED
          BY <1>2, <2>1, <2>3, <5>1 DEF ConfsInv
      <4>3. CASE ~MgrLink(c) /\ ~MgrRule(c)
        BY <1>2, <4>3 DEF Goroutine, SkipUp, MgrUp, MgrLinkFails, MgrRuleFails, MgrRuleLate,
           MgrRoute, MgrRouteFails, MgrWait, MgrWaitFails, Settled, SettleExpires,
           ReturnError, ReturnProbe, EngineTypeOK
      <4> QED
        BY <4>1, <4>2, <4>3
    <3>4. ASSUME NEW d \in Candidates \ {c}, Quick(d)
          PROVE  confs'[Device[d]] = confs[Device[d]] /\ ifc'[Device[d]] = ifc[Device[d]]
      <4>1. Device[d] \in Names
        BY DEF Names
      <4>2. CASE Quick(c)
        <5>1. Device[d] # Device[c]
          BY <3>4, <4>2 DEF DistinctNames
        <5> QED
          BY <2>1, <3>1, <4>1, <5>1 DEF Touches
      <4>3. CASE ~Quick(c)
        BY <2>1, <4>3 DEF Touches
      <4> QED
        BY <4>2, <4>3
    <3> SUFFICES ASSUME NEW d \in Candidates \ {activeID}, Quick(d)
                 PROVE  /\ up'[d] \notin {"off", "start"} => confs'[Device[d]] = d
                        /\ up'[d] \in {"rule", "wait"} => ifc'[Device[d]] = d
      BY <2>1 DEF ConfsInv, Quick
    <3>5. CASE d = c
      BY <3>2, <3>3, <3>5
    <3>6. CASE d # c
      BY <1>2, <2>1, <3>4, <3>6 DEF ConfsInv
    <3> QED
      BY <3>5, <3>6
  <2> QED
    BY <2>2, <2>3
<1>3. ASSUME NEW c \in Candidates, Teardown(c)
      PROVE  ConfsInv'
  <2>1. /\ confs' = confs /\ activeID' = activeID /\ phase = "teardown"
        /\ up' = [up EXCEPT ![c] = "off"] /\ up[c] = "done"
    BY <1>3 DEF Teardown, TunnelDown, ToTearDown
  <2>2. Touches(c, Device[c])
    BY <1>3, TeardownTouches
  <2> SUFFICES ASSUME NEW d \in Candidates \ {activeID}, Quick(d)
               PROVE  /\ up'[d] \notin {"off", "start"} => confs'[Device[d]] = d
                      /\ up'[d] \in {"rule", "wait"} => ifc'[Device[d]] = d
    BY <2>1 DEF ConfsInv, Quick
  <2>3. CASE d = c
    BY <2>1, <2>3 DEF EngineTypeOK
  <2>4. CASE d # c
    <3>1. up'[d] = up[d] /\ Device[d] \in Names
      BY <2>1, <2>4 DEF EngineTypeOK, Names
    <3>2. ifc'[Device[d]] = ifc[Device[d]]
      <4>1. CASE Quick(c)
        <5>1. Device[d] # Device[c]
          BY <2>4, <4>1 DEF DistinctNames
        <5> QED
          BY <2>2, <3>1, <5>1 DEF Touches
      <4>2. CASE ~Quick(c)
        BY <2>2, <4>2 DEF Touches
      <4> QED
        BY <4>1, <4>2
    <3> QED
      BY <2>1, <3>1, <3>2 DEF ConfsInv
  <2> QED
    BY <2>3, <2>4
<1>4. CASE BeginTeardown \/ Expire \/ UNCHANGED vars
  BY <1>4 DEF BeginTeardown, Expire, AllReturned, ConfsInv, Quick, tunnelVars, vars, engineVars
<1>5. ASSUME NEW c \in Candidates, Recommend(c)
      PROVE  ConfsInv'
  BY <1>5 DEF Recommend, ConfsInv, AllOff
<1>6. ASSUME NEW pool \in SUBSET Candidates, BeginRound(pool)
      PROVE  ConfsInv'
  BY <1>6 DEF BeginRound, ConfsInv
<1>7. CASE TornDown \/ Rank \/ NoneViable \/ AIProbed \/ GiveUp \/ ApplyFails
           \/ VerifyFails \/ VerifySucceeds \/ Crash \/ Restart
           \/ (\E c \in Candidates : TryConfig(c))
           \/ (\E found \in BOOLEAN : Applied(found))
  BY <1>1, <1>7 DEF TornDown, Rank, NoneViable, AIProbed, GiveUp, ApplyFails,
     VerifyFails, VerifySucceeds, Crash, Restart, TryConfig, Applied
<1> QED
  BY <1>1, <1>2, <1>3, <1>4, <1>5, <1>6, <1>7, KindsOfSteps DEF Quiet
LEMMA ProbedInvKept ==
    ASSUME TypeOK, ProbedInv, [Next]_vars
    PROVE  ProbedInv'
<1> USE TypeParts
<1>1. CASE phase' \notin {"probe", "teardown"}
  BY <1>1 DEF ProbedInv
<1>2. ASSUME NEW c \in Candidates, Goroutine(c), phase' \in {"probe", "teardown"}
      PROVE  ProbedInv'
  <2>1. /\ activeID' = activeID /\ phase' = phase
        /\ \A d \in Candidates \ {c} : up'[d] = up[d]
    BY <1>2, GoroutineTouches
  <2>2. ASSUME c = activeID
        PROVE  up'[c] \in {"off", "start", "probing", "done"}
    <3>1. up[c] \in {"off", "start", "probing", "done"}
      BY <1>2, <2>1, <2>2 DEF ProbedInv
    <3>2. SkipUp(c) \/ \E result \in Results : ReturnProbe(c, result)
      BY <1>2, <2>1, <2>2, <3>1 DEF Goroutine, MgrUp, MgrLink, MgrLinkFails, MgrRule,
         MgrRuleFails, MgrRuleLate, MgrRoute, MgrRouteFails, MgrWait, MgrWaitFails, Settled,
         SettleExpires, ReturnError, Uplifting
    <3> QED
      BY <3>2 DEF SkipUp, ReturnProbe, EngineTypeOK
  <2> QED
    BY <1>2, <2>1, <2>2 DEF ProbedInv
<1>3. ASSUME NEW c \in Candidates, Teardown(c)
      PROVE  ProbedInv'
  BY <1>3 DEF Teardown, ProbedInv, EngineTypeOK
<1>4. CASE BeginTeardown \/ Expire \/ UNCHANGED vars
  BY <1>4 DEF BeginTeardown, Expire, AllReturned, ProbedInv, vars, engineVars
<1>5. ASSUME NEW c \in Candidates, Recommend(c)
      PROVE  ProbedInv'
  BY <1>5 DEF Recommend, ProbedInv, AllOff
<1>6. ASSUME NEW pool \in SUBSET Candidates, BeginRound(pool)
      PROVE  ProbedInv'
  BY <1>6 DEF BeginRound, ProbedInv
<1>7. CASE TornDown \/ Rank \/ NoneViable \/ AIProbed \/ GiveUp \/ ApplyFails
           \/ VerifyFails \/ VerifySucceeds \/ Crash \/ Restart
           \/ (\E c \in Candidates : TryConfig(c))
           \/ (\E found \in BOOLEAN : Applied(found))
  BY <1>1, <1>7 DEF TornDown, Rank, NoneViable, AIProbed, GiveUp, ApplyFails,
     VerifyFails, VerifySucceeds, Crash, Restart, TryConfig, Applied
<1> QED
  BY <1>1, <1>2, <1>3, <1>4, <1>5, <1>6, <1>7, KindsOfSteps DEF Quiet

(***************************************************************************)
(* "Each tunnel uses a unique routing table ID" (docs/architecture.md).    *)
(* Where two candidates share one the rule of one is the rule of the       *)
(* other, and taking it away disturbs both.                                *)
(***************************************************************************)
DistinctTables == \A c, d \in Candidates : Table[c] = Table[d] => c = d

(* An operation on another candidate, under its own name, leaves the       *)
(* active tunnel standing.                                                 *)
LEMMA OthersLeaveActive ==
    ASSUME DistinctTables, DistinctNames, NamesInv, VariantInv, activeID \in Candidates,
           Carries(activeID),
           NEW c \in Candidates \ {activeID}, Touches(c, Device[c]), KeepsRules(c),
           activeID' = activeID
    PROVE  Carries(activeID)'
<1>1. Table[activeID] \in rules'
  BY DEF DistinctTables, Carries, KeepsRules
<1>2. CASE ~Quick(activeID)
  BY <1>1, <1>2 DEF Carries, LinkUp, Touches, Quick
<1>3. CASE Quick(activeID)
  <2>1. PICK n \in Names : ifc[n] = activeID
    BY <1>3 DEF Carries, LinkUp
  <2>2. n \in {Device[activeID], Device[Base[activeID]]}
    BY <2>1, CandidatesAssumption DEF NamesInv
  <2>3. ifc[Device[activeID]] = activeID /\ Device[activeID] \in Names
    BY <1>3, <2>1, <2>2 DEF VariantInv, Names
  <2>4. ifc'[Device[activeID]] = activeID
    <3>1. CASE Quick(c)
      <4>1. Device[c] # Device[activeID]
        BY <1>3, <3>1 DEF DistinctNames
      <4> QED
        BY <2>3, <4>1 DEF Touches
    <3>2. CASE ~Quick(c)
      BY <2>3, <3>2 DEF Touches
    <3> QED
      BY <3>1, <3>2
  <2> QED
    BY <1>1, <1>3, <2>3, <2>4 DEF Carries, LinkUp, Names, Quick
<1> QED
  BY <1>2, <1>3

LEMMA ActiveStaysUndisturbed ==
    ASSUME DistinctTables, DistinctNames,
           TypeOK, NamesInv, VariantInv, ConfsInv, ProbedInv,
           activeID # NoConfig, phase \in {"probe", "teardown"}, Carries(activeID),
           [Next]_vars
    PROVE  Carries(activeID)'
<1> USE TypeParts
<1>1. activeID \in Candidates /\ activeID' = activeID
  BY ActiveChanges DEF EngineTypeOK, VerifySucceeds
<1>2. CASE UNCHANGED tunnelVars
  BY <1>1, <1>2 DEF tunnelVars, Carries, LinkUp, Quick
<1>3. ASSUME NEW c \in Candidates, Goroutine(c)
      PROVE  Carries(activeID)'
  <2>1. CASE c = activeID
    <3>1. SkipUp(c) \/ \E result \in Results : ReturnProbe(c, result)
      BY <1>1, <1>3, <2>1 DEF ProbedInv, Goroutine, MgrUp, MgrLink, MgrLinkFails, MgrRule,
         MgrRuleFails, MgrRuleLate, MgrRoute, MgrRouteFails, MgrWait, MgrWaitFails,
         Settled, SettleExpires, ReturnError, Uplifting
    <3> QED
      BY <1>2, <3>1 DEF SkipUp, ReturnProbe
  <2>2. CASE c # activeID
    <3>1. Touches(c, Device[c]) /\ KeepsRules(c)
      BY <1>3, <2>2, GoroutineTouches, NameType
    <3> QED
      BY <1>1, <2>2, <3>1, OthersLeaveActive
  <2> QED
    BY <2>1, <2>2
<1>4. ASSUME NEW c \in Candidates, Teardown(c)
      PROVE  Carries(activeID)'
  BY <1>1, <1>4, TeardownTouches, OthersLeaveActive
<1>5. CASE Crash
  BY <1>1, <1>5 DEF Crash, TunnelsOrphaned, Orphaned, Carries, LinkUp, Quick
<1>6. ~VerifyFails
  BY DEF VerifyFails
<1> QED
  BY <1>2, <1>3, <1>4, <1>5, <1>6, KindsOfSteps, QuietTunnels

LEMMA ApplyCorrect == Spec => [](TypeOK /\ ApplyInv)
<1>1. Init => ApplyInv
  BY DEF Init, ApplyInv, CurInv
<1>2. TypeOK /\ ApplyInv /\ [Next]_vars => ApplyInv'
  BY ApplyInvKept
<1> QED
  BY <1>1, <1>2, TypeCorrect, PTL DEF Spec

LEMMA EngineInvariants ==
    ASSUME DistinctNames
    PROVE  Spec => [](TypeOK /\ ApplyInv /\ NamesInv /\ VariantInv /\ ConfsInv /\ ProbedInv)
<1>1. Init => NamesInv /\ VariantInv /\ ConfsInv /\ ProbedInv
  BY CandidatesAssumption
     DEF Init, TunnelInit, NamesInv, VariantInv, ConfsInv, ProbedInv
<1>2. TypeOK /\ ConfsInv /\ ProbedInv /\ [Next]_vars => ConfsInv' /\ ProbedInv'
  BY ConfsInvKept, ProbedInvKept
<1>3. TypeOK /\ ApplyInv /\ ConfsInv /\ NamesInv /\ VariantInv /\ [Next]_vars
        => NamesInv' /\ VariantInv'
  BY NamesInvKept, VariantInvKept
<1> QED
  BY <1>1, <1>2, <1>3, ApplyCorrect, PTL DEF Spec

(***************************************************************************)
(* "Zero-disruption parallel probing": with tables and interfaces of its   *)
(* own, the active tunnel keeps link and rule through every probe phase    *)
(* and teardown, in every interleaving of the goroutines, timeouts,        *)
(* failing commands and crashes.  The code checks neither hypothesis;      *)
(* README.md asks the user for both.                                       *)
(***************************************************************************)
THEOREM ActiveNeverDisturbed ==
    ASSUME DistinctTables, DistinctNames
    PROVE  Spec => ActiveUndisturbed
<1>1. ASSUME TypeOK, NamesInv, VariantInv, ConfsInv, ProbedInv, [Next]_vars
      PROVE  [activeID # NoConfig /\ phase \in {"probe", "teardown"}
                /\ Carries(activeID) => Carries(activeID)']_vars
  BY <1>1, ActiveStaysUndisturbed
<1> QED
  BY <1>1, EngineInvariants, PTL DEF Spec, ActiveUndisturbed
-----------------------------------------------------------------------------
(***************************************************************************)
(* The teardown is complete.  A temporary tunnel is one that neither is    *)
(* the active config's, nor was left from before the round, nor the AI     *)
(* advisor's, nor met the timeout, nor has an interface that did not       *)
(* appear; what remains of it follows from where its goroutine is.         *)
(***************************************************************************)
Own(c) ==
    IF Quick(c) THEN \A n \in Names : ifc[n] = c <=> n = Device[c]
    ELSE procs[c] \in {"tracked", "dead"}

Stands(c) == Own(c) /\ (Quick(c) => Table[c] \in rules)

Temp(c) ==
    /\ up[c] \in {"off", "start", "link", "failed"} => ~Remains(c)
    /\ up[c] = "rule" => Own(c) /\ Table[c] \notin rules
    /\ up[c] = "route" => Own(c) /\ ~Quick(c)
    /\ up[c] \in {"wait", "settle", "probing"} => Stands(c)
    /\ up[c] = "done" => IF res[c] = "err" THEN ~Remains(c) ELSE Stands(c)

Temporary == Candidates \ ({activeID, advised} \cup leftBefore \cup late \cup unseen)

TornInv == phase \in {"probe", "teardown"} => \A c \in Temporary : Temp(c)

(* While tunnels are torn down no goroutine is left, and the AI advisor's  *)
(* candidate is probed alone.                                              *)
DownInv ==
    /\ phase = "teardown" => \A c \in Candidates : up[c] \in {"off", "done"}
    /\ phase = "probe" /\ advised # NoConfig =>
          \A c \in Candidates \ {advised} : up[c] = "off"

(* An operation on another candidate changes nothing about a temporary     *)
(* tunnel.                                                                 *)
LEMMA OthersLeaveTemp ==
    ASSUME DistinctTables, DistinctNames,
           NEW c \in Candidates, Touches(c, Device[c]), KeepsRules(c),
           NEW d \in Candidates \ {c}, Temp(d),
           up'[d] = up[d], res'[d] = res[d]
    PROVE  Temp(d)'
<1>1. Table[d] \in rules' <=> Table[d] \in rules
  BY DEF DistinctTables, Touches, KeepsRules
<1>2. Own(d) => Own(d)'
  <2>1. CASE ~Quick(d)
    BY <2>1 DEF Own, Touches, Quick
  <2>2. CASE Quick(d) /\ ~Quick(c)
    BY <2>2 DEF Own, Touches, Quick, Names
  <2>3. CASE Quick(d) /\ Quick(c)
    <3>1. Device[c] # Device[d] /\ d # NoConfig
      BY <2>3, CandidatesAssumption DEF DistinctNames
    <3> SUFFICES ASSUME Own(d), NEW n \in Names
                 PROVE  ifc'[n] = d <=> n = Device[d]
      BY <2>3 DEF Own, Quick, Names
    <3>2. ifc[n] = d <=> n = Device[d]
      BY <2>3 DEF Own
    <3> QED
      BY <3>1, <3>2 DEF Touches
  <2> QED
    BY <2>1, <2>2, <2>3
<1>3. ~Remains(d) => ~Remains(d)'
  BY <1>1, CandidatesAssumption DEF Remains, LinkUp, Touches, Names, Quick
<1> QED
  BY <1>1, <1>2, <1>3 DEF Temp, Stands, Quick

(* A step of its own goroutine.                                            *)
LEMMA OwnGoroutine ==
    ASSUME TypeOK, phase = "probe", NEW c \in Temporary, Goroutine(c), Temp(c),
           c \notin late' \cup unseen'
    PROVE  Temp(c)'
<1>1. /\ c \in Candidates /\ c # activeID /\ DeviceOf(c) = Device[c]
      /\ Device[c] \in Names /\ NameOf(c) \in Names /\ c # NoConfig
  BY NameType, CandidatesAssumption DEF Temporary, Names
<1>2. TunnelTypeOK /\ EngineTypeOK
  BY TypeParts
<1> USE <1>1, <1>2
<1>3. CASE MgrUp(c)
  <2>1. up[c] = "start" /\ up'[c] = "link" /\ ~Remains(c)
    BY <1>3 DEF MgrUp, Temp, EngineTypeOK
  <2>2. ~Remains(c)'
    BY <1>3, <2>1 DEF MgrUp, UpBegin, QuickDown, killProc, Remains, LinkUp, TunnelTypeOK, Quick
  <2> QED
    BY <2>1, <2>2 DEF Temp
<1>4. CASE MgrLink(c)
  <2>1. up[c] = "link" /\ up'[c] = "rule" /\ ~Remains(c)
    BY <1>4 DEF MgrLink, Temp, EngineTypeOK
  <2>2. Own(c)' /\ Table[c] \notin rules'
    BY <1>4, <2>1 DEF MgrLink, LinkAdd, Remains, LinkUp, Own, TunnelTypeOK, Quick
  <2> QED
    BY <2>1, <2>2 DEF Temp
<1>5. CASE MgrLinkFails(c)
  BY <1>5 DEF MgrLinkFails, Temp, EngineTypeOK, Remains, LinkUp, tunnelVars, Quick
<1>6. CASE MgrRule(c)
  <2>1. up[c] = "rule" /\ up'[c] = IF Quick(c) THEN "wait" ELSE "route"
    BY <1>6 DEF MgrRule, EngineTypeOK
  <2>2. Own(c)' /\ Table[c] \in rules'
    BY <1>6, <2>1 DEF MgrRule, RuleAdd, Temp, Own, Quick
  <2> QED
    BY <2>1, <2>2 DEF Temp, Stands, Quick
<1>7. CASE MgrRuleFails(c)
  <2>1. up[c] = "rule" /\ up'[c] = "failed" /\ Own(c) /\ Table[c] \notin rules
    BY <1>7 DEF MgrRuleFails, Temp, EngineTypeOK
  <2>2. ~Remains(c)'
    BY <1>7, <2>1 DEF MgrRuleFails, LinkDel, killProc, Own, Remains, LinkUp, TunnelTypeOK, Quick
  <2> QED
    BY <2>1, <2>2 DEF Temp
<1>8. CASE MgrRoute(c) \/ MgrWait(c) \/ Settled(c)
  <2>1. /\ up[c] \in {"route", "wait", "settle"} /\ up'[c] \in {"settle", "probing"}
        /\ UNCHANGED tunnelVars
    BY <1>8 DEF MgrRoute, MgrWait, Settled, EngineTypeOK
  <2>2. Stands(c)'
    BY <2>1 DEF Temp, Stands, Own, tunnelVars, Quick
  <2> QED
    BY <2>1, <2>2 DEF Temp
<1>9. CASE MgrRouteFails(c)
  <2>1. up[c] = "route" /\ up'[c] = "failed" /\ Own(c) /\ ~Quick(c) /\ ~ctxOver
    BY <1>9 DEF MgrRouteFails, MgrWait, MgrWaitFails, Temp, EngineTypeOK
  <2>2. ~Remains(c)'
    BY <1>9, <2>1 DEF MgrRouteFails, MgrWait, MgrWaitFails, RouteFails, killProc, Own, Remains, LinkUp, TunnelTypeOK, Quick
  <2> QED
    BY <2>1, <2>2 DEF Temp
<1>10. CASE ReturnError(c)
  BY <1>10 DEF ReturnError, Temp, EngineTypeOK, Remains, LinkUp, tunnelVars, Quick
<1>11. ASSUME NEW result \in Results, ReturnProbe(c, result)
       PROVE  Temp(c)'
  <2>1. up[c] = "probing" /\ up'[c] = "done" /\ res'[c] # "err" /\ UNCHANGED tunnelVars
    BY <1>11 DEF ReturnProbe, EngineTypeOK
  <2>2. Stands(c)'
    BY <2>1 DEF Temp, Stands, Own, tunnelVars, Quick
  <2> QED
    BY <2>1, <2>2 DEF Temp
<1>12. ~SkipUp(c) /\ ~MgrRuleLate(c) /\ ~SettleExpires(c) /\ ~MgrWaitFails(c)
  BY DEF SkipUp, MgrRuleLate, SettleExpires, MgrWaitFails
<1> QED
  BY <1>3, <1>4, <1>5, <1>6, <1>7, <1>8, <1>9, <1>10, <1>11, <1>12 DEF Goroutine

(* The teardown of a tunnel that came up leaves nothing of it.             *)
LEMMA OwnTeardown ==
    ASSUME TypeOK, ConfsInv, NEW c \in Temporary, Teardown(c), Temp(c)
    PROVE  Temp(c)'
<1>1. /\ c \in Candidates /\ c # activeID /\ DeviceOf(c) = Device[c]
      /\ Device[c] \in Names /\ NameOf(c) \in Names /\ c # NoConfig
      /\ TunnelTypeOK /\ EngineTypeOK
  BY NameType, CandidatesAssumption, TypeParts DEF Temporary, Names
<1>2. /\ up'[c] = "off" /\ Stands(c) /\ TunnelDown(c, NameOf(c), Device[c])
      /\ (Quick(c) => confs[Device[c]] = c)
  BY <1>1 DEF Teardown, ToTearDown, Temp, ConfsInv, EngineTypeOK
<1>3. ~Remains(c)'
  BY <1>1, <1>2
     DEF TunnelDown, QuickDown, killProc, Stands, Own, Remains, LinkUp, TunnelTypeOK, Quick
<1> QED
  BY <1>2, <1>3 DEF Temp
LEMMA GoroutineHistory ==
    ASSUME NEW c \in Candidates, Goroutine(c)
    PROVE  /\ leftBefore' = leftBefore /\ advised' = advised
           /\ late \subseteq late' /\ unseen \subseteq unseen'
BY DEF Goroutine, SkipUp, MgrUp, MgrLink, MgrLinkFails, MgrRule, MgrRuleFails,
   MgrRuleLate, MgrRoute, MgrRouteFails, MgrWait, MgrWaitFails, Settled, SettleExpires, ReturnError,
   ReturnProbe, historyVars

LEMMA GoroutinePhase ==
    ASSUME NEW c \in Candidates, Goroutine(c)
    PROVE  phase # "teardown"
BY DEF Goroutine, SkipUp, MgrUp, MgrLink, MgrLinkFails, MgrRule,
   MgrRuleFails, MgrRuleLate, MgrRoute, MgrRouteFails, MgrWait, MgrWaitFails, Settled, SettleExpires,
   ReturnError, ReturnProbe, Uplifting

LEMMA DownInvKept ==
    ASSUME TypeOK, DownInv, [Next]_vars
    PROVE  DownInv'
<1> USE TypeParts
<1>1. CASE phase' \notin {"probe", "teardown"}
  BY <1>1 DEF DownInv
<1>2. ASSUME NEW c \in Candidates, Goroutine(c)
      PROVE  DownInv'
  <2>1. /\ phase # "teardown" /\ phase' = phase /\ advised' = advised
        /\ \A d \in Candidates \ {c} : up'[d] = up[d]
    BY <1>2, GoroutinePhase, GoroutineTouches, GoroutineHistory
  <2>2. up[c] # "off"
    BY <1>2 DEF Goroutine, SkipUp, MgrUp, MgrLink, MgrLinkFails, MgrRule,
       MgrRuleFails, MgrRuleLate, MgrRoute, MgrRouteFails, MgrWait, MgrWaitFails,
       Settled, SettleExpires, ReturnError, ReturnProbe
  <2> QED
    BY <2>1, <2>2 DEF DownInv
<1>3. ASSUME NEW c \in Candidates, Teardown(c)
      PROVE  DownInv'
  BY <1>3 DEF Teardown, DownInv, EngineTypeOK
<1>4. CASE BeginTeardown \/ Expire \/ UNCHANGED vars
  BY <1>4 DEF BeginTeardown, Expire, AllReturned, DownInv, vars, engineVars
<1>5. ASSUME NEW c \in Candidates, Recommend(c)
      PROVE  DownInv'
  BY <1>5 DEF Recommend, AllOff, DownInv
<1>6. ASSUME NEW pool \in SUBSET Candidates, BeginRound(pool)
      PROVE  DownInv'
  BY <1>6 DEF BeginRound, DownInv
<1>7. CASE TornDown \/ Rank \/ NoneViable \/ AIProbed \/ GiveUp \/ ApplyFails
           \/ VerifyFails \/ VerifySucceeds \/ Crash \/ Restart
           \/ (\E c \in Candidates : TryConfig(c))
           \/ (\E found \in BOOLEAN : Applied(found))
  BY <1>1, <1>7 DEF TornDown, Rank, NoneViable, AIProbed, GiveUp, ApplyFails,
     VerifyFails, VerifySucceeds, Crash, Restart, TryConfig, Applied
<1> QED
  BY <1>2, <1>3, <1>4, <1>5, <1>6, <1>7, KindsOfSteps DEF Quiet

LEMMA TornInvKept ==
    ASSUME DistinctTables, DistinctNames,
           TypeOK, ConfsInv, DownInv, TornInv, RemainsExplained, [Next]_vars
    PROVE  TornInv'
<1> USE TypeParts
<1>1. CASE phase' \notin {"probe", "teardown"}
  BY <1>1 DEF TornInv
<1>2. ASSUME NEW c \in Candidates, Goroutine(c), phase' \in {"probe", "teardown"}
      PROVE  TornInv'
  <2>1. /\ Touches(c, DeviceOf(c)) /\ KeepsRules(c)
        /\ activeID' = activeID /\ phase' = phase
        /\ \A d \in Candidates \ {c} : up'[d] = up[d] /\ res'[d] = res[d]
        /\ leftBefore' = leftBefore /\ advised' = advised
        /\ late \subseteq late' /\ unseen \subseteq unseen'
        /\ phase = "probe"
    BY <1>2, GoroutineTouches, GoroutineHistory, GoroutinePhase
  <2> SUFFICES ASSUME NEW d \in Candidates,
                      d \notin {activeID, advised} \cup leftBefore \cup late' \cup unseen'
               PROVE  Temp(d)'
    BY <2>1 DEF TornInv, Temporary
  <2>2. d \in Temporary /\ Temp(d)
    BY <1>2, <2>1 DEF TornInv, Temporary
  <2>3. CASE d = c
    BY <1>2, <2>1, <2>2, <2>3, OwnGoroutine
  <2>4. CASE d # c /\ c # activeID
    <3>1. Touches(c, Device[c])
      BY <2>1, <2>4, NameType
    <3> QED
      BY <2>1, <2>2, <2>4, <3>1, OthersLeaveTemp
  <2>5. CASE d # c /\ c = activeID
    <3>1. UNCHANGED <<ifc, confs, rules>> /\ \A e \in Candidates \ {c} : procs'[e] = procs[e]
      BY <1>2, <2>1, <2>5, ActiveLeavesTunnels
    <3>2. Touches(c, Device[c]) /\ KeepsRules(c)
      BY <3>1 DEF Touches, KeepsRules
    <3> QED
      BY <2>1, <2>2, <2>5, <3>2, OthersLeaveTemp
  <2> QED
    BY <2>3, <2>4, <2>5
<1>3. ASSUME NEW c \in Candidates, Teardown(c)
      PROVE  TornInv'
  <2>1. /\ phase = "teardown" /\ Temporary' = Temporary /\ res' = res
        /\ up' = [up EXCEPT ![c] = "off"]
    BY <1>3 DEF Teardown, ToTearDown, Temporary, historyVars
  <2>2. Touches(c, Device[c]) /\ KeepsRules(c)
    BY <1>3, TeardownTouches
  <2> SUFFICES ASSUME NEW d \in Temporary
               PROVE  Temp(d)'
    BY <2>1 DEF TornInv
  <2>3. Temp(d) /\ d \in Candidates
    BY <2>1 DEF TornInv, Temporary
  <2>4. CASE d = c
    BY <1>3, <2>3, <2>4, OwnTeardown
  <2>5. CASE d # c
    <3>1. up'[d] = up[d] /\ res'[d] = res[d]
      BY <2>1, <2>3, <2>5 DEF EngineTypeOK
    <3> QED
      BY <2>2, <2>3, <2>5, <3>1, OthersLeaveTemp
  <2> QED
    BY <2>4, <2>5
<1>4. CASE BeginTeardown \/ Expire \/ UNCHANGED vars
  BY <1>4 DEF BeginTeardown, Expire, AllReturned, TornInv, Temporary, Temp, Stands,
     Own, Remains, LinkUp, Quick, tunnelVars, vars, engineVars, historyVars
<1>5. ASSUME NEW pool \in SUBSET Candidates, BeginRound(pool)
      PROVE  TornInv'
  BY <1>5 DEF BeginRound, TornInv, Temporary, Temp, Remains, LinkUp, Quick, tunnelVars
<1>6. ASSUME NEW c \in Candidates, Recommend(c)
      PROVE  TornInv'
  <2>1. /\ phase = "rank" /\ advised = NoConfig /\ advised' = c
        /\ up' = [AllOff EXCEPT ![c] = "start"]
        /\ UNCHANGED <<tunnelVars, activeID, historyVars>>
    BY <1>6 DEF Recommend
  <2> SUFFICES ASSUME NEW d \in Temporary'
               PROVE  Temp(d)'
    BY DEF TornInv
  <2>2. /\ d \in Candidates /\ up'[d] = "off" /\ d # NoConfig
        /\ d \notin {activeID, advised} \cup leftBefore \cup late \cup unseen
    BY <2>1, CandidatesAssumption DEF Temporary, AllOff, historyVars
  <2>3. ~Remains(d)
    BY <2>1, <2>2 DEF RemainsExplained
  <2>4. ~Remains(d)'
    BY <2>1, <2>3 DEF Remains, LinkUp, Quick, tunnelVars
  <2> QED
    BY <2>2, <2>4 DEF Temp
<1>7. CASE TornDown \/ Rank \/ NoneViable \/ AIProbed \/ GiveUp \/ ApplyFails
           \/ VerifyFails \/ VerifySucceeds \/ Crash \/ Restart
           \/ (\E c \in Candidates : TryConfig(c))
           \/ (\E found \in BOOLEAN : Applied(found))
  BY <1>1, <1>7 DEF TornDown, Rank, NoneViable, AIProbed, GiveUp, ApplyFails,
     VerifyFails, VerifySucceeds, Crash, Restart, TryConfig, Applied
<1>8. ASSUME NEW c \in Candidates, Goroutine(c)
      PROVE  TornInv'
  BY <1>1, <1>2, <1>8
<1> QED
  BY <1>3, <1>4, <1>5, <1>6, <1>7, <1>8, KindsOfSteps DEF Quiet

LEMMA RemainsExplainedKept ==
    ASSUME TypeOK, DownInv, TornInv, RemainsExplained, [Next]_vars
    PROVE  RemainsExplained'
<1> USE TypeParts
<1>1. CASE phase' # "rank"
  BY <1>1 DEF RemainsExplained
<1>2. CASE TornDown \/ AIProbed
  <2>1. /\ UNCHANGED <<tunnelVars, activeID, advised, historyVars>>
        /\ phase \in {"probe", "teardown"}
    BY <1>2 DEF TornDown, AIProbed, AllReturned
  <2> SUFFICES ASSUME NEW c \in Temporary
               PROVE  ~Remains(c)
    BY <2>1 DEF RemainsExplained, Temporary, Remains, LinkUp, Quick, tunnelVars, historyVars
  <2>2. c \in Candidates /\ Temp(c) /\ c # activeID /\ c # advised
    BY <2>1 DEF TornInv, Temporary
  <2>3. CASE TornDown
    <3>1. up[c] \in {"off", "done"} /\ ~ToTearDown(c)
      BY <2>2, <2>3 DEF TornDown, DownInv
    <3> QED
      BY <2>2, <3>1 DEF ToTearDown, Temp
  <2>4. CASE AIProbed
    <3>1. up[c] = "off"
      BY <2>2, <2>4 DEF AIProbed, AllReturned, DownInv
    <3> QED
      BY <2>2, <3>1 DEF Temp
  <2> QED
    BY <1>2, <2>3, <2>4
<1>3. CASE UNCHANGED vars
  BY <1>3 DEF RemainsExplained, Remains, LinkUp, Quick, vars, engineVars, historyVars,
     tunnelVars
<1>4. ASSUME NEW c \in Candidates, Goroutine(c)
      PROVE  phase' # "rank"
  BY <1>4 DEF Goroutine, SkipUp, MgrUp, MgrLink, MgrLinkFails, MgrRule,
     MgrRuleFails, MgrRuleLate, MgrRoute, MgrRouteFails, MgrWait, MgrWaitFails, Settled,
     SettleExpires, ReturnError, ReturnProbe, Uplifting
<1>5. ASSUME NEW c \in Candidates, Teardown(c)
      PROVE  phase' # "rank"
  BY <1>5 DEF Teardown
<1>6. CASE Rank \/ NoneViable \/ GiveUp \/ ApplyFails \/ VerifyFails
           \/ VerifySucceeds \/ Crash \/ Restart \/ BeginTeardown \/ Expire
           \/ (\E c \in Candidates : Recommend(c) \/ TryConfig(c))
           \/ (\E found \in BOOLEAN : Applied(found))
           \/ (\E pool \in SUBSET Candidates : BeginRound(pool))
  BY <1>1, <1>6 DEF Rank, NoneViable, GiveUp, ApplyFails, VerifyFails,
     VerifySucceeds, Crash, Restart, BeginTeardown, Expire, Recommend, TryConfig,
     Applied, BeginRound
<1> QED
  BY <1>1, <1>2, <1>3, <1>4, <1>5, <1>6, KindsOfSteps DEF Quiet

(***************************************************************************)
(* What remains of a round's candidates is always explained: by the        *)
(* timeout, by an interface that did not appear, or by the AI advisor's    *)
(* probe, which has no teardown.  Commands that fail, crashes and every    *)
(* order of the goroutines and of the teardown leave nothing, if tables    *)
(* and interfaces are not shared.                                          *)
(***************************************************************************)
THEOREM RemainsAlwaysExplained ==
    ASSUME DistinctTables, DistinctNames
    PROVE  Spec => []RemainsExplained
<1>1. Init => TornInv /\ DownInv /\ RemainsExplained
  BY DEF Init, TornInv, DownInv, RemainsExplained
<1>2. TypeOK /\ ConfsInv /\ DownInv /\ TornInv /\ RemainsExplained /\ [Next]_vars
        => TornInv' /\ DownInv' /\ RemainsExplained'
  BY TornInvKept, DownInvKept, RemainsExplainedKept
<1> QED
  BY <1>1, <1>2, EngineInvariants, PTL DEF Spec

(* None of the three happens: nobody is late, no interface is missed, and  *)
(* nothing is advised.                                                     *)
InTimeInv ==
    /\ ctxOver = FALSE /\ late = {} /\ advised = NoConfig
    /\ phase \in {"probe", "teardown", "rank"} => unseen = {}

(* The interface wg-quick makes has the name waitForInterface looks for.   *)
LEMMA NoneUnseen ==
    ASSUME ~WaitsFail, TypeOK, ConfsInv, phase = "probe",
           NEW c \in Candidates, Protocol[c] = "wg", MgrWaitFails(c)
    PROVE  FALSE
<1>1. c # activeID /\ up[c] = "wait" /\ ifc[NameOf(c)] = NoConfig
  BY DEF MgrWaitFails, Uplifting
<1>2. NameOf(c) = Device[c] /\ Quick(c) /\ c # NoConfig
  BY <1>1, NameType, DeviceAssumption, CandidatesAssumption DEF Quick
<1>3. ifc[Device[c]] = c
  BY <1>1, <1>2 DEF ConfsInv
<1> QED
  BY <1>1, <1>2, <1>3

LEMMA InTimeInvKept ==
    ASSUME ~Timeouts, ~WaitsFail, ~AIEnabled, \A c \in Candidates : Protocol[c] # "awg",
           TypeOK, ApplyInv, ConfsInv, InTimeInv, [Next]_vars
    PROVE  InTimeInv'
<1>1. ASSUME NEW c \in Candidates, Goroutine(c)
      PROVE  InTimeInv'
  <2>1. CASE MgrWaitFails(c)
    <3>1. up[c] = "wait" /\ phase \in {"probe", "apply"} /\ phase' = phase
      BY <2>1 DEF MgrWaitFails, Uplifting
    <3>2. CASE phase = "probe"
      <4>1. Protocol[c] = "wg"
        BY <2>1, CandidatesAssumption DEF MgrWaitFails, Quick
      <4> QED
        BY <2>1, <3>2, <4>1, NoneUnseen
    <3>3. CASE phase = "apply"
      BY <2>1, <3>1, <3>3 DEF MgrWaitFails, InTimeInv
    <3> QED
      BY <3>1, <3>2, <3>3
  <2>2. CASE ~MgrWaitFails(c)
    <3>1. /\ phase' = phase /\ ctxOver' = ctxOver /\ advised' = advised /\ unseen' = unseen
          /\ late' = late \/ ctxOver
      BY <1>1, <2>2 DEF Goroutine, SkipUp, MgrUp, MgrLink, MgrLinkFails, MgrRule,
         MgrRuleFails, MgrRuleLate, MgrRoute, MgrRouteFails, MgrWait, Settled,
         SettleExpires, ReturnError, ReturnProbe, historyVars
    <3> QED
      BY <3>1 DEF InTimeInv
  <2> QED
    BY <2>1, <2>2
<1>2. ASSUME NEW c \in Candidates, Teardown(c)
      PROVE  InTimeInv'
  BY <1>2 DEF InTimeInv, Teardown, historyVars
<1>3. CASE VerifyFails \/ Crash
  BY <1>3 DEF InTimeInv, VerifyFails, Crash, Forgotten, historyVars
<1>4. CASE Quiet
  BY <1>4 DEF Quiet, InTimeInv, BeginTeardown, TornDown, Rank, NoneViable, AIProbed,
     GiveUp, ApplyFails, VerifySucceeds, Expire, Restart, vars, engineVars, historyVars,
     Recommend, TryConfig, Applied, BeginRound, Forgotten, AllReturned
<1> QED
  BY <1>1, <1>2, <1>3, <1>4, KindsOfSteps

(***************************************************************************)
(* Where none of the three happens the documented promise holds as it      *)
(* stands: rounds within ParallelProbeTimeout, interfaces that appear, no  *)
(* AmneziaWG config and no AI advisor; commands may fail and the daemon    *)
(* may crash.                                                              *)
(***************************************************************************)
THEOREM TornDownInTime ==
    ASSUME DistinctTables, DistinctNames,
           ~Timeouts, ~WaitsFail, ~AIEnabled, \A c \in Candidates : Protocol[c] # "awg"
    PROVE  Spec => []TempTunnelsTornDown
<1>1. Init => InTimeInv
  BY DEF Init, InTimeInv
<1>2. TypeOK /\ ApplyInv /\ ConfsInv /\ InTimeInv /\ [Next]_vars => InTimeInv'
  BY InTimeInvKept
<1>3. InTimeInv /\ TypeOK /\ RemainsExplained => TempTunnelsTornDown
  BY CandidatesAssumption DEF InTimeInv, RemainsExplained, TempTunnelsTornDown
<1> QED
  BY <1>1, <1>2, <1>3, EngineInvariants, RemainsAlwaysExplained, PTL DEF Spec
-----------------------------------------------------------------------------
(***************************************************************************)
(* The selectors follow the active config.  SelectorsFollowActive speaks   *)
(* of the time between rounds; the invariant says of which config the mark *)
(* is at any time: of the one to verify while it is verified, and of the   *)
(* active one, or of none, all the rest of the round.                      *)
(***************************************************************************)
Shown(a) == EffectiveMark = NoMark \/ (a # NoConfig /\ EffectiveMark = Table[a])

MarkInv ==
    /\ Backend = "none" => marks = <<>>
    /\ phase = "verify" => Shown(cur)
    /\ phase # "verify" /\ ~interrupted => Shown(activeID)

(* With nft, or without a firewall tool, Clear leaves no mark.             *)
LEMMA ClearShowsNone ==
    ASSUME Backend # "iptables", Backend = "none" => marks = <<>>,
           NEW mark, Clear(mark)
    PROVE  /\ EffectiveMark' = NoMark
           /\ Backend = "none" => marks' = <<>>
<1>1. marks' = <<>>
  BY BackendAssumption DEF Clear, policyVars
<1> QED
  BY <1>1 DEF EffectiveMark

(* Apply shows the mark it is given, or clears.                            *)
LEMMA ApplyShows ==
    ASSUME Backend # "iptables", ~PolicyFails, Backend = "none" => marks = <<>>,
           NEW mark, NEW found, Apply(mark, found)
    PROVE  /\ EffectiveMark' \in {NoMark, mark}
           /\ Backend = "none" => marks' = <<>>
<1>1. CASE Clear(mark)
  BY <1>1, ClearShowsNone
<1>2. CASE Backend = "nft" /\ applyNFT(mark)
  <2>1. marks' = <<mark>>
    BY <1>2 DEF applyNFT
  <2>2. Last(marks') = mark
    BY <2>1 DEF Last
  <2> QED
    BY <1>2, <2>2 DEF EffectiveMark
<1>3. CASE Backend = "none" /\ UNCHANGED policyVars
  BY <1>3 DEF EffectiveMark, policyVars
<1> QED
  BY <1>1, <1>2, <1>3 DEF Apply

LEMMA MarkInvKept ==
    ASSUME Backend # "iptables", ~PolicyFails,
           TypeOK, ApplyInv, MarkInv, [Next]_vars
    PROVE  MarkInv'
<1>1. CASE /\ UNCHANGED policyVars /\ activeID' = activeID /\ interrupted' = interrupted
           /\ phase # "verify" /\ phase' # "verify"
  BY <1>1 DEF MarkInv, Shown, EffectiveMark, policyVars
<1>2. CASE UNCHANGED vars
  BY <1>2 DEF MarkInv, Shown, EffectiveMark, vars, policyVars, engineVars, historyVars
<1>3. ASSUME NEW c \in Candidates,
             Goroutine(c) \/ Recommend(c) \/ Teardown(c) \/ TryConfig(c)
      PROVE  MarkInv'
  BY <1>1, <1>3 DEF Goroutine, Recommend, Teardown, TryConfig, SkipUp, MgrUp, MgrLink,
     MgrLinkFails, MgrRule, MgrRuleFails, MgrRuleLate, MgrRoute, MgrRouteFails, MgrWait, MgrWaitFails,
     Settled, SettleExpires, ReturnError, ReturnProbe, Uplifting, historyVars
<1>4. ASSUME NEW pool \in SUBSET Candidates, BeginRound(pool)
      PROVE  MarkInv'
  BY <1>1, <1>4 DEF BeginRound
<1>5. CASE BeginTeardown \/ TornDown \/ Rank \/ NoneViable \/ AIProbed \/ GiveUp
           \/ Expire \/ Restart
  BY <1>1, <1>5 DEF BeginTeardown, TornDown, Rank, NoneViable, AIProbed, GiveUp,
     Expire, Restart, AllReturned, historyVars
<1>6. ASSUME NEW found \in BOOLEAN, Applied(found)
      PROVE  MarkInv'
  <2>1. cur \in Candidates /\ cur # NoConfig /\ cur' = cur /\ phase' = "verify"
    BY <1>6, CandidatesAssumption DEF Applied, ApplyInv, CurInv
  <2>2. /\ EffectiveMark' \in {NoMark, Table[cur]}
        /\ Backend = "none" => marks' = <<>>
    BY <1>6, ApplyShows DEF Applied, MarkInv
  <2> QED
    BY <2>1, <2>2 DEF MarkInv, Shown
<1>7. CASE ApplyFails \/ VerifyFails
  <2>1. /\ EffectiveMark' = NoMark /\ phase' = "try"
        /\ Backend = "none" => marks' = <<>>
    BY <1>7, ClearShowsNone DEF ApplyFails, VerifyFails, MarkInv
  <2> QED
    BY <2>1 DEF MarkInv, Shown
<1>8. CASE VerifySucceeds
  <2>1. EffectiveMark' = EffectiveMark /\ marks' = marks
    BY <1>8 DEF VerifySucceeds, EffectiveMark, policyVars
  <2> QED
    BY <1>8, <2>1 DEF VerifySucceeds, MarkInv, Shown
<1>9. CASE Crash
  <2>1. EffectiveMark' = EffectiveMark /\ marks' = marks
    BY <1>9 DEF Crash, EffectiveMark, policyVars
  <2>2. /\ phase' = "down" /\ activeID' = activeID
        /\ ~interrupted' => phase # "verify" /\ ~interrupted
    BY <1>9, Zenon DEF Crash
  <2> QED
    BY <2>1, <2>2 DEF MarkInv, Shown
<1> QED
  BY <1>2, <1>3, <1>4, <1>5, <1>6, <1>7, <1>8, <1>9 DEF Next, Engine

(***************************************************************************)
(* Between rounds the selected traffic is marked for the active tunnel or  *)
(* not at all, whichever candidates failed to come up or to verify.  Two   *)
(* hypotheses, both needed: the iptables Clear removes only the rule of    *)
(* the mark it is given, and a firewall command that fails leaves the      *)
(* policy half changed.                                                    *)
(***************************************************************************)
THEOREM SelectorsAlwaysFollow ==
    ASSUME Backend # "iptables", ~PolicyFails
    PROVE  Spec => []SelectorsFollowActive
<1>1. Init => MarkInv
  BY DEF Init, PolicyInit, MarkInv, Shown, EffectiveMark
<1>2. TypeOK /\ ApplyInv /\ MarkInv /\ [Next]_vars => MarkInv'
  BY MarkInvKept
<1>3. MarkInv => SelectorsFollowActive
  BY DEF MarkInv, Shown, SelectorsFollowActive
<1> QED
  BY <1>1, <1>2, <1>3, ApplyCorrect, PTL DEF Spec
=============================================================================
