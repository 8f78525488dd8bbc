-------------------------- MODULE ComplianceProofs --------------------------
(***************************************************************************)
(* Proofs about the gate and the audit of the pack, for any rules, facts,  *)
(* ceilings and dates.                                                     *)
(***************************************************************************)
EXTENDS Compliance, FiniteSetTheorems, TLAPS

(* Versions are only ever added, and days only pass.                        *)
Growing == /\ BaseRules \subseteq rules /\ rules \subseteq BaseRules \cup LaterRules
           /\ today \in Int /\ FirstDay <= today

Listing == caps \in Seq(Ceiling)

(* One list of ceilings begins with another.                                *)
Begins(listed, longer) ==
    /\ listed \in Seq(Ceiling) /\ Len(listed) <= Len(longer)
    /\ \A i \in DOMAIN listed : longer[i] = listed[i]

Again(d) == evaluate(TRUE, d.rules, d.caps, d.f.action, d.rail, Context(d.f), d.day, d.f.at)

(* What is known of a decision: what was published by then is still there,  *)
(* and if it was not degraded it is what the gate said on just that.        *)
Remembered ==
    decision # Nil =>
        /\ decision.day \in Int /\ FirstDay <= decision.day /\ decision.day <= today
        /\ decision.f \in Facts
        /\ decision.rules \subseteq rules
        /\ Begins(decision.caps, caps)
        /\ ~decision.result.degraded =>
              /\ load_active_rules(decision.rules, decision.f.action, decision.rail,
                                   decision.day) # {}
              /\ decision.result = Again(decision)

IInv == Growing /\ Listing /\ Remembered

(* The evidence of a fold cites every rule it was given, and nothing else.  *)
LEMMA FoldCites ==
    ASSUME NEW chosen, NEW ctx, NEW cap, NEW now
    PROVE  Cited(evaluate_rules(chosen, ctx, cap, now)) = {<<r.id, r.version>> : r \in chosen}
<1> DEFINE outcome(r) == IF safe_eval(r.pred, ctx, cap, now) THEN "ALLOW" ELSE coerce_on_fail(r)
           result == evaluate_rules(chosen, ctx, cap, now)
<1>1. result.checks = {[id |-> r.id, version |-> r.version, verdict |-> outcome(r)] : r \in chosen}
  BY DEF evaluate_rules
<1> HIDE DEF result, outcome
<1>2. ASSUME NEW r \in chosen  PROVE <<r.id, r.version>> \in Cited(result)
  <2> DEFINE c == [id |-> r.id, version |-> r.version, verdict |-> outcome(r)]
  <2>1. c \in result.checks
    BY <1>1
  <2>2. c.id = r.id /\ c.version = r.version
    OBVIOUS
  <2> HIDE DEF c
  <2> QED BY <2>1, <2>2 DEF Cited
<1>3. ASSUME NEW p \in Cited(result)  PROVE p \in {<<r.id, r.version>> : r \in chosen}
  <2>1. PICK c \in result.checks : p = <<c.id, c.version>>
    BY <1>3 DEF Cited
  <2>2. PICK r \in chosen : c = [id |-> r.id, version |-> r.version, verdict |-> outcome(r)]
    BY <2>1, <1>1
  <2>3. c.id = r.id /\ c.version = r.version
    BY <2>2
  <2> QED BY <2>1, <2>3
<1> QED BY <1>2, <1>3 DEF result

(* Only a decision of the gate with its rules at hand is not degraded.       *)
LEMMA NotDegraded ==
    ASSUME NEW published, NEW listed, NEW action, NEW rail, NEW ctx, NEW as_of, NEW now,
           NEW available \in BOOLEAN,
           ~evaluate(available, published, listed, action, rail, ctx, as_of, now).degraded
    PROVE  /\ load_active_rules(published, action, rail, as_of) # {}
           /\ evaluate(available, published, listed, action, rail, ctx, as_of, now)
                  = evaluate(TRUE, published, listed, action, rail, ctx, as_of, now)
<1>1. Refused("__RULE_STORE__").degraded /\ Refused("__NO_RULES__").degraded
  BY DEF Refused
<1>2. available = TRUE /\ load_active_rules(published, action, rail, as_of) # {}
  BY <1>1 DEF evaluate
<1> QED
  BY <1>2

(* The evidence cites every chosen rule once, and nothing else.             *)
LEMMA EvidenceCitesChosen ==
    ASSUME NEW published, NEW listed, NEW action, NEW rail, NEW ctx, NEW as_of, NEW now,
           NEW available \in BOOLEAN,
           ~evaluate(available, published, listed, action, rail, ctx, as_of, now).degraded
    PROVE  Cited(evaluate(available, published, listed, action, rail, ctx, as_of, now)) =
               {<<r.id, r.version>> : r \in load_active_rules(published, action, rail, as_of)}
<1> DEFINE chosen == load_active_rules(published, action, rail, as_of)
           cap == load_afa_caps(listed, as_of)
           result == evaluate(available, published, listed, action, rail, ctx, as_of, now)
<1>1. /\ chosen # {}
      /\ result = evaluate(TRUE, published, listed, action, rail, ctx, as_of, now)
  BY NotDegraded, ZenonT(60)
<1>2. result = evaluate_rules(chosen, ctx, cap, now)
  BY <1>1 DEF evaluate
<1> HIDE DEF chosen, cap, result
<1>3. Cited(result) = {<<r.id, r.version>> : r \in chosen}
  BY <1>2, FoldCites
<1> QED
  BY <1>3 DEF chosen, result

(* A rule without a version that came late and is dated early is governed by *)
(* the same version.                                                         *)
LEMMA OthersStand ==
    ASSUME NEW early, NEW late, early \subseteq late, NEW action, NEW rail, NEW day, NEW r,
           \A q \in late \ early : q.as_of <= day => q.id # r.id
    PROVE  r \in load_active_rules(early, action, rail, day)
               <=> r \in load_active_rules(late, action, rail, day)
<1> DEFINE open(S) == {q \in S : /\ q.active
                                 /\ action \in q.applies_to
                                 /\ q.as_of <= day
                                 /\ q.rails = Nil \/ rail \in q.rails}
<1>1. open(early) \subseteq open(late)
  OBVIOUS
<1>2. \A q \in open(late) : q.id = r.id => q \in open(early)
  OBVIOUS
<1>3. \A S : load_active_rules(S, action, rail, day) = NewestOfEach(open(S))
  BY DEF load_active_rules
<1> HIDE DEF open
<1> QED BY <1>1, <1>2, <1>3 DEF NewestOfEach

LEMMA VersionsGrow == ComplianceSpec => []Growing
<1>1. ComplianceInit => Growing
  BY DateAssumption DEF ComplianceInit, Growing
<1>2. Growing /\ [ComplianceNext]_gvars => Growing'
  BY DateAssumption
  DEF Growing, ComplianceNext, gvars, PublishRule, PublishCap, NextDay, Judge
<1> QED
  BY <1>1, <1>2, PTL DEF ComplianceSpec

LEMMA InitEstablishes == ComplianceInit => IInv
BY DateAssumption, CeilingAssumption DEF ComplianceInit, IInv, Growing, Listing, Remembered

LEMMA StepPreserves ==
    ASSUME IInv, [ComplianceNext]_gvars
    PROVE  IInv'
<1> USE DateAssumption
<1>1. CASE PublishRule
  <2>1. PICK r \in LaterRules \ rules : rules' = rules \cup {r}
    BY <1>1 DEF PublishRule
  <2>2. today' = today /\ decision' = decision /\ caps' = caps
    BY <1>1 DEF PublishRule
  <2>3. Again(decision)' = Again(decision)
    BY <2>2 DEF Again
  <2> QED BY <2>1, <2>2, <2>3 DEF IInv, Growing, Listing, Remembered
<1>2. CASE PublishCap
  <2>1. PICK c \in LaterCaps : caps' = Append(caps, c)
    BY <1>2 DEF PublishCap
  <2>2. today' = today /\ decision' = decision /\ rules' = rules
    BY <1>2 DEF PublishCap
  <2>3. c \in Ceiling /\ Listing
    BY CeilingAssumption DEF IInv
  <2>4. Listing' /\ Len(caps') = Len(caps) + 1 /\ \A i \in DOMAIN caps : caps'[i] = caps[i]
    BY <2>1, <2>3 DEF Listing
  <2>5. decision # Nil => Begins(decision.caps, caps')
    <3> SUFFICES ASSUME decision # Nil PROVE Begins(decision.caps, caps')
      OBVIOUS
    <3> DEFINE listed == decision.caps
    <3>1. Begins(listed, caps)
      BY DEF IInv, Remembered
    <3> HIDE DEF listed
    <3>2. listed \in Seq(Ceiling) /\ caps \in Seq(Ceiling)
      BY <2>3, <3>1 DEF Begins, Listing
    <3>3. DOMAIN listed \subseteq DOMAIN caps
      BY <3>1, <3>2 DEF Begins
    <3>4. Begins(listed, caps')
      BY <2>4, <3>1, <3>2, <3>3 DEF Begins
    <3> QED BY <3>4 DEF listed
  <2>6. Again(decision)' = Again(decision)
    BY <2>2 DEF Again
  <2> QED BY <2>2, <2>4, <2>5, <2>6 DEF IInv, Growing, Remembered
<1>3. CASE NextDay
  <2>1. today' = today + 1 /\ rules' = rules /\ decision' = decision /\ caps' = caps
    BY <1>3 DEF NextDay
  <2>2. Again(decision)' = Again(decision)
    BY <2>1 DEF Again
  <2> QED BY <2>1, <2>2 DEF IInv, Growing, Listing, Remembered
<1>4. CASE Judge
  <2>1. PICK f \in Facts, rail \in {"upi_autopay", "enach"}, available \in BOOLEAN :
            decision' = [f |-> f, rail |-> rail, day |-> today, available |-> available,
                         rules |-> rules, caps |-> caps,
                         result |-> evaluate(available, rules, caps, f.action, rail,
                                             Context(f), today, f.at)]
    BY <1>4 DEF Judge
  <2>2. rules' = rules /\ today' = today /\ caps' = caps
    BY <1>4 DEF Judge
  <2> DEFINE result == evaluate(available, rules, caps, f.action, rail, Context(f), today, f.at)
             again == evaluate(TRUE, rules, caps, f.action, rail, Context(f), today, f.at)
  <2>3. /\ decision'.day = today /\ decision'.f = f /\ decision'.rail = rail
        /\ decision'.rules = rules /\ decision'.caps = caps /\ decision'.result = result
    BY <2>1
  <2>4. ~result.degraded =>
            load_active_rules(rules, f.action, rail, today) # {} /\ result = again
    <3> DEFINE ctx == Context(f)
               act == f.action
               at == f.at
               now == today
    <3> HIDE DEF ctx, act, at, now
    <3>1. ~evaluate(available, rules, caps, act, rail, ctx, now, at).degraded =>
              /\ load_active_rules(rules, act, rail, now) # {}
              /\ evaluate(available, rules, caps, act, rail, ctx, now, at)
                     = evaluate(TRUE, rules, caps, act, rail, ctx, now, at)
      BY NotDegraded, ZenonT(60)
    <3> QED
      BY <3>1 DEF ctx, act, at, now
  <2>5. Again(decision)' = again
    BY <2>3 DEF Again
  <2>6. Begins(caps, caps)
    BY DEF Begins, IInv, Listing
  <2> HIDE DEF result, again
  <2>7. Remembered'
    BY <2>2, <2>3, <2>4, <2>5, <2>6 DEF IInv, Growing, Remembered
  <2> QED
    BY <2>2, <2>7 DEF IInv, Growing, Listing
<1>5. CASE UNCHANGED gvars
  <2>1. Again(decision)' = Again(decision)
    BY <1>5 DEF Again, gvars
  <2> QED
    BY <1>5, <2>1 DEF gvars, IInv, Growing, Listing, Remembered
<1> QED BY <1>1, <1>2, <1>3, <1>4, <1>5 DEF ComplianceNext

LEMMA Invariance == ComplianceSpec => []IInv
BY InitEstablishes, StepPreserves, PTL DEF ComplianceSpec
-----------------------------------------------------------------------------
(* The most severe of the verdicts found is there to be chosen.              *)
LEMMA MostSevere ==
    ASSUME NEW found \in SUBSET DOMAIN Severity, found # {},
           NEW v, v = CHOOSE u \in found : \A w \in found : Severity[w] <= Severity[u]
    PROVE  v \in found /\ \A w \in found : Severity[w] <= Severity[v]
<1>1. /\ DOMAIN Severity = {"ALLOW", "DEFER", "ESCALATE_HUMAN", "DENY"}
      /\ Severity["ALLOW"] = 0 /\ Severity["DEFER"] = 1
      /\ Severity["ESCALATE_HUMAN"] = 2 /\ Severity["DENY"] = 3
  BY DEF Severity
<1>2. \E u \in found : \A w \in found : Severity[w] <= Severity[u]
  <2>1. CASE "DENY" \in found
    BY <1>1, <2>1
  <2>2. CASE "DENY" \notin found /\ "ESCALATE_HUMAN" \in found
    BY <1>1, <2>2
  <2>3. CASE "DENY" \notin found /\ "ESCALATE_HUMAN" \notin found /\ "DEFER" \in found
    BY <1>1, <2>3
  <2>4. CASE found = {"ALLOW"}
    BY <1>1, <2>4
  <2> QED
    BY <1>1, <2>1, <2>2, <2>3, <2>4
<1> QED
  BY <1>2

(* An ALLOW of the gate: the store was read, something governs, and every    *)
(* rule that does was evaluated on complete facts and holds.                 *)
LEMMA AllowMeansAllHold ==
    ASSUME NEW published \in SUBSET (BaseRules \cup LaterRules), NEW listed, NEW action, NEW rail,
           NEW ctx, NEW as_of, NEW now, NEW available \in BOOLEAN,
           evaluate(available, published, listed, action, rail, ctx, as_of, now).verdict = "ALLOW"
    PROVE  /\ available
           /\ ~evaluate(available, published, listed, action, rail, ctx, as_of, now).degraded
           /\ load_active_rules(published, action, rail, as_of) # {}
           /\ \A r \in load_active_rules(published, action, rail, as_of) :
                /\ Reads[r.pred] \subseteq DOMAIN ctx
                /\ Holds(r.pred, ctx, load_afa_caps(listed, as_of), now)
<1> DEFINE chosen == load_active_rules(published, action, rail, as_of)
           cap == load_afa_caps(listed, as_of)
           result == evaluate(available, published, listed, action, rail, ctx, as_of, now)
           outcome(r) == IF safe_eval(r.pred, ctx, cap, now) THEN "ALLOW" ELSE coerce_on_fail(r)
           checks == {[id |-> r.id, version |-> r.version, verdict |-> outcome(r)] : r \in chosen}
           found == {c.verdict : c \in checks} \cup {"ALLOW"}
<1>1. Refused("__RULE_STORE__").verdict = "DENY" /\ Refused("__NO_RULES__").verdict = "DENY"
  BY DEF Refused
<1>2. available /\ chosen # {}
  BY <1>1 DEF evaluate
<1>3. result = evaluate_rules(chosen, ctx, cap, now)
  BY <1>2 DEF evaluate
<1>4. /\ result.verdict = CHOOSE v \in found : \A w \in found : Severity[w] <= Severity[v]
      /\ ~result.degraded
  BY <1>3 DEF evaluate_rules
<1>5. \A r \in chosen : r.on_fail \in {"DENY", "DEFER", "ESCALATE_HUMAN"}
  BY RuleAssumption DEF load_active_rules, NewestOfEach
<1>6. /\ DOMAIN Severity = {"ALLOW", "DEFER", "ESCALATE_HUMAN", "DENY"}
      /\ Severity["ALLOW"] = 0 /\ Severity["DEFER"] = 1
      /\ Severity["ESCALATE_HUMAN"] = 2 /\ Severity["DENY"] = 3
  BY DEF Severity
<1>7. \A r \in chosen : coerce_on_fail(r) \in {"DENY", "DEFER", "ESCALATE_HUMAN"}
  BY <1>5, <1>6 DEF coerce_on_fail
<1>8. \A r \in chosen : outcome(r) \in {"ALLOW", "DENY", "DEFER", "ESCALATE_HUMAN"}
  BY <1>7
<1> HIDE DEF chosen, cap, outcome, result
<1>9. \A c \in checks : \E r \in chosen : c.verdict = outcome(r)
  OBVIOUS
<1>10. \A r \in chosen : outcome(r) \in found
  <2> SUFFICES ASSUME NEW r \in chosen PROVE outcome(r) \in found
    OBVIOUS
  <2> DEFINE c == [id |-> r.id, version |-> r.version, verdict |-> outcome(r)]
  <2>1. c \in checks /\ c.verdict = outcome(r)
    OBVIOUS
  <2> HIDE DEF c, checks
  <2> QED
    BY <2>1
<1>11. found \subseteq DOMAIN Severity
  BY <1>6, <1>8, <1>9
<1> HIDE DEF found
<1>12. \A w \in found : Severity[w] <= Severity["ALLOW"]
  <2>1. found # {}
    BY DEF found
  <2> QED
    BY <1>4, <1>11, <2>1, MostSevere DEF result
<1>13. \A r \in chosen : outcome(r) = "ALLOW"
  BY <1>6, <1>8, <1>10, <1>12
<1>14. \A r \in chosen : safe_eval(r.pred, ctx, cap, now)
  BY <1>7, <1>13 DEF outcome
<1> QED
  BY <1>2, <1>4, <1>14 DEF chosen, cap, result, safe_eval, Errs

(* Whatever governs an action that a caller submits, consent does too.       *)
LEMMA ConsentGoverns ==
    ASSUME NEW published, BaseRules \subseteq published, published \subseteq BaseRules \cup LaterRules,
           NEW f \in Facts, NEW rail, NEW day \in Int, FirstDay <= day,
           NEW other \in BaseRules \cup LaterRules, f.action \in other.applies_to
    PROVE  \E r \in load_active_rules(published, f.action, rail, day) : r.pred = "consent"
<1>1. PICK c \in BaseRules :
        /\ c.pred = "consent" /\ c.rails = Nil
        /\ c.as_of <= FirstDay /\ c.version \in Int
        /\ \A r \in BaseRules \cup LaterRules :
              /\ r.id = c.id => r = c
              /\ \A g \in Facts : g.action \in r.applies_to => g.action \in c.applies_to
  BY ConsentAssumption
<1>2. f.action \in c.applies_to
  BY <1>1
<1>3. c.active /\ c.as_of \in Int /\ c.as_of <= day
  BY <1>1, RuleAssumption, DateAssumption
<1> DEFINE S == {r \in published : /\ r.active
                                   /\ f.action \in r.applies_to
                                   /\ r.as_of <= day
                                   /\ r.rails = Nil \/ rail \in r.rails}
<1>4. c \in S
  BY <1>1, <1>2, <1>3
<1>5. \A q \in S : q.id = c.id => q = c
  BY <1>1
<1> HIDE DEF S
<1>6. c \in NewestOfEach(S)
  BY <1>1, <1>3, <1>4, <1>5 DEF NewestOfEach
<1> QED
  BY <1>1, <1>6 DEF S, load_active_rules

(* The gate permits nothing unless the rules could be read, something        *)
(* governs, consent among it, and all that governs holds on complete facts.  *)
THEOREM GateFailsClosed == ComplianceSpec => FailsClosed
<1> DEFINE governing(d) == load_active_rules(rules, d.f.action, d.rail, today)
           Closed(d) ==
               /\ d.available /\ governing(d) # {}
                   => Cited(d.result) = {<<r.id, r.version>> : r \in governing(d)}
               /\ d.result.verdict = "ALLOW" =>
                   /\ d.available /\ ~d.result.degraded
                   /\ \E r \in governing(d) : r.pred = "consent"
                   /\ \A r \in governing(d) :
                        /\ Reads[r.pred] \subseteq DOMAIN Context(d.f)
                        /\ Holds(r.pred, Context(d.f), load_afa_caps(caps, today), d.f.at)
<1>1. ASSUME Growing, [ComplianceNext]_gvars, decision' # decision PROVE Closed(decision')
  <2>1. Judge
    BY <1>1 DEF ComplianceNext, gvars, PublishRule, PublishCap, NextDay
  <2>2. PICK f \in Facts, rail \in {"upi_autopay", "enach"}, available \in BOOLEAN :
            decision' = [f |-> f, rail |-> rail, day |-> today, available |-> available,
                         rules |-> rules, caps |-> caps,
                         result |-> evaluate(available, rules, caps, f.action, rail,
                                             Context(f), today, f.at)]
    BY <2>1 DEF Judge
  <2> DEFINE result == evaluate(available, rules, caps, f.action, rail, Context(f), today, f.at)
             chosen == load_active_rules(rules, f.action, rail, today)
  <2>3. /\ decision'.f = f /\ decision'.rail = rail /\ decision'.available = available
        /\ decision'.result = result
    BY <2>2
  <2>4. available /\ chosen # {} => ~result.degraded
    BY DEF evaluate, evaluate_rules
  <2>5. ~result.degraded => Cited(result) = {<<r.id, r.version>> : r \in chosen}
    BY EvidenceCitesChosen
  <2>6. result.verdict = "ALLOW" =>
          /\ available /\ ~result.degraded /\ chosen # {}
          /\ \A r \in chosen : /\ Reads[r.pred] \subseteq DOMAIN Context(f)
                               /\ Holds(r.pred, Context(f), load_afa_caps(caps, today), f.at)
    BY <1>1, AllowMeansAllHold DEF Growing
  <2>7. chosen # {} => \E r \in chosen : r.pred = "consent"
    <3> SUFFICES ASSUME chosen # {} PROVE \E r \in chosen : r.pred = "consent"
      OBVIOUS
    <3>1. PICK other \in chosen : TRUE
      OBVIOUS
    <3>2. other \in BaseRules \cup LaterRules /\ f.action \in other.applies_to
      BY <1>1, <3>1 DEF Growing, load_active_rules, NewestOfEach
    <3> QED
      BY <1>1, <3>2, ConsentGoverns DEF Growing
  <2> HIDE DEF result
  <2> QED
    BY <2>3, <2>4, <2>5, <2>6, <2>7
<1>2. Growing /\ [ComplianceNext]_gvars => [decision' # decision => Closed(decision')]_gvars
  BY <1>1
<1> QED
  BY <1>2, VersionsGrow, PTL DEF ComplianceSpec, FailsClosed

(* No rule that governs a decision ever reads a fact that its caller does    *)
(* not supply, also when it is looked at again under the rules of a later    *)
(* day.                                                                      *)
THEOREM FactsSuffice == ComplianceSpec => []ContextsSuffice
<1>1. ASSUME Growing PROVE ContextsSuffice
  <2> SUFFICES ASSUME decision # Nil,
                      NEW r \in load_active_rules(rules, decision.f.action, decision.rail,
                                                  decision.day)
               PROVE  Reads[r.pred] \subseteq DOMAIN Context(decision.f)
    BY DEF ContextsSuffice
  <2>1. r \in BaseRules \cup LaterRules /\ decision.f.action \in r.applies_to
    BY <1>1 DEF Growing, load_active_rules, NewestOfEach
  <2>2. CASE decision.f.action = "debit_attempt"
    BY <2>1, <2>2, RuleAssumption DEF Reads, Context, gate_context
  <2>3. CASE decision.f.action # "debit_attempt"
    BY <2>1, <2>3, RuleAssumption DEF Reads, Context, message_context
  <2> QED
    BY <2>2, <2>3
<1> QED
  BY <1>1, VersionsGrow, PTL DEF ComplianceSpec

-----------------------------------------------------------------------------
(* The pack and the gate choose the same versions.                           *)
LEMMA PackChooses ==
    ASSUME NEW published \in SUBSET (BaseRules \cup LaterRules), NEW action, NEW rail, NEW day
    PROVE  load_rules(published, action, rail, day)
               = load_active_rules(published, action, rail, day)
<1> DEFINE pack == {r \in published : /\ action \in r.applies_to
                                      /\ r.rails \in {Nil, {}} \/ rail \in r.rails
                                      /\ r.as_of <= day}
           gate == {r \in published : /\ r.active
                                      /\ action \in r.applies_to
                                      /\ r.as_of <= day
                                      /\ r.rails = Nil \/ rail \in r.rails}
<1>1. pack = gate
  BY RuleAssumption
<1> QED
  BY <1>1 DEF load_rules, load_active_rules

(* Where ceilings are listed by date, the last is the newest.                *)
LEMMA PackCeilings ==
    ASSUME NEW listed, NEW day, CapsInOrder(listed, day)
    PROVE  pack_afa_caps(listed, day) = load_afa_caps(listed, day)
<1> DEFINE open == InForce(listed, day)
           newest == {i \in open : \A j \in open :
                        listed[j].mcc = listed[i].mcc => listed[j].as_of <= listed[i].as_of}
           last == {i \in open : \A j \in open : listed[j].mcc = listed[i].mcc => j <= i}
<1>1. open \subseteq DOMAIN listed
  BY DEF InForce
<1>2. newest = last
  BY <1>1 DEF CapsInOrder
<1>3. pack_afa_caps(listed, day) = Ceilings(listed, last)
  BY DEF pack_afa_caps
<1>4. load_afa_caps(listed, day) = Ceilings(listed, newest)
  BY DEF load_afa_caps
<1> QED
  BY <1>2, <1>3, <1>4, Zenon

(* The pack and the gate, which choose and fold the rules in code of their   *)
(* own, are one judgement: the verdict and the evidence are the same for     *)
(* every published set of versions, facts and date, if the file lists        *)
(* ceilings in date order.  Only where no rule applies do they differ: the   *)
(* gate refuses.                                                             *)
THEOREM PackIsTheGate ==
    ASSUME NEW published \in SUBSET (BaseRules \cup LaterRules), NEW listed, NEW action,
           NEW rail, NEW ctx, NEW day, NEW now, CapsInOrder(listed, day),
           load_active_rules(published, action, rail, day) # {}
    PROVE  pack_evaluate(published, listed, action, rail, ctx, day, now)
               = evaluate(TRUE, published, listed, action, rail, ctx, day, now)
<1>1. load_rules(published, action, rail, day) = load_active_rules(published, action, rail, day)
  BY PackChooses
<1>2. pack_afa_caps(listed, day) = load_afa_caps(listed, day)
  BY PackCeilings
<1> QED
  BY <1>1, <1>2 DEF pack_evaluate, evaluate

(* A ceiling that takes effect later is not the day's.                       *)
LEMMA LaterCeilingsDoNotHold ==
    ASSUME NEW longer \in Seq(Ceiling), NEW listed, Begins(listed, longer), NEW day \in Int,
           \A i \in DOMAIN longer \ DOMAIN listed : ~(longer[i].as_of <= day)
    PROVE  load_afa_caps(longer, day) = load_afa_caps(listed, day)
<1> DEFINE newest(open, l) == {i \in open : \A j \in open :
                                  l[j].mcc = l[i].mcc => l[j].as_of <= l[i].as_of}
<1>1. /\ DOMAIN listed \subseteq DOMAIN longer
      /\ \A i \in DOMAIN listed : longer[i] = listed[i]
  BY DEF Begins
<1> DEFINE open == InForce(listed, day)
<1>3. InForce(longer, day) = open /\ open \subseteq DOMAIN listed
  BY <1>1 DEF InForce
<1> HIDE DEF open
<1>4. \A i \in open : longer[i] = listed[i]
  BY <1>1, <1>3
<1>5. newest(open, longer) = newest(open, listed)
  BY <1>4
<1> DEFINE ruling == newest(open, listed)
<1>6. \A i \in ruling : longer[i] = listed[i]
  BY <1>4
<1>7. load_afa_caps(longer, day) = Ceilings(longer, ruling)
  BY <1>3, <1>5 DEF load_afa_caps
<1>8. load_afa_caps(listed, day) = Ceilings(listed, ruling)
  BY DEF load_afa_caps, open
<1> HIDE DEF ruling
<1>9. Ceilings(longer, ruling) = Ceilings(listed, ruling)
  <2>1. {longer[i].mcc : i \in ruling} = {listed[i].mcc : i \in ruling}
    BY <1>6
  <2>2. ASSUME NEW mcc \in {listed[i].mcc : i \in ruling}
        PROVE  longer[CHOOSE i \in ruling : longer[i].mcc = mcc]
                   = listed[CHOOSE i \in ruling : listed[i].mcc = mcc]
    <3>1. \A i : (i \in ruling /\ longer[i].mcc = mcc) <=> (i \in ruling /\ listed[i].mcc = mcc)
      BY <1>6
    <3>2. (CHOOSE i \in ruling : longer[i].mcc = mcc) = CHOOSE i \in ruling : listed[i].mcc = mcc
      BY <3>1, Zenon
    <3>3. (CHOOSE i \in ruling : listed[i].mcc = mcc) \in ruling
      OBVIOUS
    <3> QED
      BY <1>6, <3>2, <3>3
  <2> DEFINE f(l, m) == l[CHOOSE i \in ruling : l[i].mcc = m].cap
             M(l) == {l[i].mcc : i \in ruling}
  <2>3. \A l : Ceilings(l, ruling) = [m \in M(l) |-> f(l, m)]
    BY DEF Ceilings
  <2>4. \A m \in M(listed) : f(longer, m) = f(listed, m)
    BY <2>2
  <2>5. M(longer) = M(listed)
    BY <2>1
  <2> HIDE DEF f, M
  <2> QED
    BY <2>3, <2>4, <2>5
<1> QED
  BY <1>7, <1>8, <1>9

(* A replay of a decision on readable rules is a decision on readable rules: *)
(* consent still governs it.                                                 *)
LEMMA ReplayIsGoverned ==
    ASSUME IInv, decision # Nil, ~decision.result.degraded
    PROVE  /\ load_active_rules(rules, decision.f.action, decision.rail, decision.day) # {}
           /\ Replayed = evaluate_rules(
                            load_active_rules(rules, decision.f.action, decision.rail, decision.day),
                            Context(decision.f), load_afa_caps(caps, decision.day), decision.f.at)
<1> DEFINE f == decision.f
           rail == decision.rail
           day == decision.day
<1>1. /\ f \in Facts /\ day \in Int /\ FirstDay <= day /\ decision.rules \subseteq rules
      /\ load_active_rules(decision.rules, f.action, rail, day) # {}
  BY DEF IInv, Remembered
<1>2. BaseRules \subseteq rules /\ rules \subseteq BaseRules \cup LaterRules
  BY DEF IInv, Growing
<1>3. PICK other \in load_active_rules(decision.rules, f.action, rail, day) : TRUE
  BY <1>1
<1>4. other \in BaseRules \cup LaterRules /\ f.action \in other.applies_to
  BY <1>1, <1>2, <1>3 DEF load_active_rules, NewestOfEach
<1> HIDE DEF f, rail, day
<1>5. load_active_rules(rules, f.action, rail, day) # {}
  BY <1>1, <1>2, <1>4, ConsentGoverns
<1>6. load_active_rules(rules, decision.f.action, decision.rail, decision.day) # {}
  BY <1>5 DEF f, rail, day
<1> QED
  BY <1>6 DEF Replayed, evaluate

(* A replay of any decision differs only by what was published after it and  *)
(* dated back, in its evidence and in its result, whatever the rules, the    *)
(* ceilings, the facts and the dates.                                        *)
THEOREM ReplayIsStable == ComplianceSpec => []OnlyBackdatingRewrites
<1>1. ASSUME IInv PROVE OnlyBackdatingRewrites
  <2> SUFFICES ASSUME decision # Nil, ~decision.result.degraded
               PROVE  /\ {k \in Cited(decision.result) : \A r \in LateRules : r.id # k[1]}
                             = {k \in Cited(Replayed) : \A r \in LateRules : r.id # k[1]}
                      /\ LateRules = {} /\ LateCaps = {} => Replayed = decision.result
    BY DEF OnlyBackdatingRewrites
  <2> DEFINE early == load_active_rules(decision.rules, decision.f.action, decision.rail,
                                        decision.day)
             late == load_active_rules(rules, decision.f.action, decision.rail, decision.day)
             ctx == Context(decision.f)
             cap == load_afa_caps(decision.caps, decision.day)
             now == decision.f.at
  <2>1. decision.result = evaluate_rules(early, ctx, cap, now)
    BY <1>1 DEF IInv, Remembered, Again, evaluate
  <2>2. Replayed = evaluate_rules(late, ctx, load_afa_caps(caps, decision.day), now)
    BY <1>1, ReplayIsGoverned
  <2>3. decision.rules \subseteq rules
    BY <1>1 DEF IInv, Remembered
  <2>4. ASSUME NEW r, \A q \in LateRules : q.id # r.id PROVE r \in early <=> r \in late
    <3>1. \A q \in rules \ decision.rules : q.as_of <= decision.day => q.id # r.id
      BY <2>4 DEF LateRules
    <3> QED
      BY <2>3, <3>1, OthersStand
  <2> HIDE DEF early, late, ctx, cap, now
  <2>5. /\ Cited(decision.result) = {<<r.id, r.version>> : r \in early}
        /\ Cited(Replayed) = {<<r.id, r.version>> : r \in late}
    BY <2>1, <2>2, FoldCites
  <2>6. ASSUME NEW k, \A r \in LateRules : r.id # k[1]
        PROVE  k \in Cited(decision.result) <=> k \in Cited(Replayed)
    <3>1. ASSUME NEW r, k = <<r.id, r.version>> PROVE r \in early <=> r \in late
      BY <2>4, <2>6, <3>1
    <3> QED
      BY <2>5, <3>1
  <2>7. ASSUME LateRules = {}, LateCaps = {} PROVE Replayed = decision.result
    <3>1. early = late
      BY <2>4, <2>7
    <3>2. load_afa_caps(caps, decision.day) = cap
      <4> DEFINE listed == decision.caps
                 day == decision.day
      <4>1. Begins(listed, caps) /\ day \in Int /\ caps \in Seq(Ceiling)
        BY <1>1 DEF IInv, Listing, Remembered
      <4>2. \A i \in DOMAIN caps \ DOMAIN listed : ~(caps[i].as_of <= day)
        BY <2>7 DEF LateCaps
      <4> HIDE DEF listed, day
      <4>3. load_afa_caps(caps, day) = load_afa_caps(listed, day)
        BY <4>1, <4>2, LaterCeilingsDoNotHold
      <4> QED
        BY <4>3 DEF listed, day, cap
    <3> QED
      BY <2>1, <2>2, <3>1, <3>2
  <2> QED
    BY <2>6, <2>7
<1> QED
  BY <1>1, Invariance, PTL

-----------------------------------------------------------------------------
(* The checks of one attempt of the audited schedule, by the pack and by the *)
(* gate.                                                                     *)
PackChecks(day, a) ==
    evaluate_rules(load_rules(rules, "debit_attempt", "upi_autopay", day),
                   BaselineContext(a), pack_afa_caps(caps, day), a.fire_day).checks

GateChecks(day, a) ==
    evaluate(TRUE, rules, caps, "debit_attempt", "upi_autopay", BaselineContext(a), day,
             a.fire_day).checks

Against(id, checks) == \E c \in checks : c.id = id /\ c.verdict # "ALLOW"

(* The baseline makes finitely many attempts.                                *)
LEMMA ScheduleIsFinite ==
    ASSUME NEW S, S \subseteq baseline_attempts(Nil)
    PROVE  IsFiniteSet(S) /\ (Cardinality(S) = 0 <=> S = {})
<1> DEFINE attempt(d) == [fire_day |-> d, hour_ist |-> BASELINE_HOUR_IST, pdn_sent_at |-> Nil]
<1>1. baseline_attempts(Nil) = {attempt(d) : d \in BASELINE_RETRY_DAYS}
  BY DEF baseline_attempts
<1> HIDE DEF attempt
<1>2. baseline_attempts(Nil) = {attempt(1)} \cup {attempt(3)} \cup {attempt(5)}
  BY <1>1 DEF BASELINE_RETRY_DAYS
<1>3. IsFiniteSet(baseline_attempts(Nil))
  <2> DEFINE A == {attempt(1)}
             B == {attempt(3)}
             C == {attempt(5)}
  <2>1. IsFiniteSet(A) /\ IsFiniteSet(B) /\ IsFiniteSet(C)
    BY FS_Singleton
  <2> HIDE DEF A, B, C
  <2>2. IsFiniteSet(A \cup B)
    BY <2>1, FS_Union
  <2>3. IsFiniteSet((A \cup B) \cup C)
    BY <2>1, <2>2, FS_Union
  <2> QED
    BY <1>2, <2>3 DEF A, B, C
<1>4. IsFiniteSet(S)
  BY <1>3, FS_Subset
<1> QED
  BY <1>4, FS_EmptySet

(* Read at ten in the morning and without a notice, either headline rule     *)
(* refuses.                                                                  *)
LEMMA HeadlineRefuses ==
    ASSUME NEW r \in BaseRules \cup LaterRules, NEW h \in DOMAIN Headline, r.id = Headline[h],
           NEW a \in baseline_attempts(Nil), NEW cap, NEW now
    PROVE  /\ ~safe_eval(r.pred, BaselineContext(a), cap, now)
           /\ coerce_on_fail(r) # "ALLOW"
<1>1. h = "window" \/ h = "notice"
  BY DEF Headline
<1>2. BaselineContext(a).hour_ist = 600 /\ BaselineContext(a).pdn_sent_at = Nil
  BY DEF BaselineContext, baseline_attempts, BASELINE_HOUR_IST
<1>3. coerce_on_fail(r) # "ALLOW"
  <2>1. r.on_fail \in {"DENY", "DEFER", "ESCALATE_HUMAN"}
    BY RuleAssumption
  <2> QED
    BY <2>1 DEF coerce_on_fail
<1>4. CASE h = "window"
  <2>1. r.pred = "window"
    BY <1>4, HeadlineAssumption DEF Headline
  <2>2. ~Holds("window", BaselineContext(a), cap, now)
    BY <1>2 DEF Holds
  <2> QED
    BY <1>3, <2>1, <2>2 DEF safe_eval
<1>5. CASE h = "notice"
  <2>1. r.pred = "pdn24"
    BY <1>5, HeadlineAssumption DEF Headline
  <2>2. ~Holds("pdn24", BaselineContext(a), cap, now)
    BY <1>2 DEF Holds
  <2> QED
    BY <1>3, <2>1, <2>2 DEF safe_eval
<1> QED
  BY <1>1, <1>4, <1>5

(* Both counts are of the attempts that a headline rule does not allow.      *)
LEMMA CountsOfTheAudit ==
    ASSUME NEW day, NEW h \in DOMAIN Headline
    PROVE  /\ run_audit(day).violations[h]
                  = Cardinality({a \in baseline_attempts(Nil) : Against(Headline[h], PackChecks(day, a))})
           /\ evaluate_baseline_policy(day)[h]
                  = Cardinality({a \in baseline_attempts(Nil) : Against(Headline[h], GateChecks(day, a))})
           /\ run_audit(day).not_in_force
                  = {Headline[g] : g \in DOMAIN Headline}
                        \ {r.id : r \in load_rules(rules, "debit_attempt", "upi_autopay", day)}
BY DEF run_audit, evaluate_baseline_policy, CountOf, Against, PackChecks, GateChecks

(* On an attempt of the schedule, a fold finds a headline rule wherever it   *)
(* is among the rules, whatever the ceilings and the clock.                  *)
LEMMA FoldFindsHeadline ==
    ASSUME NEW chosen, chosen \subseteq BaseRules \cup LaterRules, NEW h \in DOMAIN Headline,
           NEW a \in baseline_attempts(Nil), NEW cap, NEW now
    PROVE  Against(Headline[h], evaluate_rules(chosen, BaselineContext(a), cap, now).checks)
               <=> \E r \in chosen : r.id = Headline[h]
<1> DEFINE ctx == BaselineContext(a)
           outcome(q) == IF safe_eval(q.pred, ctx, cap, now) THEN "ALLOW" ELSE coerce_on_fail(q)
           check(q) == [id |-> q.id, version |-> q.version, verdict |-> outcome(q)]
           checks == evaluate_rules(chosen, ctx, cap, now).checks
<1>1. checks = {check(q) : q \in chosen}
  BY DEF evaluate_rules
<1>2. ASSUME NEW r \in chosen, r.id = Headline[h] PROVE outcome(r) # "ALLOW"
  BY <1>2, HeadlineRefuses
<1> HIDE DEF ctx, outcome, checks
<1>3. \A q : check(q).id = q.id /\ check(q).verdict = outcome(q)
  OBVIOUS
<1> HIDE DEF check
<1>4. Against(Headline[h], checks) <=> \E r \in chosen : r.id = Headline[h]
  BY <1>1, <1>2, <1>3 DEF Against
<1> QED
  BY <1>4 DEF checks, ctx

(* On one attempt, the audit of the pack and the gate say the same of a      *)
(* headline rule.                                                            *)
LEMMA AuditIsTheGate ==
    ASSUME Growing, NEW day, NEW a \in baseline_attempts(Nil), NEW h \in DOMAIN Headline
    PROVE  Against(Headline[h], PackChecks(day, a)) <=> Against(Headline[h], GateChecks(day, a))
<1> DEFINE chosen == load_active_rules(rules, "debit_attempt", "upi_autopay", day)
           found == \E r \in chosen : r.id = Headline[h]
<1>1. rules \in SUBSET (BaseRules \cup LaterRules)
  BY DEF Growing
<1>2. chosen \subseteq BaseRules \cup LaterRules
  BY <1>1 DEF load_active_rules, NewestOfEach
<1>3. load_rules(rules, "debit_attempt", "upi_autopay", day) = chosen
  <2> DEFINE action == "debit_attempt"
             rail == "upi_autopay"
  <2> HIDE DEF action, rail
  <2>1. load_rules(rules, action, rail, day) = load_active_rules(rules, action, rail, day)
    BY <1>1, PackChooses
  <2> QED
    BY <2>1 DEF action, rail
<1> HIDE DEF chosen
<1>4. Against(Headline[h], PackChecks(day, a)) <=> found
  BY <1>2, <1>3, FoldFindsHeadline DEF PackChecks
<1>5. CASE chosen # {}
  <2>1. GateChecks(day, a) = evaluate_rules(chosen, BaselineContext(a), load_afa_caps(caps, day),
                                            a.fire_day).checks
    BY <1>5 DEF GateChecks, evaluate, chosen
  <2> QED
    BY <1>2, <1>4, <2>1, FoldFindsHeadline
<1>6. CASE chosen = {}
  <2>1. GateChecks(day, a) = {[id |-> "__NO_RULES__", version |-> 0, verdict |-> "DENY"]}
    BY <1>6 DEF GateChecks, evaluate, Refused, chosen
  <2>2. Headline[h] # "__NO_RULES__"
    BY DEF Headline
  <2> QED
    BY <1>4, <1>6, <2>1, <2>2 DEF Against
<1> QED
  BY <1>5, <1>6

(* A headline rule in force is found against every attempt of the schedule.  *)
LEMMA ZeroIsNotInForce ==
    ASSUME Growing, NEW day, NEW h \in DOMAIN Headline, run_audit(day).violations[h] = 0
    PROVE  Headline[h] \in run_audit(day).not_in_force
<1> DEFINE chosen == load_rules(rules, "debit_attempt", "upi_autopay", day)
           found == {a \in baseline_attempts(Nil) : Against(Headline[h], PackChecks(day, a))}
<1>1. SUFFICES ASSUME NEW r \in chosen, r.id = Headline[h] PROVE FALSE
  <2>1. run_audit(day).not_in_force = {Headline[g] : g \in DOMAIN Headline} \ {q.id : q \in chosen}
    BY CountsOfTheAudit
  <2> HIDE DEF chosen
  <2> QED
    BY <2>1
<1>2. r \in BaseRules \cup LaterRules
  BY DEF Growing, load_rules, NewestOfEach
<1>3. PICK a : a \in baseline_attempts(Nil)
  BY DEF baseline_attempts, BASELINE_RETRY_DAYS
<1> DEFINE ctx == BaselineContext(a)
           cap == pack_afa_caps(caps, day)
           now == a.fire_day
           outcome(q) == IF safe_eval(q.pred, ctx, cap, now) THEN "ALLOW" ELSE coerce_on_fail(q)
           check(q) == [id |-> q.id, version |-> q.version, verdict |-> outcome(q)]
<1>4. PackChecks(day, a) = {check(q) : q \in chosen}
  BY DEF PackChecks, evaluate_rules
<1>5. outcome(r) # "ALLOW"
  BY <1>1, <1>2, <1>3, HeadlineRefuses
<1>6. check(r) \in PackChecks(day, a)
  BY <1>1, <1>4
<1>7. check(r).id = Headline[h] /\ check(r).verdict # "ALLOW"
  BY <1>1, <1>5
<1> HIDE DEF check
<1>8. Against(Headline[h], PackChecks(day, a))
  BY <1>6, <1>7 DEF Against
<1>9. found # {}
  BY <1>3, <1>8
<1>10. Cardinality(found) = 0
  BY CountsOfTheAudit
<1> HIDE DEF found
<1>11. found \subseteq baseline_attempts(Nil)
  BY DEF found
<1> QED
  BY <1>9, <1>10, <1>11, ScheduleIsFinite

(* One rule of a fold, before and after its ceiling and its clock change.    *)
LEMMA RuleByRule ==
    ASSUME NEW f \in Facts, NEW r \in BaseRules \cup LaterRules, NEW cap, NEW ceiling,
           NEW now \in Int, NEW wall \in Int, now <= wall, r.pred = "afa" => cap = ceiling
    PROVE  /\ safe_eval(r.pred, Context(f), cap, now) => safe_eval(r.pred, Context(f), ceiling, wall)
           /\ safe_eval(r.pred, Context(f), ceiling, wall) =>
                 safe_eval(r.pred, Context(f), cap, now) \/ r.pred = "pdn24"
<1> DEFINE ctx == Context(f)
<1>1. CASE r.pred = "afa"
  <2>1. \A c : Holds("afa", ctx, c, wall) <=> Holds("afa", ctx, c, now)
    BY DEF Holds
  <2> QED
    BY <1>1, <2>1 DEF safe_eval
<1>2. CASE r.pred = "pdn24"
  <2>1. ctx.pdn_sent_at \in Int \cup {Nil}
    BY FactAssumption DEF Context, gate_context, message_context
  <2> HIDE DEF ctx
  <2>2. Holds("pdn24", ctx, cap, now) => Holds("pdn24", ctx, ceiling, wall)
    BY <2>1 DEF Holds, hours_since
  <2>3. Errs("pdn24", ctx, ceiling) => Errs("pdn24", ctx, cap)
    BY DEF Errs
  <2> QED
    BY <1>2, <2>2, <2>3 DEF safe_eval, ctx
<1>3. CASE r.pred \notin {"afa", "pdn24"}
  <2> DEFINE pred == r.pred
  <2>1. pred \in {"window", "cutoff", "contact", "dlt", "consent", "fatigue"}
    BY <1>3, RuleAssumption
  <2> HIDE DEF pred, ctx
  <2>2. Holds(pred, ctx, cap, now) <=> Holds(pred, ctx, ceiling, wall)
    <3>1. CASE pred = "window"
      BY <3>1 DEF Holds
    <3>2. CASE pred = "cutoff"
      BY <3>2 DEF Holds
    <3>3. CASE pred = "contact"
      BY <3>3 DEF Holds
    <3>4. CASE pred = "dlt"
      BY <3>4 DEF Holds
    <3>5. CASE pred = "consent"
      BY <3>5 DEF Holds
    <3>6. CASE pred = "fatigue"
      BY <3>6 DEF Holds
    <3> QED
      BY <2>1, <3>1, <3>2, <3>3, <3>4, <3>5, <3>6
  <2>3. Errs(pred, ctx, cap) <=> Errs(pred, ctx, ceiling)
    BY <2>1 DEF Errs
  <2> QED
    BY <2>2, <2>3 DEF safe_eval, pred, ctx
<1> QED
  BY <1>1, <1>2, <1>3

(* A rule of a fold is allowed if and only if it evaluates to true: its      *)
(* number names it.                                                          *)
LEMMA AllowedIsTrue ==
    ASSUME NEW chosen, chosen \subseteq BaseRules \cup LaterRules, NEW ctx, NEW cap, NEW now,
           NEW r \in chosen
    PROVE  <<r.id, r.version>> \in Allowed(evaluate_rules(chosen, ctx, cap, now))
               <=> safe_eval(r.pred, ctx, cap, now)
<1> DEFINE outcome(q) == IF safe_eval(q.pred, ctx, cap, now) THEN "ALLOW" ELSE coerce_on_fail(q)
           check(q) == [id |-> q.id, version |-> q.version, verdict |-> outcome(q)]
           result == evaluate_rules(chosen, ctx, cap, now)
<1>1. result.checks = {check(q) : q \in chosen}
  BY DEF evaluate_rules
<1>2. \A q \in chosen : outcome(q) = "ALLOW" <=> safe_eval(q.pred, ctx, cap, now)
  BY RuleAssumption DEF coerce_on_fail
<1> HIDE DEF outcome, result
<1>3. \A q : check(q).id = q.id /\ check(q).version = q.version /\ check(q).verdict = outcome(q)
  OBVIOUS
<1> HIDE DEF check
<1>4. ASSUME safe_eval(r.pred, ctx, cap, now)
      PROVE  <<r.id, r.version>> \in Allowed(result)
  <2>1. check(r) \in result.checks /\ check(r).verdict = "ALLOW"
    BY <1>1, <1>2, <1>3, <1>4
  <2> QED
    BY <1>3, <2>1 DEF Allowed
<1>5. ASSUME <<r.id, r.version>> \in Allowed(result)
      PROVE  safe_eval(r.pred, ctx, cap, now)
  <2>1. PICK c \in result.checks : c.verdict = "ALLOW" /\ <<r.id, r.version>> = <<c.id, c.version>>
    BY <1>5 DEF Allowed
  <2>2. PICK q \in chosen : c = check(q)
    BY <1>1, <2>1
  <2>3. q = r
    BY <1>3, <2>1, <2>2, KeyAssumption
  <2> QED
    BY <1>2, <1>3, <2>1, <2>2, <2>3
<1> QED
  BY <1>4, <1>5 DEF result

(* Whoever holds the pack alone cites, of any decision ever taken on         *)
(* readable rules, what the gate's own replay cites, allows what it allows   *)
(* and nothing more but the notice, by a clock that only runs on, and on the *)
(* day itself reaches the same result if ceilings are listed by date; and    *)
(* the audit of any day counts what the gate would have refused, a zero only *)
(* for a rule not in force.                                                  *)
THEOREM PackAlwaysAgrees == ComplianceSpec => []PackAgrees
<1>1. ASSUME IInv PROVE PackAgrees
  <2>1. rules \in SUBSET (BaseRules \cup LaterRules) /\ Growing
    BY <1>1 DEF IInv, Growing
  <2>2. ASSUME decision # Nil, ~decision.result.degraded
        PROVE  LET again == pack_evaluate(rules, caps, decision.f.action, decision.rail,
                                          Context(decision.f), decision.day, Wall)
                   sorted == CapsInOrder(caps, decision.day)
               IN  /\ Cited(again) = Cited(Replayed)
                   /\ \A r \in load_active_rules(rules, decision.f.action, decision.rail,
                                                 decision.day) :
                         LET k == <<r.id, r.version>> IN
                         r.pred # "afa" \/ sorted =>
                             /\ k \in Allowed(Replayed) => k \in Allowed(again)
                             /\ k \in Allowed(again) => k \in Allowed(Replayed) \/ r.pred = "pdn24"
                   /\ sorted /\ today = decision.day => again = Replayed
    <3> DEFINE f == decision.f
               day == decision.day
               chosen == load_active_rules(rules, f.action, decision.rail, day)
               cap == load_afa_caps(caps, day)
               ceiling == pack_afa_caps(caps, day)
               again == pack_evaluate(rules, caps, f.action, decision.rail, Context(f), day, Wall)
               sorted == CapsInOrder(caps, day)
    <3>1. f \in Facts /\ day \in Int /\ day <= today /\ today \in Int
      BY <1>1, <2>2 DEF IInv, Growing, Remembered
    <3>2. /\ f.at \in Int /\ Wall \in Int /\ f.at <= Wall
          /\ today = day => Wall = f.at
      <4>1. f.at \in Int
        BY <3>1, FactAssumption
      <4>2. Wall = f.at + 24 * 60 * (today - day)
        BY DEF Wall
      <4> HIDE DEF f, day
      <4> QED
        BY <3>1, <4>1, <4>2
    <3>3. Replayed = evaluate_rules(chosen, Context(f), cap, f.at)
      BY <1>1, <2>2, ReplayIsGoverned
    <3>4. load_rules(rules, f.action, decision.rail, day) = chosen
      BY <2>1, PackChooses
    <3>5. again = evaluate_rules(chosen, Context(f), ceiling, Wall)
      BY <3>4 DEF pack_evaluate
    <3>6. chosen \subseteq BaseRules \cup LaterRules
      BY <2>1 DEF load_active_rules, NewestOfEach
    <3>7. sorted => ceiling = cap
      BY PackCeilings
    <3> HIDE DEF chosen, cap, ceiling, again, sorted, f, day
    <3>8. Cited(again) = Cited(Replayed)
      BY <3>3, <3>5, FoldCites
    <3>9. ASSUME NEW r \in chosen, r.pred # "afa" \/ sorted
          PROVE  /\ <<r.id, r.version>> \in Allowed(Replayed) => <<r.id, r.version>> \in Allowed(again)
                 /\ <<r.id, r.version>> \in Allowed(again) =>
                       <<r.id, r.version>> \in Allowed(Replayed) \/ r.pred = "pdn24"
      <4>1. <<r.id, r.version>> \in Allowed(Replayed) <=> safe_eval(r.pred, Context(f), cap, f.at)
        BY <3>3, <3>6, AllowedIsTrue
      <4>2. <<r.id, r.version>> \in Allowed(again) <=> safe_eval(r.pred, Context(f), ceiling, Wall)
        BY <3>5, <3>6, AllowedIsTrue
      <4>3. r.pred = "afa" => cap = ceiling
        BY <3>7, <3>9
      <4>4. /\ safe_eval(r.pred, Context(f), cap, f.at) => safe_eval(r.pred, Context(f), ceiling, Wall)
            /\ safe_eval(r.pred, Context(f), ceiling, Wall) =>
                  safe_eval(r.pred, Context(f), cap, f.at) \/ r.pred = "pdn24"
        BY <3>1, <3>2, <3>6, <4>3, RuleByRule
      <4> QED
        BY <4>1, <4>2, <4>4
    <3>10. sorted /\ today = day => again = Replayed
      BY <3>2, <3>3, <3>5, <3>7
    <3> QED
      BY <3>8, <3>9, <3>10 DEF chosen, again, sorted, f, day
  <2>3. ASSUME NEW day \in FirstDay .. LastDay
        PROVE  run_audit(day).violations = evaluate_baseline_policy(day)
    <3> DEFINE v == run_audit(day).violations
               w == evaluate_baseline_policy(day)
    <3>1. /\ v = [h \in DOMAIN Headline |-> v[h]]
          /\ w = [h \in DOMAIN Headline |-> w[h]]
      BY DEF run_audit, evaluate_baseline_policy
    <3>2. ASSUME NEW h \in DOMAIN Headline PROVE v[h] = w[h]
      <4>1. {a \in baseline_attempts(Nil) : Against(Headline[h], PackChecks(day, a))}
              = {a \in baseline_attempts(Nil) : Against(Headline[h], GateChecks(day, a))}
        BY <2>1, AuditIsTheGate
      <4> QED
        BY <4>1, CountsOfTheAudit
    <3> HIDE DEF v, w
    <3> QED
      BY <3>1, <3>2 DEF v, w
  <2>4. ASSUME NEW day \in FirstDay .. LastDay, NEW h \in DOMAIN Headline,
               run_audit(day).violations[h] = 0
        PROVE  Headline[h] \in run_audit(day).not_in_force
    BY <2>1, <2>4, ZeroIsNotInForce
  <2> QED
    BY <2>2, <2>3, <2>4 DEF PackAgrees
<1> QED
  BY <1>1, Invariance, PTL
=============================================================================
