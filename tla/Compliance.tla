----------------------------- MODULE Compliance -----------------------------
(***************************************************************************)
(* The compliance gate and the published rule pack: versioned rules, the   *)
(* facts they are evaluated against, the verdict, and the audit that is    *)
(* run from the pack alone.  A migration publishes rules and caps into the *)
(* database and the pack at once; days pass; one decision is taken.        *)
(***************************************************************************)
EXTENDS Integers, Sequences, FiniteSets

CONSTANTS Nil,                     \* NULL, null and a missing row
          BaseRules, LaterRules,    \* versions in force from the start, and to come
          BaseCaps, LaterCaps,      \* AFA ceilings [mcc, cap, as_of]
          FirstDay, LastDay,
          Facts                     \* what a debit or a notice can find to be true

ASSUME DateAssumption ==
    /\ FirstDay \in Int /\ LastDay \in Int
    /\ \A r \in BaseRules \cup LaterRules : r.as_of \in Int

(* The table's CHECK on on_fail, and what every version in the pack is:      *)
(* active, never with an empty list of rails, and asking of a debit only     *)
(* what these predicates read.                                               *)
ASSUME RuleAssumption ==
    \A r \in BaseRules \cup LaterRules :
        /\ r.on_fail \in {"DENY", "DEFER", "ESCALATE_HUMAN"}
        /\ r.active /\ r.rails # {}
        /\ r.pred \in {"window", "pdn24", "cutoff", "afa", "contact", "dlt", "consent", "fatigue"}
        /\ "debit_attempt" \in r.applies_to =>
              r.pred \in {"window", "pdn24", "cutoff", "afa", "consent"}

(* DPDP-CONSENT-VALID has one version, in force from the start on all rails, *)
(* for every action that a caller submits and another rule applies to.       *)
ASSUME ConsentAssumption ==
    \E c \in BaseRules :
        /\ c.pred = "consent" /\ c.rails = Nil
        /\ c.as_of <= FirstDay /\ c.version \in Int
        /\ \A r \in BaseRules \cup LaterRules :
              /\ r.id = c.id => r = c
              /\ \A f \in Facts : f.action \in r.applies_to => f.action \in c.applies_to

(* The two rules of the published finding, and the ceilings' columns.        *)
ASSUME HeadlineAssumption ==
    \A r \in BaseRules \cup LaterRules :
        /\ r.id = "NPCI-AUTOPAY-WINDOW" => r.pred = "window"
        /\ r.id = "RBI-EMANDATE-PDN-24H" => r.pred = "pdn24"

Ceiling == [mcc : STRING, cap : Int, as_of : Int]
ASSUME CeilingAssumption == BaseCaps \in Seq(Ceiling) /\ LaterCaps \subseteq Ceiling

(* A version is identified by its rule and its number.                       *)
ASSUME KeyAssumption ==
    \A r, q \in BaseRules \cup LaterRules : r.id = q.id /\ r.version = q.version => r = q

(* Instants are minutes; a notice may not have been sent.                    *)
ASSUME FactAssumption == \A f \in Facts : f.at \in Int /\ f.pdn \in Int \cup {Nil}

VARIABLES rules,                    \* published versions (compliance_rules, rulepack.yaml)
          caps,                     \* ceilings in file order
          today,
          decision                  \* the decision taken, with what was published by then (a
                                    \* history), or Nil
gvars == <<rules, caps, today, decision>>

Severity == [ALLOW |-> 0, DEFER |-> 1, ESCALATE_HUMAN |-> 2, DENY |-> 3]
DEFAULT_MCC == "*"

-----------------------------------------------------------------------------
(* The rules in force for an action on a rail: of the versions that apply    *)
(* and have taken effect, the newest of each rule_id.                        *)
NewestOfEach(S) ==
    {r \in S : \A q \in S : q.id = r.id =>
        q.as_of < r.as_of \/ (q.as_of = r.as_of /\ q.version <= r.version)}

load_active_rules_AnyDate(published, action, rail, as_of) ==
    NewestOfEach({r \in published : action \in r.applies_to /\ (r.rails = Nil \/ rail \in r.rails)})

load_active_rules(published, action, rail, as_of) ==
    NewestOfEach({r \in published : /\ r.active
                                    /\ action \in r.applies_to
                                    /\ r.as_of <= as_of
                                    /\ r.rails = Nil \/ rail \in r.rails})

(* The pack's own choice: no active flag, and an empty list of rails is all  *)
(* of them.                                                                  *)
load_rules_Strict(published, action, rail, when) ==
    NewestOfEach({r \in published : /\ action \in r.applies_to
                                    /\ r.rails \in {Nil, {}} \/ rail \in r.rails
                                    /\ r.as_of < when})

load_rules(published, action, rail, when) ==
    NewestOfEach({r \in published : /\ action \in r.applies_to
                                    /\ r.rails \in {Nil, {}} \/ rail \in r.rails
                                    /\ r.as_of <= when})

(* The ceilings in force, by merchant category: the newest in the database,  *)
(* the last in the file.  An unknown category has the default ceiling, and   *)
(* without a default there is none.                                          *)
InForce(listed, as_of) == {i \in DOMAIN listed : listed[i].as_of <= as_of}

Ceilings(listed, ruling) ==
    [mcc \in {listed[i].mcc : i \in ruling} |-> listed[CHOOSE i \in ruling : listed[i].mcc = mcc].cap]

load_afa_caps(listed, as_of) ==
    LET open == InForce(listed, as_of)
    IN  Ceilings(listed, {i \in open : \A j \in open :
                            listed[j].mcc = listed[i].mcc => listed[j].as_of <= listed[i].as_of})

pack_afa_caps(listed, when) ==
    LET open == InForce(listed, when)
    IN  Ceilings(listed, {i \in open : \A j \in open : listed[j].mcc = listed[i].mcc => j <= i})

afa_free_cap(cap, mcc) ==
    IF mcc \in DOMAIN cap THEN cap[mcc]
    ELSE IF DEFAULT_MCC \in DOMAIN cap THEN cap[DEFAULT_MCC] ELSE Nil

-----------------------------------------------------------------------------
(* The predicates of rulepack.yaml.  hour_ist is in minutes of the day, an   *)
(* instant in minutes; a predicate whose facts are missing is an error.      *)
Reads ==
    [window |-> {"hour_ist"}, pdn24 |-> {"pdn_sent_at"},
     cutoff |-> {"is_next_day_debit", "hour_ist"}, afa |-> {"amount_paise", "mcc"},
     contact |-> {"hour_ist"}, dlt |-> {"dlt_template_id", "header_series", "dnd_registered"},
     consent |-> {"consent_ref", "consent_withdrawn"},
     fatigue |-> {"messages_30d", "tenant_fatigue_cap"}]

hours_since(now, moment) == now - moment

Holds(pred, ctx, cap, now) ==
    CASE pred = "window"  -> \/ ctx.hour_ist < 600
                             \/ ctx.hour_ist \in 780 .. 1019
                             \/ ctx.hour_ist >= 1290
      [] pred = "pdn24"   -> /\ ctx.pdn_sent_at # Nil
                             /\ hours_since(now, ctx.pdn_sent_at) >= 24 * 60
      [] pred = "cutoff"  -> ~(ctx.is_next_day_debit /\ ctx.hour_ist >= 1430)
      [] pred = "afa"     -> ctx.amount_paise <= afa_free_cap(cap, ctx.mcc)
      [] pred = "contact" -> ctx.hour_ist \in 480 .. 1139
      [] pred = "dlt"     -> /\ ctx.dlt_template_id # Nil
                             /\ ctx.header_series = "160"
                             /\ ~ctx.dnd_registered
      [] pred = "consent" -> ctx.consent_ref # Nil /\ ~ctx.consent_withdrawn
      [] pred = "fatigue" -> ctx.messages_30d < ctx.tenant_fatigue_cap

Errs(pred, ctx, cap) ==
    \/ ~(Reads[pred] \subseteq DOMAIN ctx)
    \/ pred = "afa" /\ afa_free_cap(cap, ctx.mcc) = Nil

safe_eval(pred, ctx, cap, now) == ~Errs(pred, ctx, cap) /\ Holds(pred, ctx, cap, now)

(* An on_fail that is not a verdict denies.                                  *)
coerce_on_fail(rule) == IF rule.on_fail \in DOMAIN Severity THEN rule.on_fail ELSE "DENY"

(* Every rule is evaluated, and the most severe verdict is the answer.       *)
evaluate_rules(chosen, ctx, cap, now) ==
    LET outcome(r) == IF safe_eval(r.pred, ctx, cap, now) THEN "ALLOW" ELSE coerce_on_fail(r)
        checks == {[id |-> r.id, version |-> r.version, verdict |-> outcome(r)] : r \in chosen}
        found == {c.verdict : c \in checks} \cup {"ALLOW"}
    IN  [verdict |-> CHOOSE v \in found : \A w \in found : Severity[w] <= Severity[v],
         checks |-> checks, degraded |-> FALSE]

Refused(why) == [verdict |-> "DENY", degraded |-> TRUE,
                 checks |-> {[id |-> why, version |-> 0, verdict |-> "DENY"]}]

evaluate_NoRulesAllow(available, published, listed, action, rail, ctx, as_of, now) ==
    LET cap == load_afa_caps(listed, as_of)
    IN  IF ~available THEN Refused("__RULE_STORE__")
        ELSE evaluate_rules(load_active_rules(published, action, rail, as_of), ctx, cap, now)

(* The chokepoint; available is whether the rule store could be read.        *)
evaluate(available, published, listed, action, rail, ctx, as_of, now) ==
    LET chosen == load_active_rules(published, action, rail, as_of)
        cap == load_afa_caps(listed, as_of)
    IN  CASE ~available -> Refused("__RULE_STORE__")
          [] available /\ chosen = {} -> Refused("__NO_RULES__")
          [] OTHER -> evaluate_rules(chosen, ctx, cap, now)

(* The pack's evaluate: the same fold, ALLOW when nothing applies, and hours *)
(* counted to the wall clock of whoever runs it.                             *)
pack_evaluate(published, listed, action, rail, ctx, when, wall) ==
    LET cap == pack_afa_caps(listed, when)
    IN  evaluate_rules(load_rules(published, action, rail, when), ctx, cap, wall)

-----------------------------------------------------------------------------
(* What the two callers tell the gate.  A fact is a record of what the rows  *)
(* hold; at is the minute of the IST day.                                    *)
gate_context_NoMcc(f) ==
    [hour_ist |-> f.at, amount_paise |-> f.amount, pdn_sent_at |-> f.pdn,
     consent_ref |-> "ref", consent_withdrawn |-> f.withdrawn, is_next_day_debit |-> FALSE]

gate_context(f) ==
    [hour_ist |-> f.at, amount_paise |-> f.amount, mcc |-> f.mcc, pdn_sent_at |-> f.pdn,
     consent_ref |-> "ref", consent_withdrawn |-> f.withdrawn, is_next_day_debit |-> FALSE]

message_context(f) ==
    [hour_ist |-> f.at, amount_paise |-> f.amount, mcc |-> Nil, pdn_sent_at |-> f.pdn,
     consent_ref |-> "ref", consent_withdrawn |-> f.withdrawn, is_next_day_debit |-> FALSE,
     messages_30d |-> f.messages, tenant_fatigue_cap |-> 3,
     dlt_template_id |-> f.template, header_series |-> "160", dnd_registered |-> FALSE]

Context(f) == IF f.action = "debit_attempt" THEN gate_context(f) ELSE message_context(f)

-----------------------------------------------------------------------------
(* Section 8's audit: the day 1/3/5 schedule at 10:00 with no notice.        *)
BASELINE_RETRY_DAYS == {1, 3, 5}
BASELINE_HOUR_IST == 600
Headline == [window |-> "NPCI-AUTOPAY-WINDOW", notice |-> "RBI-EMANDATE-PDN-24H"]

baseline_attempts(pdn) ==
    {[fire_day |-> d, hour_ist |-> BASELINE_HOUR_IST, pdn_sent_at |-> pdn] :
        d \in BASELINE_RETRY_DAYS}

BaselineContext(a) ==
    [hour_ist |-> a.hour_ist, pdn_sent_at |-> a.pdn_sent_at, is_next_day_debit |-> FALSE,
     amount_paise |-> 1, mcc |-> "5812", consent_ref |-> "baseline", consent_withdrawn |-> FALSE]

CountOf(id, checksOf(_)) ==
    Cardinality({a \in baseline_attempts(Nil) :
                    \E c \in checksOf(a) : c.id = id /\ c.verdict # "ALLOW"})

(* Per cycle: the published finding, and which headline rules were not in    *)
(* force on the day, so that their zero means nothing.                       *)
run_audit(day) ==
    LET chosen == load_rules(rules, "debit_attempt", "upi_autopay", day)
        cap == pack_afa_caps(caps, day)
        checks(a) == evaluate_rules(chosen, BaselineContext(a), cap, a.fire_day).checks
    IN  [not_in_force |-> {Headline[h] : h \in DOMAIN Headline} \ {r.id : r \in chosen},
         violations |-> [h \in DOMAIN Headline |-> CountOf(Headline[h], checks)]]

(* The same schedule through the gate itself, firing nothing.                *)
evaluate_baseline_policy(day) ==
    LET checks(a) == evaluate(TRUE, rules, caps, "debit_attempt", "upi_autopay",
                              BaselineContext(a), day, a.fire_day).checks
    IN  [h \in DOMAIN Headline |-> CountOf(Headline[h], checks)]

-----------------------------------------------------------------------------
ComplianceInit ==
    /\ rules = BaseRules
    /\ caps = BaseCaps
    /\ today = FirstDay
    /\ decision = Nil

(* A migration inserts a version it never had: a version is not edited.  Its *)
(* date may be to come, that of the day it was written, or past by the time  *)
(* it is applied.                                                            *)
PublishRule ==
    /\ \E r \in LaterRules \ rules : rules' = rules \cup {r}
    /\ UNCHANGED <<caps, today, decision>>

PublishCap ==
    /\ \E c \in LaterCaps :
        /\ \A i \in DOMAIN caps : caps[i] # c
        /\ caps' = Append(caps, c)
    /\ UNCHANGED <<rules, today, decision>>

NextDay == today < LastDay /\ today' = today + 1 /\ UNCHANGED <<rules, caps, decision>>

(* A debit or a notice reaches the gate: as_of is the date of the instant.   *)
Judge ==
    /\ decision = Nil
    /\ \E f \in Facts, rail \in {"upi_autopay", "enach"}, available \in BOOLEAN :
        decision' = [f |-> f, rail |-> rail, day |-> today, available |-> available,
                     rules |-> rules, caps |-> caps,
                     result |-> evaluate(available, rules, caps, f.action, rail,
                                         Context(f), today, f.at)]
    /\ UNCHANGED <<rules, caps, today>>

ComplianceNext == PublishRule \/ PublishCap \/ NextDay \/ Judge
ComplianceSpec == ComplianceInit /\ [][ComplianceNext]_gvars

-----------------------------------------------------------------------------
Cited(result) == {<<c.id, c.version>> : c \in result.checks}

(* Nothing is permitted unless the rules could be read, something applied,   *)
(* and each rule's newest version holds on complete facts; and every rule    *)
(* consulted is in the evidence, whatever the others said.                   *)
FailsClosed ==
    [][decision' # decision =>
        LET d == decision'
            governing == load_active_rules(rules, d.f.action, d.rail, today)
            cap == load_afa_caps(caps, today)
        IN  /\ d.available /\ governing # {}
                => Cited(d.result) = {<<r.id, r.version>> : r \in governing}
            /\ d.result.verdict = "ALLOW" =>
                /\ d.available /\ ~d.result.degraded
                /\ \E r \in governing : r.pred = "consent"
                /\ \A r \in governing : /\ Reads[r.pred] \subseteq DOMAIN Context(d.f)
                                        /\ Holds(r.pred, Context(d.f), cap, d.f.at)]_gvars

(* The callers supply every fact that the rules they are subject to read: no *)
(* decision is ever a refusal for want of a fact.                            *)
ContextsSuffice ==
    decision # Nil =>
        \A r \in load_active_rules(rules, decision.f.action, decision.rail, decision.day) :
            Reads[r.pred] \subseteq DOMAIN Context(decision.f)

(* "a replay of a past decision selects the rule versions that governed      *)
(* *then*" (load_active_rules, engine.py:91), whatever is published since.   *)
ReplaySelectsSameVersions ==
    decision # Nil /\ ~decision.result.degraded =>
        Cited(decision.result) =
            {<<r.id, r.version>> : r \in load_active_rules(rules, decision.f.action,
                                                           decision.rail, decision.day)}

(* What was published after the decision and yet dated no later than it.     *)
LateRules == {r \in rules \ decision.rules : r.as_of <= decision.day}
LateCaps == {i \in DOMAIN caps \ DOMAIN decision.caps : caps[i].as_of <= decision.day}

Replayed == evaluate(TRUE, rules, caps, decision.f.action, decision.rail,
                     Context(decision.f), decision.day, decision.f.at)

(* A replay differs only through what was dated back.  Of a rule with no     *)
(* such version it selects the version that governed, however many came for  *)
(* later days and for other rules; and where nothing at all was dated back,  *)
(* the replay of a decision on readable rules is that decision, with its     *)
(* verdict and each of its checks.                                           *)
OnlyBackdatingRewrites ==
    decision # Nil /\ ~decision.result.degraded =>
        /\ LET others(cited) == {k \in cited : \A r \in LateRules : r.id # k[1]}
           IN  others(Cited(decision.result)) = others(Cited(Replayed))
        /\ LateRules = {} /\ LateCaps = {} => Replayed = decision.result

(* Ceilings of a category that are in force by then are listed in the order  *)
(* of their dates.                                                           *)
CapsInOrder(listed, day) ==
    \A i, j \in InForce(listed, day) : listed[i].mcc = listed[j].mcc =>
        (listed[j].as_of <= listed[i].as_of <=> j <= i)

Allowed(result) == {<<c.id, c.version>> : c \in {c \in result.checks : c.verdict = "ALLOW"}}

(* The minute, counted from the day of the decision, at which a third party  *)
(* runs the pack today.                                                      *)
Wall == decision.f.at + 24 * 60 * (today - decision.day)

(* What others make of the rules is what the gate makes of them.  A third    *)
(* party with the pack alone consults the versions that a replay by the gate *)
(* does; it allows what the replay allows, and nothing more but the notice,  *)
(* whose hours it counts to its own clock, so that on the day itself it      *)
(* reaches the very result - if the file lists ceilings by date, without     *)
(* which the ceiling is another.  The audit of a plan, also ahead of its     *)
(* date, counts what the gate would have refused, and a zero that only means *)
(* "not in force" is never reported as a measurement.  (Stated of the states *)
(* with a decision: in each state of the rules and the dates one is taken.)  *)
PackAgrees ==
    decision # Nil =>
        /\ ~decision.result.degraded =>
            LET again == pack_evaluate(rules, caps, decision.f.action, decision.rail,
                                       Context(decision.f), decision.day, Wall)
                sorted == CapsInOrder(caps, decision.day)
            IN  /\ Cited(again) = Cited(Replayed)
                /\ \A r \in load_active_rules(rules, decision.f.action, decision.rail,
                                             decision.day) :
                      LET k == <<r.id, r.version>> IN
                      r.pred # "afa" \/ sorted =>
                          /\ k \in Allowed(Replayed) => k \in Allowed(again)
                          /\ k \in Allowed(again) => k \in Allowed(Replayed) \/ r.pred = "pdn24"
                /\ sorted /\ today = decision.day => again = Replayed
        /\ \A day \in FirstDay .. LastDay :
            LET audit == run_audit(day)
            IN  /\ audit.violations = evaluate_baseline_policy(day)
                /\ \A h \in DOMAIN Headline :
                    audit.violations[h] = 0 => Headline[h] \in audit.not_in_force
=============================================================================
