----------------------------- MODULE Scheduling -----------------------------
(***************************************************************************)
(* The planner's passes over each tenant's queue of cycles, the notice and *)
(* the debit it queues, the executor's tick over all tenants, and the      *)
(* operators who set stages and kill switches meanwhile.                   *)
(*                                                                         *)
(* A pass reads a page of cycles and writes its actions in one transaction *)
(* whose two ends are two steps.  The executor works through the tenants   *)
(* in the order of their ids; each action is a transaction of its own, and *)
(* a debit's reads the kill switch, then the stage, then goes on: each is  *)
(* a step, for operators commit in between.  Claims, leases, the outbox    *)
(* and the rail are in module Executor: here a debit that the gate lets    *)
(* through has an outcome some time later.                                 *)
(***************************************************************************)
EXTENDS Adoption, Sequences

CONSTANTS
    Null,
    Roster,             \* all rows of tenants, in the order of their ids
    Platform,           \* '__platform__', whose row exists once it was stopped
    Cycles,             \* all cycles, in the order (deadline_at, cycle_id)
    TenantOf, ShareDraw, HoldoutDraw,   \* of each cycle; each has its own mandate
    Worthwhile,         \* cycles for which the sequencer finds a slot
    BATCH, PAGE,
    Budget,             \* cycles.attempt_budget
    Lead,               \* the notice's lead, in steps of the clock
    Slots,              \* offsets from which the sequencer chooses
    Deadline,           \* cycles.deadline_at
    InitialConfig,      \* [stage, stopped, stopped_mandates, paid] of a tenant
    Evidences,          \* what an operator may present
    ByHand,             \* stages an operator may set
    Operators,          \* who may be in the middle of a promotion
    MaxTime, MaxActs    \* bounds: the clock, what operators do

ASSUME PlannerAssumption == /\ BATCH \in Nat \ {0} /\ PAGE \in Nat /\ BATCH <= PAGE
                            /\ Lead \in Nat \ {0}

Tenants == {Roster[i] : i \in DOMAIN Roster} \ {Platform}
CycleSet == {Cycles[i] : i \in DOMAIN Cycles}
OfTenant(t) == {c \in CycleSet : TenantOf[c] = t}
Place(list, x) == CHOOSE i \in DOMAIN list : list[i] = x

ASSUME ListAssumption == /\ Roster \in Seq({Roster[i] : i \in DOMAIN Roster})
                         /\ Cycles \in Seq(CycleSet)
ASSUME OwnerAssumption == TenantOf \in [CycleSet -> Tenants]
ASSUME DrawAssumption == {ShareDraw, HoldoutDraw} \subseteq [CycleSet -> Draws]
ASSUME TimeAssumption == /\ MaxTime \in Nat /\ Slots \subseteq Nat
                         /\ Deadline \in [CycleSet -> Int]
ASSUME StageAssumption == ByHand \subseteq Stage
ASSUME CountAssumption == Budget \in Nat /\ MaxActs \in Nat
(* A tenant's scope, a mandate's and the platform's are never confused.      *)
ASSUME ScopeAssumption == CycleSet \cap (Tenants \cup {Platform}) = {}
ASSUME ConfigAssumption == \A config \in InitialConfig :
                              /\ config.stopped \in BOOLEAN
                              /\ config.stopped_mandates \in [CycleSet -> Nat]

VARIABLES
    now,
    cycle,              \* [state, used, pdn_sent_at]
    failures, fires,    \* failed debits reported, debits fired
    actions,            \* scheduled_actions by id <<cycle, attempts_used, type>>
    page,               \* what a planner's open transaction has read, or Null
    cursor,             \* _CURSOR
    roster,             \* rows of tenants left of the executor's tick
    firing,             \* fire_action under way: [action, at, staged], or Null
    stage,              \* tenants.config: adoption_stage
    stopped,            \* tenants.config: stopped, of tenants and Platform
    stopped_mandates,   \* tenants.config: how often it lists a cycle's mandate
    platformRow,        \* the row of Platform exists
    promoting,          \* what an operator's open promotion has read, or Null
    acts,
    \* history, read by no action: the scopes last ordered to stop, tenants
    \* whose stage somebody set to one that fires or whose shadow stage showed
    \* its audit, and when each cycle's customer was really told
    ordered, byHand, audited, told

planVars == <<page, cursor>>
configVars == <<stage, stopped, stopped_mandates, platformRow, promoting, acts,
                ordered, byHand, audited>>
cycleVars == <<cycle, failures, fires>>
tickVars == <<roster, firing>>
vars == <<now, cycleVars, actions, planVars, tickVars, configVars, told>>

Init ==
    /\ now = 0
    /\ failures = [c \in CycleSet |-> 1]
    /\ fires = [c \in CycleSet |-> 0]
    /\ actions = [a \in {} |-> Null]
    /\ page = [t \in Tenants |-> Null]
    /\ cursor = [t \in Tenants |-> 0]
    /\ roster = {}
    /\ firing = Null
    /\ \E config \in [Tenants -> InitialConfig] :
         /\ stage = [t \in Tenants |-> config[t].stage]
         /\ stopped_mandates = [c \in CycleSet |-> config[TenantOf[c]].stopped_mandates[c]]
         /\ stopped = {t \in Tenants : config[t].stopped}
         /\ cycle = [c \in CycleSet |->
                       [state |-> IF c \in config[TenantOf[c]].paid THEN "succeeded"
                                  ELSE "executing",
                        used |-> 1, pdn_sent_at |-> Null]]
    /\ platformRow = FALSE
    /\ promoting = [o \in Operators |-> Null]
    /\ acts = 0
    /\ ordered = stopped \cup {c \in CycleSet : stopped_mandates[c] > 0}
    /\ audited = {}
    /\ byHand = {t \in Tenants : stage[t] \in {CANARY, RAMP, FULL}}
    /\ told = [c \in CycleSet |-> Null]

-----------------------------------------------------------------------------
(* The planner.                                                              *)
Arm(t, c) == arm_for(current_stage(stage[t]), ShareDraw[c], HoldoutDraw[c])

InFlight(c) == {a \in DOMAIN actions : a[1] = c /\ actions[a].state = "pending"}

Candidates_NoGuard(t) ==
    {c \in OfTenant(t) : /\ cycle[c].state = "executing"
                         /\ cycle[c].used < Budget
                         /\ Deadline[c] > now}

Candidates(t) ==
    {c \in OfTenant(t) : /\ cycle[c].state = "executing"
                         /\ cycle[c].used < Budget
                         /\ Deadline[c] > now
                         /\ InFlight(c) = {}}

(* ORDER BY deadline_at, cycle_id LIMIT limit OFFSET offset.                 *)
Rows(found, offset, limit) ==
    {c \in found :
        Cardinality({d \in found : Place(Cycles, d) < Place(Cycles, c)})
            \in offset .. offset + limit - 1}

PlanRead(t) ==
    /\ page[t] = Null
    /\ LET s == current_stage(stage[t])
           rows == Rows(Candidates(t), cursor[t], PAGE)
       IN  page' = [page EXCEPT ![t] =
                        [fires |-> may_fire(s), decided_at |-> now,
                         rows |-> IF may_decide(s)
                                  THEN {[cycle |-> c, used |-> cycle[c].used,
                                         arm |-> Arm(t, c)] : c \in rows}
                                  ELSE {}]]
    /\ UNCHANGED <<now, cycleVars, actions, cursor, tickVars, configVars, told>>

(* A stage that fires nothing decides on every row it reads, one that fires  *)
(* passes over the rows that are not treated; at most BATCH are considered.  *)
Considered(p) ==
    LET treated == {r \in p.rows : p.fires => r.arm = "treatment"}
    IN  {r \in treated : r.cycle \in Rows({q.cycle : q \in treated}, 0, BATCH)}

(* Of the considered, those with a slot whose id is not taken.               *)
Queued(p) ==
    {r \in Considered(p) : /\ p.fires
                           /\ r.cycle \in Worthwhile
                           /\ <<r.cycle, r.used, "debit">> \notin DOMAIN actions}

(* Acting on a cycle, or reaching the end of the queue, starts over.         *)
NextOffset_Reset(p, offset) == 0

NextOffset(p, offset) ==
    IF Considered(p) # {} \/ Cardinality(p.rows) < PAGE THEN 0
    ELSE offset + Cardinality(p.rows)

(* INSERT ... ON CONFLICT DO NOTHING, the notice with the debit.             *)
Planned(p) == {r.cycle : r \in Queued(p)}
PlannedIds(p) == {<<r.cycle, r.used, type>> : r \in Queued(p), type \in {"debit", "notice"}}

Inserted(p, slot, send) ==
    [a \in DOMAIN actions \cup PlannedIds(p) |->
        IF a \in DOMAIN actions THEN actions[a]
        ELSE [state |-> "pending",
              fire_at |-> IF a[3] = "debit" THEN p.decided_at + slot[a[1]] ELSE send[a[1]]]]

PlanWrite(t) ==
    /\ page[t] # Null
    /\ \E slot \in [Planned(page[t]) -> Slots], send \in [Planned(page[t]) -> 0 .. MaxTime] :
          /\ \A c \in Planned(page[t]) :
                send[c] \in page[t].decided_at .. page[t].decided_at + slot[c] - Lead
          /\ actions' = Inserted(page[t], slot, send)
    /\ cursor' = [cursor EXCEPT ![t] = NextOffset(page[t], @)]
    /\ page' = [page EXCEPT ![t] = Null]
    /\ UNCHANGED <<now, cycleVars, tickVars, configVars, told>>

-----------------------------------------------------------------------------
(* The executor's tick.  The row of Platform is a tenant id too, and one     *)
(* that cannot be bound: its transaction raises, which ends the tick.        *)
active_tenants == {t \in Tenants \cup {Platform} : t = Platform => platformRow}

Bound(left) == CHOOSE t \in left : \A u \in left : Place(Roster, t) <= Place(Roster, u)

TickStarts ==
    /\ roster = {}
    /\ roster' = active_tenants
    /\ UNCHANGED <<now, cycleVars, actions, planVars, firing, configVars, told>>

TenantDrained ==
    /\ roster # {} /\ firing = Null
    /\ roster' = IF Bound(roster) = Platform THEN {} ELSE roster \ {Bound(roster)}
    /\ UNCHANGED <<now, cycleVars, actions, planVars, firing, configVars, told>>

Due(a) == /\ roster # {} /\ TenantOf[a[1]] = Bound(roster)
          /\ actions[a].state = "pending" /\ actions[a].fire_at <= now
          /\ firing = Null

(* The executor is bound to the tenant it drains, and row-level security     *)
(* shows it that tenant's row of tenants alone.                              *)
Visible(t) == {t}

is_stopped(t, c) == \/ Platform \in stopped \cap Visible(t)
                    \/ t \in stopped
                    \/ stopped_mandates[c] > 0

Release(a, how) == actions' = [actions EXCEPT ![a].state = how]

(* fire_action locks the cycle and reads the switch: a debit that is stopped *)
(* is cancelled, any other is taken up.                                      *)
KillDebit(a) ==
    /\ a[3] = "debit" /\ Due(a)
    /\ is_stopped(TenantOf[a[1]], a[1])
    /\ Release(a, "cancelled")
    /\ UNCHANGED <<now, cycleVars, planVars, tickVars, configVars, told>>

TakeUpDebit(a) ==
    /\ a[3] = "debit" /\ Due(a)
    /\ ~is_stopped(TenantOf[a[1]], a[1])
    /\ firing' = [action |-> a, at |-> now, staged |-> FALSE]
    /\ UNCHANGED <<now, cycleVars, actions, planVars, roster, configVars, told>>

Locked == IF firing = Null THEN {} ELSE {firing.action[1]}
StageFires == may_fire(current_stage(stage[TenantOf[firing.action[1]]]))

StageAllows ==
    /\ firing # Null /\ ~firing.staged /\ StageFires
    /\ firing' = [firing EXCEPT !.staged = TRUE]
    /\ UNCHANGED <<now, cycleVars, actions, planVars, roster, configVars, told>>

(* The revalidation and the gate's notice rule at the instant the debit was  *)
(* taken up; the gate's other rules may refuse too.                          *)
Stale(c, at) == \/ cycle[c].state # "executing"
                \/ at > Deadline[c]
                \/ cycle[c].used >= Budget

pdn24(c, at) == cycle[c].pdn_sent_at # Null /\ at - cycle[c].pdn_sent_at >= Lead

RefuseDebit ==
    /\ firing # Null
    /\ firing.staged \/ ~StageFires
    /\ Release(firing.action, "cancelled")
    /\ firing' = Null
    /\ UNCHANGED <<now, cycleVars, planVars, roster, configVars, told>>

FireDebit ==
    /\ firing # Null
    /\ LET c == firing.action[1]
       IN  /\ firing.staged
           /\ ~Stale(c, firing.at) /\ pdn24(c, firing.at)
           /\ Release(firing.action, "done")
           /\ cycle' = [cycle EXCEPT ![c].used = @ + 1]
           /\ fires' = [fires EXCEPT ![c] = @ + 1]
    /\ firing' = Null
    /\ UNCHANGED <<now, failures, planVars, roster, configVars, told>>

RefuseNotice_Stamps(a) ==
    /\ a[3] = "notice" /\ Due(a)
    /\ Release(a, IF cycle[a[1]].pdn_sent_at # Null /\ cycle[a[1]].state = "executing"
                  THEN "done" ELSE "cancelled")
    /\ cycle' = [cycle EXCEPT ![a[1]].pdn_sent_at = IF @ = Null THEN now ELSE @]
    /\ UNCHANGED <<now, failures, fires, planVars, tickVars, configVars, told>>

(* The notice is sent once per cycle; suppressed, or refused by the          *)
(* messaging rules, it is cancelled and its debit stays to be refused.       *)
RefuseNotice(a) ==
    /\ a[3] = "notice" /\ Due(a)
    /\ Release(a, IF cycle[a[1]].pdn_sent_at # Null /\ cycle[a[1]].state = "executing"
                  THEN "done" ELSE "cancelled")
    /\ UNCHANGED <<now, cycleVars, planVars, tickVars, configVars, told>>

SendNotice(a) ==
    LET c == a[1]
    IN  /\ a[3] = "notice" /\ Due(a)
        /\ cycle[c].state = "executing" /\ cycle[c].pdn_sent_at = Null
        /\ Release(a, "done")
        /\ cycle' = [cycle EXCEPT ![c].pdn_sent_at = now]
        /\ told' = [told EXCEPT ![c] = now]
        /\ UNCHANGED <<now, failures, fires, planVars, tickVars, configVars>>

-----------------------------------------------------------------------------
(* A webhook and its projection: a paid cycle has its actions cancelled, and *)
(* a failure, of a debit of ours or of the provider's own, overwrites        *)
(* attempts_used with the number of failures reported.  Either waits for the *)
(* cycle's lock.                                                             *)
Paid(c) ==
    /\ cycle[c].state = "executing" /\ fires[c] > 0 /\ c \notin Locked
    /\ cycle' = [cycle EXCEPT ![c].state = "succeeded"]
    /\ actions' = [a \in DOMAIN actions |->
                     IF a \in InFlight(c) THEN [actions[a] EXCEPT !.state = "cancelled"]
                     ELSE actions[a]]
    /\ UNCHANGED <<now, failures, fires, planVars, tickVars, configVars, told>>

Failed(c) ==
    /\ cycle[c].state = "executing" /\ failures[c] < Budget /\ c \notin Locked
    /\ failures' = [failures EXCEPT ![c] = @ + 1]
    /\ cycle' = [cycle EXCEPT ![c].used = failures[c] + 1]
    /\ UNCHANGED <<now, fires, actions, planVars, tickVars, configVars, told>>

Tick == /\ now < MaxTime /\ now' = now + 1
        /\ UNCHANGED <<cycleVars, actions, planVars, tickVars, configVars, told>>

-----------------------------------------------------------------------------
(* Operators.                                                                *)
Act == acts < MaxActs /\ acts' = acts + 1

StopTenant(t) ==
    /\ Act
    /\ stopped' = stopped \cup {t}
    /\ ordered' = ordered \cup {t}
    /\ UNCHANGED <<now, cycleVars, actions, planVars, tickVars, stage, stopped_mandates,
                   platformRow, promoting, byHand, audited, told>>

(* Under pressure a mandate may well be stopped twice.                       *)
StopMandate(c) ==
    /\ Act
    /\ stopped_mandates' = [stopped_mandates EXCEPT ![c] = @ + 1]
    /\ ordered' = ordered \cup {c}
    /\ UNCHANGED <<now, cycleVars, actions, planVars, tickVars, stage, stopped,
                   platformRow, promoting, byHand, audited, told>>

StopPlatform ==
    /\ Act
    /\ stopped' = stopped \cup {Platform}
    /\ platformRow' = TRUE
    /\ UNCHANGED <<now, cycleVars, actions, planVars, tickVars, stage, stopped_mandates,
                   promoting, ordered, byHand, audited, told>>

(* The row of Platform stays when its flag goes.                             *)
Resume(scope) ==
    /\ Act
    /\ scope \in stopped
    /\ stopped' = stopped \ {scope}
    /\ ordered' = ordered \ {scope}
    /\ UNCHANGED <<now, cycleVars, actions, planVars, tickVars, stage, stopped_mandates,
                   platformRow, promoting, byHand, audited, told>>

Without_Once(times) == IF times > 0 THEN times - 1 ELSE 0

(* Every entry that names the mandate is dropped from the list.              *)
Without(times) == 0

ResumeMandate(c) ==
    /\ Act
    /\ stopped_mandates' = [stopped_mandates EXCEPT ![c] = Without(@)]
    /\ ordered' = ordered \ {c}
    /\ UNCHANGED <<now, cycleVars, actions, planVars, tickVars, stage, stopped,
                   platformRow, promoting, byHand, audited, told>>

(* Onboarding and rollback, by hand and without evidence.                    *)
set_stage(t, s) ==
    /\ Act
    /\ stage' = [stage EXCEPT ![t] = s]
    /\ byHand' = byHand \cup (IF may_fire(s) THEN {t} ELSE {})
    /\ UNCHANGED <<now, cycleVars, actions, planVars, tickVars, stopped, stopped_mandates,
                   platformRow, promoting, ordered, audited, told>>

(* What is shown to leave the shadow stage.                                  *)
ShowsAudit(s, e) == s = SHADOW /\ e.audit_report_produced /\ e.gate_errors = 0

(* A promotion reads the stage and writes the next one; what another         *)
(* operator writes in between is overwritten.                                *)
PromoteRead(o, t, e) ==
    /\ Act
    /\ promoting[o] = Null
    /\ LET s == current_stage(stage[t])
       IN  /\ can_advance(s, e)
           /\ promoting' = [promoting EXCEPT ![o] =
                              [tenant |-> t, to |-> s + 1, shown |-> ShowsAudit(s, e)]]
    /\ UNCHANGED <<now, cycleVars, actions, planVars, tickVars, stage, stopped,
                   stopped_mandates, platformRow, ordered, byHand, audited, told>>

PromoteWrite(o) ==
    /\ promoting[o] # Null
    /\ stage' = [stage EXCEPT ![promoting[o].tenant] = promoting[o].to]
    /\ audited' = audited \cup (IF promoting[o].shown THEN {promoting[o].tenant} ELSE {})
    /\ promoting' = [promoting EXCEPT ![o] = Null]
    /\ UNCHANGED <<now, cycleVars, actions, planVars, tickVars, stopped, stopped_mandates,
                   platformRow, acts, ordered, byHand, told>>

Plan(t) == PlanRead(t) \/ PlanWrite(t)
Execute == \/ TickStarts \/ TenantDrained
           \/ \E a \in DOMAIN actions :
                  KillDebit(a) \/ TakeUpDebit(a) \/ RefuseNotice(a) \/ SendNotice(a)
           \/ StageAllows \/ RefuseDebit \/ FireDebit
Operate == \/ \E t \in Tenants : \/ StopTenant(t)
                                 \/ \E s \in ByHand : set_stage(t, s)
           \/ \E o \in Operators : \/ PromoteWrite(o)
                                   \/ \E t \in Tenants, e \in Evidences : PromoteRead(o, t, e)
           \/ \E c \in CycleSet : StopMandate(c) \/ ResumeMandate(c)
           \/ StopPlatform
           \/ \E scope \in Tenants \cup {Platform} : Resume(scope)

Next == \/ \E t \in Tenants : Plan(t)
        \/ Execute
        \/ \E c \in CycleSet : Paid(c) \/ Failed(c)
        \/ Tick
        \/ Operate

(* The planner's loop comes round again whatever a pass raised; nothing is   *)
(* assumed of the executor, the operators, the rails or the clock.           *)
Spec == Init /\ [][Next]_vars /\ \A t \in Tenants : WF_vars(Plan(t))

-----------------------------------------------------------------------------
(* The type invariant.  A recorded stage may be anything.                    *)
Ids == CycleSet \X Nat \X {"debit", "notice"}
ActionRows == [state : {"pending", "done", "cancelled"}, fire_at : Int]
PageRows == [cycle : CycleSet, used : Nat, arm : {"treatment", "holdout", "excluded"}]
Instants == Nat \cup {Null}
Promotions == [tenant : Tenants, to : Stage, shown : BOOLEAN]
CycleRows == [state : {"executing", "succeeded"}, used : Nat, pdn_sent_at : Instants]

TypeOK ==
    /\ now \in 0 .. MaxTime
    /\ cycle \in [CycleSet -> CycleRows]
    /\ failures \in [CycleSet -> Nat]
    /\ fires \in [CycleSet -> Nat]
    /\ DOMAIN actions \subseteq Ids
    /\ actions \in [DOMAIN actions -> ActionRows]
    /\ page \in [Tenants -> [fires : BOOLEAN, decided_at : Nat, rows : SUBSET PageRows] \cup {Null}]
    /\ \A t \in Tenants : page[t] # Null => IsFiniteSet(page[t].rows)
    /\ cursor \in [Tenants -> Nat]
    /\ roster \subseteq Tenants \cup {Platform}
    /\ firing # Null => /\ firing \in [action : Ids, at : Nat, staged : BOOLEAN]
                        /\ firing.action \in DOMAIN actions /\ firing.at <= now
    /\ DOMAIN stage = Tenants
    /\ stopped \subseteq Tenants \cup {Platform}
    /\ stopped_mandates \in [CycleSet -> Nat]
    /\ platformRow \in BOOLEAN
    /\ promoting \in [Operators -> Promotions \cup {Null}]
    /\ acts \in 0 .. MaxActs
    /\ ordered \subseteq CycleSet \cup Tenants \cup {Platform}
    /\ byHand \subseteq Tenants /\ audited \subseteq Tenants
    /\ told \in [CycleSet -> Instants]

(* A cycle never has two debits queued, however its count of attempts is     *)
(* rewritten while the first is waiting.                                     *)
OneDebitInFlight ==
    \A c \in CycleSet : Cardinality({a \in InFlight(c) : a[3] = "debit"}) <= 1

(* A debit fires only when the customer was told of it, the lead before.     *)
TellsThenDebits ==
    [][\A c \in CycleSet : fires'[c] # fires[c] =>
        told[c] # Null /\ told[c] + Lead <= now]_vars

(* A stop, of a tenant or of a mandate, lets no debit through but the one    *)
(* for which the executor had already read the switch: what fires it had     *)
(* taken up, and of a scope ordered to stop it takes up nothing until the    *)
(* last word is to resume.  And nothing but a stop kills: a debit that it    *)
(* has not taken up, of a cycle still executing, is cancelled only while its *)
(* scope is ordered to stop, in whatever order and however often the two     *)
(* switches were thrown.                                                     *)
Scopes(c) == {TenantOf[c], c}
Cancelled(a) == actions[a].state = "pending" /\ actions'[a].state = "cancelled"

StopsAreObeyed ==
    [][/\ \A c \in CycleSet : fires'[c] # fires[c] => firing # Null /\ firing.action[1] = c
       /\ firing = Null /\ firing' # Null => Scopes(firing'.action[1]) \cap ordered = {}
       /\ \A a \in DOMAIN actions :
            a[3] = "debit" /\ Cancelled(a) /\ cycle'[a[1]].state = "executing"
                => firing # Null \/ Scopes(a[1]) \cap ordered # {}]_vars

(* No debit of a tenant whose stage nobody set to one that fires is fired    *)
(* before its shadow stage was left with an audit and no gate error, though  *)
(* promotions overtake each other, roll-backs and the planner.               *)
FiresOnEvidence ==
    \A c \in CycleSet : fires[c] > 0 => TenantOf[c] \in byHand \cup audited

(* Within each share the control arm is a true sample of it; from RAMP on a  *)
(* mandate that is treated, or held out, stays so at the next stage.         *)
ArmsHold ==
    [s \in Stage |->
        \A d \in {0, BEHAVIOUR[s].mandate_share - 1} \cap Draws : d < BEHAVIOUR[s].mandate_share =>
            /\ Cardinality({h \in Draws : arm_for(s, d, h) = "holdout"})
                    = BEHAVIOUR[s].holdout_pct
            /\ s = RAMP => \A h \in Draws : arm_for(FULL, d, h) = arm_for(RAMP, d, h)]

CohortsAreStable == \A t \in Tenants : ArmsHold[current_stage(stage[t])]

(* A treated cycle that could be queued is queued in the end, or lost its    *)
(* chance, or its tenant has a cycle that is considered in vain.  Cycles of  *)
(* the other arms ahead of it are no obstacle.                               *)
IdTaken(c) == <<c, cycle[c].used, "debit">> \in DOMAIN actions
Treated(c) == /\ c \in Candidates(TenantOf[c])
              /\ may_fire(current_stage(stage[TenantOf[c]]))
              /\ Arm(TenantOf[c], c) = "treatment"
InVain(t) == \E c \in OfTenant(t) : Treated(c) /\ (c \notin Worthwhile \/ IdTaken(c))
Waits(c) == Treated(c) /\ c \in Worthwhile /\ ~IdTaken(c)

TreatedIsQueued ==
    \A c \in CycleSet : Waits(c) ~> (~Waits(c) \/ InVain(TenantOf[c]))

(* killswitch.py: the platform stop is one row, so that it cannot be         *)
(* half-applied.                                                             *)
PlatformStopIsWhole ==
    [][\A c \in CycleSet : fires'[c] # fires[c] => Platform \notin stopped]_vars

-----------------------------------------------------------------------------
(* The inductive invariant behind the safety properties.                     *)

(* What a planner is about to queue it read at once, for cycles of its       *)
(* tenant that nobody else queues for: their attempts have one number each,  *)
(* and nothing has come to be in flight since.                               *)
PlanInv ==
    /\ \A t \in Tenants : page[t] # Null => \A r \in page[t].rows :
          /\ TenantOf[r.cycle] = t
          /\ InFlight(r.cycle) = {}
          /\ \A q \in page[t].rows : q.cycle = r.cycle => q.used = r.used
    /\ \A a, b \in DOMAIN actions :
          a[1] = b[1] /\ a[3] = "debit" /\ b[3] = "debit"
            /\ actions[a].state = "pending" /\ actions[b].state = "pending" => a = b

(* pdn_sent_at is what the customer was really told.                         *)
ToldInv == \A c \in CycleSet : cycle[c].pdn_sent_at = told[c]

(* The switches are the orders.                                              *)
SwitchInv ==
    /\ \A t \in Tenants : t \in stopped <=> t \in ordered
    /\ \A c \in CycleSet : stopped_mandates[c] > 0 <=> c \in ordered

(* A tenant whose recorded stage fires, or is about to be promoted beyond    *)
(* CANARY, was let in by hand or by an audit; one about to enter CANARY      *)
(* shows the audit.                                                          *)
EvidenceInv ==
    /\ \A t \in Tenants : may_fire(current_stage(stage[t])) => t \in byHand \cup audited
    /\ \A o \in Operators : promoting[o] # Null =>
          /\ promoting[o].to > CANARY => promoting[o].tenant \in byHand \cup audited
          /\ promoting[o].to = CANARY => promoting[o].shown
    /\ firing # Null /\ firing.staged => TenantOf[firing.action[1]] \in byHand \cup audited
    /\ FiresOnEvidence

IInv == TypeOK /\ PlanInv /\ ToldInv /\ SwitchInv /\ EvidenceInv
=============================================================================
