--------------------------- MODULE SchedulingProofs ---------------------------
(***************************************************************************)
(* What the planner, the executor's ticks and the operators guarantee      *)
(* together, for any tenants, cycles, pages, budgets and clocks.           *)
(***************************************************************************)
EXTENDS Scheduling, FiniteSetTheorems, TLAPS

(* The lists of the constants are finite.                                    *)
LEMMA CyclesFinite == IsFiniteSet(CycleSet)
<1> DEFINE n == Len(Cycles)
           f == [i \in 1 .. n |-> Cycles[i]]
<1>1. n \in Nat /\ DOMAIN Cycles = 1 .. n
  BY ListAssumption
<1>2. f \in Surjection(1 .. n, CycleSet)
  BY <1>1 DEF Surjection, CycleSet
<1>3. IsFiniteSet(1 .. n)
  BY <1>1, FS_Interval
<1> QED
  BY <1>2, <1>3, FS_Surjection

(* The table of the stages, row by row.                                      *)
LEMMA Behaviours ==
    ASSUME NEW s \in Stage
    PROVE  /\ may_fire(s) <=> s \in {CANARY, RAMP, FULL}
           /\ may_fire(s) \in BOOLEAN
           /\ BEHAVIOUR[s].mandate_share = CASE s = CANARY -> 1 [] s = RAMP -> 10
                                              [] s = FULL -> 100 [] OTHER -> 0
           /\ BEHAVIOUR[s].holdout_pct = IF s \in {RAMP, FULL} THEN 15 ELSE 0
<1> USE DEF OBSERVE, CANARY, RAMP, FULL
<1>1. s \in {0, 1, 2, 3, 4}
  BY DEF Stage
<1>2. BEHAVIOUR[s] = [decides |-> s # OBSERVE, fires |-> s >= CANARY,
                      mandate_share |-> CASE s = CANARY -> 1 [] s = RAMP -> 10
                                          [] s = FULL -> 100 [] OTHER -> 0,
                      holdout_pct |-> IF s >= RAMP THEN 15 ELSE 0]
  BY DEF BEHAVIOUR
<1>3. may_fire(s) = (s >= CANARY)
  BY <1>2 DEF may_fire
<1>7. may_fire(s) \in BOOLEAN
  <2>1. (s >= CANARY) = TRUE \/ (s >= CANARY) = FALSE
    BY <1>1
  <2> QED
    BY <1>3, <2>1, Zenon
<1>8. may_fire(s) <=> s >= CANARY
  BY <1>3, Zenon
<1>6. may_fire(s) <=> s \in {CANARY, RAMP, FULL}
  <2> HIDE DEF may_fire
  <2>1. s >= 2 <=> s \in {2, 3, 4}
    BY <1>1
  <2> QED
    BY <1>8, <2>1
<1>4. BEHAVIOUR[s].holdout_pct = IF s >= RAMP THEN 15 ELSE 0
  BY <1>2
<1>5. BEHAVIOUR[s].mandate_share = CASE s = CANARY -> 1 [] s = RAMP -> 10
                                     [] s = FULL -> 100 [] OTHER -> 0
  BY <1>2
<1> QED
  BY <1>1, <1>4, <1>5, <1>6, <1>7

LEMMA StageRead == ASSUME NEW recorded PROVE current_stage(recorded) \in Stage
  BY DEF current_stage, Stage, OBSERVE

LEMMA ArmType ==
    ASSUME NEW s \in Stage, NEW d \in Draws, NEW h \in Draws
    PROVE  arm_for(s, d, h) \in {"treatment", "holdout", "excluded"}
<1>1. BEHAVIOUR[s].mandate_share \in Int
  BY Behaviours
<1> QED
  BY <1>1 DEF arm_for, Draws

(* A page is a part of what was found, and of a finite one a finite part.    *)
LEMMA PageRowsType ==
    ASSUME TypeOK, NEW t \in Tenants, PlanRead(t)
    PROVE  /\ page' = [page EXCEPT ![t] = page'[t]]
           /\ page'[t] \in [fires : BOOLEAN, decided_at : Nat, rows : SUBSET PageRows]
           /\ IsFiniteSet(page'[t].rows)
           /\ \A r \in page'[t].rows : /\ r.cycle \in Candidates(t)
                                       /\ r.used = cycle[r.cycle].used
<1> DEFINE s == current_stage(stage[t])
           found == Rows(Candidates(t), cursor[t], PAGE)
           row(c) == [cycle |-> c, used |-> cycle[c].used, arm |-> Arm(t, c)]
           rows == IF may_decide(s) THEN {row(c) : c \in found} ELSE {}
<1>1. page' = [page EXCEPT ![t] = [fires |-> may_fire(s), decided_at |-> now, rows |-> rows]]
  BY DEF PlanRead
<1>2. found \subseteq Candidates(t) /\ Candidates(t) \subseteq CycleSet
  BY DEF Rows, Candidates, OfTenant
<1>3. IsFiniteSet(found)
  BY <1>2, CyclesFinite, FS_Subset
<1>4. IsFiniteSet({row(c) : c \in found})
  <2> DEFINE f == [c \in found |-> row(c)]
  <2>1. f \in Surjection(found, {row(c) : c \in found})
    BY DEF Surjection
  <2> QED
    BY <1>3, <2>1, FS_Surjection
<1>5. \A c \in CycleSet : row(c) \in PageRows
  <2>1. ASSUME NEW c \in CycleSet PROVE Arm(t, c) \in {"treatment", "holdout", "excluded"}
    <3>1. ShareDraw[c] \in Draws /\ HoldoutDraw[c] \in Draws
      BY DrawAssumption
    <3> QED
      BY <3>1, StageRead, ArmType DEF Arm
  <2> QED
    BY <2>1 DEF TypeOK, PageRows, CycleRows
<1>6. may_fire(s) \in BOOLEAN
  BY StageRead, Behaviours
<1>7. rows \in SUBSET PageRows /\ IsFiniteSet(rows)
  BY <1>2, <1>4, <1>5, FS_EmptySet
<1>8. \A r \in rows : r.cycle \in Candidates(t) /\ r.used = cycle[r.cycle].used
  BY <1>2
<1> HIDE DEF rows
<1>9. page'[t] = [fires |-> may_fire(s), decided_at |-> now, rows |-> rows]
  BY <1>1 DEF TypeOK
<1> QED
  BY <1>1, <1>6, <1>7, <1>8, <1>9, TimeAssumption DEF TypeOK

(* What a planner's commit adds to the queue, and that it adds nothing else. *)
LEMMA PlanWritten ==
    ASSUME TypeOK, NEW t \in Tenants, PlanWrite(t)
    PROVE  /\ page[t] \in [fires : BOOLEAN, decided_at : Nat, rows : SUBSET PageRows]
           /\ IsFiniteSet(page[t].rows)
           /\ Queued(page[t]) \subseteq page[t].rows
           /\ PlannedIds(page[t]) \subseteq Ids
           /\ DOMAIN actions' = DOMAIN actions \cup PlannedIds(page[t])
           /\ actions' \in [DOMAIN actions' -> ActionRows]
           /\ \A a \in DOMAIN actions : actions'[a] = actions[a]
           /\ \A a \in PlannedIds(page[t]) : \E r \in Queued(page[t]) :
                 a[1] = r.cycle /\ a[2] = r.used /\ a \in Ids
<1> DEFINE p == page[t]
<1>1. p \in [fires : BOOLEAN, decided_at : Nat, rows : SUBSET PageRows] /\ IsFiniteSet(p.rows)
  BY DEF TypeOK, PlanWrite
<1>2. Queued(p) \subseteq p.rows
  BY DEF Queued, Considered
<1>3. PICK slot \in [Planned(p) -> Slots], send \in [Planned(p) -> 0 .. MaxTime] :
         actions' = Inserted(p, slot, send)
  BY DEF PlanWrite
<1>4. \A a \in PlannedIds(p) : \E r \in Queued(p) : a[1] = r.cycle /\ a[2] = r.used /\ a \in Ids
  BY <1>1, <1>2 DEF PlannedIds, Ids, PageRows
<1>5. PlannedIds(p) \subseteq Ids
  BY <1>4
<1>6. \A a \in PlannedIds(p) : a[1] \in Planned(p)
  BY <1>4 DEF Planned
<1>15. p.decided_at \in Nat /\ Slots \subseteq Nat /\ MaxTime \in Nat
  BY <1>1, TimeAssumption
<1> HIDE DEF p
<1>7. \A c \in Planned(p) : p.decided_at + slot[c] \in Int /\ send[c] \in Int
  <2> TAKE c \in Planned(p)
  <2>1. slot[c] \in Slots /\ send[c] \in 0 .. MaxTime
    BY <1>3
  <2>2. slot[c] \in Nat
    BY <1>15, <2>1, Zenon
  <2>4. \A i \in 0 .. MaxTime : i \in Int
    OBVIOUS
  <2>3. \A n, m \in Nat : n + m \in Int
    OBVIOUS
  <2> QED
    BY <1>15, <2>1, <2>2, <2>3, <2>4, Zenon
<1>8. DOMAIN actions' = DOMAIN actions \cup PlannedIds(p)
  BY <1>3 DEF Inserted
<1>9. \A a \in DOMAIN actions : actions'[a] = actions[a]
  BY <1>3 DEF Inserted
<1>10. ASSUME NEW a \in PlannedIds(p), a \notin DOMAIN actions PROVE actions'[a] \in ActionRows
  <2>1. actions'[a] = [state |-> "pending",
                       fire_at |-> IF a[3] = "debit" THEN p.decided_at + slot[a[1]]
                                   ELSE send[a[1]]]
    BY <1>3, <1>10 DEF Inserted
  <2> QED
    BY <2>1, <1>6, <1>7 DEF ActionRows
<1>11. actions' = [a \in DOMAIN actions' |-> actions'[a]]
  BY <1>3 DEF Inserted
<1>13. \A a \in DOMAIN actions : actions'[a] \in ActionRows
  BY <1>9 DEF TypeOK
<1>14. \A a \in DOMAIN actions' : actions'[a] \in ActionRows
  BY <1>8, <1>10, <1>13
<1>12. actions' \in [DOMAIN actions' -> ActionRows]
  BY <1>11, <1>14, Zenon
<1> QED
  BY <1>1, <1>2, <1>4, <1>5, <1>8, <1>9, <1>12 DEF p

(* Releasing an action changes its state and nothing else of the queue.      *)
LEMMA ReleaseType ==
    ASSUME TypeOK, NEW a \in DOMAIN actions, NEW how \in {"done", "cancelled"}, Release(a, how)
    PROVE  /\ DOMAIN actions' = DOMAIN actions
           /\ DOMAIN actions \subseteq Ids
           /\ actions' \in [DOMAIN actions -> ActionRows]
           /\ actions'[a].state = how
           /\ \A b \in DOMAIN actions \ {a} : actions'[b] = actions[b]
<1>1. actions[a] \in ActionRows
  BY DEF TypeOK
<1>2. [actions[a] EXCEPT !.state = how] \in ActionRows
  BY <1>1 DEF ActionRows
<1>3. [actions[a] EXCEPT !.state = how].state = how
  BY <1>1 DEF ActionRows
<1>4. actions' = [actions EXCEPT ![a] = [actions[a] EXCEPT !.state = how]]
  BY DEF Release
<1> QED
  BY <1>2, <1>3, <1>4 DEF TypeOK

(* The debit under way is one of the queue's.                                *)
LEMMA FiringType ==
    ASSUME TypeOK, firing # Null
    PROVE  /\ firing \in [action : Ids, at : Nat, staged : BOOLEAN]
           /\ firing.action \in DOMAIN actions /\ firing.action[1] \in CycleSet
           /\ firing.at \in Nat /\ firing.at <= now
  BY DEF TypeOK, Ids

(* A refusal only releases.                                                  *)
LEMMA Refusals ==
    ASSUME TypeOK, NEW a \in DOMAIN actions, KillDebit(a) \/ RefuseNotice(a)
    PROVE  Release(a, "cancelled") \/ Release(a, "done")
<1> DEFINE how == IF cycle[a[1]].pdn_sent_at # Null /\ cycle[a[1]].state = "executing"
                  THEN "done" ELSE "cancelled"
<1>1. how = "done" \/ how = "cancelled"
  OBVIOUS
<1>2. Release(a, how) \/ Release(a, "cancelled")
  BY DEF KillDebit, RefuseNotice
<1> HIDE DEF how
<1> QED
  BY <1>1, <1>2

(* What a change of one field makes of a cycle's row.                        *)
LEMMA CycleChange ==
    ASSUME cycle \in [CycleSet -> CycleRows], NEW c \in CycleSet
    PROVE  /\ \A s \in {"executing", "succeeded"} :
                 /\ [cycle EXCEPT ![c].state = s] \in [CycleSet -> CycleRows]
                 /\ [cycle EXCEPT ![c].state = s] =
                       [cycle EXCEPT ![c] = [cycle[c] EXCEPT !.state = s]]
           /\ \A n \in Nat :
                 /\ [cycle EXCEPT ![c].used = n] \in [CycleSet -> CycleRows]
                 /\ [cycle EXCEPT ![c].used = n] =
                       [cycle EXCEPT ![c] = [cycle[c] EXCEPT !.used = n]]
           /\ \A i \in Instants :
                 /\ [cycle EXCEPT ![c].pdn_sent_at = i] \in [CycleSet -> CycleRows]
                 /\ [cycle EXCEPT ![c].pdn_sent_at = i] =
                       [cycle EXCEPT ![c] = [cycle[c] EXCEPT !.pdn_sent_at = i]]
<1>1. cycle[c] \in CycleRows
  OBVIOUS
<1>2. \A s \in {"executing", "succeeded"} : [cycle[c] EXCEPT !.state = s] \in CycleRows
  BY <1>1 DEF CycleRows
<1>3. \A n \in Nat : [cycle[c] EXCEPT !.used = n] \in CycleRows
  BY <1>1 DEF CycleRows
<1>4. \A i \in Instants : [cycle[c] EXCEPT !.pdn_sent_at = i] \in CycleRows
  BY <1>1 DEF CycleRows
<1> HIDE DEF CycleRows
<1> QED
  BY <1>2, <1>3, <1>4

-----------------------------------------------------------------------------
(* The type invariant is inductive by itself.                                *)
LEMMA InitTyped == Init => TypeOK
<1> SUFFICES ASSUME Init PROVE TypeOK
  OBVIOUS
<1> USE DEF Init, TypeOK
<1>1. PICK config \in [Tenants -> InitialConfig] :
         /\ stage = [t \in Tenants |-> config[t].stage]
         /\ stopped_mandates = [c \in CycleSet |-> config[TenantOf[c]].stopped_mandates[c]]
         /\ stopped = {t \in Tenants : config[t].stopped}
         /\ cycle = [c \in CycleSet |->
                       [state |-> IF c \in config[TenantOf[c]].paid THEN "succeeded"
                                  ELSE "executing",
                        used |-> 1, pdn_sent_at |-> Null]]
  OBVIOUS
<1>2. stopped_mandates \in [CycleSet -> Nat]
  BY <1>1, ConfigAssumption, OwnerAssumption
<1>3. /\ cycle \in [CycleSet -> CycleRows]
      /\ told \in [CycleSet -> Instants]
  BY <1>1 DEF Instants, CycleRows
<1>4. /\ now \in 0 .. MaxTime /\ acts \in 0 .. MaxActs
      /\ failures \in [CycleSet -> Nat] /\ fires \in [CycleSet -> Nat]
  BY TimeAssumption, CountAssumption
<1>5. DOMAIN actions \subseteq Ids /\ actions \in [DOMAIN actions -> ActionRows]
  OBVIOUS
<1>6. DOMAIN stage = Tenants /\ stopped \subseteq Tenants
  BY <1>1
<1>7. /\ ordered \subseteq CycleSet \cup Tenants \cup {Platform}
      /\ byHand \subseteq Tenants /\ audited \subseteq Tenants
  BY <1>6
<1>8. /\ page \in [Tenants -> [fires : BOOLEAN, decided_at : Nat, rows : SUBSET PageRows]
                                \cup {Null}]
      /\ \A t \in Tenants : page[t] # Null => IsFiniteSet(page[t].rows)
      /\ promoting \in [Operators -> Promotions \cup {Null}]
      /\ firing = Null
      /\ cursor \in [Tenants -> Nat]
      /\ roster \subseteq Tenants \cup {Platform} /\ platformRow \in BOOLEAN
  OBVIOUS
<1> QED
  BY <1>2, <1>3, <1>4, <1>5, <1>6, <1>7, <1>8

LEMMA TypeStep == TypeOK /\ [Next]_vars => TypeOK'
<1> SUFFICES ASSUME TypeOK, [Next]_vars PROVE TypeOK'
  OBVIOUS
<1> USE PlannerAssumption, TimeAssumption, CountAssumption
<1> USE DEF TypeOK, vars, planVars, configVars, cycleVars, tickVars
<1>1. ASSUME NEW t \in Tenants, PlanRead(t) PROVE TypeOK'
  <2>1. /\ page' = [page EXCEPT ![t] = page'[t]]
        /\ page'[t] \in [fires : BOOLEAN, decided_at : Nat, rows : SUBSET PageRows]
        /\ IsFiniteSet(page'[t].rows)
    BY <1>1, PageRowsType
  <2>2. UNCHANGED <<now, cycleVars, actions, cursor, tickVars, configVars, told>>
    BY <1>1 DEF PlanRead
  <2>3. /\ page' \in [Tenants -> [fires : BOOLEAN, decided_at : Nat, rows : SUBSET PageRows]
                                    \cup {Null}]
        /\ \A u \in Tenants : page'[u] # Null => IsFiniteSet(page'[u].rows)
    BY <2>1
  <2> QED
    BY <2>2, <2>3
<1>2. ASSUME NEW t \in Tenants, PlanWrite(t) PROVE TypeOK'
  <2>1. /\ DOMAIN actions' \subseteq Ids /\ actions' \in [DOMAIN actions' -> ActionRows]
        /\ DOMAIN actions \subseteq DOMAIN actions'
    BY <1>2, PlanWritten
  <2>2. IsFiniteSet(page[t].rows)
    BY <1>2, PlanWritten
  <2>7. cursor' \in [Tenants -> Nat]
    <3>1. Cardinality(page[t].rows) \in Nat
      BY <2>2, FS_CardinalityType
    <3>2. NextOffset(page[t], cursor[t]) \in Nat
      BY <3>1 DEF NextOffset
    <3> QED
      BY <1>2, <3>2 DEF PlanWrite
  <2>8. /\ page' = [page EXCEPT ![t] = Null]
        /\ UNCHANGED <<now, cycleVars, tickVars, configVars, told>>
    BY <1>2 DEF PlanWrite
  <2> QED
    BY <2>1, <2>7, <2>8
<1>3. CASE TickStarts
  BY <1>3 DEF TickStarts, active_tenants
<1>4. CASE TenantDrained
  BY <1>4 DEF TenantDrained
<1>5. ASSUME NEW a \in DOMAIN actions, KillDebit(a) \/ RefuseNotice(a) PROVE TypeOK'
  <2>1. Release(a, "cancelled") \/ Release(a, "done")
    BY <1>5, Refusals
  <2>2. /\ DOMAIN actions' \subseteq Ids /\ actions' \in [DOMAIN actions' -> ActionRows]
        /\ DOMAIN actions' = DOMAIN actions
    BY <2>1, ReleaseType
  <2>3. UNCHANGED <<now, cycleVars, planVars, tickVars, configVars, told>>
    BY <1>5 DEF KillDebit, RefuseNotice
  <2> QED
    BY <2>2, <2>3
<1>13. ASSUME NEW a \in DOMAIN actions, TakeUpDebit(a) PROVE TypeOK'
  <2>1. /\ firing' = [action |-> a, at |-> now, staged |-> FALSE]
        /\ UNCHANGED <<now, cycleVars, actions, planVars, roster, configVars, told>>
    BY <1>13 DEF TakeUpDebit
  <2>2. a \in Ids /\ now \in Nat
    OBVIOUS
  <2> QED
    BY <2>1, <2>2
<1>14. CASE StageAllows
  <2>1. /\ firing' = [firing EXCEPT !.staged = TRUE]
        /\ UNCHANGED <<now, cycleVars, actions, planVars, roster, configVars, told>>
    BY <1>14 DEF StageAllows
  <2>2. firing # Null
    BY <1>14 DEF StageAllows
  <2> QED
    BY <2>1, <2>2, FiringType
<1>15. CASE RefuseDebit
  <2>1. /\ Release(firing.action, "cancelled") /\ firing' = Null
        /\ UNCHANGED <<now, cycleVars, planVars, roster, configVars, told>>
        /\ firing.action \in DOMAIN actions
    BY <1>15, FiringType DEF RefuseDebit
  <2>2. DOMAIN actions' \subseteq Ids /\ actions' \in [DOMAIN actions' -> ActionRows]
    BY <2>1, ReleaseType
  <2> QED
    BY <2>1, <2>2
<1>6. CASE FireDebit
  <2> DEFINE c == firing.action[1]
  <2>2. c \in CycleSet /\ firing.action \in DOMAIN actions
    BY <1>6, FiringType DEF FireDebit
  <2>3. /\ cycle' = [cycle EXCEPT ![c].used = @ + 1]
        /\ fires' = [fires EXCEPT ![c] = @ + 1]
        /\ Release(firing.action, "done") /\ firing' = Null
        /\ UNCHANGED <<now, failures, planVars, roster, configVars, told>>
    BY <1>6 DEF FireDebit
  <2> HIDE DEF c
  <2>1. DOMAIN actions' \subseteq Ids /\ actions' \in [DOMAIN actions' -> ActionRows]
    BY <2>2, <2>3, ReleaseType
  <2>6. cycle[c].used + 1 \in Nat
    BY <2>2 DEF CycleRows
  <2>4. cycle' \in [CycleSet -> CycleRows]
    BY <2>2, <2>3, <2>6, CycleChange
  <2>5. fires' \in [CycleSet -> Nat]
    BY <2>2, <2>3
  <2> QED
    BY <2>1, <2>3, <2>4, <2>5
<1>7. ASSUME NEW a \in DOMAIN actions, SendNotice(a) PROVE TypeOK'
  <2>1. /\ DOMAIN actions' \subseteq Ids /\ actions' \in [DOMAIN actions' -> ActionRows]
        /\ DOMAIN actions' = DOMAIN actions
    BY <1>7, ReleaseType DEF SendNotice
  <2>2. a[1] \in CycleSet /\ now \in Instants
    BY DEF Ids, Instants
  <2>3. /\ cycle' = [cycle EXCEPT ![a[1]].pdn_sent_at = now]
        /\ told' = [told EXCEPT ![a[1]] = now]
        /\ UNCHANGED <<now, failures, fires, planVars, tickVars, configVars>>
    BY <1>7 DEF SendNotice
  <2>4. cycle' \in [CycleSet -> CycleRows]
    BY <2>2, <2>3, CycleChange
  <2>5. told' \in [CycleSet -> Instants]
    BY <2>2, <2>3
  <2> QED
    BY <2>1, <2>3, <2>4, <2>5
<1>8. ASSUME NEW c \in CycleSet, Paid(c) PROVE TypeOK'
  <2>1. cycle' \in [CycleSet -> CycleRows]
    BY <1>8, CycleChange DEF Paid
  <2>2. /\ DOMAIN actions' \subseteq Ids /\ actions' \in [DOMAIN actions' -> ActionRows]
        /\ DOMAIN actions' = DOMAIN actions
    <3>1. \A a \in DOMAIN actions : [actions[a] EXCEPT !.state = "cancelled"] \in ActionRows
      BY DEF ActionRows
    <3> QED
      BY <1>8, <3>1 DEF Paid
  <2>3. UNCHANGED <<now, failures, fires, planVars, tickVars, configVars, told>>
    BY <1>8 DEF Paid
  <2> QED
    BY <2>1, <2>2, <2>3
<1>9. ASSUME NEW c \in CycleSet, Failed(c) PROVE TypeOK'
  <2>1. failures[c] + 1 \in Nat
    OBVIOUS
  <2>2. cycle' \in [CycleSet -> CycleRows] /\ failures' \in [CycleSet -> Nat]
    BY <1>9, <2>1, CycleChange DEF Failed
  <2> QED
    BY <1>9, <2>2 DEF Failed
<1>10. CASE Tick
  BY <1>10 DEF Tick
<1>11. CASE Operate
  <2>1. ASSUME NEW t \in Tenants, StopTenant(t) PROVE TypeOK'
    BY <2>1 DEF StopTenant, Act
  <2>2. ASSUME NEW c \in CycleSet, StopMandate(c) PROVE TypeOK'
    BY <2>2 DEF StopMandate, Act
  <2>8. ASSUME NEW c \in CycleSet, ResumeMandate(c) PROVE TypeOK'
    BY <2>8 DEF ResumeMandate, Without, Act
  <2>3. ASSUME NEW scope \in Tenants \cup {Platform}, Resume(scope) PROVE TypeOK'
    BY <2>3 DEF Resume, Act
  <2>4. ASSUME NEW t \in Tenants, NEW s \in ByHand, set_stage(t, s) PROVE TypeOK'
    BY <2>4 DEF set_stage, Act
  <2>5. ASSUME NEW o \in Operators, NEW t \in Tenants, NEW e \in Evidences, PromoteRead(o, t, e)
        PROVE  TypeOK'
    <3> DEFINE s == current_stage(stage[t])
    <3>1. s \in Stage /\ s # FULL
      BY <2>5 DEF PromoteRead, can_advance, current_stage, OBSERVE, Stage
    <3>2. s + 1 \in Stage
      BY <3>1 DEF Stage, FULL
    <3>3. promoting' = [promoting EXCEPT ![o] =
                           [tenant |-> t, to |-> s + 1, shown |-> ShowsAudit(s, e)]]
      BY <2>5 DEF PromoteRead
    <3>4. ShowsAudit(s, e) \in BOOLEAN
      BY DEF ShowsAudit
    <3> HIDE DEF s
    <3>5. [tenant |-> t, to |-> s + 1, shown |-> ShowsAudit(s, e)] \in Promotions
      BY <3>2, <3>4 DEF Promotions
    <3> HIDE DEF Promotions
    <3>6. promoting' \in [Operators -> Promotions \cup {Null}]
      BY <3>3, <3>5
    <3> QED
      BY <2>5, <3>6 DEF PromoteRead, Act
  <2>6. ASSUME NEW o \in Operators, PromoteWrite(o) PROVE TypeOK'
    <3>1. promoting[o].tenant \in Tenants /\ promoting' = [promoting EXCEPT ![o] = Null]
      BY <2>6 DEF PromoteWrite, Promotions
    <3> HIDE DEF Promotions
    <3> QED
      BY <2>6, <3>1 DEF PromoteWrite
  <2>7. CASE StopPlatform
    BY <2>7 DEF StopPlatform, Act
  <2> QED
    BY <1>11, <2>1, <2>2, <2>3, <2>4, <2>5, <2>6, <2>7, <2>8 DEF Operate
<1>12. CASE UNCHANGED vars
  BY <1>12
<1> QED
  BY <1>1, <1>2, <1>3, <1>4, <1>5, <1>6, <1>7, <1>8, <1>9, <1>10, <1>11, <1>12,
     <1>13, <1>14, <1>15
     DEF Next, Plan, Execute

-----------------------------------------------------------------------------
(* Which steps touch what: only a planner adds to the queue, only what was   *)
(* taken up is fired, and only operators order.                              *)
LEMMA QueueSteps ==
    ASSUME TypeOK, [Next]_vars
    PROVE  \/ \E t \in Tenants : PlanRead(t)
           \/ \E t \in Tenants : PlanWrite(t)
           \/ /\ page' = page
              /\ DOMAIN actions' = DOMAIN actions
              /\ \A a \in DOMAIN actions :
                    actions'[a].state = "pending" => actions[a].state = "pending"
<1> DEFINE Shrinks == /\ page' = page
                      /\ DOMAIN actions' = DOMAIN actions
                      /\ \A a \in DOMAIN actions :
                            actions'[a].state = "pending" => actions[a].state = "pending"
<1>1. ASSUME page' = page, actions' = actions PROVE Shrinks
  BY <1>1
<1>2. ASSUME NEW a \in DOMAIN actions, NEW how \in {"done", "cancelled"}, Release(a, how),
             page' = page
      PROVE  Shrinks
  <2>1. /\ DOMAIN actions' = DOMAIN actions
        /\ actions'[a].state = how
        /\ \A b \in DOMAIN actions \ {a} : actions'[b] = actions[b]
    BY <1>2, ReleaseType
  <2> QED
    BY <1>2, <2>1
<1>3. ASSUME NEW a \in DOMAIN actions, KillDebit(a) \/ RefuseNotice(a) \/ SendNotice(a)
      PROVE  Shrinks
  <2>1. page' = page
    BY <1>3 DEF KillDebit, RefuseNotice, SendNotice, planVars
  <2>2. Release(a, "done") \/ Release(a, "cancelled")
    BY <1>3, Refusals DEF SendNotice
  <2> QED
    BY <1>2, <2>1, <2>2
<1>9. ASSUME RefuseDebit \/ FireDebit PROVE Shrinks
  <2>1. page' = page /\ firing.action \in DOMAIN actions
    BY <1>9, FiringType DEF RefuseDebit, FireDebit, planVars
  <2>2. Release(firing.action, "done") \/ Release(firing.action, "cancelled")
    BY <1>9 DEF RefuseDebit, FireDebit
  <2> QED
    BY <1>2, <2>1, <2>2
<1>10. ASSUME NEW a, TakeUpDebit(a) \/ StageAllows PROVE Shrinks
  BY <1>1, <1>10 DEF TakeUpDebit, StageAllows, planVars
<1>4. ASSUME NEW c \in CycleSet, Paid(c) PROVE Shrinks
  <2>1. /\ page' = page
        /\ actions' = [a \in DOMAIN actions |->
                          IF a \in InFlight(c) THEN [actions[a] EXCEPT !.state = "cancelled"]
                          ELSE actions[a]]
    BY <1>4 DEF Paid, planVars
  <2>2. \A a \in DOMAIN actions : a \in InFlight(c) => actions[a].state = "pending"
    BY DEF InFlight
  <2> QED
    BY <2>1, <2>2
<1>5. ASSUME NEW c \in CycleSet, Failed(c) PROVE Shrinks
  BY <1>1, <1>5 DEF Failed, planVars
<1>6. TickStarts \/ TenantDrained \/ Tick \/ UNCHANGED vars => Shrinks
  BY <1>1 DEF TickStarts, TenantDrained, Tick, planVars, vars
<1>7. Operate => page' = page /\ actions' = actions
  BY DEF Operate, StopTenant, PromoteWrite, set_stage, PromoteRead, StopMandate, ResumeMandate,
         StopPlatform, Resume, planVars
<1> HIDE DEF Shrinks
<1>8. Shrinks \/ \E t \in Tenants : PlanRead(t) \/ PlanWrite(t)
  BY <1>1, <1>3, <1>4, <1>5, <1>6, <1>7, <1>9, <1>10 DEF Next, Plan, Execute
<1> QED
  BY <1>8 DEF Shrinks

LEMMA CycleSteps ==
    ASSUME TypeOK, [Next]_vars
    PROVE  \/ UNCHANGED <<cycle, fires, told>>
           \/ FireDebit \/ \E a \in DOMAIN actions : SendNotice(a)
           \/ \E c \in CycleSet : Paid(c) \/ Failed(c)
<1> USE DEF cycleVars
<1>1. \A t \in Tenants : Plan(t) => UNCHANGED <<cycle, fires, told>>
  BY DEF Plan, PlanRead, PlanWrite
<1>2. \A a \in DOMAIN actions :
        KillDebit(a) \/ TakeUpDebit(a) \/ RefuseNotice(a) => UNCHANGED <<cycle, fires, told>>
  BY DEF KillDebit, TakeUpDebit, RefuseNotice
<1>5. StageAllows \/ RefuseDebit => UNCHANGED <<cycle, fires, told>>
  BY DEF StageAllows, RefuseDebit
<1>3. TickStarts \/ TenantDrained \/ Tick \/ UNCHANGED vars => UNCHANGED <<cycle, fires, told>>
  BY DEF TickStarts, TenantDrained, Tick, vars
<1>4. Operate => UNCHANGED <<cycle, fires, told>>
  BY DEF Operate, StopTenant, PromoteWrite, set_stage, PromoteRead, StopMandate, ResumeMandate,
         StopPlatform, Resume
<1> QED
  BY <1>1, <1>2, <1>3, <1>4, <1>5 DEF Next, Execute

LEMMA ConfigSteps ==
    ASSUME [Next]_vars
    PROVE  Operate \/ UNCHANGED <<stage, stopped, stopped_mandates, promoting, ordered,
                                   byHand, audited>>
<1> USE DEF configVars
<1>1. \A t \in Tenants : Plan(t) => UNCHANGED configVars
  BY DEF Plan, PlanRead, PlanWrite
<1>2. Execute => UNCHANGED configVars
  BY DEF Execute, TickStarts, TenantDrained, KillDebit, TakeUpDebit, StageAllows, RefuseDebit,
         FireDebit, RefuseNotice, SendNotice
<1>3. \A c \in CycleSet : Paid(c) \/ Failed(c) => UNCHANGED configVars
  BY DEF Paid, Failed
<1>4. Tick \/ UNCHANGED vars => UNCHANGED configVars
  BY DEF Tick, vars
<1> HIDE DEF configVars
<1>5. Operate \/ UNCHANGED configVars
  BY <1>1, <1>2, <1>3, <1>4 DEF Next
<1> QED
  BY <1>5 DEF configVars

LEMMA FiringSteps ==
    ASSUME [Next]_vars
    PROVE  \/ firing' = firing
           \/ \E a \in DOMAIN actions : TakeUpDebit(a)
           \/ StageAllows \/ RefuseDebit \/ FireDebit
<1> USE DEF tickVars
<1>1. \A t \in Tenants : Plan(t) => firing' = firing
  BY DEF Plan, PlanRead, PlanWrite
<1>2. \A a \in DOMAIN actions :
        KillDebit(a) \/ RefuseNotice(a) \/ SendNotice(a) => firing' = firing
  BY DEF KillDebit, RefuseNotice, SendNotice
<1>3. \A c \in CycleSet : Paid(c) \/ Failed(c) => firing' = firing
  BY DEF Paid, Failed
<1>4. TickStarts \/ TenantDrained \/ Tick \/ UNCHANGED vars => firing' = firing
  BY DEF TickStarts, TenantDrained, Tick, vars
<1>5. Operate => firing' = firing
  BY DEF Operate, StopTenant, PromoteWrite, set_stage, PromoteRead, StopMandate, ResumeMandate,
         StopPlatform, Resume
<1> QED
  BY <1>1, <1>2, <1>3, <1>4, <1>5 DEF Next, Execute

(* Nothing is cancelled but by these.                                        *)
LEMMA CancelSteps ==
    ASSUME TypeOK, [Next]_vars, NEW a \in DOMAIN actions, Cancelled(a)
    PROVE  \/ firing # Null
           \/ \E b \in DOMAIN actions : KillDebit(b) \/ RefuseNotice(b) \/ SendNotice(b)
           \/ \E c \in CycleSet : Paid(c)
<1>1. actions' # actions /\ actions'[a] # actions[a]
  BY DEF Cancelled
<1>2. \A t \in Tenants : ~PlanRead(t) /\ ~PlanWrite(t)
  BY <1>1, PlanWritten DEF PlanRead
<1>3. ~TickStarts /\ ~TenantDrained /\ ~Tick /\ ~UNCHANGED vars
  BY <1>1 DEF TickStarts, TenantDrained, Tick, vars
<1>4. ~Operate
  BY <1>1 DEF Operate, StopTenant, PromoteWrite, set_stage, PromoteRead, StopMandate, ResumeMandate,
         StopPlatform, Resume
<1>5. \A c \in CycleSet : ~Failed(c)
  BY <1>1 DEF Failed
<1>6. \A b : ~TakeUpDebit(b)
  BY <1>1 DEF TakeUpDebit
<1>7. StageAllows \/ RefuseDebit \/ FireDebit => firing # Null
  BY DEF StageAllows, RefuseDebit, FireDebit
<1> QED
  BY <1>2, <1>3, <1>4, <1>5, <1>6, <1>7 DEF Next, Plan, Execute

-----------------------------------------------------------------------------
(* One debit in flight: between the two ends of a planner's transaction      *)
(* nothing else queues for the cycles it has read.                           *)
LEMMA PlanStep == TypeOK /\ PlanInv /\ [Next]_vars => PlanInv'
<1> SUFFICES ASSUME TypeOK, PlanInv, [Next]_vars PROVE PlanInv'
  OBVIOUS
<1>1. ASSUME NEW t \in Tenants, PlanRead(t) PROVE PlanInv'
  <2>1. /\ page' = [page EXCEPT ![t] = page'[t]]
        /\ \A r \in page'[t].rows : r.cycle \in Candidates(t) /\ r.used = cycle[r.cycle].used
    BY <1>1, PageRowsType
  <2>2. actions' = actions
    BY <1>1 DEF PlanRead
  <2>3. \A c \in Candidates(t) : TenantOf[c] = t /\ InFlight(c) = {}
    BY DEF Candidates, OfTenant
  <2>4. \A r \in page'[t].rows :
          /\ TenantOf[r.cycle] = t /\ InFlight(r.cycle) = {}
          /\ \A q \in page'[t].rows : q.cycle = r.cycle => q.used = r.used
    BY <2>1, <2>3
  <2>5. \A u \in Tenants : u # t => page'[u] = page[u]
    <3>1. DOMAIN page = Tenants
      BY DEF TypeOK
    <3> QED
      BY <1>1, <3>1 DEF PlanRead
  <2> QED
    BY <2>2, <2>4, <2>5 DEF PlanInv, InFlight
<1>2. ASSUME NEW t \in Tenants, PlanWrite(t) PROVE PlanInv'
  <2> DEFINE p == page[t]
             New == PlannedIds(p)
  <2>1. /\ Queued(p) \subseteq p.rows
        /\ DOMAIN actions' = DOMAIN actions \cup New
        /\ \A a \in DOMAIN actions : actions'[a] = actions[a]
        /\ \A a \in New : \E r \in Queued(p) : a[1] = r.cycle /\ a[2] = r.used /\ a \in Ids
    BY <1>2, PlanWritten
  <2>2. page[t] # Null /\ page' = [page EXCEPT ![t] = Null]
    BY <1>2 DEF PlanWrite
  <2>9. \A r \in Queued(p) : /\ TenantOf[r.cycle] = t /\ InFlight(r.cycle) = {}
                             /\ \A q \in Queued(p) : q.cycle = r.cycle => q.used = r.used
    BY <2>1, <2>2 DEF PlanInv
  <2>3. \A a \in New : TenantOf[a[1]] = t /\ InFlight(a[1]) = {}
    BY <2>1, <2>9
  <2>4. \A a, b \in New : a[1] = b[1] => a[2] = b[2]
    BY <2>1, <2>9
  <2>5. ASSUME NEW u \in Tenants, page'[u] # Null PROVE u # t /\ page'[u] = page[u]
    BY <2>2, <2>5 DEF TypeOK
  <2>6. ASSUME NEW u \in Tenants, u # t, NEW c, TenantOf[c] = u, InFlight(c) = {}
        PROVE  InFlight(c)' = {}
    BY <2>1, <2>3, <2>6 DEF InFlight
  <2>7. ASSUME NEW u \in Tenants, page'[u] # Null, NEW r \in page'[u].rows
        PROVE  /\ TenantOf[r.cycle] = u
               /\ InFlight(r.cycle)' = {}
               /\ \A q \in page'[u].rows : q.cycle = r.cycle => q.used = r.used
    <3>1. /\ TenantOf[r.cycle] = u /\ InFlight(r.cycle) = {}
          /\ \A q \in page'[u].rows : q.cycle = r.cycle => q.used = r.used
      BY <2>5, <2>7 DEF PlanInv
    <3> QED
      BY <2>5, <2>6, <2>7, <3>1
  <2>8. ASSUME NEW a \in DOMAIN actions', NEW b \in DOMAIN actions',
               a[1] = b[1], a[3] = "debit", b[3] = "debit",
               actions'[a].state = "pending", actions'[b].state = "pending"
        PROVE  a = b
    <3>1. CASE a \in DOMAIN actions /\ b \in DOMAIN actions
      BY <2>1, <2>8, <3>1 DEF PlanInv
    <3>2. CASE a \in New /\ b \in New
      <4>1. a[2] = b[2] /\ a \in Ids /\ b \in Ids
        BY <2>1, <2>4, <2>8, <3>2
      <4> QED
        BY <2>8, <4>1 DEF Ids
    <3>3. CASE a \in DOMAIN actions /\ b \in New
      BY <2>1, <2>3, <2>8, <3>3 DEF InFlight
    <3>4. CASE a \in New /\ b \in DOMAIN actions
      BY <2>1, <2>3, <2>8, <3>4 DEF InFlight
    <3> QED
      BY <2>1, <2>8, <3>1, <3>2, <3>3, <3>4
  <2> QED
    BY <2>7, <2>8 DEF PlanInv
<1>3. ASSUME page' = page, DOMAIN actions' = DOMAIN actions,
             \A a \in DOMAIN actions : actions'[a].state = "pending" => actions[a].state = "pending"
      PROVE  PlanInv'
  BY <1>3 DEF PlanInv, InFlight
<1> QED
  BY <1>1, <1>2, <1>3, QueueSteps

-----------------------------------------------------------------------------
(* The stamp of a notice is the telling.                                     *)
LEMMA ToldStep == TypeOK /\ ToldInv /\ [Next]_vars => ToldInv'
<1> SUFFICES ASSUME TypeOK, ToldInv, [Next]_vars PROVE ToldInv'
  OBVIOUS
<1>1. cycle \in [CycleSet -> CycleRows] /\ told \in [CycleSet -> Instants] /\ now \in Instants
  BY TimeAssumption DEF TypeOK, Instants
<1> USE DEF ToldInv
<1>2. ASSUME FireDebit PROVE ToldInv'
  <2> DEFINE c == firing.action[1]
  <2>1. c \in CycleSet /\ told' = told
    BY <1>2, FiringType DEF FireDebit
  <2>2. cycle' = [cycle EXCEPT ![c] = [cycle[c] EXCEPT !.used = cycle[c].used + 1]]
    BY <1>2 DEF FireDebit
  <2> HIDE DEF c
  <2> QED
    BY <1>1, <2>1, <2>2 DEF CycleRows
<1>3. ASSUME NEW a \in DOMAIN actions, SendNotice(a) PROVE ToldInv'
  <2>1. a[1] \in CycleSet
    BY DEF TypeOK, Ids
  <2>2. /\ cycle' = [cycle EXCEPT ![a[1]] = [cycle[a[1]] EXCEPT !.pdn_sent_at = now]]
        /\ told' = [told EXCEPT ![a[1]] = now]
    BY <1>3 DEF SendNotice
  <2>3. [cycle[a[1]] EXCEPT !.pdn_sent_at = now].pdn_sent_at = now
    BY <1>1, <2>1 DEF CycleRows
  <2> QED
    BY <1>1, <2>1, <2>2, <2>3
<1>4. ASSUME NEW c \in CycleSet, Paid(c) PROVE ToldInv'
  <2>1. /\ cycle' = [cycle EXCEPT ![c] = [cycle[c] EXCEPT !.state = "succeeded"]]
        /\ told' = told
    BY <1>4 DEF Paid
  <2> QED
    BY <1>1, <2>1 DEF CycleRows
<1>5. ASSUME NEW c \in CycleSet, Failed(c) PROVE ToldInv'
  <2>1. /\ cycle' = [cycle EXCEPT ![c] = [cycle[c] EXCEPT !.used = failures[c] + 1]]
        /\ told' = told
    BY <1>5 DEF Failed
  <2> QED
    BY <1>1, <2>1 DEF CycleRows
<1>6. CASE UNCHANGED <<cycle, fires, told>>
  BY <1>6
<1> QED
  BY <1>2, <1>3, <1>4, <1>5, <1>6, CycleSteps

-----------------------------------------------------------------------------
(* The switches and the operators' last word on each scope.                  *)
LEMMA SwitchStep == TypeOK /\ SwitchInv /\ [Next]_vars => SwitchInv'
<1> SUFFICES ASSUME TypeOK, SwitchInv, [Next]_vars PROVE SwitchInv'
  OBVIOUS
<1>1. Platform \notin Tenants /\ CycleSet \cap (Tenants \cup {Platform}) = {}
  BY ScopeAssumption DEF Tenants
<1>2. stopped_mandates \in [CycleSet -> Nat]
  BY DEF TypeOK
<1> USE DEF SwitchInv
<1>3. ASSUME NEW t \in Tenants, StopTenant(t) PROVE SwitchInv'
  BY <1>1, <1>3 DEF StopTenant
<1>4. ASSUME NEW c \in CycleSet, StopMandate(c) PROVE SwitchInv'
  <2>1. /\ stopped_mandates' = [stopped_mandates EXCEPT ![c] = stopped_mandates[c] + 1]
        /\ ordered' = ordered \cup {c} /\ stopped' = stopped
    BY <1>4 DEF StopMandate
  <2>2. stopped_mandates[c] + 1 > 0
    BY <1>2
  <2> QED
    BY <1>1, <1>2, <2>1, <2>2
<1>5. ASSUME NEW c \in CycleSet, ResumeMandate(c) PROVE SwitchInv'
  <2>1. /\ stopped_mandates' = [stopped_mandates EXCEPT ![c] = 0]
        /\ ordered' = ordered \ {c} /\ stopped' = stopped
    BY <1>5 DEF ResumeMandate, Without
  <2> QED
    BY <1>1, <1>2, <2>1
<1>6. ASSUME StopPlatform PROVE SwitchInv'
  BY <1>1, <1>6 DEF StopPlatform
<1>7. ASSUME NEW scope \in Tenants \cup {Platform}, Resume(scope) PROVE SwitchInv'
  BY <1>1, <1>7 DEF Resume
<1>8. ASSUME UNCHANGED <<stopped, stopped_mandates, ordered>> PROVE SwitchInv'
  BY <1>8
<1>9. ASSUME Operate PROVE SwitchInv'
  <2>1. \A o \in Operators : PromoteWrite(o) => UNCHANGED <<stopped, stopped_mandates, ordered>>
    BY DEF PromoteWrite
  <2>2. \A t \in Tenants, s \in ByHand :
          set_stage(t, s) => UNCHANGED <<stopped, stopped_mandates, ordered>>
    BY DEF set_stage
  <2>3. \A o \in Operators, t \in Tenants, e \in Evidences :
          PromoteRead(o, t, e) => UNCHANGED <<stopped, stopped_mandates, ordered>>
    BY DEF PromoteRead
  <2> QED
    BY <1>3, <1>4, <1>5, <1>6, <1>7, <1>8, <1>9, <2>1, <2>2, <2>3 DEF Operate
<1> QED
  BY <1>8, <1>9, ConfigSteps

-----------------------------------------------------------------------------
(* How a tenant comes to a stage that fires.                                 *)
LEMMA StageKept == ASSUME NEW s \in Stage PROVE current_stage(s) = s
  BY DEF current_stage

LEMMA EvidenceStep == TypeOK /\ EvidenceInv /\ [Next]_vars => EvidenceInv'
<1> SUFFICES ASSUME TypeOK, EvidenceInv, [Next]_vars PROVE EvidenceInv'
  OBVIOUS
<1> DEFINE Admitted == byHand \cup audited
           Fires(t) == may_fire(current_stage(stage[t]))
           Promise(o) == promoting[o] # Null =>
                           /\ promoting[o].to > CANARY => promoting[o].tenant \in Admitted
                           /\ promoting[o].to = CANARY => promoting[o].shown
           Staged == firing # Null /\ firing.staged => TenantOf[firing.action[1]] \in Admitted
<1>1. /\ \A t \in Tenants : Fires(t) => t \in Admitted
      /\ \A o \in Operators : Promise(o)
      /\ Staged
      /\ \A c \in CycleSet : fires[c] > 0 => TenantOf[c] \in Admitted
  BY DEF EvidenceInv, FiresOnEvidence
<1>2. SUFFICES /\ \A t \in Tenants : Fires(t)' => t \in Admitted'
               /\ \A o \in Operators : Promise(o)'
               /\ Staged'
               /\ \A c \in CycleSet : fires'[c] > 0 => TenantOf[c] \in Admitted'
  BY DEF EvidenceInv, FiresOnEvidence
<1>3. Admitted \subseteq Admitted'
  <2>1. Operate => byHand \subseteq byHand' /\ audited \subseteq audited'
    BY DEF Operate, StopTenant, PromoteWrite, set_stage, PromoteRead, StopMandate, ResumeMandate,
           StopPlatform, Resume
  <2>2. byHand \subseteq byHand' /\ audited \subseteq audited'
    BY <2>1, ConfigSteps
  <2> QED
    BY <2>2
<1> HIDE DEF Admitted
<1>4. \A t \in Tenants : Fires(t)' => t \in Admitted'
  <2>1. ASSUME stage' = stage PROVE \A t \in Tenants : Fires(t)' => t \in Admitted'
    BY <1>1, <1>3, <2>1
  <2>2. ASSUME NEW t \in Tenants, NEW s \in ByHand, set_stage(t, s)
        PROVE  \A u \in Tenants : Fires(u)' => u \in Admitted'
    <3>1. stage' = [stage EXCEPT ![t] = s] /\ DOMAIN stage = Tenants
      BY <2>2 DEF set_stage, TypeOK
    <3>2. stage'[t] = s /\ \A u \in Tenants : u # t => stage'[u] = stage[u]
      BY <3>1
    <3>3. current_stage(s) = s
      BY StageAssumption, StageKept
    <3>4. may_fire(s) => t \in Admitted'
      BY <2>2 DEF set_stage, Admitted
    <3> QED
      BY <1>1, <1>3, <3>2, <3>3, <3>4
  <2>3. ASSUME NEW o \in Operators, PromoteWrite(o)
        PROVE  \A u \in Tenants : Fires(u)' => u \in Admitted'
    <3> DEFINE t == promoting[o].tenant
               to == promoting[o].to
    <3>1. promoting[o] # Null /\ stage' = [stage EXCEPT ![t] = to] /\ DOMAIN stage = Tenants
      BY <2>3 DEF PromoteWrite, TypeOK
    <3>2. to \in Stage /\ t \in Tenants
      BY <3>1 DEF TypeOK, Promotions
    <3>3. stage'[t] = to /\ \A u \in Tenants : u # t => stage'[u] = stage[u]
      BY <3>1, <3>2
    <3>4. ASSUME to = CANARY PROVE t \in Admitted'
      BY <1>1, <2>3, <3>1, <3>4 DEF PromoteWrite, Admitted
    <3>5. ASSUME to > CANARY PROVE t \in Admitted'
      BY <1>1, <1>3, <3>1, <3>5
    <3>6. may_fire(to) => t \in Admitted'
      BY <3>2, <3>4, <3>5, Behaviours DEF CANARY, RAMP, FULL
    <3>7. current_stage(stage'[t]) = to
      BY <3>2, <3>3, StageKept
    <3> HIDE DEF to, t
    <3> QED
      BY <1>1, <1>3, <3>3, <3>6, <3>7
  <2>4. Operate => \/ stage' = stage
                   \/ \E o \in Operators : PromoteWrite(o)
                   \/ \E t \in Tenants, s \in ByHand : set_stage(t, s)
    BY DEF Operate, StopTenant, PromoteRead, StopMandate, ResumeMandate, StopPlatform, Resume
  <2> QED
    BY <2>1, <2>2, <2>3, <2>4, ConfigSteps
<1>5. \A o \in Operators : Promise(o)'
  <2>1. ASSUME promoting' = promoting PROVE \A o \in Operators : Promise(o)'
    BY <1>1, <1>3, <2>1
  <2>2. ASSUME NEW o \in Operators, PromoteWrite(o) PROVE \A u \in Operators : Promise(u)'
    <3>1. promoting' = [promoting EXCEPT ![o] = Null] /\ DOMAIN promoting = Operators
      BY <2>2 DEF PromoteWrite, TypeOK
    <3> QED
      BY <1>1, <1>3, <3>1
  <2>3. ASSUME NEW o \in Operators, NEW t \in Tenants, NEW e \in Evidences, PromoteRead(o, t, e)
        PROVE  \A u \in Operators : Promise(u)'
    <3> DEFINE s == current_stage(stage[t])
               p == [tenant |-> t, to |-> s + 1, shown |-> ShowsAudit(s, e)]
    <3>1. /\ promoting' = [promoting EXCEPT ![o] = p]
          /\ DOMAIN promoting = Operators
          /\ can_advance(s, e)
      BY <2>3 DEF PromoteRead, TypeOK
    <3>2. s \in 0 .. 4
      BY StageRead DEF Stage
    <3>3. ASSUME s + 1 > CANARY PROVE t \in Admitted'
      <4>1. s \in {CANARY, RAMP, FULL}
        BY <3>2, <3>3 DEF CANARY, RAMP, FULL
      <4>2. may_fire(s)
        BY <4>1, StageRead, Behaviours
      <4> QED
        BY <1>1, <1>3, <4>2
    <3>4. ASSUME s + 1 = CANARY PROVE ShowsAudit(s, e)
      <4>1. s = SHADOW /\ s # OBSERVE
        BY <3>2, <3>4 DEF CANARY, SHADOW, OBSERVE
      <4>2. shadow_to_canary(e)
        BY <3>1, <4>1 DEF can_advance, GATES, SHADOW, OBSERVE, CANARY, RAMP
      <4> QED
        BY <4>1, <4>2 DEF shadow_to_canary, ShowsAudit
    <3>5. p.tenant = t /\ p.to = s + 1 /\ p.shown = ShowsAudit(s, e)
      OBVIOUS
    <3> HIDE DEF p, s
    <3>6. promoting'[o] = p /\ \A u \in Operators : u # o => promoting'[u] = promoting[u]
      BY <3>1
    <3>7. Promise(o)'
      BY <3>3, <3>4, <3>5, <3>6
    <3>8. \A u \in Operators : u # o => Promise(u)'
      BY <1>1, <1>3, <3>6
    <3> QED
      BY <3>7, <3>8
  <2>4. Operate => \/ promoting' = promoting
                   \/ \E o \in Operators : \/ PromoteWrite(o)
                                            \/ \E t \in Tenants, e \in Evidences :
                                                  PromoteRead(o, t, e)
    BY DEF Operate, StopTenant, set_stage, StopMandate, ResumeMandate, StopPlatform, Resume
  <2> QED
    BY <2>1, <2>2, <2>3, <2>4, ConfigSteps
<1>7. Staged'
  <2>1. ASSUME firing' = firing PROVE Staged'
    BY <1>1, <1>3, <2>1
  <2>2. ASSUME StageAllows PROVE Staged'
    <3>1. firing # Null /\ Fires(TenantOf[firing.action[1]])
      BY <2>2 DEF StageAllows, StageFires
    <3>2. firing.action[1] \in CycleSet /\ TenantOf[firing.action[1]] \in Tenants
      BY <3>1, FiringType, OwnerAssumption
    <3>3. firing'.action = firing.action
      BY <2>2, <3>1, FiringType DEF StageAllows
    <3> QED
      BY <1>1, <1>3, <3>1, <3>2, <3>3
  <2>3. ASSUME NEW a, TakeUpDebit(a) PROVE Staged'
    BY <2>3 DEF TakeUpDebit
  <2>4. RefuseDebit \/ FireDebit => Staged'
    BY DEF RefuseDebit, FireDebit
  <2> QED
    BY <2>1, <2>2, <2>3, <2>4, FiringSteps
<1>6. \A c \in CycleSet : fires'[c] > 0 => TenantOf[c] \in Admitted'
  <2>1. ASSUME fires' = fires PROVE \A c \in CycleSet : fires'[c] > 0 => TenantOf[c] \in Admitted'
    BY <1>1, <1>3, <2>1
  <2>2. ASSUME FireDebit
        PROVE  \A c \in CycleSet : fires'[c] > 0 => TenantOf[c] \in Admitted'
    <3> DEFINE d == firing.action[1]
    <3>1. d \in CycleSet /\ TenantOf[d] \in Admitted'
      BY <1>1, <1>3, <2>2, FiringType DEF FireDebit
    <3>2. \A c \in CycleSet : c # d => fires'[c] = fires[c]
      BY <2>2 DEF FireDebit, TypeOK
    <3> QED
      BY <1>1, <1>3, <3>1, <3>2
  <2>3. fires' = fires \/ FireDebit
    BY CycleSteps DEF SendNotice, Paid, Failed
  <2> QED
    BY <2>1, <2>2, <2>3
<1> QED
  BY <1>4, <1>5, <1>6, <1>7

-----------------------------------------------------------------------------
(* The inductive invariant, and what follows from it.                        *)
LEMMA InitIInv == Init => IInv
<1> SUFFICES ASSUME Init PROVE IInv
  OBVIOUS
<1>1. TypeOK
  BY InitTyped
<1>2. PlanInv
  BY DEF Init, PlanInv
<1>3. ToldInv
  BY DEF Init, ToldInv
<1>4. SwitchInv
  <2>1. /\ ordered = stopped \cup {c \in CycleSet : stopped_mandates[c] > 0}
        /\ stopped \subseteq Tenants
    BY DEF Init
  <2>2. CycleSet \cap Tenants = {}
    BY ScopeAssumption
  <2> QED
    BY <2>1, <2>2 DEF SwitchInv
<1>5. EvidenceInv
  <2>1. ASSUME NEW t \in Tenants, may_fire(current_stage(stage[t])) PROVE t \in byHand
    <3>1. current_stage(stage[t]) \in {CANARY, RAMP, FULL}
      BY <2>1, StageRead, Behaviours
    <3>2. stage[t] \in {CANARY, RAMP, FULL}
      BY <3>1 DEF current_stage, CANARY, RAMP, FULL, OBSERVE
    <3> QED
      BY <3>2 DEF Init
  <2>2. \A c \in CycleSet : fires[c] = 0
    BY DEF Init
  <2>3. (\A o \in Operators : promoting[o] = Null) /\ firing = Null
    BY DEF Init
  <2> QED
    BY <2>1, <2>2, <2>3 DEF EvidenceInv, FiresOnEvidence
<1> QED
  BY <1>1, <1>2, <1>3, <1>4, <1>5 DEF IInv

LEMMA NextIInv == IInv /\ [Next]_vars => IInv'
  BY TypeStep, PlanStep, ToldStep, SwitchStep, EvidenceStep DEF IInv

(* What a planner holds stays unqueued by others, what pdn24 reads is what   *)
(* was sent, the switches and stages are what operators made them: in every  *)
(* reachable state.                                                          *)
THEOREM Invariance == Spec => []IInv
  BY InitIInv, NextIInv, PTL DEF Spec

(* Whatever passes, ticks, webhooks and operators do, the state keeps its    *)
(* type: in particular every page is finite and every queued id is one of a  *)
(* cycle, an attempt and a kind.                                             *)
THEOREM TypeCorrect == Spec => []TypeOK
<1>1. IInv => TypeOK
  BY DEF IInv
<1> QED
  BY <1>1, Invariance, PTL

(* However planners' transactions, failures reported by the provider and     *)
(* releases interleave, no cycle has two debits pending: plan_tenant never   *)
(* reads a cycle that has one, and nothing else queues for it before the     *)
(* same planner commits.                                                     *)
THEOREM OneDebitPerCycle == Spec => []OneDebitInFlight
<1>1. TypeOK /\ PlanInv => OneDebitInFlight
  <2> SUFFICES ASSUME TypeOK, PlanInv, NEW c \in CycleSet
               PROVE  Cardinality({a \in InFlight(c) : a[3] = "debit"}) <= 1
    BY DEF OneDebitInFlight
  <2> DEFINE S == {a \in InFlight(c) : a[3] = "debit"}
  <2>1. \A a, b \in S : a = b
    BY DEF PlanInv, InFlight
  <2>2. CASE S = {}
    BY <2>2, FS_EmptySet
  <2>3. CASE S # {}
    <3>1. PICK a \in S : TRUE
      BY <2>3
    <3>2. S = {a}
      BY <2>1, <3>1
    <3> HIDE DEF S
    <3>3. Cardinality(S) = 1
      BY <3>2, FS_Singleton
    <3> QED
      BY <3>3 DEF S
  <2> QED
    BY <2>2, <2>3
<1> QED
  BY <1>1, Invariance, PTL DEF IInv

(* A debit leaves only when the customer was really told of it, the notice's *)
(* lead before: what pdn24 reads is when fire_notice told them.             *)
THEOREM NoticeBeforeDebit == Spec => TellsThenDebits
<1>1. IInv /\ [Next]_vars => [\A c \in CycleSet : fires'[c] # fires[c] =>
                                 told[c] # Null /\ told[c] + Lead <= now]_vars
  <2> SUFFICES ASSUME IInv, [Next]_vars, NEW c \in CycleSet, fires'[c] # fires[c]
               PROVE  told[c] # Null /\ told[c] + Lead <= now
    OBVIOUS
  <2>1. TypeOK /\ ToldInv
    BY DEF IInv
  <2>2. FireDebit
    BY <2>1, CycleSteps DEF SendNotice, Paid, Failed
  <2>3. firing # Null /\ firing.action[1] = c
    BY <2>1, <2>2 DEF FireDebit, TypeOK
  <2>6. firing.at \in Nat /\ firing.at <= now
    BY <2>1, <2>3, FiringType
  <2>4. told[c] # Null /\ firing.at - told[c] >= Lead
    BY <2>1, <2>2, <2>3 DEF FireDebit, pdn24, ToldInv
  <2>5. told[c] \in Nat /\ now \in Int /\ Lead \in Int
    BY <2>1, <2>4, PlannerAssumption, TimeAssumption DEF TypeOK, Instants
  <2> QED
    BY <2>4, <2>5, <2>6
<1> QED
  BY <1>1, Invariance, PTL DEF Spec, TellsThenDebits

(* After the order to stop a tenant or a mandate nothing of it is taken up   *)
(* until the last word on it is to resume, so that at most the one debit for *)
(* which fire_action had read the switch still leaves; and no debit is       *)
(* cancelled, its cycle still unpaid, for a stop that was taken back.        *)
THEOREM StopsHold == Spec => StopsAreObeyed
<1> DEFINE Obeyed ==
      /\ \A c \in CycleSet : fires'[c] # fires[c] => firing # Null /\ firing.action[1] = c
      /\ firing = Null /\ firing' # Null => Scopes(firing'.action[1]) \cap ordered = {}
      /\ \A a \in DOMAIN actions :
            a[3] = "debit" /\ Cancelled(a) /\ cycle'[a[1]].state = "executing"
                => firing # Null \/ Scopes(a[1]) \cap ordered # {}
<1>1. IInv /\ [Next]_vars => [Obeyed]_vars
  <2> SUFFICES ASSUME IInv, [Next]_vars PROVE Obeyed
    OBVIOUS
  <2>1. TypeOK /\ SwitchInv
    BY DEF IInv
  <2>2. \A a \in DOMAIN actions : a[1] \in CycleSet
    BY <2>1 DEF TypeOK, Ids
  <2>3. \A c \in CycleSet : is_stopped(TenantOf[c], c) <=> Scopes(c) \cap ordered # {}
    <3> TAKE c \in CycleSet
    <3>1. TenantOf[c] \in Tenants /\ TenantOf[c] # Platform
      BY OwnerAssumption DEF Tenants
    <3>2. is_stopped(TenantOf[c], c) <=> TenantOf[c] \in stopped \/ stopped_mandates[c] > 0
      BY <3>1 DEF is_stopped, Visible
    <3> QED
      BY <2>1, <3>1, <3>2 DEF SwitchInv, Scopes
  <2>4. ASSUME NEW c \in CycleSet, fires'[c] # fires[c]
        PROVE  firing # Null /\ firing.action[1] = c
    <3>1. FireDebit
      BY <2>1, <2>4, CycleSteps DEF SendNotice, Paid, Failed
    <3> QED
      BY <2>1, <2>4, <3>1 DEF FireDebit, TypeOK
  <2>5. ASSUME firing = Null, firing' # Null PROVE Scopes(firing'.action[1]) \cap ordered = {}
    <3>1. PICK a \in DOMAIN actions : TakeUpDebit(a)
      BY <2>5, FiringSteps DEF StageAllows, RefuseDebit, FireDebit
    <3>2. firing'.action = a /\ ~is_stopped(TenantOf[a[1]], a[1])
      BY <3>1 DEF TakeUpDebit
    <3> QED
      BY <2>2, <2>3, <3>2
  <2>6. ASSUME NEW a \in DOMAIN actions, a[3] = "debit", Cancelled(a),
               cycle'[a[1]].state = "executing"
        PROVE  firing # Null \/ Scopes(a[1]) \cap ordered # {}
    <3>1. \/ firing # Null
          \/ \E b \in DOMAIN actions : KillDebit(b) \/ RefuseNotice(b) \/ SendNotice(b)
          \/ \E c \in CycleSet : Paid(c)
      BY <2>1, <2>6, CancelSteps
    <3>2. ASSUME NEW b \in DOMAIN actions, KillDebit(b) \/ RefuseNotice(b) \/ SendNotice(b)
          PROVE  b = a /\ KillDebit(a)
      <4>1. Release(b, "cancelled") \/ Release(b, "done")
        BY <2>1, <3>2, Refusals DEF SendNotice
      <4>2. b = a
        BY <2>1, <2>6, <4>1, ReleaseType DEF Cancelled
      <4> QED
        BY <2>6, <3>2, <4>2 DEF RefuseNotice, SendNotice
    <3>3. ASSUME NEW c \in CycleSet, Paid(c) PROVE FALSE
      <4>1. a \in InFlight(c)
        BY <2>6, <3>3 DEF Paid, Cancelled
      <4>2. cycle' = [cycle EXCEPT ![c] = [cycle[c] EXCEPT !.state = "succeeded"]]
        BY <3>3 DEF Paid
      <4>3. cycle'[c].state = "succeeded"
        BY <2>1, <4>2 DEF TypeOK, CycleRows
      <4> QED
        BY <2>6, <4>1, <4>3 DEF InFlight
    <3>4. KillDebit(a) => Scopes(a[1]) \cap ordered # {}
      BY <2>2, <2>3 DEF KillDebit
    <3> QED
      BY <3>1, <3>2, <3>3, <3>4
  <2> QED
    BY <2>4, <2>5, <2>6
<1> QED
  BY <1>1, Invariance, PTL DEF Spec, StopsAreObeyed

(* No tenant's money moves before its shadow stage was audited without an    *)
(* error of the gate, unless somebody set its stage by hand - not even when  *)
(* promotions overtake each other or a stored stage cannot be read.          *)
THEOREM EvidenceBeforeMoney == Spec => []FiresOnEvidence
<1>1. EvidenceInv => FiresOnEvidence
  BY DEF EvidenceInv
<1> QED
  BY <1>1, Invariance, PTL DEF IInv

(* Of every mandate in a stage's share, the second draw holds out exactly    *)
(* the stage's percentage: the two draws of adoption.py are independent.     *)
LEMMA HoldoutIsASample ==
    ASSUME NEW s \in Stage, NEW d \in Draws, d < BEHAVIOUR[s].mandate_share
    PROVE  Cardinality({h \in Draws : arm_for(s, d, h) = "holdout"}) = BEHAVIOUR[s].holdout_pct
<1> DEFINE pct == BEHAVIOUR[s].holdout_pct
<1>1. pct = 0 \/ pct = 15
  BY Behaviours
<1>2. BEHAVIOUR[s].mandate_share \in Int
  BY Behaviours
<1>3. \A h \in Draws : arm_for(s, d, h) = IF h < pct THEN "holdout" ELSE "treatment"
  BY <1>2 DEF arm_for, Draws
<1> HIDE DEF pct
<1>4. {h \in Draws : arm_for(s, d, h) = "holdout"} = 0 .. pct - 1
  BY <1>1, <1>3 DEF Draws
<1>5. Cardinality(0 .. pct - 1) = pct
  BY <1>1, FS_Interval
<1> QED
  BY <1>4, <1>5 DEF pct

LEMMA RampKeepsItsArms ==
    ASSUME NEW d \in Draws, d < BEHAVIOUR[RAMP].mandate_share, NEW h \in Draws
    PROVE  arm_for(FULL, d, h) = arm_for(RAMP, d, h)
<1>1. RAMP \in Stage /\ FULL \in Stage
  BY DEF RAMP, FULL, Stage
<1>2. /\ BEHAVIOUR[RAMP].mandate_share = 10 /\ BEHAVIOUR[FULL].mandate_share = 100
      /\ BEHAVIOUR[RAMP].holdout_pct = 15 /\ BEHAVIOUR[FULL].holdout_pct = 15
  BY <1>1, Behaviours DEF RAMP, FULL, CANARY
<1>3. d < 10 /\ d < 100 /\ d \in Int
  BY <1>2 DEF Draws
<1> QED
  BY <1>2, <1>3 DEF arm_for

(* The control arm of every tenant's stage is a true sample of its share,    *)
(* and going from RAMP to FULL moves no mandate from one arm to another.     *)
THEOREM CohortsHold == Spec => []CohortsAreStable
<1>1. CohortsAreStable
  <2> SUFFICES ASSUME NEW s \in Stage PROVE ArmsHold[s]
    BY StageRead DEF CohortsAreStable
  <2> QED
    BY HoldoutIsASample, RampKeepsItsArms DEF ArmsHold
<1> QED
  BY <1>1, PTL
=============================================================================
