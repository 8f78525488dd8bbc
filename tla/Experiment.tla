----------------------------- MODULE Experiment -----------------------------
(***************************************************************************)
(* measure/experiment.py and measure/assignment.py: experiments frozen     *)
(* before they run, which one governs a tenant, and the arm and propensity *)
(* a fired debit records (executor/firing.py).  A share is a number of     *)
(* half-buckets of 2 * Buckets: the column it is kept in is coarser than   *)
(* what an operator may ask for.                                           *)
(***************************************************************************)
EXTENDS Integers, Sequences, FiniteSets

CONSTANTS Tenants, Operators, ExperimentIds, Seeds, Subjects,
          Platform,                 \* the owner of a row whose tenant_id is NULL
          NoOne, NoExperiment,
          Buckets,                  \* _BUCKETS
          Shares,                   \* control_pct asked for, strictly between 0 and 1
          Hash,                     \* [Seeds \X Subjects -> 0 .. Buckets - 1]
          MaxFreezes, MaxDecisions  \* bounds

VARIABLES rows,                     \* experiment_config: id -> [owner, seed, share, at, frozen]
          checked,                  \* operator -> the request that passed the check
          now,
          decisions,                \* what fired debits recorded, in order
          contested                 \* history: ids that two freezes had in hand at once
evars == <<rows, checked, now, decisions, contested>>

CONTROL == "control"
TREATMENT == "treatment"
Owners == Tenants \cup {Platform}
Requests == [id : ExperimentIds, owner : Owners, seed : Seeds, share : Shares]

ASSUME BucketsAssumption == Buckets \in Nat \ {0} /\ Shares \subseteq 1 .. 2 * Buckets - 1
ASSUME NobodyAssumption == NoExperiment \notin ExperimentIds /\ NoOne \notin Requests

InArm(bucket, share) == IF 2 * bucket < share THEN CONTROL ELSE TREATMENT
arm(customer, seed, share) == InArm(Hash[seed, customer], share)
propensity(a, share) == IF a = CONTROL THEN share ELSE 2 * Buckets - share

(* control_pct is NUMERIC(4, 3): a whole number of buckets, half upwards.    *)
Stored(share) == 2 * ((share + 1) \div 2)

Row(q, owner, at, frozen) ==
    [owner |-> owner, seed |-> q.seed, share |-> Stored(q.share), at |-> at, frozen |-> frozen]

-----------------------------------------------------------------------------
(* An operator may have left a draft row, which is not frozen.               *)
ExperimentInit ==
    /\ \/ rows = [id \in {} |-> NoOne]
       \/ \E q \in Requests : rows = [id \in {q.id} |-> Row(q, q.owner, 0, FALSE)]
    /\ checked = [o \in Operators |-> NoOne]
    /\ now = 0
    /\ decisions = <<>>
    /\ contested = {}

IsFrozen(id) == id \in DOMAIN rows /\ rows[id].frozen

(* freeze: a SELECT, and then an upsert that does not look again.            *)
Contested(o, q) ==
    contested' = contested
                 \cup {id \in {q.id} : \E p \in Operators \ {o} : checked[p] # NoOne /\ checked[p].id = id}

freeze_check_Existing(o, q) ==
    /\ checked[o] = NoOne
    /\ now < MaxFreezes
    /\ checked' = [checked EXCEPT ![o] = q]
    /\ Contested(o, q)
    /\ UNCHANGED <<rows, now, decisions>>

freeze_check(o, q) ==
    /\ checked[o] = NoOne
    /\ now < MaxFreezes
    /\ ~IsFrozen(q.id)
    /\ checked' = [checked EXCEPT ![o] = q]
    /\ Contested(o, q)
    /\ UNCHANGED <<rows, now, decisions>>

(* On a conflict the row keeps the owner it was drafted for.                 *)
freeze_write(o) ==
    LET q == checked[o] IN
    /\ q # NoOne
    /\ now' = now + 1
    /\ rows' = [id \in DOMAIN rows \cup {q.id} |->
                    IF id = q.id
                    THEN Row(q, IF id \in DOMAIN rows THEN rows[id].owner ELSE q.owner, now + 1, TRUE)
                    ELSE rows[id]]
    /\ checked' = [checked EXCEPT ![o] = NoOne]
    /\ UNCHANGED <<decisions, contested>>

(* The rows a tenant's connection sees are its own and the platform's.       *)
Governing(t) == {id \in DOMAIN rows : rows[id].frozen /\ rows[id].owner \in {t, Platform}}

active_experiment(t) ==
    LET own == {id \in Governing(t) : rows[id].owner = t}
        first == IF own = {} THEN Governing(t) ELSE own
    IN  IF first = {} THEN NoExperiment
        ELSE CHOOSE id \in first : \A other \in first : rows[other].at <= rows[id].at

(* A debit is decided: its record has the customer's arm and how likely it   *)
(* was, or neither when no experiment runs.                                  *)
Recorded(t, c, id) ==
    IF id = NoExperiment THEN [tenant |-> t, customer |-> c, experiment |-> id]
    ELSE LET e == rows[id]
             a == arm(c, e.seed, e.share)
         IN  [tenant |-> t, customer |-> c, experiment |-> id, owner |-> e.owner,
              share |-> e.share, arm |-> a, propensity |-> propensity(a, e.share)]

Decide(t, c) ==
    /\ Len(decisions) < MaxDecisions
    /\ decisions' = Append(decisions, Recorded(t, c, active_experiment(t)))
    /\ UNCHANGED <<rows, checked, now, contested>>

ExperimentNext ==
    \/ \E o \in Operators :
        \/ \E q \in Requests : freeze_check(o, q)
        \/ freeze_write(o)
    \/ \E t \in Tenants, c \in Subjects : Decide(t, c)

ExperimentSpec == ExperimentInit /\ [][ExperimentNext]_evars

-----------------------------------------------------------------------------
Governed == {i \in DOMAIN decisions : decisions[i].experiment # NoExperiment}

(* A customer never changes arms within an experiment, whatever was frozen   *)
(* between two decisions, unless two freezes of that very experiment         *)
(* overlapped: the look that freeze takes is enough whenever it is finished  *)
(* before another one of that id begins.                                     *)
ArmsStay ==
    \A i, j \in Governed : LET d == decisions[i]  e == decisions[j] IN
        d.customer = e.customer /\ d.experiment = e.experiment /\ d.experiment \notin contested
            => d.arm = e.arm /\ d.propensity = e.propensity

(* A tenant that has had an experiment of its own never falls back to the    *)
(* platform's.                                                               *)
OwnOverrides ==
    \A i, j \in Governed : LET d == decisions[i]  e == decisions[j] IN
        i < j /\ d.tenant = e.tenant /\ d.owner = d.tenant => e.owner = e.tenant

(* A recorded propensity is the share of all hash buckets in that arm.       *)
PropensityIsShare ==
    \A i \in Governed : LET d == decisions[i] IN
        d.propensity = 2 * Cardinality({b \in 0 .. Buckets - 1 : InArm(b, d.share) = d.arm})

(* What the ledger records can be weighed.                                   *)
ArmsAreKept == ArmsStay /\ OwnOverrides /\ PropensityIsShare

(* freeze "Refuses to overwrite a frozen one" (experiment.py:101): once it   *)
(* is frozen a row keeps its seed and its share.                             *)
FrozenIsKept == [][\A id \in DOMAIN rows : IsFrozen(id) => rows'[id] = rows[id]]_evars

-----------------------------------------------------------------------------
(* The inductive invariant behind them.                                      *)
RowRecords == [owner : Owners, seed : Seeds, share : {Stored(share) : share \in Shares},
               at : Nat, frozen : BOOLEAN]

ExperimentTypeOK ==
    /\ DOMAIN rows \subseteq ExperimentIds
    /\ rows \in [DOMAIN rows -> RowRecords]
    /\ checked \in [Operators -> Requests \cup {NoOne}]
    /\ now \in Nat
    /\ \A id \in DOMAIN rows : rows[id].at <= now
    /\ decisions = [i \in 1 .. Len(decisions) |-> decisions[i]] /\ Len(decisions) \in Nat

(* A record's experiment stays frozen, and its owner's.                      *)
RecordOwned ==
    \A i \in Governed : LET d == decisions[i] IN
        IsFrozen(d.experiment) /\ d.owner = rows[d.experiment].owner

(* A record's share and propensity belong together, whatever became of its   *)
(* row since.                                                                *)
RecordWeighed ==
    \A i \in Governed : LET d == decisions[i] IN
        /\ d.share \in {Stored(share) : share \in Shares}
        /\ d.arm \in {CONTROL, TREATMENT}
        /\ d.propensity = propensity(d.arm, d.share)

(* Where freezes of an id do not overlap, nothing is frozen behind a check,  *)
(* and each record says what its row still says.                             *)
Overlaps ==
    \A o, p \in Operators : o # p /\ checked[o] # NoOne /\ checked[p] # NoOne /\ checked[o].id = checked[p].id
        => checked[o].id \in contested

CheckStands ==
    \A o \in Operators : checked[o] # NoOne /\ checked[o].id \notin contested => ~IsFrozen(checked[o].id)

RecordStands ==
    \A i \in Governed : LET d == decisions[i]  e == rows[decisions[i].experiment] IN
        d.experiment \notin contested
            => d.arm = arm(d.customer, e.seed, e.share) /\ d.share = e.share

RecordInv == ExperimentTypeOK /\ RecordOwned /\ RecordWeighed /\ OwnOverrides
ExperimentInv == RecordInv /\ Overlaps /\ CheckStands /\ RecordStands
=============================================================================
