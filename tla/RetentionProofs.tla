-------------------------- MODULE RetentionProofs --------------------------
(***************************************************************************)
(* What segment_priors may hold, and what a standing proposal means, for   *)
(* any number of tenants, mandates and planners.                           *)
(***************************************************************************)
EXTENDS DateChange, FiniteSetTheorems, TLAPS

-----------------------------------------------------------------------------
(* Whatever the aggregator carries was seen: each observation is of a tenant *)
(* with outcomes in its cell, and outcomes only accumulate.                  *)
EventsOK == events_raw \in [Mandates -> [Month -> [successes : Nat, attempts : Nat]]]

CollectedOK ==
    /\ collected = [to_read |-> collected.to_read, observations |-> collected.observations]
    /\ collected.to_read \in Seq(Tenants)
    /\ \A o \in collected.observations :
          o.key \in Segments \X Month /\ o.tenant \in Observed(o.key)

CellsOK == DOMAIN segment_priors \subseteq Segments \X Month

AnonymityInv == EventsOK /\ CollectedOK /\ CellsOK /\ CellsAreAnonymous

LEMMA ObservedIsFinite == ASSUME NEW k PROVE IsFiniteSet(Observed(k))
  <1>1. Observed(k) \subseteq Tenants
    BY DEF Observed
  <1> QED
    BY <1>1, FS_Subset, FloorAssumption

(* A cell that is published has enough contributors, all of them seen.       *)
LEMMA PublishedIsObserved ==
    ASSUME NEW observations,
           \A o \in observations : o.tenant \in Observed(o.key),
           NEW k \in publishable(observations)
    PROVE  Cardinality(Observed(k)) >= MIN_CONTRIBUTORS
  <1>1. contributors(observations, k) \subseteq Observed(k)
    BY DEF contributors, pooled
  <1>2. /\ Cardinality(contributors(observations, k)) \in Nat
        /\ Cardinality(Observed(k)) \in Nat
        /\ Cardinality(contributors(observations, k)) <= Cardinality(Observed(k))
    BY <1>1, ObservedIsFinite, FS_Subset, FS_CardinalityType
  <1>3. Cardinality(contributors(observations, k)) >= MIN_CONTRIBUTORS
    BY DEF publishable
  <1> QED
    BY <1>2, <1>3, FloorAssumption

LEMMA SeenIsObserved ==
    ASSUME NEW t \in Tenants, NEW o \in collect_tenant(t)
    PROVE  o.key \in Segments \X Month /\ o.tenant \in Observed(o.key)
  <1>1. PICK k \in Segments \X Month : o.key = k /\ o.tenant = t /\ OUTCOMES(t, k) # {}
    BY DEF collect_tenant
  <1> QED
    BY <1>1 DEF OUTCOMES, Observed

(* A step that records no fewer outcomes leaves every cell as well observed. *)
LEMMA ObservedGrows ==
    ASSUME EventsOK, EventsOK', NEW k,
           \A m \in Mandates, d \in Month :
               events_raw'[m][d].attempts >= events_raw[m][d].attempts,
           k[2] \in Month
    PROVE  /\ Observed(k) \subseteq Observed(k)'
           /\ Cardinality(Observed(k)) \in Nat
           /\ Cardinality(Observed(k)') \in Nat
           /\ Cardinality(Observed(k)) <= Cardinality(Observed(k)')
  <1>1. Observed(k) \subseteq Observed(k)'
    BY DEF Observed, EventsOK
  <1>2. Observed(k)' \subseteq Tenants
    BY DEF Observed
  <1>3. IsFiniteSet(Observed(k)')
    BY <1>2, FS_Subset, FloorAssumption
  <1> QED
    BY <1>1, <1>3, FS_Subset, FS_CardinalityType

-----------------------------------------------------------------------------
LEMMA AnonymityInit == Init => AnonymityInv
  BY MandateAssumption DEF Init, AnonymityInv, EventsOK, CollectedOK, CellsOK, CellsAreAnonymous

LEMMA OutcomeKeeps ==
    ASSUME AnonymityInv, NEW m \in Mandates, NEW d \in Month, NEW ok \in BOOLEAN,
           Outcome(m, d, ok)
    PROVE  AnonymityInv'
  <1>1. EventsOK'
    BY DEF AnonymityInv, EventsOK, Outcome
  <1>2. \A n \in Mandates, e \in Month :
            events_raw'[n][e].attempts >= events_raw[n][e].attempts
    BY DEF AnonymityInv, EventsOK, Outcome
  <1>3. collected' = collected /\ segment_priors' = segment_priors
    BY DEF Outcome
  <1>4. ASSUME NEW k \in Segments \X Month
        PROVE  /\ Observed(k) \subseteq Observed(k)'
               /\ Cardinality(Observed(k)) \in Nat
               /\ Cardinality(Observed(k)') \in Nat
               /\ Cardinality(Observed(k)) <= Cardinality(Observed(k)')
    <2>1. k[2] \in Month
      OBVIOUS
    <2> QED
      BY <1>1, <1>2, <2>1, ObservedGrows DEF AnonymityInv
  <1>5. CollectedOK'
    BY <1>3, <1>4 DEF AnonymityInv, CollectedOK
  <1>6. CellsOK'
    BY <1>3 DEF AnonymityInv, CellsOK
  <1>7. CellsAreAnonymous'
    BY <1>3, <1>4, FloorAssumption DEF AnonymityInv, CellsOK, CellsAreAnonymous
  <1> QED
    BY <1>1, <1>5, <1>6, <1>7 DEF AnonymityInv

LEMMA PassKeeps ==
    ASSUME AnonymityInv, Collect \/ CollectFails
    PROVE  AnonymityInv'
  <1>1. UNCHANGED <<events_raw, segment_priors>>
    BY DEF Collect, CollectFails
  <1>2. \A k : Observed(k)' = Observed(k)
    BY <1>1 DEF Observed
  <1>3. EventsOK' /\ CellsOK' /\ CellsAreAnonymous'
    BY <1>1, <1>2 DEF AnonymityInv, EventsOK, CellsOK, CellsAreAnonymous
  <1>4. CASE Collect
    <2>1. Head(collected.to_read) \in Tenants /\ Tail(collected.to_read) \in Seq(Tenants)
      BY <1>4 DEF Collect, AnonymityInv, CollectedOK
    <2>2. \A o \in collect_tenant(Head(collected.to_read)) :
              o.key \in Segments \X Month /\ o.tenant \in Observed(o.key)
      BY <2>1, SeenIsObserved
    <2>3. CollectedOK'
      BY <1>2, <1>4, <2>1, <2>2 DEF Collect, AnonymityInv, CollectedOK
    <2> QED
      BY <1>3, <2>3 DEF AnonymityInv
  <1>5. CASE CollectFails
    <2>1. collected' = [to_read |-> Tail(collected.to_read),
                        observations |-> collected.observations]
      BY <1>5 DEF CollectFails, AnonymityInv, CollectedOK
    <2>2. Tail(collected.to_read) \in Seq(Tenants)
      BY <1>5 DEF CollectFails, AnonymityInv, CollectedOK
    <2>3. CollectedOK'
      BY <1>2, <2>1, <2>2 DEF AnonymityInv, CollectedOK
    <2> QED
      BY <1>3, <2>3 DEF AnonymityInv
  <1> QED
    BY <1>4, <1>5

LEMMA PublishKeeps == ASSUME AnonymityInv, Publish PROVE AnonymityInv'
  <1>1. UNCHANGED events_raw
    BY DEF Publish
  <1>2. \A k : Observed(k)' = Observed(k)
    BY <1>1 DEF Observed
  <1>3. EventsOK'
    BY <1>1 DEF AnonymityInv, EventsOK
  <1>4. CollectedOK'
    BY MandateAssumption DEF Publish, CollectedOK
  <1>5. \A k \in publishable(collected.observations) :
            /\ k \in Segments \X Month
            /\ Cardinality(Observed(k)) >= MIN_CONTRIBUTORS
    <2>1. \A o \in collected.observations : o.tenant \in Observed(o.key)
      BY DEF AnonymityInv, CollectedOK
    <2>2. \A k \in publishable(collected.observations) : k \in Segments \X Month
      BY DEF AnonymityInv, CollectedOK, publishable
    <2> QED
      BY <2>1, <2>2, PublishedIsObserved
  <1>6. DOMAIN segment_priors' =
            publishable(collected.observations) \cup DOMAIN segment_priors
    <2>1. segment_priors' = publish(segment_priors, aggregate(collected.observations))
      BY DEF Publish
    <2>2. DOMAIN aggregate(collected.observations) = publishable(collected.observations)
      BY DEF aggregate
    <2> QED
      BY <2>1, <2>2 DEF publish
  <1>7. CellsOK' /\ CellsAreAnonymous'
    BY <1>2, <1>5, <1>6 DEF AnonymityInv, CellsOK, CellsAreAnonymous
  <1> QED
    BY <1>3, <1>4, <1>7 DEF AnonymityInv

(* Every other step leaves outcomes, the aggregator and the cells alone.     *)
LEMMA AnonymityStep == AnonymityInv /\ [Next]_vars => AnonymityInv'
  <1> SUFFICES ASSUME AnonymityInv, [Next]_vars PROVE AnonymityInv'
    OBVIOUS
  <1>1. ASSUME UNCHANGED <<events_raw, collected, segment_priors>> PROVE AnonymityInv'
    <2>1. \A k : Observed(k)' = Observed(k)
      BY <1>1 DEF Observed
    <2> QED
      BY <1>1, <2>1 DEF AnonymityInv, EventsOK, CollectedOK, CellsOK, CellsAreAnonymous
  <1>2. ASSUME NEW m \in Mandates, NEW d \in Month, FallsDue(m, d) PROVE AnonymityInv'
    BY <1>1, <1>2 DEF FallsDue
  <1>3. ASSUME NEW m \in Mandates, NEW d \in Month, NEW ok \in BOOLEAN, Outcome(m, d, ok)
        PROVE  AnonymityInv'
    BY <1>3, OutcomeKeeps
  <1>4. CASE Collect \/ CollectFails
    BY <1>4, PassKeeps
  <1>5. CASE Publish
    BY <1>5, PublishKeeps
  <1>6. ASSUME NEW w \in Planners, Plan(w) \/ Abort(w) PROVE AnonymityInv'
    <2>1. CASE Tick(w) \/ Sweep(w)
      BY <1>1, <2>1 DEF Tick, Sweep
    <2>2. CASE append(w) \/ Commit(w) \/ Abort(w)
      BY <1>1, <2>2 DEF append, Commit, Abort
    <2>3. ASSUME NEW m \in Mandates, maybe_propose(w, m) PROVE AnonymityInv'
      BY <1>1, <2>3 DEF maybe_propose
    <2> QED
      BY <1>6, <2>1, <2>2, <2>3 DEF Plan
  <1>7. CASE UNCHANGED vars
    BY <1>1, <1>7 DEF vars
  <1> QED
    BY <1>2, <1>3, <1>4, <1>5, <1>6, <1>7 DEF Next

(* No cell of segment_priors can be read back to fewer than MIN_CONTRIBUTORS *)
(* tenants (memory/aggregate.py), for any roster and any outcomes.           *)
THEOREM Anonymity == Spec => []CellsAreAnonymous
  <1>1. Init => AnonymityInv
    BY AnonymityInit
  <1>2. AnonymityInv /\ [Next]_vars => AnonymityInv'
    BY AnonymityStep
  <1>3. AnonymityInv => CellsAreAnonymous
    BY DEF AnonymityInv
  <1> QED
    BY <1>1, <1>2, <1>3, PTL DEF Spec

-----------------------------------------------------------------------------
(* A standing proposal is the first decision of its mandate: needed is that  *)
(* nobody carries an empty proposal to the end of its transaction.           *)
PassOK(p) ==
    /\ p = [priors |-> p.priors, tenants |-> p.tenants, tenant |-> p.tenant,
            rows |-> p.rows, asking |-> p.asking, mine |-> p.mine]
    /\ p.asking # Null => p.asking.proposal # Null
    /\ \A a \in p.mine : a.proposal # Null

StandInv ==
    /\ \E S : decisions \in [Mandates -> Seq(S)]
    /\ DOMAIN interventions = Mandates
    /\ DOMAIN sweep = Planners
    /\ \A w \in Planners : sweep[w] # Null => PassOK(sweep[w])
    /\ \A m \in Mandates : decisions[m] # <<>> => decisions[m][1] # Null
    /\ DecisionsStand

LEMMA StandInit == Init => StandInv
  <1> SUFFICES ASSUME Init PROVE StandInv
    OBVIOUS
  <1>1. decisions \in [Mandates -> Seq({})]
    BY DEF Init
  <1> QED
    BY <1>1 DEF Init, StandInv, DecisionsStand

(* A planner's pass changes, and neither the ledger nor what stands.         *)
LEMMA PassOnly ==
    ASSUME StandInv, UNCHANGED <<decisions, interventions>>,
           NEW w \in Planners, NEW p, sweep' = [sweep EXCEPT ![w] = p],
           p # Null => PassOK(p)
    PROVE  StandInv'
  BY DEF StandInv, DecisionsStand, PassOK

LEMMA OnwardOK == ASSUME NEW p, PassOK(p) PROVE Onward(p) # Null => PassOK(Onward(p))
  BY DEF Onward, PassOK

LEMMA CommitKeeps == ASSUME StandInv, NEW w \in Planners, Commit(w) PROVE StandInv'
  <1> DEFINE none(m) == made(sweep[w], m) = {}
             first(m) == Made(sweep[w], m)
  <1>1. PassOK(sweep[w])
    BY DEF StandInv, Commit
  <1>2. /\ decisions' = [m \in Mandates |->
               IF none(m) THEN decisions[m] ELSE Append(decisions[m], first(m))]
        /\ interventions' = [m \in Mandates |->
               IF none(m) \/ interventions[m] # Null THEN interventions[m] ELSE first(m)]
        /\ sweep' = [sweep EXCEPT ![w] = Onward(@)]
    BY DEF Commit
  <1>3. \A m \in Mandates : ~none(m) => first(m) # Null
    BY <1>1 DEF PassOK, made, Made
  <1> HIDE DEF none, first
  <1>4. PICK S : decisions \in [Mandates -> Seq(S)]
    BY DEF StandInv
  <1> DEFINE T == S \cup {first(m) : m \in Mandates}
  <1>5. ASSUME NEW m \in Mandates
        PROVE  /\ decisions'[m] \in Seq(T)
               /\ decisions'[m] # <<>> => decisions'[m][1] # Null
               /\ interventions'[m] = IF decisions'[m] = <<>> THEN Null ELSE decisions'[m][1]
    <2>1. /\ decisions[m] \in Seq(S)
          /\ decisions[m] # <<>> => decisions[m][1] # Null
          /\ interventions[m] = IF decisions[m] = <<>> THEN Null ELSE decisions[m][1]
      BY <1>4 DEF StandInv, DecisionsStand
    <2>2. /\ decisions[m] \in Seq(T) /\ first(m) \in T
          /\ decisions'[m] = IF none(m) THEN decisions[m] ELSE Append(decisions[m], first(m))
          /\ interventions'[m] = IF none(m) \/ interventions[m] # Null
                                 THEN interventions[m] ELSE first(m)
      BY <1>2, <2>1
    <2> HIDE DEF T
    <2>3. CASE none(m)
      BY <2>1, <2>2, <2>3
    <2>4. CASE ~none(m) /\ decisions[m] = <<>>
      <3>1. decisions'[m] = <<first(m)>> /\ interventions'[m] = first(m)
        BY <2>1, <2>2, <2>4
      <3> QED
        BY <1>3, <2>2, <2>4, <3>1
    <2>5. CASE ~none(m) /\ decisions[m] # <<>>
      <3>1. decisions'[m] = Append(decisions[m], first(m)) /\ interventions'[m] = interventions[m]
        BY <2>1, <2>2, <2>5
      <3>2. /\ decisions'[m][1] = decisions[m][1] /\ decisions'[m] # <<>>
            /\ decisions'[m] \in Seq(T)
        BY <2>2, <2>5, <3>1
      <3> QED
        BY <2>1, <2>5, <3>1, <3>2
    <2> QED
      BY <2>3, <2>4, <2>5
  <1>6. decisions' \in [Mandates -> Seq(T)]
    BY <1>2, <1>5
  <1>7. /\ interventions' \in [Mandates -> {interventions'[m] : m \in Mandates}]
        /\ DOMAIN sweep' = Planners
        /\ \A v \in Planners : sweep'[v] # Null => PassOK(sweep'[v])
    BY <1>1, <1>2, OnwardOK DEF StandInv
  <1> QED
    BY <1>5, <1>6, <1>7 DEF StandInv, DecisionsStand

LEMMA StandStep == StandInv /\ [Next]_vars => StandInv'
  <1> SUFFICES ASSUME StandInv, [Next]_vars PROVE StandInv'
    OBVIOUS
  <1>1. ASSUME UNCHANGED <<decisions, interventions, sweep>> PROVE StandInv'
    BY <1>1 DEF StandInv, DecisionsStand
  <1>2. ASSUME NEW m \in Mandates, NEW d \in Month,
               FallsDue(m, d) \/ Outcome(m, d, TRUE) \/ Outcome(m, d, FALSE)
        PROVE  StandInv'
    BY <1>1, <1>2 DEF FallsDue, Outcome
  <1>3. CASE Collect \/ CollectFails \/ Publish
    BY <1>1, <1>3 DEF Collect, CollectFails, Publish
  <1>4. ASSUME NEW w \in Planners, Tick(w) PROVE StandInv'
    <2> DEFINE p == [priors |-> load_priors(segment_priors), tenants |-> active_tenants,
                     tenant |-> Null, rows |-> {}, asking |-> Null, mine |-> {}]
    <2>1. PassOK(p)
      BY DEF PassOK
    <2>2. sweep' = [sweep EXCEPT ![w] = p] /\ UNCHANGED <<decisions, interventions>>
      BY <1>4 DEF Tick
    <2> QED
      BY <2>1, <2>2, PassOnly
  <1>5. ASSUME NEW w \in Planners, Sweep(w) PROVE StandInv'
    <2>1. PassOK(sweep[w])
      BY <1>5 DEF Sweep, StandInv
    <2>2. PICK rows : sweep' = [sweep EXCEPT ![w] = chosen(@, Head(sweep[w].tenants), rows)]
      BY <1>5 DEF Sweep
    <2> DEFINE p == chosen(sweep[w], Head(sweep[w].tenants), rows)
    <2>3. p # Null => PassOK(p)
      <3>1. CASE rows = {}
        BY <2>1, <3>1, OnwardOK DEF chosen
      <3>2. CASE rows # {}
        BY <2>1, <3>2 DEF PassOK, chosen
      <3> QED
        BY <3>1, <3>2
    <2>4. sweep' = [sweep EXCEPT ![w] = p] /\ UNCHANGED <<decisions, interventions>>
      BY <1>5, <2>2 DEF Sweep
    <2> HIDE DEF p
    <2> QED
      BY <2>3, <2>4, PassOnly
  <1>6. ASSUME NEW w \in Planners, NEW m \in Mandates, maybe_propose(w, m) PROVE StandInv'
    <2>1. PassOK(sweep[w])
      BY <1>6 DEF maybe_propose, StandInv
    <2> DEFINE p == considered(sweep[w], m)
    <2>3. PassOK(p)
      <3>1. PICK a : /\ p = [sweep[w] EXCEPT !.rows = @ \ {m}, !.asking = a]
                     /\ a # Null => a.proposal # Null
        <4> DEFINE q == IF m \in Treated /\ interventions[m] = Null
                        THEN proposal(sweep[w].priors, m) ELSE Null
                   a == IF q = Null THEN Null ELSE [mandate |-> m, proposal |-> q]
        <4>1. p = [sweep[w] EXCEPT !.rows = @ \ {m}, !.asking = a]
          BY DEF considered
        <4>2. a # Null => a.proposal # Null
          OBVIOUS
        <4> QED
          BY <4>1, <4>2
      <3> HIDE DEF p
      <3>2. /\ p = [priors |-> p.priors, tenants |-> p.tenants, tenant |-> p.tenant,
                    rows |-> p.rows, asking |-> p.asking, mine |-> p.mine]
            /\ p.asking = a /\ p.mine = sweep[w].mine
        BY <2>1, <3>1 DEF PassOK
      <3> QED
        BY <2>1, <3>1, <3>2 DEF PassOK
    <2>4. sweep' = [sweep EXCEPT ![w] = p] /\ UNCHANGED <<decisions, interventions>>
      BY <1>6 DEF maybe_propose
    <2> HIDE DEF p
    <2> QED
      BY <2>3, <2>4, PassOnly
  <1>7. ASSUME NEW w \in Planners, append(w) PROVE StandInv'
    <2>1. PassOK(sweep[w]) /\ sweep[w].asking # Null
      BY <1>7 DEF append, Asks, StandInv
    <2> DEFINE p == asked(sweep[w])
    <2>2. PassOK(p)
      <3>1. /\ p = [priors |-> p.priors, tenants |-> p.tenants, tenant |-> p.tenant,
                    rows |-> p.rows, asking |-> p.asking, mine |-> p.mine]
            /\ p.asking = Null /\ p.mine = sweep[w].mine \cup {sweep[w].asking}
        <4> DEFINE mine == sweep[w].mine \cup {sweep[w].asking}
        <4>1. p = [sweep[w] EXCEPT !.asking = Null, !.mine = mine]
          BY <2>1 DEF PassOK, asked
        <4> HIDE DEF mine, p
        <4>2. p = [priors |-> sweep[w].priors, tenants |-> sweep[w].tenants,
                   tenant |-> sweep[w].tenant, rows |-> sweep[w].rows,
                   asking |-> Null, mine |-> mine]
          BY <2>1, <4>1 DEF PassOK
        <4> QED
          BY <4>2 DEF mine
      <3> HIDE DEF p
      <3> QED
        BY <2>1, <3>1 DEF PassOK
    <2>3. sweep' = [sweep EXCEPT ![w] = p] /\ UNCHANGED <<decisions, interventions>>
      BY <1>7 DEF append
    <2> HIDE DEF p
    <2> QED
      BY <2>2, <2>3, PassOnly
  <1>8. ASSUME NEW w \in Planners, Abort(w) PROVE StandInv'
    <2>1. PICK after \in {Onward(sweep[w]), Null} : sweep' = [sweep EXCEPT ![w] = after]
      BY <1>8 DEF Abort
    <2>2. after # Null => PassOK(after)
      BY <1>8, OnwardOK DEF Abort, StandInv
    <2>3. UNCHANGED <<decisions, interventions>>
      BY <1>8 DEF Abort
    <2> QED
      BY <2>1, <2>2, <2>3, PassOnly
  <1>9. CASE UNCHANGED vars
    BY <1>1, <1>9 DEF vars
  <1> QED
    BY <1>2, <1>3, <1>4, <1>5, <1>6, <1>7, <1>8, <1>9, CommitKeeps DEF Next, Plan

(* Whatever planners race or fail, a mandate's standing proposal is the      *)
(* first that the ledger decided, and there is one exactly if it decided any *)
(* (planner/datechange.py, maybe_propose).                                   *)
THEOREM Standing == Spec => []DecisionsStand
  <1>1. Init => StandInv
    BY StandInit
  <1>2. StandInv /\ [Next]_vars => StandInv'
    BY StandStep
  <1>3. StandInv => DecisionsStand
    BY DEF StandInv
  <1> QED
    BY <1>1, <1>2, <1>3, PTL DEF Spec
=============================================================================
