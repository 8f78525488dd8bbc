----------------------------- MODULE DateChange -----------------------------
(***************************************************************************)
(* The aggregator, which pools outcomes into segment_priors tenant by      *)
(* tenant, and the planners' sweep, which proposes another debit day for   *)
(* the mandates that keep failing on theirs.                               *)
(*                                                                         *)
(* A sweep is one READ COMMITTED transaction per tenant: it reads the      *)
(* chronic mandates, then of each whether a proposal stands, and appends   *)
(* behind the lock of the tenant's chain, which it holds to its end.       *)
(***************************************************************************)
EXTENDS Priors, Sequences

CONSTANTS
    Mandates, tenant_of, segment_of,
    active_tenants,                     \* the roster, in its order
    due_days,                           \* the days on which a mandate may fall due
    Treated,                            \* mandates in the treatment arm of a stage that acts
    Planners,
    CHRONIC_CYCLES, MIN_OBSERVATIONS, BOOTSTRAP_OBSERVATIONS,
    SWEEP_BATCH,
    MaxCycles, MaxEvents,               \* bounds, by mandate
    MaxFailedPasses,                    \* bound: failing collects and sweeps
    Null

ASSUME MandateAssumption == /\ tenant_of \in [Mandates -> Tenants]
                             /\ active_tenants \in Seq(Tenants) /\ active_tenants # <<>>

VARIABLES
    cycles,             \* of a mandate, by due date: [day, attempted]
    events_raw,         \* of a mandate: outcomes by day, [successes, attempts]
    segment_priors,
    collected,          \* the aggregator's pass: tenants to read, and observations read
    interventions,      \* the standing proposal of a mandate, or Null
    decisions,          \* the proposals that the ledger holds of a mandate
    sweep,              \* a planner's pass, or Null
    failed_passes

vars == <<cycles, events_raw, segment_priors, collected, interventions, decisions, sweep,
          failed_passes>>

Init ==
    /\ cycles = [m \in Mandates |-> <<>>]
    /\ events_raw = [m \in Mandates |-> [d \in Month |-> [successes |-> 0, attempts |-> 0]]]
    /\ segment_priors = [k \in {} |-> Null]
    /\ collected = [to_read |-> active_tenants, observations |-> {}]
    /\ interventions = [m \in Mandates |-> Null]
    /\ decisions = [m \in Mandates |-> <<>>]
    /\ sweep = [w \in Planners |-> Null]
    /\ failed_passes = 0

-----------------------------------------------------------------------------
(* The rail: a mandate falls due, and its debit fails or is captured.        *)
FallsDue(m, d) ==
    /\ d \in due_days[m] /\ Len(cycles[m]) < MaxCycles[m]
    /\ cycles' = [cycles EXCEPT ![m] = Append(@, [day |-> d, attempted |-> FALSE])]
    /\ UNCHANGED <<events_raw, segment_priors, collected, interventions, decisions, sweep,
                   failed_passes>>

Outcome(m, d, ok) ==
    /\ cycles[m] # <<>>
    /\ MapThenSumSet(LAMBDA e : events_raw[m][e].attempts, Month) < MaxEvents[m]
    /\ events_raw' = [events_raw EXCEPT ![m][d] =
                         [successes |-> @.successes + IF ok THEN 1 ELSE 0,
                          attempts |-> @.attempts + 1]]
    /\ cycles' = IF ok THEN cycles
                 ELSE [cycles EXCEPT ![m][Len(cycles[m])].attempted = TRUE]
    /\ UNCHANGED <<segment_priors, collected, interventions, decisions, sweep, failed_passes>>

-----------------------------------------------------------------------------
(* The aggregator reads a tenant's outcomes, each once for every cycle of    *)
(* its mandate: the query joins cycles by the mandate alone.                 *)
OUTCOMES(t, k) ==
    {m \in Mandates : /\ tenant_of[m] = t /\ segment_of[m] = k[1]
                      /\ cycles[m] # <<>> /\ events_raw[m][k[2]].attempts > 0}

counts(t, k, what) ==
    MapThenSumSet(LAMBDA m : Len(cycles[m]) * events_raw[m][k[2]][what], OUTCOMES(t, k))

collect_tenant(t) ==
    {[tenant |-> t, key |-> k,
      successes |-> counts(t, k, "successes"), attempts |-> counts(t, k, "attempts")] :
        k \in {c \in Segments \X Month : OUTCOMES(t, c) # {}}}

Collect ==
    /\ collected.to_read # <<>>
    /\ collected' = [to_read |-> Tail(collected.to_read),
                     observations |-> collected.observations
                                      \cup collect_tenant(Head(collected.to_read))]
    /\ UNCHANGED <<cycles, events_raw, segment_priors, interventions, decisions, sweep,
                   failed_passes>>

(* A tenant that cannot be read is logged, and the next one is read.         *)
CollectFails ==
    /\ collected.to_read # <<>> /\ failed_passes < MaxFailedPasses
    /\ collected' = [collected EXCEPT !.to_read = Tail(@)]
    /\ failed_passes' = failed_passes + 1
    /\ UNCHANGED <<cycles, events_raw, segment_priors, interventions, decisions, sweep>>

Publish ==
    /\ collected.to_read = <<>>
    /\ segment_priors' = publish(segment_priors, aggregate(collected.observations))
    /\ collected' = [to_read |-> active_tenants, observations |-> {}]
    /\ UNCHANGED <<cycles, events_raw, interventions, decisions, sweep, failed_passes>>

-----------------------------------------------------------------------------
(* What a segment's days promise, and on how many observations.              *)
hazard_from_priors(priors, segment) ==
    [d \in Month |->
        LET k == key_for(priors, segment, d) IN
        [rate |-> hazard(priors, k),
         observations |-> CASE priors.source = "bootstrap" -> BOOTSTRAP_OBSERVATIONS
                            [] priors.source # "bootstrap" ->
                                  IF k \in DOMAIN priors.cells THEN priors.cells[k].n_obs ELSE 0]]

Above(p, q) == p.num * q.den > q.num * p.den

populated(days) == {d \in Month : days[d].observations >= MIN_OBSERVATIONS}

p_funded(days, d) == IF d \in populated(days) THEN days[d].rate ELSE [num |-> 0, den |-> 1]

peak_day_of_month(days) ==
    Min({d \in populated(days) : \A e \in populated(days) : ~Above(days[e].rate, days[d].rate)})

(* A lift of more than a quarter, on a run of CHRONIC_CYCLES.                *)
propose_date_change(debit_day, days, run) ==
    IF populated(days) = {} \/ run < CHRONIC_CYCLES THEN Null
    ELSE LET best == peak_day_of_month(days)
             p == p_funded(days, best)
             q == p_funded(days, debit_day)
         IN  IF best # debit_day /\ 4 * (p.num * q.den - q.num * p.den) > p.den * q.den
             THEN [from_day |-> debit_day, to_day |-> best]
             ELSE Null

consecutive_failures(m) ==
    LET n == Len(cycles[m])
    IN  Cardinality({i \in 1 .. n : \A j \in i .. n : cycles[m][j].attempted})

debit_day(m) == Max({cycles[m][i].day : i \in 1 .. Len(cycles[m])})

CHRONIC(t) ==
    {m \in Mandates : /\ tenant_of[m] = t
                      /\ interventions[m] = Null
                      /\ Cardinality({i \in 1 .. Len(cycles[m]) : cycles[m][i].attempted})
                            >= CHRONIC_CYCLES}

proposal(priors, m) ==
    propose_date_change(debit_day(m), hazard_from_priors(priors, segment_of[m]),
                        consecutive_failures(m))

-----------------------------------------------------------------------------
Tick(w) ==
    /\ sweep[w] = Null
    /\ sweep' = [sweep EXCEPT ![w] =
                    [priors |-> load_priors(segment_priors), tenants |-> active_tenants, tenant |-> Null,
                     rows |-> {}, asking |-> Null, mine |-> {}]]
    /\ UNCHANGED <<cycles, events_raw, segment_priors, collected, interventions, decisions,
                   failed_passes>>

(* What follows a tenant's transaction: the next tenant, or the end.         *)
Onward(pass) == IF Len(pass.tenants) = 1 THEN Null
                ELSE [pass EXCEPT !.tenants = Tail(@), !.tenant = Null, !.rows = {},
                                  !.asking = Null, !.mine = {}]

(* A tenant without chronic mandates is passed at once.                      *)
chosen(pass, t, rows) == IF rows = {} THEN Onward(pass)
                         ELSE [pass EXCEPT !.tenant = t, !.rows = rows]

Sweep(w) ==
    /\ sweep[w] # Null /\ sweep[w].tenant = Null
    /\ LET t == Head(sweep[w].tenants) IN \E rows \in SUBSET CHRONIC(t) :
          /\ Cardinality(rows) = Min({SWEEP_BATCH, Cardinality(CHRONIC(t))})
          /\ sweep' = [sweep EXCEPT ![w] = chosen(@, t, rows)]
    /\ UNCHANGED <<cycles, events_raw, segment_priors, collected, interventions, decisions,
                   failed_passes>>

(* maybe_propose, to the point where it asks for the chain's lock.           *)
considered(pass, m) ==
    LET p == IF m \in Treated /\ interventions[m] = Null THEN proposal(pass.priors, m) ELSE Null
    IN  [pass EXCEPT !.rows = @ \ {m},
                     !.asking = IF p = Null THEN Null ELSE [mandate |-> m, proposal |-> p]]

maybe_propose(w, m) ==
    /\ sweep[w] # Null /\ m \in sweep[w].rows /\ sweep[w].asking = Null
    /\ sweep' = [sweep EXCEPT ![w] = considered(@, m)]
    /\ UNCHANGED <<cycles, events_raw, segment_priors, collected, interventions, decisions,
                   failed_passes>>

Locked(t, w) == \E v \in Planners \ {w} :
                    sweep[v] # Null /\ sweep[v].tenant = t /\ sweep[v].mine # {}

Asks(w) == sweep[w] # Null /\ sweep[w].asking # Null /\ ~Locked(sweep[w].tenant, w)

asked(pass) == [pass EXCEPT !.asking = Null, !.mine = @ \cup {pass.asking}]

append_Committed(w) ==
    /\ Asks(w)
    /\ decisions' = [decisions EXCEPT ![sweep[w].asking.mandate] =
                        Append(@, sweep[w].asking.proposal)]
    /\ sweep' = [sweep EXCEPT ![w] = asked(@)]
    /\ UNCHANGED <<cycles, events_raw, segment_priors, collected, interventions, failed_passes>>

append(w) ==
    /\ Asks(w)
    /\ sweep' = [sweep EXCEPT ![w] = asked(@)]
    /\ UNCHANGED <<cycles, events_raw, segment_priors, collected, interventions, decisions,
                   failed_passes>>

(* The end of the tenant's transaction: decisions are keyed by an id and an  *)
(* instant, interventions by an id that the mandate determines, and an       *)
(* insert that conflicts does nothing.                                       *)
made(pass, m) == {p \in pass.mine : p.mandate = m}
Made(pass, m) == (CHOOSE p \in made(pass, m) : TRUE).proposal

Commit(w) ==
    /\ sweep[w] # Null /\ sweep[w].tenant # Null
    /\ sweep[w].rows = {} /\ sweep[w].asking = Null
    /\ decisions' = [m \in Mandates |->
          IF made(sweep[w], m) = {} THEN decisions[m]
          ELSE Append(decisions[m], Made(sweep[w], m))]
    /\ interventions' = [m \in Mandates |->
          IF made(sweep[w], m) = {} \/ interventions[m] # Null THEN interventions[m]
          ELSE Made(sweep[w], m)]
    /\ sweep' = [sweep EXCEPT ![w] = Onward(@)]
    /\ UNCHANGED <<cycles, events_raw, segment_priors, collected, failed_passes>>

(* The transaction fails and the next tenant is taken, or the process fails: *)
(* nothing of it was written.                                                *)
Abort(w) ==
    /\ sweep[w] # Null /\ failed_passes < MaxFailedPasses
    /\ \E after \in {Onward(sweep[w]), Null} : sweep' = [sweep EXCEPT ![w] = after]
    /\ failed_passes' = failed_passes + 1
    /\ UNCHANGED <<cycles, events_raw, segment_priors, collected, interventions, decisions>>

Plan(w) == \/ Tick(w) \/ Sweep(w) \/ append(w) \/ Commit(w)
           \/ \E m \in Mandates : maybe_propose(w, m)

Next ==
    \/ \E m \in Mandates, d \in Month :
          FallsDue(m, d) \/ Outcome(m, d, TRUE) \/ Outcome(m, d, FALSE)
    \/ Collect \/ CollectFails \/ Publish
    \/ \E w \in Planners : Plan(w) \/ Abort(w)

(* Each planner's loop goes on: tick after tick, and within a tick.          *)
Fairness == \A w \in Planners : WF_vars(Plan(w))

Spec == Init /\ [][Next]_vars
FairSpec == Spec /\ Fairness

-----------------------------------------------------------------------------
(* A cell of segment_priors draws on at least MIN_CONTRIBUTORS tenants, each *)
(* with outcomes of its own in that cell: whichever collects failed, and     *)
(* however often a join counted an outcome.                                  *)
Observed(k) ==
    {t \in Tenants : \E m \in Mandates : /\ tenant_of[m] = t /\ segment_of[m] = k[1]
                                         /\ events_raw[m][k[2]].attempts > 0}

CellsAreAnonymous ==
    \A k \in DOMAIN segment_priors : Cardinality(Observed(k)) >= MIN_CONTRIBUTORS

(* A mandate has a standing proposal exactly if the ledger has a decision of *)
(* one, and it is the one decided first: whichever of two planners lost the  *)
(* race, or failed between the decision and the intervention.                *)
DecisionsStand ==
    \A m \in Mandates :
        interventions[m] = IF decisions[m] = <<>> THEN Null ELSE decisions[m][1]

(* No mandate stays for ever without a proposal on a run of failures and a   *)
(* debit day that, as far as is published of anyone, pays a quarter less     *)
(* than another.                                                             *)
NeedsAnotherDay(m) ==
    /\ m \in CHRONIC(tenant_of[m]) /\ consecutive_failures(m) >= CHRONIC_CYCLES
    /\ DOMAIN segment_priors = {}
    /\ \E d \in Month : day_presence[d] > day_presence[debit_day(m)] + 25

ChronicGetsProposed == \A m \in Treated : []<>~NeedsAnotherDay(m)
=============================================================================
