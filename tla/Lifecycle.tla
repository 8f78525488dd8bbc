------------------------------ MODULE Lifecycle ------------------------------
(***************************************************************************)
(* A mandate from its first bill to its revocation or the end of what is   *)
(* observed (sim/lifecycle.py), and the revocation hazard that is fitted   *)
(* to a population of them (retention/revocation.py).                      *)
(***************************************************************************)
EXTENDS Backtest

CONSTANTS CyclesPerMandate, MinCellObservations

BillingDays == 30
UNPAID_BUCKETS == {0, 30, 60, 90}
MAX_FAILURE_BUCKET == 4

(* The state that drives the hazard.                                         *)
Healthy == [consecutive_failures |-> 0, days_since_success |-> 0, successful_cycles |-> 0]

Enrolled(rail) == [rail |-> rail, cycles |-> <<>>, state |-> Healthy, months |-> <<>>, died |-> FALSE]

Observing(life) == ~life.died /\ Len(life.cycles) < CyclesPerMandate

After_KeepsUnpaid(state, failed) ==
    IF failed THEN [state EXCEPT !.consecutive_failures = @ + 1, !.days_since_success = @ + BillingDays]
    ELSE [state EXCEPT !.consecutive_failures = 0, !.successful_cycles = @ + 1]

After(state, failed) ==
    IF failed THEN [state EXCEPT !.consecutive_failures = @ + 1, !.days_since_success = @ + BillingDays]
    ELSE [consecutive_failures |-> 0, days_since_success |-> 0,
          successful_cycles |-> state.successful_cycles + 1]

(* The roll is a hash, against a daily hazard above 0 and at most 0.95.      *)
revocation_roll(state) == BOOLEAN

(* A month: its bill, due thirty days later for each month but at a day and  *)
(* an hour that are drawn anew (drawn), the state it leaves, and whether the *)
(* mandate outlives it.  The events keep the time that was drawn.  months is *)
(* what the hazard was drawn from, which no model sees.                      *)
generate_lifecycle(life, drawn, cause, dies) ==
    LET cycle == [due |-> drawn + Len(life.cycles) * BillingDays * Day,
                  observables |-> emit_events(drawn, cause, FALSE)]
        state == After(life.state, initial_debit_failed(cycle))
    IN  [life EXCEPT !.cycles = Append(@, cycle), !.state = state,
                     !.months = Append(@, [state |-> state, died |-> dies]), !.died = dies]

-----------------------------------------------------------------------------
(* retention/revocation.py: the same months, from the events alone.          *)
Unsettled(life, i) ==
    LET settled == {j \in 1 .. i : ~initial_debit_failed(life.cycles[j])}
    IN  IF settled = {} THEN i ELSE i - Largest(settled)

observations(life) ==
    [i \in DOMAIN life.cycles |->
        [features |-> [consecutive_failures |-> Unsettled(life, i),
                       days_since_success |-> BillingDays * Unsettled(life, i),
                       successful_cycles |->
                           Cardinality({j \in 1 .. i : ~initial_debit_failed(life.cycles[j])})],
         rail |-> life.rail,
         died |-> life.died /\ i = Len(life.cycles)]]

failure_bucket(f) == Smallest({f.consecutive_failures, MAX_FAILURE_BUCKET})
unpaid_bucket(f) == Largest({e \in UNPAID_BUCKETS : e <= f.days_since_success})
cell(f, rail) == <<failure_bucket(f), unpaid_bucket(f), rail>>

(* fit: the months at risk and the deaths, by cell and of all.  A row is     *)
(* the i-th month of a mandate.                                              *)
BilledMonths(lives) == UNION {{<<m, i>> : i \in DOMAIN lives[m].cycles} : m \in DOMAIN lives}

fit(lives) ==
    LET row(x) == observations(lives[x[1]])[x[2]]
        cell_of(x) == cell(row(x).features, row(x).rail)
        counts(S) == <<Cardinality({x \in S : row(x).died}), Cardinality(S)>>
    IN  [cells |-> [c \in {cell_of(x) : x \in BilledMonths(lives)} |->
                        counts({x \in BilledMonths(lives) : cell_of(x) = c})],
         overall |-> counts(BilledMonths(lives))]

(* A cell with too few months answers as the population does.                *)
monthly_hazard(model, f, rail) ==
    LET c == cell(f, rail)
    IN  IF c \in DOMAIN model.cells /\ model.cells[c][2] >= MinCellObservations
        THEN model.cells[c] ELSE model.overall

(* Mandates, dead ones too, whose last month has a hazard of percent or more. *)
at_risk_mandates(model, lives, percent) ==
    {i \in DOMAIN lives :
        /\ lives[i].cycles # <<>>
        /\ LET r == Last(observations(lives[i]))
               h == monthly_hazard(model, r.features, r.rail)
           IN  100 * h[1] >= percent * h[2]}
=============================================================================
