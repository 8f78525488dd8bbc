----------------------------- MODULE MCPlanning -----------------------------
(***************************************************************************)
(* A driver for the planner's pure algorithms, for the backtest of them    *)
(* and for what is fitted and measured.  A behaviour starts from a         *)
(* decision instant (rail and minute of the week), from a simulated cycle, *)
(* or from an empty cycle, customer, population, sample or stream, and     *)
(* adds slots, cycles, months, units or attempts to it.  Every state is    *)
(* one input.                                                              *)
(***************************************************************************)
EXTENDS Features, Lifecycle, Survival, Nowcast

CONSTANTS MaxSlots,                 \* slots of a generated cycle
          Budget,                   \* attempts of a generated cycle
          Horizon,                  \* hours looked at from a decision instant
          Window,                   \* hours of a simulated cycle
          MaxMandates,              \* mandates of a population
          MaxUnits, MaxDuration,    \* units of a sample
          MaxBursts, MaxLate        \* bursts of attempts on an issuer, those of them late

ASSUME BudgetAssumption == Budget \in Nat
ASSUME HorizonAssumption == Horizon \in Nat
ASSUME WindowAssumption ==          \* dunning ends within it; money that stays is there for a year
    Window \in DUNNING_WINDOW_DAYS * 24 .. 365 * 24

VARIABLES subject,                  \* which of the others is not None
          instant,                  \* <<rail, minute>>
          cycle,                    \* the solver's input
          trial,                    \* a configuration and a simulated cycle
          customer,                 \* a customer's cycles, as generated
          lives,                    \* a population of mandates
          sample,                   \* how long the mandates of two arms lived
          issuer                    \* its tracker and the attempts it was told of
vars == <<subject, instant, cycle, trial, customer, lives, sample, issuer>>

(* Monday, Thursday and Friday: before and across a weekend; minutes on     *)
(* both sides of every boundary of Rails and Notices.                       *)
Minutes == {0, 30, 8 * Hour - 1, 8 * Hour, 10 * Hour, 13 * Hour, 17 * Hour - 1,
            19 * Hour - 1, 19 * Hour, 21 * Hour + 30, 23 * Hour + 49, 23 * Hour + 50, 23 * Hour + 59}
Instants == {<<r, d * Day + m>> : r \in RailNames, d \in {0, 3, 4}, m \in Minutes}

Cycle(w) == [amount |-> 1000, w |-> w, min_ev |-> 0, lead |-> 1, budget |-> Budget, slots |-> <<>>]

(* Due on both sides of 08:00 IST; money for 36 hours, or for part of one.  *)
Configs == [non_absorbing : BOOLEAN, dwell : {36 * Hour, 90}, horizon : {30}]
Dues == {DueAt(0, h) : h \in {0, 2, 3, 18}}
TrialsOf(dues, outages) ==
    UNION {{[cf |-> cf, cycle |-> c] : c \in generate_cycle(cf, a, due, outages)}
              : cf \in Configs, a \in Archetypes, due \in dues}
Trials == TrialsOf(Dues, {}) \cup TrialsOf({ORIGIN}, {<<ORIGIN, ORIGIN + 54>>})

Given(s, inputs) == IF subject = s THEN inputs ELSE {None}

Init == /\ subject \in {"instant", "trial", "customer", "cycle", "lives", "sample",
                         "issuer"}
        /\ instant \in Given("instant", Instants)
        /\ trial \in Given("trial", Trials)
        /\ customer \in Given("customer", {<<>>})
        /\ cycle \in Given("cycle", {Cycle(w) : w \in {0, 1000, continuation_value_paise(1000)}})
        /\ lives \in Given("lives", {<<>>})
        /\ sample \in Given("sample", {<<>>})
        /\ issuer \in Given("issuer", {[tracker |-> NewTracker, told |-> <<>>]})

(* Money from some hours after the due time on, for ten hours.               *)
Funded(due, hours) ==
    IF hours = Nothing THEN [funding_time |-> Nothing, windows |-> {}]
    ELSE [funding_time |-> due + hours * Hour,
          windows |-> {<<due + hours * Hour, due + (hours + 10) * Hour>>}]

(* Presence is per slot and zero where the slot is illegal; survival never  *)
(* rises; the revocation risk rises with the wait; the issuer recovers      *)
(* before slot 2.                                                           *)
AddSlot ==
    /\ cycle # None
    /\ Len(cycle.slots) < MaxSlots
    /\ \E legal \in BOOLEAN, f \in {0, 1, 2, 4} :
        LET n == Len(cycle.slots) IN
        /\ n > 0 => f <= cycle.slots[n].survival
        /\ cycle' = [cycle EXCEPT !.slots = Append(@,
              [legal |-> legal, survival |-> f,
               presence |-> IF ~legal THEN 0 ELSE IF n = 1 THEN 4 - f ELSE f,
               health |-> health_multiplier(2, n),
               dr |-> n])]
    /\ UNCHANGED <<subject, instant, trial, customer, lives, sample, issuer>>

(* A cycle settles at once, or fails and is funded a day later or never.    *)
AddCycle ==
    /\ customer # None
    /\ Len(customer) < 3
    /\ \E day \in 0 .. 2, c \in {<<Nothing, 0>>, <<"no_funds", 26>>, <<"no_funds", Nothing>>} :
        LET due == DueAt(day, 4 * day) IN
        customer' = Append(customer,
            [due |-> due, mandate |-> day % 2, observables |-> emit_events(due, c[1], FALSE),
             truth |-> Funded(due, c[2])])
    /\ UNCHANGED <<subject, instant, cycle, trial, lives, sample, issuer>>

(* The next mandate is enrolled once the last one died or was observed out. *)
Enrol ==
    /\ lives # None
    /\ Len(lives) < MaxMandates /\ (lives # <<>> => ~Observing(Last(lives)))
    /\ \E rail \in {"upi_autopay", "enach"} : lives' = Append(lives, Enrolled(rail))
    /\ UNCHANGED <<subject, instant, cycle, trial, customer, sample, issuer>>

(* The extreme dues of a month, for the first mandate.                       *)
DrawnDues(n) == {DueAt(0, 0)} \cup (IF n = 1 THEN {DueAt(DueSpreadDays - 1, 23)} ELSE {})

Bill ==
    /\ lives # None
    /\ lives # <<>> /\ Observing(Last(lives))
    /\ \E drawn \in DrawnDues(Len(lives)), cause \in {Nothing, "no_funds"},
          dies \in revocation_roll(Last(lives).state) :
        lives' = [lives EXCEPT ![Len(lives)] = generate_lifecycle(@, drawn, cause, dies)]
    /\ UNCHANGED <<subject, instant, cycle, trial, customer, sample, issuer>>

(* Units come by duration: their order says nothing.                        *)
AddUnit ==
    /\ sample # None
    /\ Len(sample) < MaxUnits
    /\ \E u \in [duration : 1 .. MaxDuration, observed : BOOLEAN, arm : {"a", "b"}] :
        /\ sample # <<>> => Last(sample).duration <= u.duration
        /\ sample' = Append(sample, u)
    /\ UNCHANGED <<subject, instant, cycle, trial, customer, lives, issuer>>

(* A burst in the issuer's next window or after one nobody attempted in, or *)
(* late: in any window before the last, closed or never attempted in.       *)
Burst(start, n, good) ==
    [i \in 1 .. n |-> [at |-> start * WINDOW + 2, success |-> i <= good]]

LateOnes(told) ==
    {i \in DOMAIN told : \E j \in 1 .. i - 1 : told[i][1].at < told[j][1].at}

Attempts ==
    /\ issuer # None
    /\ LET told == issuer.told
           last == IF told = <<>> THEN -1 ELSE issuer.tracker.last_window \div WINDOW
           next == last + (IF Len(issuer.tracker.closed) % 2 = 0 THEN 1 ELSE 2)
           late == IF Cardinality(LateOnes(told)) < MaxLate THEN 0 .. last - 1 ELSE {}
       IN  \E start \in {next} \cup late, kind \in {<<4, 1>>, <<5, 0>>, <<12, 3>>, <<6, 6>>} :
             LET burst == Burst(start, kind[1], kind[2])
             IN  /\ Len(told) < MaxBursts
                 /\ issuer' = [told |-> Append(told, burst),
                               tracker |-> FoldLeft(LAMBDA t, a : observe(t, a.at, a.success),
                                                    issuer.tracker, burst)]
    /\ UNCHANGED <<subject, instant, cycle, trial, customer, lives, sample>>

Next == AddSlot \/ AddCycle \/ Enrol \/ Bill \/ AddUnit \/ Attempts
Spec == Init /\ [][Next]_vars

Solved == cycle # None /\ cycle.slots # <<>>
Rail == instant[1]
Decided == instant[2]

-----------------------------------------------------------------------------
(* The policy is the best plan: no other way of spending the attempts left  *)
(* is worth more than the value the solver reports, and what the backtest   *)
(* does with it, slot after failed slot, attains that value.  Plans are     *)
(* listed, not derived by the recursion: each attempt is at a slot that is  *)
(* a candidate when the one before it failed.                               *)
Plans(c, t, b) ==
    {p \in UNION {[1 .. n -> Slots(c)] : n \in 0 .. b} :
        \A i \in DOMAIN p : p[i] \in Candidates(c, IF i = 1 THEN t ELSE p[i - 1])}

(* Paise times Scale(b), whatever the length of the plan.                    *)
Worth(c, p, b) ==
    LET n == Len(p)
        worth[k \in 0 .. n] ==      \* of its last k attempts
            IF k = 0 THEN c.w * Scale(b - n)
            ELSE LET u == p[n - k + 1]
                 IN  attempt_value(c, b - n + k, presence_p(c, u), u, worth[k - 1])
    IN  worth[n]

PolicyIsOptimal ==
    Solved =>
        LET policy == solve_presence(cycle)
            walk == treatment_slots(cycle, policy)
        IN  /\ \A b \in 0 .. Budget, t \in Slots(cycle) :
                /\ \E p \in Plans(cycle, t, b) : Worth(cycle, p, b) = policy[b][t].value
                /\ \A p \in Plans(cycle, t, b) : Worth(cycle, p, b) <= policy[b][t].value
            /\ walk \in Plans(cycle, 0, Budget)
            /\ Worth(cycle, walk, Budget) = policy[Budget][0].value
            /\ choose_slot(cycle) = (IF walk = <<>> THEN STOP ELSE walk[1])

(* Three renderings of one decision.  The production solver and the         *)
(* transcription of the specification agree, action for action: the U - Z/S *)
(* rearrangement, the mask and the tie.  And the explanation a reviewer is  *)
(* shown leads with the slot that was chosen, marks none when the decision  *)
(* was to stop, and justifies a stop with an attempt that does not beat     *)
(* keeping the mandate.                                                     *)
SolveMatchesReference ==
    Solved => \A b \in 0 .. Budget, t \in Slots(cycle) :
        solve(cycle)[b][t] = solve_reference(cycle)[b][t]

ExplanationLeadsWithChosen ==
    Solved => \A b \in 1 .. Budget, t \in Slots(cycle) :
        LET shown == rank_candidates(cycle, solve(cycle), b, t)
        IN  /\ IF should_stop(solve(cycle), b, t)
               THEN \A i \in DOMAIN shown : ~shown[i].chosen
               ELSE shown # <<>> /\ shown[1].chosen
            /\ should_stop(solve_presence(cycle), b, t) =>
                LET reason == stopping_rationale(cycle, solve_presence(cycle), b, t)
                IN  reason.said # "nothing legal" => reason.ev <= cycle.w * Scale(b)

DecisionIsOne == SolveMatchesReference /\ ExplanationLeadsWithChosen

(* The planner offers a slot to the solver exactly when it can be carried   *)
(* out: the notice planner finds an instant to tell the customer, the rail  *)
(* accepts some submission of the notice and the debit itself, and the      *)
(* notice planner's own instant is one the rail accepts.                    *)
OfferedSlotsExact ==
    instant # None =>
        \A s \in 0 .. Horizon - 1 :
            LET debit == SlotTime(Decided, s)
                send == plan(debit, Decided, None, 0, 3)
                accepted == {m \in Decided .. debit - NoticeLead : is_pdn_send_legal(Rail, m, debit)}
            IN  /\ s \in offered(Rail, Decided, Decided + (Horizon - 1) * Hour, Horizon) <=>
                       /\ s < Horizon - 1
                       /\ is_execution_legal(Rail, debit)
                       /\ accepted # {} /\ send # None
                /\ send # None /\ accepted # {} => send \in accepted

-----------------------------------------------------------------------------
(* The simulated money is where the harness looks for it: a slot is scored  *)
(* as funded iff the account holds money in that hour, and while money      *)
(* stays once it came, from the funding slot on and never before.           *)
FundsAsClaimed ==
    trial # None =>
        LET c == trial.cycle
            present == funds_present(c, Window)
            slot == funding_slot(c, Window)
        IN  /\ \A s \in 0 .. Window - 1 :
                  s \in present <=> \E w \in c.truth.windows :
                        w[1] < SlotTime(c.due, s + 1) /\ SlotTime(c.due, s) < w[2]
            /\ ~trial.cf.non_absorbing =>
                  present = (IF slot = Nothing THEN {} ELSE slot .. Window - 1)

(* The control arm has three attempts, of which none goes astray: each is    *)
(* made or denied by the rules, unless it finds money first, and those made *)
(* are on its three days, lawful and the notice's lead after the cycle was  *)
(* due.                                                                      *)
ControlSpendsWhatItMay ==
    trial # None /\ initial_debit_failed(trial.cycle) =>
        LET c == trial.cycle
            slots == control_slots(c.due, Window)
            r == run_arm(c, slots, Window)
        IN  /\ ~r.recovered => Len(r.decision_slots) + r.gate_denials = 3
            /\ \A i \in DOMAIN r.decision_slots :
                  LET t == SlotTime(c.due, r.decision_slots[i]) IN
                  /\ date_ist(t) - date_ist(c.due) \in {1, 3, 5}
                  /\ is_execution_legal("upi_autopay", t)
                  /\ t - c.due >= NoticeLead

(* harness.py: the control keeps days 1, 3 and 5 but fires at an hour inside *)
(* the window, so both arms are lawful and only timing varies.               *)
BothArmsAreLawful ==
    trial # None /\ initial_debit_failed(trial.cycle) =>
        run_arm(trial.cycle, control_slots(trial.cycle.due, Window), Window).gate_denials = 0

(* What a model is told about a cycle depends neither on how any later      *)
(* cycle of the customer ended nor on when money really came, for any cycle; *)
(* and it is asked of every slot in which the cycle was still unfunded.      *)
Flipped(cycles, j) ==
    [cycles EXCEPT ![j].observables =
        emit_events(cycles[j].due, IF has_event(cycles[j], "payment.failed") THEN Nothing
                                   ELSE "no_funds", FALSE)]

Retimed(cycles) ==
    [i \in DOMAIN cycles |-> [cycles[i] EXCEPT !.truth = Funded(cycles[i].due, 50)]]

Shown(rows, c) == {<<r.slot, r.features>> : r \in {x \in rows : x.due = c.due}}

Told(cycles, c) ==
    <<revocation_features(c, cycles), Shown(build_dataset(cycles, 7), c),
      Shown(build_presence_dataset(cycles, 28), c)>>

FeaturesArePast ==
    customer # None =>
        /\ \A i, j \in DOMAIN customer :
            customer[i].due < customer[j].due
                => Told(customer, customer[i]) = Told(Flipped(customer, j), customer[i])
        /\ \A i \in DOMAIN customer :
            LET now == Told(customer, customer[i])
                later == Told(Retimed(customer), customer[i])
            IN  now[1] = later[1] /\ now[2] \subseteq later[2] /\ now[3] = later[3]

-----------------------------------------------------------------------------
(* The months of mandates are one history for whoever reads them: the model *)
(* is fitted on the states from which revocations were really drawn, and    *)
(* its answer is the share of deaths in the state's cell, or of all if thin. *)
(* The backtest asks it about those states too (given one success before),  *)
(* up to the days: bills are a month apart but for the days drawn for each. *)
Months == UNION {{<<i, j>> : j \in DOMAIN lives[i].months} : i \in DOMAIN lives}
State(x) == lives[x[1]].months[x[2]].state
CellOf(x) == cell(State(x), lives[x[1]].rail)

Asks(features, state) ==
    /\ features.consecutive_failures = state.consecutive_failures
    /\ features.successful_cycles = state.successful_cycles
    /\ features.days_since_success - state.days_since_success \in -DueSpreadDays .. DueSpreadDays - 1

HazardIsOfItsState ==
    lives # None /\ Months # {} =>
        LET model == fit(lives)
            share(S) == <<Cardinality({x \in S : lives[x[1]].months[x[2]].died}), Cardinality(S)>>
        IN  /\ \A x \in Months :
                LET life == lives[x[1]]
                    row == observations(life)[x[2]]
                    alike == {y \in Months : CellOf(y) = CellOf(x)}
                IN  /\ [state |-> row.features, died |-> row.died] = life.months[x[2]]
                    /\ monthly_hazard(model, State(x), life.rail) =
                          share(IF Cardinality(alike) >= MinCellObservations THEN alike ELSE Months)
                    /\ initial_debit_failed(life.cycles[x[2]]) /\ State(x).successful_cycles > 0
                          => Asks(revocation_features(life.cycles[x[2]], life.cycles), State(x))
            /\ at_risk_mandates(model, lives, 15) =
                  {i \in DOMAIN lives : LET h == monthly_hazard(model, lives[i].state, lives[i].rail)
                                        IN  lives[i].cycles # <<>> /\ 100 * h[1] >= 15 * h[2]}

(* The survival curve gives a censored mandate the fate of those still      *)
(* observed: it is what remains when its weight is shared out among them    *)
(* (Efron's redistribution to the right).  And neither arm is favoured: the *)
(* excess of deaths in one is the want of them in the other.                *)
Weight(s) ==
    LET w[t \in 1 .. MaxDuration] ==
            IF t = 1 THEN <<1, Len(s)>>
            ELSE LET later == Count(s, LAMBDA u : u.duration >= t)
                     lost == Count(s, LAMBDA u : u.duration = t - 1 /\ ~u.observed)
                 IN  IF later = 0 THEN w[t - 1] ELSE Times(w[t - 1], <<later + lost, later>>)
    IN  w

Remaining(s, t) ==
    FoldSet(LAMBDA u, rest : Plus(rest, Times(<<-events_at(s, u), 1>>, Weight(s)[u])),
            <<1, 1>>, 1 .. t)

SurvivalIsUnbiased ==
    sample # None /\ sample # <<>> =>
        /\ \A t \in 1 .. MaxDuration : SameFraction(kaplan_meier(sample, t), Remaining(sample, t))
        /\ SameFraction(discrepancy(sample, "a"),
                        Times(<<-1, 1>>, discrepancy(sample, "b")))

-----------------------------------------------------------------------------
(* The issuer is held to be down exactly when the windows say so, however   *)
(* late attempts reopened some of them: since a confidently bad window that *)
(* enough evidence led up to, no two windows in a row were good; and it is  *)
(* not, if every such run of evidence has two good windows in a row within  *)
(* it or after it (so that a bad window after the first good one costs two: *)
(* good, bad, good, good).  What is told of the last minutes counts every   *)
(* attempt once.  If no attempt came late, an outage lasted and its end is  *)
(* expected later than now.                                                 *)
Scored(t) == SelectSeq(t.closed, LAMBDA e : e.attempts >= MIN_ATTEMPTS)

Evidence(s, j, i) == MapThenSumSet(LAMBDA k : Excess(s[k]), j .. i)
Alarm(s, j, i) == j <= i /\ confidently_degraded(s[i]) /\ Evidence(s, j, i) > CUSUM_THRESHOLD
AllClear(s, k) ==
    k < Len(s) /\ ~confidently_degraded(s[k]) /\ ~confidently_degraded(s[k + 1])

=============================================================================
