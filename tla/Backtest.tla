------------------------------ MODULE Backtest ------------------------------
(***************************************************************************)
(* measure/harness.py: generated cycles, run through either arm and scored *)
(* against ground truth.  Slot s is s hours after the cycle's due time.    *)
(***************************************************************************)
EXTENDS Planning, Simulation, SequencesExt

PDN_LEAD_HOURS == 25
CONTROL_HOUR_IST == 9
ATTEMPT_BUDGET == 3
DUNNING_WINDOW_DAYS == 7
BASELINE_RETRY_DAYS == <<1, 3, 5>>

initial_debit_failed(cycle) == has_event(cycle, "payment.failed")
recovery_population(cycles) == SelectSeq(cycles, initial_debit_failed)

(* The first cycles fit the model and are measured by nobody.                *)
run_batch(cycles, numerator, denominator) ==
    LET eligible == recovery_population(cycles)
        split == (Len(eligible) * numerator) \div denominator
    IN  [train |-> SubSeq(eligible, 1, split),
         evaluate |-> SubSeq(eligible, split + 1, Len(eligible))]

-----------------------------------------------------------------------------
(* Ground truth, by slots.                                                   *)
HoursFrom(due, t) == (t - due) \div Hour
HoursUpTo(due, t) == -((due - t) \div Hour)

funding_slot(cycle, n) ==
    IF cycle.truth.funding_time = Nothing THEN Nothing
    ELSE LET s == HoursFrom(cycle.due, cycle.truth.funding_time)
         IN  IF s \in 0 .. n - 1 THEN s ELSE Nothing

funds_present_Floor(cycle, n) ==
    {s \in 0 .. n - 1 : \E w \in cycle.truth.windows :
        HoursFrom(cycle.due, w[1]) <= s /\ s < HoursFrom(cycle.due, w[2])}

funds_present(cycle, n) ==
    {s \in 0 .. n - 1 : \E w \in cycle.truth.windows :
        HoursFrom(cycle.due, w[1]) <= s /\ s < HoursUpTo(cycle.due, w[2])}

-----------------------------------------------------------------------------
(* The slots either arm may fire in, always by the rules of UPI.             *)
legal_mask(due, n) ==
    {s \in 0 .. n - 1 : /\ is_execution_legal("upi_autopay", SlotTime(due, s))
                        /\ s >= PDN_LEAD_HOURS
                        /\ s < DUNNING_WINDOW_DAYS * 24}

(* Those of a list of slots that are in a set, in order.                     *)
Kept(list, S) ==
    LET upto[k \in 0 .. Len(list)] ==
            IF k = 0 THEN <<>>
            ELSE IF list[k] \in S THEN Append(upto[k - 1], list[k]) ELSE upto[k - 1]
    IN  upto[Len(list)]

(* Day 1, 3 and 5 at 09:00 IST, as whole hours from the due time.            *)
control_slot(due, day) ==
    HoursFrom(due, (date_ist(due) + day) * Day + CONTROL_HOUR_IST * Hour)

control_slots_Exact(due, n) ==
    SetToSortSeq({s \in 0 .. n - 1 : /\ hour_ist(SlotTime(due, s)) = CONTROL_HOUR_IST * Hour
                                     /\ date_ist(SlotTime(due, s)) - date_ist(due) \in {1, 3, 5}}, <)

control_slots(due, n) ==
    Kept([i \in DOMAIN BASELINE_RETRY_DAYS |-> control_slot(due, BASELINE_RETRY_DAYS[i])], 0 .. n - 1)

(* The solver's slots, each chosen from where the last attempt failed.       *)
treatment_slots(c, policy) ==
    LET walk[b \in 0 .. c.budget] ==
            [t \in Slots(c) |->
                IF b = 0 \/ policy[b][t].action = STOP THEN <<>>
                ELSE LET nxt == policy[b][t].action IN <<nxt>> \o walk[b - 1][nxt]]
    IN  walk[c.budget][0]

stopped_early(c, policy) == Len(treatment_slots(c, policy)) < c.budget

(* One cycle under its arm: an unlawful slot is counted and not fired, and   *)
(* the first lawful one at which there is money recovers the cycle.          *)
run_arm(cycle, slots, n) ==
    LET tried == SubSeq(slots, 1, IF Len(slots) < ATTEMPT_BUDGET THEN Len(slots) ELSE ATTEMPT_BUDGET)
        legal == legal_mask(cycle.due, n)
        hits == {i \in DOMAIN tried : tried[i] \in legal /\ tried[i] \in funds_present(cycle, n)}
        seen == IF hits = {} THEN tried ELSE SubSeq(tried, 1, Smallest(hits))
    IN  [recovered |-> hits # {},
         decision_slots |-> Kept(seen, legal),
         gate_denials |-> Cardinality({i \in DOMAIN seen : seen[i] \notin legal})]

-----------------------------------------------------------------------------
(* A customer's cycles are a sequence; what is told about one of them comes  *)
(* from those due before it, which come first once they are sorted.  The     *)
(* sort is stable.                                                           *)
ByDue(cycles) ==
    LET before(i, j) == cycles[i].due < cycles[j].due \/ (cycles[i].due = cycles[j].due /\ i < j)
        place(j) == 1 + Cardinality({i \in DOMAIN cycles : before(i, j)})
    IN  [k \in DOMAIN cycles |-> cycles[CHOOSE j \in DOMAIN cycles : place(j) = k]]

prior_Whole(cycle, cycles) == ByDue(cycles)
prior(cycle, cycles) ==
    SubSeq(ByDue(cycles), 1, Cardinality({i \in DOMAIN cycles : cycles[i].due < cycle.due}))

(* revocation_features: the cycle in hand has just failed.                   *)
revocation_features(cycle, cycles) ==
    LET before == prior(cycle, cycles)
        settled == {i \in DOMAIN before : has_event(before[i], "payment.captured")}
        last == IF settled = {} THEN 0 ELSE Largest(settled)
    IN  [consecutive_failures |-> 1 + Len(before) - last,
         days_since_success |-> IF last = 0 THEN 60 ELSE (cycle.due - before[last].due) \div Day,
         successful_cycles |-> Cardinality(settled)]
=============================================================================
