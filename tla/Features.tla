------------------------------ MODULE Features ------------------------------
(***************************************************************************)
(* models/features.py: what a model is told about a failed cycle, and the  *)
(* labels it is trained on.  A slot is a band of hours of an IST day, five *)
(* to a day; the presence model's slots are hours after the due time.  Of  *)
(* the columns, those of amount, rail and segment are left out.            *)
(***************************************************************************)
EXTENDS Backtest

SLOTS_PER_DAY == 5
HORIZON_DAYS == 30
BAND_MIDPOINT == [b \in 0 .. 4 |-> <<5 * Hour, 11 * Hour + 30, 15 * Hour, 19 * Hour + 15,
                                     22 * Hour + 45>>[b + 1]]

hour_band(m) == CASE m < 10 * Hour -> 0
                  [] 10 * Hour <= m /\ m < 13 * Hour -> 1
                  [] 13 * Hour <= m /\ m < 17 * Hour -> 2
                  [] 17 * Hour <= m /\ m < 21 * Hour + 30 -> 3
                  [] m >= 21 * Hour + 30 -> 4

slot_time(due, slot) == (date_ist(due) + (slot \div SLOTS_PER_DAY)) * Day
                            + BAND_MIDPOINT[slot % SLOTS_PER_DAY]

-----------------------------------------------------------------------------
(* The fold of a customer's earlier cycles; days lie within one month.       *)
build_history(cycles) ==
    LET with(e) == {i \in DOMAIN cycles : has_event(cycles[i], e)}
        in_band(S, b) == Cardinality({i \in S : hour_band(hour_ist(cycles[i].due)) = b})
        captured == with("payment.captured")
    IN  [success_days |-> [i \in captured |-> date_ist(cycles[i].due)],
         band_successes |-> [b \in 0 .. 4 |-> in_band(captured, b)],
         band_attempts |-> [b \in 0 .. 4 |-> in_band(captured, b)
                                             + in_band(with("payment.failed"), b)],
         n_concurrent_mandates |-> IF cycles = <<>> THEN 1
                                   ELSE Cardinality({cycles[i].mandate : i \in DOMAIN cycles}),
         n_prior_cycles |-> Len(cycles)]

Successes(history) == DOMAIN history.success_days
Hits(history, day) == Cardinality({i \in Successes(history) : history.success_days[i] = day})

dom_density(history, day) ==
    IF Successes(history) = {} THEN <<0, 1>>
    ELSE <<Hits(history, day), Cardinality(Successes(history))>>

(* The most frequent day, the earliest of equals.                            *)
inferred_payday(history) ==
    Smallest({d \in Range(history.success_days) :
                 \A e \in Range(history.success_days) : Hits(history, e) <= Hits(history, d)})

days_since_payday(history, day) ==
    IF Successes(history) = {} THEN -1 ELSE (day - inferred_payday(history)) % 30

band_success_rate(history, band) ==
    IF history.band_attempts[band] = 0 THEN <<1, 2>>
    ELSE <<history.band_successes[band], history.band_attempts[band]>>

(* The columns of both models, of an offset in days, a day and a band.       *)
Columns(history, offset, day, band) ==
    [dom_hist_density |-> dom_density(history, day),
     days_since_payday |-> days_since_payday(history, day),
     hour_success_rate |-> band_success_rate(history, band),
     n_concurrent_mandates |-> history.n_concurrent_mandates,
     n_prior_cycles |-> history.n_prior_cycles,
     day_offset |-> offset, day_of_month |-> day, hour_band |-> band]

slot_features(cycle, history, slot) ==
    Columns(history, slot \div SLOTS_PER_DAY, date_ist(slot_time(cycle.due, slot)),
            slot % SLOTS_PER_DAY)

hourly_features(cycle, history, hour) ==
    LET local == SlotTime(cycle.due, hour)
    IN  Columns(history, hour \div 24, date_ist(local), hour_band(hour_ist(local)))

-----------------------------------------------------------------------------
(* The slot in which money came; the only reading of the truth, as a label.  *)
funded_slot(cycle) ==
    LET at == cycle.truth.funding_time
        offset == date_ist(at) - date_ist(cycle.due)
    IN  CASE at = Nothing -> Nothing
          [] at # Nothing /\ at < cycle.due -> 0
          [] at # Nothing /\ at >= cycle.due ->
                IF offset \notin 0 .. HORIZON_DAYS - 1 THEN Nothing
                ELSE offset * SLOTS_PER_DAY + hour_band(hour_ist(at))

(* The slots of the first max_slots in which a cycle is still unfunded.      *)
at_risk(cycle, max_slots) ==
    LET event == funded_slot(cycle)
    IN  0 .. (IF event = Nothing \/ event > max_slots - 1 THEN max_slots - 1 ELSE event)

(* The failed ones of a customer's cycles in due order, each with the        *)
(* history of those before it.                                               *)
WithHistory(cycles) ==
    LET owned == ByDue(cycles)
    IN  {[cycle |-> owned[k], history |-> build_history(SubSeq(owned, 1, k - 1))] :
            k \in {i \in DOMAIN owned : initial_debit_failed(owned[i])}}

build_dataset(cycles, max_slots) ==
    UNION {{[due |-> p.cycle.due, slot |-> s, label |-> funded_slot(p.cycle) = s,
             features |-> slot_features(p.cycle, p.history, s)]
                : s \in at_risk(p.cycle, max_slots)} : p \in WithHistory(cycles)}

(* Only hours in which an attempt may be made are learned from.              *)
build_presence_dataset(cycles, n) ==
    UNION {{[due |-> p.cycle.due, slot |-> h, label |-> h \in funds_present(p.cycle, n),
             features |-> hourly_features(p.cycle, p.history, h)]
                : h \in legal_mask(p.cycle.due, n)} : p \in WithHistory(cycles)}
=============================================================================
