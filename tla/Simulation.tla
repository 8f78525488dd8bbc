----------------------------- MODULE Simulation -----------------------------
(***************************************************************************)
(* sim/generate.py: the process that makes cycles with known answers.  A   *)
(* draw from the generator is a choice from the set of its outcomes; what  *)
(* is stable per customer (archetype, issuer) is a parameter of the draw.  *)
(***************************************************************************)
EXTENDS Rails, Sequences, FiniteSets

CONSTANTS Nothing,                  \* no funding, no cause
          Days, Hours               \* of the draws: arrival days, funding hours
ASSUME ArrivalAssumption == Nothing \notin Int /\ Days \subseteq Nat /\ Hours \subseteq Nat

(* 2026-01-01 00:00 UTC is a Thursday, 05:30 IST.                           *)
ORIGIN == 3 * Day + 5 * Hour + 30
DueSpreadDays == 28
DueAt(day, hour) == ORIGIN + day * Day + hour * Hour

Archetypes == {"salaried_1st", "salaried_7th", "gig_irregular", "chronically_dry"}
Causes == {"issuer_degraded", "no_funds", "limit_breach", "fraud_hold", "mandate_dead"}

(* A configuration: [non_absorbing, dwell (minutes), horizon (days)].       *)

(* The sets of days on which money may arrive.                              *)
payday_offsets(archetype, horizon) ==
    CASE archetype = "salaried_1st" -> {{d \in 0 .. horizon - 1 : d % 30 = 0}}
      [] archetype = "salaried_7th" -> {{d \in 6 .. horizon - 1 : d % 30 = 6}}
      [] archetype = "gig_irregular" -> {S \in SUBSET Days : Cardinality(S) \in 1 .. 5}
      [] archetype = "chronically_dry" -> {{}} \cup {{d} : d \in Days}

(* Salaries clear early in the day.                                         *)
funding_hours(archetype) ==
    IF archetype \in {"salaried_1st", "salaried_7th"} THEN Hours \cap 0 .. 7 ELSE Hours \cap 0 .. 23

(* Outages are half-open windows of an issuer.                               *)
is_down(outages, at) == \E w \in outages : w[1] <= at /\ at < w[2]

(* Why the first debit can fail, Nothing if it succeeds: an outage whatever  *)
(* the balance, then the balance, then the residual causes by chance.        *)
classify(funded, down) ==
    IF down THEN {"issuer_degraded"}
    ELSE IF ~funded THEN {"no_funds"}
    ELSE {Nothing, "limit_breach", "fraud_hold", "mandate_dead"}

emit_code(cause, masked) ==
    CASE masked -> "05"
      [] ~masked /\ cause = "no_funds" -> "51"
      [] ~masked /\ cause = "issuer_degraded" -> "91"
      [] ~masked /\ cause = "limit_breach" -> "61"
      [] ~masked /\ cause = "mandate_dead" -> "57"
      [] ~masked /\ cause = "fraud_hold" -> "05"

(* mandate_dead has no weight in mask_05_weights.                            *)
may_mask(cause) == IF cause \in {Nothing, "mandate_dead"} THEN {FALSE} ELSE BOOLEAN

First(S) == CHOOSE d \in S : \A e \in S : d <= e

(* When the account holds money: for good from the first arrival, or for a   *)
(* while from each.                                                          *)
funding_windows(cf, days, due, hour) ==
    LET start(d) == due + d * Day + hour * Hour IN
    IF days = {} THEN {}
    ELSE IF ~cf.non_absorbing THEN {<<start(First(days)), start(First(days)) + 365 * Day>>}
         ELSE {<<start(d), start(d) + cf.dwell>> : d \in days}

(* What a model may see.                                                     *)
emit_events(due, cause, masked) ==
    <<[event |-> "subscription.authenticated", at |-> due - Day],
      IF cause = Nothing THEN [event |-> "payment.captured", at |-> due]
      ELSE [event |-> "payment.failed", at |-> due, code |-> emit_code(cause, masked)]>>

has_event(cycle, event) == \E i \in DOMAIN cycle.observables : cycle.observables[i].event = event

(* Was the account funded at the debit?  Unless funds stay, it may be spent. *)
funded_by_day0(cf, days) ==
    IF cf.non_absorbing /\ 0 \in days THEN BOOLEAN ELSE {0 \in days}

Generated(archetype, due, cause, masked, days, hour, windows) ==
    [due |-> due,
     observables |-> emit_events(due, cause, masked),
     truth |-> [cause |-> cause, archetype |-> archetype,
                funding_time |-> IF days = {} THEN Nothing ELSE due + First(days) * Day + hour * Hour,
                windows |-> windows]]

(* Every cycle that can be generated for a due date.                         *)
generate_cycle(cf, archetype, due, outages) ==
    UNION {{Generated(archetype, due, cause, masked, days, hour,
                      funding_windows(cf, days, due, hour))
                : cause \in {c \in Causes \cup {Nothing} :
                                /\ masked \in may_mask(c)
                                /\ \E funded \in funded_by_day0(cf, days) :
                                        c \in classify(funded, is_down(outages, due))}}
            : days \in payday_offsets(archetype, cf.horizon), hour \in funding_hours(archetype),
              masked \in BOOLEAN}
=============================================================================
