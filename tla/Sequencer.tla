----------------------------- MODULE Sequencer -----------------------------
(***************************************************************************)
(* The LTV dynamic program: what an attempt costs, what a slot is worth,   *)
(* which slot is chosen and when stopping is better.                       *)
(*                                                                         *)
(* Arithmetic is exact.  A probability is a number of Dths, and a value    *)
(* with b attempts left is a number of paise times Scale(b), because every *)
(* attempt multiplies by a success and by a revocation probability.        *)
(***************************************************************************)
EXTENDS Integers, Sequences, FiniteSets

D == 8                              \* probabilities are eighths
STOP == -1
W_MULTIPLE_OF_AMOUNT == 12
BASE_FEE_PAISE == 300

Scale(b) ==
    LET power[k \in 0 .. b] == IF k = 0 THEN 1 ELSE power[k - 1] * (D * D)
    IN  power[b]

(* A cycle c as the solver sees it: amount and w in paise, budget, lead in   *)
(* slots, and slots, a sequence of records [legal, presence, survival,       *)
(* health, dr]: presence and survival in quarters, health in halves, dr in   *)
(* eighths.  Slot numbers start at 0.                                        *)
SolverInputs ==
    [amount : Nat, w : Nat, min_ev : Nat, lead : Nat, budget : Nat,
     slots : Seq([legal : BOOLEAN, presence : 0 .. 4, survival : {0, 1, 2, 4},
                  health : {1, 2}, dr : Nat])]

Slots(c) == 0 .. Len(c.slots) - 1
At(c, t) == c.slots[t + 1]
total(c) == c.amount + c.w
Candidates(c, t) == {u \in Slots(c) : u >= t + c.lead /\ At(c, u).legal}

-----------------------------------------------------------------------------
(* Economics.  Python's round goes to even at a half.                        *)
RoundHalfEven(n, d) ==
    LET q == n \div d
        r == n % d
    IN  IF 2 * r > d \/ (2 * r = d /\ q % 2 = 1) THEN q + 1 ELSE q

continuation_value_paise(amount) == amount * W_MULTIPLE_OF_AMOUNT

(* beta_fraud = 0.4 and lambda_annoyance = 1, both per hundredth of amount.  *)
attempt_cost(amount, budget, b) ==
    LET k == budget - b
    IN  RoundHalfEven(1000 * BASE_FEE_PAISE + (4 * k * k + 10 * k) * amount, 1000)

cost(c, b) == attempt_cost(c.amount, c.budget, b)

(* Suppressed until the estimated recovery and neutral after it; neutral     *)
(* throughout when the nowcast has no opinion (recovery = 0).                *)
health_multiplier(recovery, t) == IF t < recovery THEN 1 ELSE 2

-----------------------------------------------------------------------------
(* V[0]: a cycle with no attempts left still holds a live mandate.           *)
base_value(c) == c.w

(* An attempt at u that succeeds with probability p/D is worth A + W then,   *)
(* and v - dr W otherwise, less its cost; v is V[b-1][u].                    *)
attempt_value(c, b, p, u, v) ==
    LET S == Scale(b - 1)
    IN  p * D * S * total(c) + (D - p) * (v * D - At(c, u).dr * c.w * S)
            - cost(c, b) * Scale(b)

(* The success probabilities: the presence of funds at u, and the absorbing  *)
(* hazard conditional on the money still missing at t.                       *)
presence_p(c, u) == At(c, u).presence * At(c, u).health
hazard_p_Marginal(c, t, u) == (4 - At(c, u).survival) * At(c, u).health

hazard_p(c, t, u) ==
    (At(c, t).survival - At(c, u).survival) * At(c, u).health
        * (D \div (2 * At(c, t).survival))

(* The bar an attempt must clear: keeping the mandate untouched.             *)
Clears(c, b, ev) == ev > (c.w + c.min_ev) * Scale(b)
Stopped(c, b) == [value |-> c.w * Scale(b), action |-> STOP]

(* _solve_presence: one row of scores, scanned from the right; the earlier   *)
(* of two equal slots wins.  A policy is a function [b][t]; each of its      *)
(* layers is made from the one below.                                        *)
NoSlot == [ok |-> FALSE, ev |-> 0, slot |-> STOP]

SuffixBest_First(row, n, lo) ==
    LET open == {i \in lo .. n - 1 : row[i].ok}
    IN  IF open = {} THEN NoSlot
        ELSE LET i == CHOOSE x \in open : \A y \in open : x <= y
             IN  [ok |-> TRUE, ev |-> row[i].ev, slot |-> i]

SuffixBest(row, n, lo) ==
    LET best[k \in 0 .. n] ==       \* of the last k slots
            IF k = 0 THEN NoSlot
            ELSE LET i == n - k IN
                 IF row[i].ok /\ (~best[k - 1].ok \/ row[i].ev >= best[k - 1].ev)
                 THEN [ok |-> TRUE, ev |-> row[i].ev, slot |-> i]
                 ELSE best[k - 1]
    IN  best[n - lo]

base_layer(c) == [t \in Slots(c) |-> [value |-> base_value(c), action |-> STOP]]

presence_row(c, b, below) ==
    [u \in Slots(c) |-> [ok |-> At(c, u).legal,
                         ev |-> attempt_value(c, b, presence_p(c, u), u, below[u].value)]]

presence_layer(c, b, below) ==
    LET n == Len(c.slots)
        best(t) == SuffixBest(presence_row(c, b, below), n,
                              IF t + c.lead < n THEN t + c.lead ELSE n)
    IN  [t \in Slots(c) |-> IF best(t).ok /\ Clears(c, b, best(t).ev)
                            THEN [value |-> best(t).ev, action |-> best(t).slot]
                            ELSE Stopped(c, b)]

solve_presence(c) ==
    LET layer[b \in 0 .. c.budget] ==
            IF b = 0 THEN base_layer(c) ELSE presence_layer(c, b, layer[b - 1])
    IN  layer

(* solve: the same recursion over survival, a layer at a time, with the      *)
(* success probability split as U[u] - Z[u] / S[t].  The first of two equal  *)
(* candidates wins, and a funded state has no decision to make.              *)
split_value(c, b, t, u, v) ==
    LET S == Scale(b - 1)
        g == v * D - At(c, u).dr * c.w * S
        d == total(c) * D * S - g
        U == At(c, u).health * d * (D \div 2) + g * D - cost(c, b) * Scale(b)
        Z == At(c, u).health * d * At(c, u).survival
    IN  U - Z * (D \div (2 * At(c, t).survival))

solve_layer(c, b, below) ==
    [t \in Slots(c) |->
        LET ev(u) == split_value(c, b, t, u, below[u].value)
            open == IF At(c, t).survival = 0 THEN {} ELSE Candidates(c, t)
            top == {u \in open : \A x \in open : ev(x) <= ev(u)}
        IN  IF \E u \in top : Clears(c, b, ev(u))
            THEN LET u == CHOOSE x \in top : \A y \in top : x <= y
                 IN  [value |-> ev(u), action |-> u]
            ELSE Stopped(c, b)]

solve(c) ==
    LET layer[b \in 0 .. c.budget] ==
            IF b = 0 THEN base_layer(c) ELSE solve_layer(c, b, layer[b - 1])
    IN  layer

(* solve_reference: the specification's own loop.                            *)
hazard_value(c, b, t, u, v) == attempt_value(c, b, hazard_p(c, t, u), u, v)

reference_layer(c, b, below) ==
    [t \in Slots(c) |->
        LET ev(u) == hazard_value(c, b, t, u, below[u].value) IN
        IF At(c, t).survival = 0 \/ Candidates(c, t) = {} THEN Stopped(c, b)
        ELSE LET j == CHOOSE u \in Candidates(c, t) :
                          \A x \in Candidates(c, t) :
                              ev(x) < ev(u) \/ (ev(x) = ev(u) /\ u <= x)
             IN  IF Clears(c, b, ev(j)) THEN [value |-> ev(j), action |-> j] ELSE Stopped(c, b)]

solve_reference(c) ==
    LET layer[b \in 0 .. c.budget] ==
            IF b = 0 THEN base_layer(c) ELSE reference_layer(c, b, layer[b - 1])
    IN  layer

should_stop(policy, b, t) == policy[b][t].action = STOP

Better_Ascending(x, y) == x.ev < y.ev \/ (x.ev = y.ev /\ x.slot < y.slot)
Better(x, y) == x.ev > y.ev \/ (x.ev = y.ev /\ x.slot < y.slot)

(* rank_candidates: every candidate with its worth recomputed from the       *)
(* objective, best first; the sort is stable.                                *)
rank_candidates(c, policy, b, t) ==
    IF At(c, t).survival = 0 THEN <<>>
    ELSE LET worth(u) == hazard_value(c, b, t, u, policy[b - 1][u].value)
             listed == [u \in Candidates(c, t) |->
                           [slot |-> u, ev |-> worth(u), chosen |-> policy[b][t].action = u]]
             rows == {listed[u] : u \in DOMAIN listed}
             place(r) == 1 + Cardinality({q \in rows : Better(q, r)})
         IN  [i \in 1 .. Cardinality(rows) |-> CHOOSE r \in rows : place(r) = i]

(* stopping_rationale, on the presence path: the best rejected slot and the  *)
(* figures the sentence compares it with.                                    *)
stopping_rationale(c, policy, b, t) ==
    LET worth(u) == attempt_value(c, b, presence_p(c, u), u, policy[b - 1][u].value)
        best == CHOOSE u \in Candidates(c, t) :
                    \A x \in Candidates(c, t) :
                        worth(x) < worth(u) \/ (worth(x) = worth(u) /\ u <= x)
    IN  IF Candidates(c, t) = {} THEN [said |-> "nothing legal"]
        ELSE [said |-> "best EV is below the cost of firing",
              slot |-> best, ev |-> worth(best), cost |-> cost(c, b) * Scale(b)]

-----------------------------------------------------------------------------
(* The hard stops, evaluated before the economics: all that apply.           *)
TERMINAL_CAUSES == {"credential_dead", "mandate_dead"}

hard_stops(x) ==
    {r \in {"terminal_cause", "mandate_not_active", "customer_opted_out",
            "budget_exhausted", "past_deadline"} :
        CASE r = "terminal_cause" -> x.cause \in TERMINAL_CAUSES
          [] r = "mandate_not_active" -> x.mandate_state # "active"
          [] r = "customer_opted_out" -> x.customer_opted_out
          [] r = "budget_exhausted" -> x.attempts_used >= x.attempt_budget
          [] r = "past_deadline" -> x.now > x.deadline_at}
=============================================================================
