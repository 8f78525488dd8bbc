--------------------------- MODULE PlanningProofs ---------------------------
(***************************************************************************)
(* The planner's algorithms do what they are for, for any solver input     *)
(* with any number of slots and attempts, any instant, window and horizon, *)
(* any arrival of money and any history of a customer.                     *)
(***************************************************************************)
EXTENDS MCPlanning, FiniteSetTheorems, SequenceTheorems, WellFoundedInduction, TLAPS

(* Induction, over a set: a nonempty set of numbers has a least member.      *)
LEMMA LeastExists ==
    ASSUME NEW S \in SUBSET Nat, S # {}
    PROVE  \E n \in S : \A m \in S : n <= m
<1>1. PICK n \in S : \A m \in S : <<m, n>> \notin OpToRel(<, Nat)
  BY NatLessThanWellFounded, WFMin
<1>2. \A m \in S : ~(m < n)
  BY <1>1 DEF OpToRel
<1> QED
  BY <1>2

(* Induction: a set that has 0 and with each number the next has all.        *)
LEMMA NatInd ==
    ASSUME NEW S, 0 \in S, \A n \in Nat : n \in S => n + 1 \in S
    PROVE  Nat \subseteq S
<1> SUFFICES ASSUME Nat \ S # {} PROVE FALSE
  OBVIOUS
<1>1. PICK n \in Nat \ S : \A m \in Nat \ S : n <= m
  BY LeastExists
<1>2. n # 0 /\ n - 1 \in Nat
  BY <1>1
<1>3. n - 1 \in S
  BY <1>1, <1>2
<1> QED
  BY <1>1, <1>2, <1>3

(* A function that is defined by recursion over 0 .. n exists, if each step  *)
(* stays within some set.                                                    *)
IsRun(g, n, base, F) == g[0] = base /\ \A b \in 1 .. n : g[b] = F[b][g[b - 1]]

(* So there is a run of any such steps.                                      *)
LEMMA RecursionExists ==
    ASSUME NEW n \in Nat, NEW T, NEW base \in T, NEW F \in [1 .. n -> [T -> T]]
    PROVE  \E g \in [0 .. n -> T] : IsRun(g, n, base, F)
<1> DEFINE Runs(m) == {g \in [0 .. m -> T] :
                          \A b \in 0 .. m : g[b] = IF b = 0 THEN base ELSE F[b][g[b - 1]]}
           Good == {m \in Nat : m <= n => Runs(m) # {}}
<1>1. 0 \in Good
  <2>1. [b \in 0 .. 0 |-> base] \in Runs(0)
    OBVIOUS
  <2> QED
    BY <2>1
<1>2. ASSUME NEW m \in Nat, m \in Good PROVE m + 1 \in Good
  <2> SUFFICES ASSUME m + 1 <= n PROVE Runs(m + 1) # {}
    OBVIOUS
  <2>1. PICK g : g \in Runs(m)
    BY <1>2
  <2> DEFINE h == [b \in 0 .. m + 1 |-> IF b <= m THEN g[b] ELSE F[m + 1][g[m]]]
  <2>2. F[m + 1] \in [T -> T] /\ g[m] \in T
    BY <2>1
  <2>3. h \in [0 .. m + 1 -> T]
    BY <2>1, <2>2
  <2>4. ASSUME NEW b \in 0 .. m + 1
        PROVE  h[b] = IF b = 0 THEN base ELSE F[b][h[b - 1]]
    <3>1. CASE b <= m
      BY <2>1, <3>1
    <3>2. CASE b = m + 1
      BY <2>1, <3>2
    <3> QED
      BY <3>1, <3>2
  <2>5. h \in Runs(m + 1)
    BY <2>3, <2>4
  <2> QED
    BY <2>5
<1> HIDE DEF Good
<1>3. n \in Good
  BY <1>1, <1>2, NatInd
<1>4. PICK g : g \in Runs(n)
  BY <1>3 DEF Good
<1>5. IsRun(g, n, base, F)
  BY <1>4 DEF IsRun
<1> QED
  BY <1>4, <1>5

-----------------------------------------------------------------------------
(* A value with one attempt more is counted in units D * D times smaller.    *)
LEMMA Powers ==
    ASSUME NEW b \in Nat
    PROVE  \E p \in [0 .. b -> Nat \ {0}] :
              Scale(b) = p[b] /\ p[0] = 1 /\ \A k \in 1 .. b : p[k] = p[k - 1] * (D * D)
<1> DEFINE Def(g) == [k \in 0 .. b |-> IF k = 0 THEN 1 ELSE g[k - 1] * (D * D)]
           T == Nat \ {0}
           F == [k \in 1 .. b |-> [v \in T |-> v * (D * D)]]
<1>1. 1 \in T /\ F \in [1 .. b -> [T -> T]]
  BY DEF D
<1>2. PICK g \in [0 .. b -> T] : IsRun(g, b, 1, F)
  <2> HIDE DEF F, T
  <2> QED
    BY <1>1, RecursionExists
<1>3. g = Def(g)
  <2>1. ASSUME NEW k \in 1 .. b PROVE g[k] = g[k - 1] * (D * D)
    <3>1. k - 1 \in 0 .. b
      OBVIOUS
    <3>2. g[k - 1] \in T
      BY <1>2, <3>1
    <3> QED
      BY <1>2, <3>2 DEF IsRun
  <2>2. \A k \in 0 .. b : g[k] = IF k = 0 THEN 1 ELSE g[k - 1] * (D * D)
    BY <1>2, <2>1 DEF IsRun
  <2>3. g = [k \in 0 .. b |-> g[k]]
    BY <1>2
  <2> QED
    BY <2>2, <2>3
<1> DEFINE p == CHOOSE f : f = Def(f)
<1>4. p = Def(p)
  BY <1>3
<1>5. Scale(b) = p[b]
  BY DEF Scale
<1> HIDE DEF p
<1>6. p[0] = 1 /\ \A k \in 1 .. b : p[k] = p[k - 1] * (D * D)
  BY <1>4
<1> DEFINE Typed == {k \in Nat : k <= b => p[k] \in Nat \ {0}}
<1>7. 0 \in Typed
  BY <1>6
<1>8. ASSUME NEW k \in Nat, k \in Typed PROVE k + 1 \in Typed
  <2> SUFFICES ASSUME k + 1 <= b PROVE p[k + 1] \in Nat \ {0}
    OBVIOUS
  <2> DEFINE v == p[k]
  <2>1. v \in Nat \ {0}
    BY <1>8
  <2>2. k + 1 \in 1 .. b /\ (k + 1) - 1 = k
    OBVIOUS
  <2>3. p[k + 1] = v * (D * D)
    BY <1>6, <2>2
  <2> HIDE DEF v
  <2>4. v * (D * D) \in Nat \ {0}
    BY <2>1 DEF D
  <2> QED
    BY <2>3, <2>4
<1>9. \A k \in 0 .. b : p[k] \in Nat \ {0}
  <2>1. Nat \subseteq Typed
    <3> HIDE DEF Typed
    <3> QED
      BY <1>7, <1>8, NatInd
  <2> QED
    BY <2>1
<1>10. p \in [0 .. b -> Nat \ {0}]
  BY <1>4, <1>9
<1> QED
  BY <1>5, <1>6, <1>10

(* The units of a value with no attempt and of one with an attempt more.     *)
LEMMA ScaleZero == Scale(0) = 1
  BY Powers

(* Each attempt makes the units D * D times smaller.                         *)
LEMMA ScaleStep ==
    ASSUME NEW b \in Nat
    PROVE  Scale(b) \in Nat \ {0} /\ Scale(b + 1) = Scale(b) * (D * D)
<1>1. PICK p \in [0 .. b -> Nat \ {0}] :
         Scale(b) = p[b] /\ p[0] = 1 /\ \A k \in 1 .. b : p[k] = p[k - 1] * (D * D)
  BY Powers
<1>2. PICK q \in [0 .. b + 1 -> Nat \ {0}] :
         Scale(b + 1) = q[b + 1] /\ q[0] = 1 /\ \A k \in 1 .. b + 1 : q[k] = q[k - 1] * (D * D)
  <2>1. b + 1 \in Nat
    OBVIOUS
  <2> QED
    BY <2>1, Powers
<1> DEFINE Same == {k \in Nat : k <= b => p[k] = q[k]}
<1>3. 0 \in Same
  BY <1>1, <1>2
<1>4. \A k \in Nat : k \in Same => k + 1 \in Same
  BY <1>1, <1>2
<1>5. p[b] = q[b]
  <2>1. b \in Same
    <3> HIDE DEF Same
    <3> QED
      BY <1>3, <1>4, NatInd
  <2> QED
    BY <2>1
<1>6. b + 1 \in 1 .. b + 1 /\ (b + 1) - 1 = b
  OBVIOUS
<1>7. q[b + 1] = q[b] * (D * D)
  BY <1>2, <1>6
<1> QED
  BY <1>1, <1>2, <1>5, <1>7

-----------------------------------------------------------------------------
(* The solver's input and its arithmetic.                                    *)
LEMMA InputIs ==
    ASSUME NEW c \in SolverInputs
    PROVE  /\ c.amount \in Nat /\ c.w \in Nat /\ c.min_ev \in Nat /\ c.lead \in Nat
           /\ c.budget \in Nat /\ Len(c.slots) \in Nat
           /\ \A t \in Slots(c) :
                 /\ t \in Nat
                 /\ At(c, t).legal \in BOOLEAN
                 /\ At(c, t).presence \in 0 .. 4 /\ At(c, t).survival \in {0, 1, 2, 4}
                 /\ At(c, t).health \in {1, 2} /\ At(c, t).dr \in Nat
<1>1. /\ c.amount \in Nat /\ c.w \in Nat /\ c.min_ev \in Nat /\ c.lead \in Nat
      /\ c.budget \in Nat /\ Len(c.slots) \in Nat
  BY DEF SolverInputs
<1>2. ASSUME NEW t \in Slots(c)
      PROVE  At(c, t) \in [legal : BOOLEAN, presence : 0 .. 4, survival : {0, 1, 2, 4},
                           health : {1, 2}, dr : Nat]
  <2>1. t + 1 \in 1 .. Len(c.slots)
    BY <1>1 DEF Slots
  <2> DEFINE R == [legal : BOOLEAN, presence : 0 .. 4, survival : {0, 1, 2, 4},
                   health : {1, 2}, dr : Nat]
  <2>2. c.slots \in Seq(R)
    BY DEF SolverInputs
  <2> HIDE DEF R
  <2>3. c.slots[t + 1] \in R
    BY <2>1, <2>2
  <2> QED
    BY <2>3 DEF At, R
<1>3. \A t \in Slots(c) : t \in Nat
  BY <1>1 DEF Slots
<1> QED
  BY <1>1, <1>2, <1>3

(* An attempt costs a whole number of paise.                                 *)
LEMMA CostType ==
    ASSUME NEW c \in SolverInputs, NEW b \in 1 .. c.budget
    PROVE  cost(c, b) \in Int
<1>1. c.amount \in Nat /\ c.budget \in Nat
  BY InputIs
<1>2. c.budget - b \in Int
  BY <1>1
<1>3. \A n \in Int : RoundHalfEven(n, 1000) \in Int
  BY DEF RoundHalfEven
<1>4. \A k \in Int, a \in Nat : 1000 * 300 + (4 * k * k + 10 * k) * a \in Int
  OBVIOUS
<1> DEFINE k == c.budget - b
<1>5. 1000 * 300 + (4 * k * k + 10 * k) * c.amount \in Int
  <2>1. k \in Int
    BY <1>2
  <2> HIDE DEF k
  <2> QED
    BY <1>1, <1>4, <2>1
<1>6. RoundHalfEven(1000 * 300 + (4 * k * k + 10 * k) * c.amount, 1000) \in Int
  <2> HIDE DEF k
  <2> QED
    BY <1>3, <1>5
<1> QED
  BY <1>6 DEF cost, attempt_cost, BASE_FEE_PAISE

(* Values are whole numbers of their units.                                  *)
LEMMA AttemptType ==
    ASSUME NEW c \in SolverInputs, NEW b \in 1 .. c.budget, NEW u \in Slots(c),
           NEW p \in Int, NEW v \in Int
    PROVE  attempt_value(c, b, p, u, v) \in Int
<1>1. c.amount \in Int /\ c.w \in Int /\ At(c, u).dr \in Int
  BY InputIs
<1>2. b - 1 \in Nat /\ b \in Nat
  BY InputIs
<1>3. Scale(b - 1) \in Int /\ Scale(b) \in Int
  BY <1>2, ScaleStep
<1>4. cost(c, b) \in Int
  BY CostType
<1>5. total(c) \in Int
  BY <1>1 DEF total
<1> QED
  BY <1>1, <1>3, <1>4, <1>5 DEF attempt_value, D

(* The chance of either solver is a whole number of D-ths.                   *)
LEMMA ChanceType ==
    ASSUME NEW c \in SolverInputs, NEW t \in Slots(c), NEW u \in Slots(c)
    PROVE  /\ presence_p(c, u) \in 0 .. D
           /\ At(c, t).survival # 0 => hazard_p(c, t, u) \in Int
<1>1. presence_p(c, u) \in 0 .. D
  <2> DEFINE x == At(c, u).presence
             h == At(c, u).health
  <2>1. x \in 0 .. 4 /\ h \in {1, 2}
    BY InputIs
  <2>2. presence_p(c, u) = x * h
    BY DEF presence_p
  <2> HIDE DEF x, h
  <2>3. h = 1 \/ h = 2
    BY <2>1
  <2> QED
    BY <2>1, <2>2, <2>3 DEF D
<1>2. ASSUME At(c, t).survival # 0 PROVE hazard_p(c, t, u) \in Int
  <2>1. At(c, t).survival \in {1, 2, 4} /\ At(c, u).survival \in Int /\ At(c, u).health \in Int
    BY <1>2, InputIs
  <2>2. D \div (2 * At(c, t).survival) \in Int
    BY <2>1 DEF D
  <2> QED
    BY <2>1, <2>2 DEF hazard_p
<1> QED
  BY <1>1, <1>2

(* The production solver's split of an attempt's worth is that worth.        *)
LEMMA SplitIsHazard ==
    ASSUME NEW c \in SolverInputs, NEW b \in 1 .. c.budget, NEW t \in Slots(c), NEW u \in Slots(c),
           NEW v \in Int, At(c, t).survival # 0
    PROVE  split_value(c, b, t, u, v) = hazard_value(c, b, t, u, v)
<1> DEFINE S == Scale(b - 1)
           h == At(c, u).health
           su == At(c, u).survival
           st == At(c, t).survival
           q == D \div (2 * st)
           loss == At(c, u).dr * c.w * S
           paid == total(c) * D * S
           g == v * D - loss
           fee == cost(c, b) * Scale(b)
<1>1. st \in {1, 2, 4} /\ su \in Int /\ h \in Int /\ c.amount \in Int /\ c.w \in Int /\ At(c, u).dr \in Int
  BY InputIs
<1>2. S \in Int /\ Scale(b) \in Int
  <2>1. b - 1 \in Nat /\ b \in Nat
    BY InputIs
  <2> QED
    BY <2>1, ScaleStep
<1>3. cost(c, b) \in Int
  BY CostType
<1>4. total(c) \in Int
  BY <1>1 DEF total
<1>5. loss \in Int /\ paid \in Int /\ fee \in Int /\ g \in Int
  BY <1>1, <1>2, <1>3, <1>4 DEF D
<1>6. q \in Int /\ st * q = 4
  BY <1>1 DEF D
<1>7. split_value(c, b, t, u, v) = (h * (paid - g) * 4 + g * D - fee) - h * (paid - g) * su * q
  BY DEF split_value, D
<1>8. hazard_value(c, b, t, u, v)
        = ((st - su) * h * q) * D * S * total(c) + (D - (st - su) * h * q) * g - fee
  BY DEF hazard_value, attempt_value, hazard_p
<1>9. ((st - su) * h * q) * D * S * total(c) = ((st - su) * h * q) * paid
  <2> HIDE DEF S, h, su, st, q
  <2> QED
    BY <1>1, <1>2, <1>4, <1>6 DEF D
<1>10. ASSUME NEW d \in Int
       PROVE  h * d * 4 - h * d * su * q = ((st - su) * h * q) * d
  <2> HIDE DEF h, su, st, q
  <2>1. ((st - su) * h * q) * d = h * d * (st * q) - h * d * su * q
    BY <1>1, <1>6
  <2> QED
    BY <1>1, <1>6, <2>1
<1> HIDE DEF S, h, su, st, q, paid, loss, g, fee
<1>11. paid - g \in Int /\ (st - su) * h * q \in Int
  BY <1>1, <1>5, <1>6
<1>12. h * (paid - g) * 4 - h * (paid - g) * su * q = ((st - su) * h * q) * (paid - g)
  BY <1>10, <1>11
<1> DEFINE p == (st - su) * h * q
<1>13. p \in Int /\ p * (paid - g) = p * paid - p * g /\ (D - p) * g = D * g - p * g
  <2>1. p \in Int
    BY <1>11
  <2> HIDE DEF p
  <2> QED
    BY <1>5, <2>1 DEF D
<1>14. h * (paid - g) * 4 \in Int /\ h * (paid - g) * su * q \in Int /\ p * paid \in Int /\ p * g \in Int
       /\ g * D \in Int /\ D * g = g * D
  BY <1>1, <1>5, <1>6, <1>11 DEF D
<1> QED
  BY <1>5, <1>7, <1>8, <1>9, <1>12, <1>13, <1>14

-----------------------------------------------------------------------------
(* The layers of a policy.                                                   *)
Layers(c) == [Slots(c) -> [value : Int, action : Int]]

(* Of finitely many slots one is worth most, and is the first of its worth.  *)
LEMMA BestExists ==
    ASSUME NEW n \in Nat, NEW f \in [0 .. n - 1 -> Int], NEW S \in SUBSET (0 .. n - 1), S # {}
    PROVE  \E u \in S : \A x \in S : f[x] < f[u] \/ (f[x] = f[u] /\ u <= x)
<1> DEFINE Best(T) == \E u \in T : \A x \in T : f[x] < f[u] \/ (f[x] = f[u] /\ u <= x)
           Good == {k \in Nat : k <= n => \A T \in SUBSET (0 .. k - 1) : T # {} => Best(T)}
<1>1. 0 \in Good
  <2>1. 0 .. 0 - 1 = {}
    OBVIOUS
  <2> QED
    BY <2>1
<1>2. ASSUME NEW k \in Nat, k \in Good PROVE k + 1 \in Good
  <2> SUFFICES ASSUME k + 1 <= n, NEW T \in SUBSET (0 .. k), T # {} PROVE Best(T)
    OBVIOUS
  <2> DEFINE R == T \ {k}
  <2>1. R \in SUBSET (0 .. k - 1)
    OBVIOUS
  <2>2. \A x \in T : f[x] \in Int /\ x \in 0 .. k
    OBVIOUS
  <2>3. CASE k \notin T
    <3>1. T = R
      BY <2>3
    <3> QED
      BY <1>2, <2>1, <3>1
  <2>4. CASE k \in T /\ R = {}
    <3>1. T = {k}
      BY <2>4
    <3> QED
      BY <3>1
  <2>5. CASE k \in T /\ R # {}
    <3>1. PICK u \in R : \A x \in R : f[x] < f[u] \/ (f[x] = f[u] /\ u <= x)
      <4>1. Best(R)
        <5>1. k <= n
          OBVIOUS
        <5> QED
          BY <1>2, <2>1, <2>5, <5>1
      <4> QED
        BY <4>1
    <3>2. CASE f[k] > f[u]
      <4>1. \A x \in T : f[x] < f[k] \/ (f[x] = f[k] /\ k <= x)
        BY <2>2, <2>5, <3>1, <3>2
      <4> QED
        BY <2>5, <4>1
    <3>3. CASE f[k] <= f[u]
      <4>1. \A x \in T : f[x] < f[u] \/ (f[x] = f[u] /\ u <= x)
        BY <2>2, <2>5, <3>1, <3>3
      <4> QED
        BY <3>1, <4>1
    <3> QED
      BY <2>2, <2>5, <3>1, <3>2, <3>3
  <2> QED
    BY <2>3, <2>4, <2>5
<1>3. n \in Good
  <2> HIDE DEF Good
  <2> QED
    BY <1>1, <1>2, NatInd
<1> QED
  BY <1>3

(* Stopping is a choice as well.                                             *)
LEMMA StoppedType ==
    ASSUME NEW c \in SolverInputs, NEW b \in 0 .. c.budget
    PROVE  Stopped(c, b) \in [value : Int, action : Int]
<1>1. b \in Nat /\ c.w \in Nat
  BY InputIs
<1>2. Scale(b) \in Nat
  BY <1>1, ScaleStep
<1> QED
  BY <1>1, <1>2 DEF Stopped, STOP

(* The production solver and the reference make the same layer of the one   *)
(* below: the mask, the threshold, the split and the tie.                    *)
LEMMA LayersAgree ==
    ASSUME NEW c \in SolverInputs, NEW b \in 1 .. c.budget, NEW below \in Layers(c)
    PROVE  /\ reference_layer(c, b, below) \in Layers(c)
           /\ solve_layer(c, b, below) = reference_layer(c, b, below)
<1> SUFFICES ASSUME NEW t \in Slots(c)
             PROVE  /\ reference_layer(c, b, below)[t] \in [value : Int, action : Int]
                    /\ solve_layer(c, b, below)[t] = reference_layer(c, b, below)[t]
  BY DEF reference_layer, solve_layer, Layers
<1>1. Stopped(c, b) \in [value : Int, action : Int]
  <2>1. b \in 0 .. c.budget
    BY InputIs
  <2> QED
    BY <2>1, StoppedType
<1>2. CASE At(c, t).survival = 0 \/ Candidates(c, t) = {}
  BY <1>1, <1>2 DEF reference_layer, solve_layer
<1>3. CASE At(c, t).survival # 0 /\ Candidates(c, t) # {}
  <2> DEFINE n == Len(c.slots)
             open == Candidates(c, t)
             f == [u \in Slots(c) |-> hazard_value(c, b, t, u, below[u].value)]
  <2>1. n \in Nat /\ Slots(c) = 0 .. n - 1 /\ open \in SUBSET (0 .. n - 1) /\ open # {}
    BY <1>3, InputIs DEF Slots, Candidates
  <2>2. ASSUME NEW u \in Slots(c)
        PROVE  /\ f[u] \in Int
               /\ f[u] = hazard_value(c, b, t, u, below[u].value)
               /\ f[u] = split_value(c, b, t, u, below[u].value)
    <3>1. below[u].value \in Int
      BY DEF Layers
    <3> QED
      BY <1>3, <3>1, ChanceType, AttemptType, SplitIsHazard DEF hazard_value
  <2> HIDE DEF f
  <2>3. f \in [0 .. n - 1 -> Int]
    BY <2>1, <2>2 DEF f
  <2>4. PICK j \in open : \A x \in open : f[x] < f[j] \/ (f[x] = f[j] /\ j <= x)
    <3> HIDE DEF open, n
    <3> QED
      BY <2>1, <2>3, BestExists
  <2>5. j \in Slots(c) /\ \A x \in open : x \in Slots(c) /\ x \in Nat /\ f[x] \in Int
    BY <2>1, <2>2
  <2>6. j = CHOOSE u \in open : \A x \in open :
                hazard_value(c, b, t, x, below[x].value) < hazard_value(c, b, t, u, below[u].value)
                \/ ( /\ hazard_value(c, b, t, x, below[x].value)
                            = hazard_value(c, b, t, u, below[u].value)
                     /\ u <= x )
    <3>1. j = CHOOSE u \in open : \A x \in open : f[x] < f[u] \/ (f[x] = f[u] /\ u <= x)
      <4>1. ASSUME NEW u \in open, \A x \in open : f[x] < f[u] \/ (f[x] = f[u] /\ u <= x)
            PROVE  u = j
        <5>1. f[j] < f[u] \/ (f[j] = f[u] /\ u <= j)
          BY <4>1
        <5>2. f[u] < f[j] \/ (f[u] = f[j] /\ j <= u)
          BY <2>4
        <5> QED
          BY <2>5, <5>1, <5>2
      <4> HIDE DEF open
      <4> QED
        BY <2>4, <4>1
    <3>2. \A x \in open : f[x] = hazard_value(c, b, t, x, below[x].value)
      BY <2>2, <2>5
    <3> HIDE DEF open
    <3> QED
      BY <3>1, <3>2
  <2> DEFINE top == {u \in open : \A x \in open : split_value(c, b, t, x, below[x].value)
                                                      <= split_value(c, b, t, u, below[u].value)}
  <2>7. top = {u \in open : \A x \in open : f[x] <= f[u]}
    <3>1. \A x \in open : f[x] = split_value(c, b, t, x, below[x].value)
      BY <2>2, <2>5
    <3> HIDE DEF open
    <3> QED
      BY <3>1
  <2>8. j \in top /\ \A u \in top : f[u] = f[j] /\ j <= u
    <3> HIDE DEF top, open
    <3>1. j \in top
      BY <2>4, <2>5, <2>7
    <3>2. \A u \in top : f[u] = f[j] /\ j <= u
      BY <2>4, <2>5, <2>7
    <3> QED
      BY <3>1, <3>2
  <2>9. j = CHOOSE x \in top : \A y \in top : x <= y
    <3>1. \A x \in top : x \in Nat
      BY <2>5
    <3> HIDE DEF top
    <3>2. \A x \in top : (\A y \in top : x <= y) => x = j
      BY <2>8, <3>1
    <3> QED
      BY <2>8, <3>2
  <2>10. (\E u \in top : Clears(c, b, split_value(c, b, t, u, below[u].value)))
            <=> Clears(c, b, f[j])
    <3>1. \A u \in top : split_value(c, b, t, u, below[u].value) = f[j]
      <4>1. \A u \in top : u \in Slots(c)
        BY <2>5
      <4> HIDE DEF top
      <4> QED
        BY <2>2, <2>8, <4>1
    <3> HIDE DEF top
    <3> QED
      BY <2>8, <3>1
  <2> DEFINE chosen == IF Clears(c, b, f[j]) THEN [value |-> f[j], action |-> j] ELSE Stopped(c, b)
  <2>11. reference_layer(c, b, below)[t] = chosen
    <3> HIDE DEF open
    <3> QED
      BY <1>3, <2>2, <2>5, <2>6 DEF reference_layer, open
  <2>12. solve_layer(c, b, below)[t] = chosen
    <3>1. split_value(c, b, t, j, below[j].value) = f[j]
      BY <2>2, <2>5
    <3>2. solve_layer(c, b, below)[t]
            = IF \E u \in top : Clears(c, b, split_value(c, b, t, u, below[u].value))
              THEN LET u == CHOOSE x \in top : \A y \in top : x <= y
                   IN  [value |-> split_value(c, b, t, u, below[u].value), action |-> u]
              ELSE Stopped(c, b)
      BY <1>3 DEF solve_layer
    <3> HIDE DEF top
    <3> QED
      BY <2>9, <2>10, <3>1, <3>2
  <2>13. chosen \in [value : Int, action : Int]
    BY <1>1, <2>5
  <2> HIDE DEF chosen
  <2> QED
    BY <2>11, <2>12, <2>13
<1> QED
  BY <1>2, <1>3

(* With no attempt left there is a choice at every slot: to stop.            *)
LEMMA BaseType == ASSUME NEW c \in SolverInputs PROVE base_layer(c) \in Layers(c)
  BY InputIs DEF base_layer, base_value, Layers, STOP

(* Both recursions are what their definitions say, layer by layer.           *)
LEMMA ReferenceIs ==
    ASSUME NEW c \in SolverInputs
    PROVE  /\ solve_reference(c) \in [0 .. c.budget -> Layers(c)]
           /\ solve_reference(c)[0] = base_layer(c)
           /\ \A b \in 1 .. c.budget :
                 solve_reference(c)[b] = reference_layer(c, b, solve_reference(c)[b - 1])
<1> DEFINE n == c.budget
           Def(g) == [b \in 0 .. n |-> IF b = 0 THEN base_layer(c) ELSE reference_layer(c, b, g[b - 1])]
           F == [b \in 1 .. n |-> [v \in Layers(c) |-> reference_layer(c, b, v)]]
           r == CHOOSE g : g = Def(g)
<1>1. n \in Nat /\ base_layer(c) \in Layers(c) /\ F \in [1 .. n -> [Layers(c) -> Layers(c)]]
  BY InputIs, BaseType, LayersAgree
<1>2. PICK g \in [0 .. n -> Layers(c)] : IsRun(g, n, base_layer(c), F)
  <2> HIDE DEF n, F
  <2> QED
    BY <1>1, RecursionExists
<1>3. g = Def(g)
  <2>1. ASSUME NEW b \in 1 .. n PROVE g[b] = reference_layer(c, b, g[b - 1])
    <3>1. b - 1 \in 0 .. n
      BY <1>1
    <3>2. g[b - 1] \in Layers(c)
      BY <1>2, <3>1
    <3> QED
      BY <1>2, <3>2 DEF IsRun
  <2>2. \A b \in 0 .. n : g[b] = IF b = 0 THEN base_layer(c) ELSE reference_layer(c, b, g[b - 1])
    BY <1>1, <1>2, <2>1 DEF IsRun
  <2>3. g = [b \in 0 .. n |-> g[b]]
    BY <1>2
  <2> QED
    BY <2>2, <2>3
<1>4. r = Def(r)
  BY <1>3
<1>5. solve_reference(c) = r
  BY DEF solve_reference
<1> HIDE DEF r
<1>6. r[0] = base_layer(c) /\ \A b \in 1 .. n : r[b] = reference_layer(c, b, r[b - 1])
  BY <1>1, <1>4
<1> DEFINE Typed == {b \in Nat : b <= n => r[b] \in Layers(c)}
<1>7. 0 \in Typed
  BY <1>1, <1>6
<1>8. ASSUME NEW b \in Nat, b \in Typed PROVE b + 1 \in Typed
  <2>1. CASE b + 1 <= n
    <3>1. b + 1 \in 1 .. n /\ b <= n /\ (b + 1) - 1 = b
      BY <1>1, <2>1
    <3>2. r[b + 1] = reference_layer(c, b + 1, r[b])
      BY <1>6, <3>1
    <3> QED
      BY <1>8, <3>1, <3>2, LayersAgree
  <2> QED
    BY <2>1
<1>9. Nat \subseteq Typed
  <2> HIDE DEF Typed
  <2> QED
    BY <1>7, <1>8, NatInd
<1>10. r \in [0 .. n -> Layers(c)]
  BY <1>1, <1>4, <1>9
<1> QED
  BY <1>5, <1>6, <1>10

(* The solver in production answers as the specification's own loop does,    *)
(* for every input: any number of slots and attempts, any mask, any lead,    *)
(* and whatever survival, health and revocation risk each slot has.          *)
THEOREM SolverIsReference ==
    ASSUME NEW c \in SolverInputs
    PROVE  solve(c) = solve_reference(c)
<1> DEFINE n == c.budget
           r == solve_reference(c)
           Def(g) == [b \in 0 .. n |-> IF b = 0 THEN base_layer(c) ELSE solve_layer(c, b, g[b - 1])]
           s == CHOOSE g : g = Def(g)
<1>1. /\ r \in [0 .. n -> Layers(c)] /\ r[0] = base_layer(c)
      /\ \A b \in 1 .. n : r[b] = reference_layer(c, b, r[b - 1])
  BY ReferenceIs
<1> HIDE DEF r
<1>2. ASSUME NEW b \in 1 .. n PROVE r[b] = solve_layer(c, b, r[b - 1])
  <2>1. b - 1 \in 0 .. n
    BY InputIs
  <2>2. r[b - 1] \in Layers(c)
    BY <1>1, <2>1
  <2> QED
    BY <1>1, <2>2, LayersAgree
<1>3. r = Def(r)
  <2>1. \A b \in 0 .. n : r[b] = IF b = 0 THEN base_layer(c) ELSE solve_layer(c, b, r[b - 1])
    BY <1>1, <1>2, InputIs
  <2>2. r = [b \in 0 .. n |-> r[b]]
    BY <1>1
  <2> QED
    BY <2>1, <2>2
<1>4. s = Def(s)
  BY <1>3
<1>5. solve(c) = s
  BY DEF solve
<1> HIDE DEF s
<1>6. s[0] = base_layer(c) /\ \A b \in 1 .. n : s[b] = solve_layer(c, b, s[b - 1])
  BY <1>4, InputIs
<1> DEFINE Same == {b \in Nat : b <= n => s[b] = r[b]}
<1>7. 0 \in Same
  BY <1>1, <1>6
<1>8. ASSUME NEW b \in Nat, b \in Same PROVE b + 1 \in Same
  <2>1. CASE b + 1 <= n
    <3>1. b + 1 \in 1 .. n /\ b <= n /\ (b + 1) - 1 = b
      BY <2>1, InputIs
    <3> QED
      BY <1>2, <1>6, <1>8, <3>1
  <2> QED
    BY <2>1
<1>9. Nat \subseteq Same
  <2> HIDE DEF Same
  <2> QED
    BY <1>7, <1>8, NatInd
<1>10. \A b \in 0 .. n : s[b] = r[b]
  BY <1>9, InputIs
<1>11. s = [b \in 0 .. n |-> s[b]] /\ r = [b \in 0 .. n |-> r[b]]
  BY <1>1, <1>4
<1> QED
  BY <1>5, <1>10, <1>11 DEF r

-----------------------------------------------------------------------------
(* The scan from the right finds the best of the open slots from lo on, and *)
(* the first of several that are worth the same.                            *)
Best == [ok : BOOLEAN, ev : Int, slot : Int]

IsBest(r, row, n, lo) ==
    /\ r \in Best
    /\ r.ok <=> \E i \in lo .. n - 1 : row[i].ok
    /\ r.ok => /\ r.slot \in lo .. n - 1 /\ row[r.slot].ok /\ row[r.slot].ev = r.ev
               /\ \A i \in lo .. n - 1 :
                     row[i].ok => row[i].ev < r.ev \/ (row[i].ev = r.ev /\ r.slot <= i)

(* It does, whatever is open.                                                *)
LEMMA SuffixBestIs ==
    ASSUME NEW n \in Nat, NEW row \in [0 .. n - 1 -> [ok : BOOLEAN, ev : Int]], NEW lo \in 0 .. n
    PROVE  IsBest(SuffixBest(row, n, lo), row, n, lo)
<1> DEFINE Take(k, v) == LET i == n - k IN
                         IF row[i].ok /\ (~v.ok \/ row[i].ev >= v.ev)
                         THEN [ok |-> TRUE, ev |-> row[i].ev, slot |-> i]
                         ELSE v
           Def(g) == [k \in 0 .. n |-> IF k = 0 THEN NoSlot ELSE Take(k, g[k - 1])]
           F == [k \in 1 .. n |-> [v \in Best |-> Take(k, v)]]
           best == CHOOSE g : g = Def(g)
<1>1. NoSlot \in Best /\ F \in [1 .. n -> [Best -> Best]]
  <2>1. NoSlot \in Best
    BY DEF NoSlot, Best, STOP
  <2>2. ASSUME NEW k \in 1 .. n, NEW v \in Best PROVE Take(k, v) \in Best
    <3>1. n - k \in 0 .. n - 1
      OBVIOUS
    <3>2. row[n - k] \in [ok : BOOLEAN, ev : Int]
      BY <3>1
    <3> QED
      BY <3>1, <3>2 DEF Best
  <2> HIDE DEF Take
  <2> QED
    BY <2>1, <2>2
<1>2. PICK g \in [0 .. n -> Best] : IsRun(g, n, NoSlot, F)
  <2> HIDE DEF F
  <2> QED
    BY <1>1, RecursionExists
<1>3. g = Def(g)
  <2> HIDE DEF Take
  <2>1. ASSUME NEW k \in 1 .. n PROVE g[k] = Take(k, g[k - 1])
    <3>1. k - 1 \in 0 .. n
      OBVIOUS
    <3>2. g[k - 1] \in Best
      BY <1>2, <3>1
    <3> QED
      BY <1>2, <3>2 DEF IsRun
  <2>2. \A k \in 0 .. n : g[k] = IF k = 0 THEN NoSlot ELSE Take(k, g[k - 1])
    BY <1>2, <2>1 DEF IsRun
  <2>3. g = [k \in 0 .. n |-> g[k]]
    BY <1>2
  <2> QED
    BY <2>2, <2>3
<1>4. best = Def(best)
  BY <1>3
<1>5. SuffixBest(row, n, lo) = best[n - lo]
  BY DEF SuffixBest
<1> HIDE DEF best
<1>6. best[0] = NoSlot /\ \A k \in 1 .. n : best[k] = Take(k, best[k - 1])
  <2> HIDE DEF Take
  <2> QED
    BY <1>4
<1> DEFINE Good == {k \in Nat : k <= n => IsBest(best[k], row, n, n - k)}
<1>7. 0 \in Good
  <2>1. n - 0 .. n - 1 = {}
    OBVIOUS
  <2>2. IsBest(NoSlot, row, n, n - 0)
    BY <1>1, <2>1 DEF IsBest, NoSlot
  <2> QED
    BY <1>6, <2>2
<1>8. ASSUME NEW k \in Nat, k \in Good PROVE k + 1 \in Good
  <2> SUFFICES ASSUME k + 1 <= n PROVE IsBest(best[k + 1], row, n, n - (k + 1))
    OBVIOUS
  <2> DEFINE i == n - (k + 1)
             v == best[k]
  <2>1. IsBest(v, row, n, n - k)
    BY <1>8
  <2>2. i \in 0 .. n - 1 /\ n - k = i + 1 /\ k + 1 \in 1 .. n /\ (k + 1) - 1 = k
    OBVIOUS
  <2>3. best[k + 1] = IF row[i].ok /\ (~v.ok \/ row[i].ev >= v.ev)
                      THEN [ok |-> TRUE, ev |-> row[i].ev, slot |-> i]
                      ELSE v
    BY <1>6, <2>2
  <2> HIDE DEF v, i
  <2>4. i .. n - 1 = {i} \cup (i + 1 .. n - 1)
    BY <2>2
  <2>5. \A j \in i .. n - 1 : row[j] \in [ok : BOOLEAN, ev : Int] /\ j \in Int
    BY <2>2
  <2>6. i \in i .. n - 1 /\ i \in Int
    BY <2>2
  <2>7. CASE row[i].ok /\ (~v.ok \/ row[i].ev >= v.ev)
    <3> DEFINE r == [ok |-> TRUE, ev |-> row[i].ev, slot |-> i]
    <3>1. r \in Best /\ r.ok /\ r.slot = i /\ r.ev = row[i].ev
      BY <2>5, <2>6 DEF Best
    <3>2. ASSUME NEW j \in i + 1 .. n - 1, row[j].ok
          PROVE  row[j].ev < row[i].ev \/ (row[j].ev = row[i].ev /\ i <= j)
      <4>1. v.ok
        BY <2>1, <2>2, <3>2 DEF IsBest
      <4>2. row[j].ev < v.ev \/ row[j].ev = v.ev
        BY <2>1, <2>2, <3>2, <4>1 DEF IsBest
      <4>3. v.ev \in Int /\ row[i].ev \in Int /\ row[j].ev \in Int /\ i <= j
        BY <2>1, <2>4, <2>5, <2>6 DEF IsBest, Best
      <4> QED
        BY <2>7, <4>1, <4>2, <4>3
    <3>3. best[k + 1] = r
      BY <2>3, <2>7
    <3> HIDE DEF r
    <3>4. IsBest(r, row, n, i)
      BY <2>4, <2>6, <2>7, <3>1, <3>2 DEF IsBest
    <3> QED
      BY <3>3, <3>4 DEF i
  <2>8. CASE ~(row[i].ok /\ (~v.ok \/ row[i].ev >= v.ev))
    <3>1. best[k + 1] = v
      BY <2>3, <2>8
    <3>2. v \in Best /\ (v.ok => v.slot \in i .. n - 1 /\ row[v.slot].ok /\ row[v.slot].ev = v.ev)
      BY <2>1, <2>2, <2>4 DEF IsBest
    <3>3. v.ok <=> \E j \in i .. n - 1 : row[j].ok
      BY <2>1, <2>2, <2>4, <2>8 DEF IsBest
    <3>4. ASSUME v.ok, NEW j \in i .. n - 1, row[j].ok
          PROVE  row[j].ev < v.ev \/ (row[j].ev = v.ev /\ v.slot <= j)
      <4>1. CASE j = i
        BY <2>5, <2>6, <2>8, <3>2, <3>4, <4>1 DEF Best
      <4>2. CASE j \in i + 1 .. n - 1
        BY <2>1, <2>2, <3>4, <4>2 DEF IsBest
      <4> QED
        BY <2>4, <4>1, <4>2
    <3>5. IsBest(v, row, n, i)
      BY <3>2, <3>3, <3>4 DEF IsBest
    <3> QED
      BY <3>1, <3>5 DEF i
  <2> QED
    BY <2>7, <2>8
<1>9. n - lo \in Good
  <2>1. Nat \subseteq Good
    <3> HIDE DEF Good
    <3> QED
      BY <1>7, <1>8, NatInd
  <2>2. n - lo \in Nat
    OBVIOUS
  <2> HIDE DEF Good
  <2> QED
    BY <2>1, <2>2
<1>10. n - (n - lo) = lo /\ n - lo <= n
  OBVIOUS
<1> QED
  BY <1>5, <1>9, <1>10

-----------------------------------------------------------------------------
(* A layer of the presence solver: what each slot has come to when it is     *)
(* made from the layer below.                                                *)
Pays(c, b, u, below) == attempt_value(c, b, presence_p(c, u), u, below[u].value)

IsChoice(r, c, b, t, below) ==
    /\ r \in [value : Int, action : Int]
    /\ r.action = STOP => /\ r.value = c.w * Scale(b)
                          /\ \A u \in Candidates(c, t) : ~Clears(c, b, Pays(c, b, u, below))
    /\ r.action # STOP => /\ r.action \in Candidates(c, t)
                          /\ r.value = Pays(c, b, r.action, below)
                          /\ Clears(c, b, r.value)
                          /\ \A u \in Candidates(c, t) : Pays(c, b, u, below) <= r.value

(* What a candidate pays is a whole number.                                  *)
LEMMA PaysType ==
    ASSUME NEW c \in SolverInputs, NEW b \in 1 .. c.budget, NEW below \in Layers(c), NEW u \in Slots(c)
    PROVE  Pays(c, b, u, below) \in Int
<1>1. below[u].value \in Int /\ presence_p(c, u) \in Int
  BY ChanceType DEF Layers
<1> QED
  BY <1>1, AttemptType DEF Pays

(* The bar an attempt has to clear is no lower than what the mandate is      *)
(* worth.                                                                    *)
LEMMA BarType ==
    ASSUME NEW c \in SolverInputs, NEW b \in 0 .. c.budget
    PROVE  c.w * Scale(b) \in Int /\ (c.w + c.min_ev) * Scale(b) \in Int
           /\ c.w * Scale(b) <= (c.w + c.min_ev) * Scale(b)
<1>1. b \in Nat /\ c.w \in Nat /\ c.min_ev \in Nat
  BY InputIs
<1>2. Scale(b) \in Nat
  BY <1>1, ScaleStep
<1>3. \A w \in Nat, m \in Nat, s \in Nat : w * s \in Int /\ m * s \in Nat /\ (w + m) * s = w * s + m * s
  OBVIOUS
<1> QED
  BY <1>1, <1>2, <1>3

(* The production layer makes the best choice at every slot.                 *)
LEMMA PresenceLayerIs ==
    ASSUME NEW c \in SolverInputs, NEW b \in 1 .. c.budget, NEW below \in Layers(c), NEW t \in Slots(c)
    PROVE  IsChoice(presence_layer(c, b, below)[t], c, b, t, below)
<1> DEFINE n == Len(c.slots)
           row == presence_row(c, b, below)
           lo == IF t + c.lead < n THEN t + c.lead ELSE n
           best == SuffixBest(row, n, lo)
           r == IF best.ok /\ Clears(c, b, best.ev) THEN [value |-> best.ev, action |-> best.slot]
                ELSE Stopped(c, b)
<1>1. n \in Nat /\ Slots(c) = 0 .. n - 1 /\ t \in Nat /\ c.lead \in Nat /\ lo \in 0 .. n
  BY InputIs DEF Slots
<1>2. ASSUME NEW u \in Slots(c)
      PROVE  row[u].ok = At(c, u).legal /\ row[u].ev = Pays(c, b, u, below)
  BY DEF presence_row, Pays
<1>3. row \in [0 .. n - 1 -> [ok : BOOLEAN, ev : Int]]
  <2>1. \A u \in Slots(c) : At(c, u).legal \in BOOLEAN
    BY InputIs
  <2>2. \A u \in Slots(c) : Pays(c, b, u, below) \in Int
    BY PaysType
  <2> QED
    BY <1>1, <2>1, <2>2 DEF presence_row, Pays
<1>4. IsBest(best, row, n, lo)
  <2> HIDE DEF row, n, lo
  <2> QED
    BY <1>1, <1>3, SuffixBestIs
<1>5. presence_layer(c, b, below)[t] = r
  BY DEF presence_layer
<1>6. Candidates(c, t) = {u \in lo .. n - 1 : row[u].ok}
  <2>1. \A u \in Slots(c) : u >= t + c.lead <=> u \in lo .. n - 1
    BY <1>1
  <2>2. lo .. n - 1 \subseteq Slots(c)
    BY <1>1
  <2> HIDE DEF row, lo, n
  <2> QED
    BY <1>2, <2>1, <2>2 DEF Candidates
<1>7. \A u \in Candidates(c, t) : row[u].ev = Pays(c, b, u, below) /\ Pays(c, b, u, below) \in Int
  BY <1>2, PaysType DEF Candidates
<1>8. c.w * Scale(b) \in Int /\ (c.w + c.min_ev) * Scale(b) \in Int
  BY BarType
<1>9. Stopped(c, b) = [value |-> c.w * Scale(b), action |-> STOP]
  BY DEF Stopped
<1> HIDE DEF row, lo, n, best
<1>10. CASE best.ok /\ Clears(c, b, best.ev)
  <2>1. best.slot \in Candidates(c, t) /\ best.slot \in Nat /\ best.ev = Pays(c, b, best.slot, below)
    BY <1>1, <1>4, <1>6, <1>7, <1>10 DEF IsBest
  <2>2. \A u \in Candidates(c, t) : Pays(c, b, u, below) <= best.ev
    BY <1>4, <1>6, <1>7, <1>10, <2>1 DEF IsBest
  <2>3. r = [value |-> best.ev, action |-> best.slot]
    BY <1>10
  <2> HIDE DEF r
  <2>4. r.value = best.ev /\ r.action = best.slot /\ r.action # STOP /\ r \in [value : Int, action : Int]
    BY <1>7, <2>1, <2>3 DEF STOP
  <2>5. IsChoice(r, c, b, t, below)
    BY <1>10, <2>1, <2>2, <2>4 DEF IsChoice
  <2> QED
    BY <1>5, <2>5
<1>11. CASE ~(best.ok /\ Clears(c, b, best.ev))
  <2>1. ASSUME NEW u \in Candidates(c, t) PROVE ~Clears(c, b, Pays(c, b, u, below))
    <3>1. best.ok /\ (row[u].ev < best.ev \/ row[u].ev = best.ev)
      BY <1>4, <1>6 DEF IsBest
    <3>2. best.ev \in Int
      BY <1>4 DEF IsBest, Best
    <3> QED
      BY <1>7, <1>8, <1>11, <3>1, <3>2 DEF Clears
  <2>2. r = Stopped(c, b)
    BY <1>11
  <2> HIDE DEF r
  <2>3. r.value = c.w * Scale(b) /\ r.action = STOP /\ r \in [value : Int, action : Int]
    BY <1>8, <1>9, <2>2 DEF STOP
  <2>4. IsChoice(r, c, b, t, below)
    BY <2>1, <2>3 DEF IsChoice
  <2> QED
    BY <1>5, <2>4
<1> QED
  BY <1>10, <1>11

(* It is a layer.                                                            *)
LEMMA PresenceLayerType ==
    ASSUME NEW c \in SolverInputs, NEW b \in 1 .. c.budget, NEW below \in Layers(c)
    PROVE  presence_layer(c, b, below) \in Layers(c)
<1>1. \A t \in Slots(c) : presence_layer(c, b, below)[t] \in [value : Int, action : Int]
  BY PresenceLayerIs DEF IsChoice
<1>2. presence_layer(c, b, below) = [t \in Slots(c) |-> presence_layer(c, b, below)[t]]
  BY DEF presence_layer
<1> QED
  BY <1>1, <1>2 DEF Layers

(* The production solver builds its layers one upon the other.               *)
LEMMA PresenceIs ==
    ASSUME NEW c \in SolverInputs
    PROVE  /\ solve_presence(c) \in [0 .. c.budget -> Layers(c)]
           /\ solve_presence(c)[0] = base_layer(c)
           /\ \A b \in 1 .. c.budget :
                 solve_presence(c)[b] = presence_layer(c, b, solve_presence(c)[b - 1])
<1> DEFINE n == c.budget
           Def(g) == [b \in 0 .. n |-> IF b = 0 THEN base_layer(c) ELSE presence_layer(c, b, g[b - 1])]
           F == [b \in 1 .. n |-> [v \in Layers(c) |-> presence_layer(c, b, v)]]
           r == CHOOSE g : g = Def(g)
<1>1. n \in Nat /\ base_layer(c) \in Layers(c) /\ F \in [1 .. n -> [Layers(c) -> Layers(c)]]
  BY InputIs, BaseType, PresenceLayerType
<1>2. PICK g \in [0 .. n -> Layers(c)] : IsRun(g, n, base_layer(c), F)
  <2> HIDE DEF n, F
  <2> QED
    BY <1>1, RecursionExists
<1>3. g = Def(g)
  <2>1. ASSUME NEW b \in 1 .. n PROVE g[b] = presence_layer(c, b, g[b - 1])
    <3>1. b - 1 \in 0 .. n
      BY <1>1
    <3>2. g[b - 1] \in Layers(c)
      BY <1>2, <3>1
    <3> QED
      BY <1>2, <3>2 DEF IsRun
  <2>2. \A b \in 0 .. n : g[b] = IF b = 0 THEN base_layer(c) ELSE presence_layer(c, b, g[b - 1])
    BY <1>1, <1>2, <2>1 DEF IsRun
  <2>3. g = [b \in 0 .. n |-> g[b]]
    BY <1>2
  <2> QED
    BY <2>2, <2>3
<1>4. r = Def(r)
  BY <1>3
<1>5. solve_presence(c) = r
  BY DEF solve_presence
<1> HIDE DEF r
<1>6. r[0] = base_layer(c) /\ \A b \in 1 .. n : r[b] = presence_layer(c, b, r[b - 1])
  BY <1>1, <1>4
<1> DEFINE Typed == {b \in Nat : b <= n => r[b] \in Layers(c)}
<1>7. 0 \in Typed
  BY <1>1, <1>6
<1>8. ASSUME NEW b \in Nat, b \in Typed PROVE b + 1 \in Typed
  <2>1. CASE b + 1 <= n
    <3>1. b + 1 \in 1 .. n /\ b <= n /\ (b + 1) - 1 = b
      BY <1>1, <2>1
    <3>2. r[b + 1] = presence_layer(c, b + 1, r[b])
      BY <1>6, <3>1
    <3> QED
      BY <1>8, <3>1, <3>2, PresenceLayerType
  <2> QED
    BY <2>1
<1>9. Nat \subseteq Typed
  <2> HIDE DEF Typed
  <2> QED
    BY <1>7, <1>8, NatInd
<1>10. r \in [0 .. n -> Layers(c)]
  BY <1>1, <1>4, <1>9
<1> QED
  BY <1>5, <1>6, <1>10

(* The policy, slot by slot.                                                 *)
LEMMA PolicyIs ==
    ASSUME NEW c \in SolverInputs, NEW t \in Slots(c)
    PROVE  /\ solve_presence(c)[0][t] = [value |-> c.w * Scale(0), action |-> STOP]
           /\ \A b \in 0 .. c.budget : solve_presence(c)[b][t] \in [value : Int, action : Int]
           /\ \A b \in 1 .. c.budget :
                 /\ solve_presence(c)[b - 1] \in Layers(c)
                 /\ IsChoice(solve_presence(c)[b][t], c, b, t, solve_presence(c)[b - 1])
<1>1. solve_presence(c)[0][t] = [value |-> c.w * Scale(0), action |-> STOP]
  <2>1. c.w * Scale(0) = c.w
    BY InputIs, ScaleZero
  <2>2. base_layer(c)[t] = [value |-> c.w, action |-> STOP]
    BY DEF base_layer, base_value
  <2>3. solve_presence(c)[0] = base_layer(c)
    BY PresenceIs
  <2> QED
    BY <2>1, <2>2, <2>3
<1>2. \A b \in 0 .. c.budget : solve_presence(c)[b] \in Layers(c)
  BY PresenceIs
<1>3. ASSUME NEW b \in 1 .. c.budget
      PROVE  /\ solve_presence(c)[b - 1] \in Layers(c)
             /\ IsChoice(solve_presence(c)[b][t], c, b, t, solve_presence(c)[b - 1])
  <2>1. b - 1 \in 0 .. c.budget
    BY InputIs
  <2>2. solve_presence(c)[b - 1] \in Layers(c)
    BY <1>2, <2>1
  <2>3. solve_presence(c)[b] = presence_layer(c, b, solve_presence(c)[b - 1])
    BY PresenceIs
  <2> QED
    BY <2>2, <2>3, PresenceLayerIs
<1> QED
  BY <1>1, <1>2, <1>3 DEF Layers

-----------------------------------------------------------------------------
(* Plans, and what they are worth.                                           *)
LEMMA PlanIs ==
    ASSUME NEW c, NEW t, NEW b \in Nat, NEW p
    PROVE  p \in Plans(c, t, b) <=>
              /\ p \in Seq(Slots(c)) /\ Len(p) <= b
              /\ \A i \in 1 .. Len(p) : p[i] \in Candidates(c, IF i = 1 THEN t ELSE p[i - 1])
<1> DEFINE S == Slots(c)
           All == UNION {[1 .. n -> S] : n \in 0 .. b}
<1>1. p \in All <=> p \in Seq(S) /\ Len(p) <= b
  <2> HIDE DEF S
  <2>1. ASSUME p \in All PROVE p \in Seq(S) /\ Len(p) <= b
    <3>1. PICK n \in 0 .. b : p \in [1 .. n -> S]
      BY <2>1
    <3>2. p \in Seq(S)
      BY <3>1, SeqDef
    <3>3. DOMAIN p = 1 .. n /\ DOMAIN p = 1 .. Len(p) /\ Len(p) \in Nat
      BY <3>1, <3>2, LenProperties
    <3>4. Len(p) = n
      BY <3>3
    <3> QED
      BY <3>2, <3>4
  <2>2. ASSUME p \in Seq(S), Len(p) <= b PROVE p \in All
    <3>1. Len(p) \in 0 .. b /\ p \in [1 .. Len(p) -> S]
      BY <2>2, LenProperties
    <3> QED
      BY <3>1
  <2> QED
    BY <2>1, <2>2
<1>2. p \in Seq(S) => DOMAIN p = 1 .. Len(p)
  BY LenProperties
<1> HIDE DEF S
<1> QED
  BY <1>1, <1>2 DEF Plans, S

(* To make no attempt is a plan.                                             *)
LEMMA EmptyPlan ==
    ASSUME NEW c, NEW t, NEW b \in Nat
    PROVE  <<>> \in Plans(c, t, b)
<1> DEFINE e == <<>>
<1>1. e \in Seq(Slots(c)) /\ Len(e) = 0
  BY EmptySeq
<1> HIDE DEF e
<1>2. 1 .. Len(e) = {} /\ Len(e) <= b
  BY <1>1
<1>3. e \in Plans(c, t, b)
  BY <1>1, <1>2, PlanIs
<1> QED
  BY <1>3 DEF e

(* A plan is a first attempt and a plan from there.                          *)
LEMMA PlanCons ==
    ASSUME NEW c \in SolverInputs, NEW t \in Slots(c), NEW b \in 1 .. c.budget, NEW u \in Candidates(c, t),
           NEW q \in Plans(c, u, b - 1)
    PROVE  <<u>> \o q \in Plans(c, t, b) /\ Len(<<u>> \o q) = Len(q) + 1
<1> DEFINE p == <<u>> \o q
           S == Slots(c)
<1>1. u \in S /\ b - 1 \in Nat /\ b \in Nat
  BY InputIs DEF Candidates
<1>2. /\ q \in Seq(S) /\ Len(q) <= b - 1 /\ Len(q) \in Nat
      /\ \A i \in 1 .. Len(q) : q[i] \in Candidates(c, IF i = 1 THEN u ELSE q[i - 1])
  BY <1>1, PlanIs, LenProperties
<1>3. /\ p \in Seq(S) /\ Len(p) = Len(q) + 1
      /\ \A i \in 1 .. Len(q) + 1 : p[i] = IF i = 1 THEN u ELSE q[i - 1]
  <2>1. <<u>> \in Seq(S) /\ Len(<<u>>) = 1 /\ <<u>>[1] = u
    BY <1>1
  <2> HIDE DEF S
  <2>2. /\ p \in Seq(S) /\ Len(p) = Len(<<u>>) + Len(q)
        /\ \A i \in 1 .. Len(<<u>>) + Len(q) :
              p[i] = IF i <= Len(<<u>>) THEN <<u>>[i] ELSE q[i - Len(<<u>>)]
    BY <1>2, <2>1, ConcatProperties
  <2> HIDE DEF p
  <2>3. ASSUME NEW i \in 1 .. Len(q) + 1 PROVE p[i] = IF i = 1 THEN u ELSE q[i - 1]
    <3>1. i \in 1 .. Len(<<u>>) + Len(q) /\ (i <= Len(<<u>>) <=> i = 1)
      BY <1>2, <2>1
    <3> QED
      BY <2>1, <2>2, <3>1
  <2>4. 1 + Len(q) = Len(q) + 1
    BY <1>2
  <2> QED
    BY <2>1, <2>2, <2>3, <2>4
<1> HIDE DEF p, S
<1>4. ASSUME NEW i \in 1 .. Len(p) PROVE p[i] \in Candidates(c, IF i = 1 THEN t ELSE p[i - 1])
  <2>1. CASE i = 1
    BY <1>3, <2>1
  <2>2. CASE i # 1
    <3>1. i - 1 \in 1 .. Len(q) /\ i - 1 \in 1 .. Len(q) + 1 /\ i \in 1 .. Len(q) + 1
      BY <1>2, <1>3, <2>2
    <3>2. p[i] = q[i - 1] /\ p[i - 1] = IF i - 1 = 1 THEN u ELSE q[i - 1 - 1]
      BY <1>3, <2>2, <3>1
    <3> QED
      BY <1>2, <2>2, <3>1, <3>2
  <2> QED
    BY <2>1, <2>2
<1>5. Len(p) <= b
  BY <1>1, <1>2, <1>3
<1>6. p \in Plans(c, t, b)
  BY <1>1, <1>3, <1>4, <1>5, PlanIs DEF S
<1> QED
  BY <1>3, <1>6 DEF p

(* A plan is empty, or a candidate and a plan from there.                    *)
LEMMA PlanSplits ==
    ASSUME NEW c \in SolverInputs, NEW t \in Slots(c), NEW b \in 0 .. c.budget,
           NEW p \in Plans(c, t, b), p # <<>>
    PROVE  /\ b \in 1 .. c.budget /\ p[1] \in Candidates(c, t)
           /\ \E q \in Plans(c, p[1], b - 1) : p = <<p[1]>> \o q
<1> DEFINE S == Slots(c)
           n == Len(p)
           q == [i \in 1 .. n - 1 |-> p[i + 1]]
<1>1. b \in Nat /\ c.budget \in Nat
  BY InputIs
<1>2. /\ p \in Seq(S) /\ n <= b /\ n \in Nat \ {0} /\ p \in [1 .. n -> S]
      /\ \A i \in 1 .. n : p[i] \in Candidates(c, IF i = 1 THEN t ELSE p[i - 1])
  BY <1>1, PlanIs, EmptySeq, LenProperties
<1>3. b \in 1 .. c.budget /\ b - 1 \in Nat /\ p[1] \in Candidates(c, t) /\ p[1] \in S
  <2>1. 1 \in 1 .. n
    BY <1>2
  <2> QED
    BY <1>1, <1>2, <2>1
<1>4. q \in Seq(S) /\ Len(q) = n - 1
  <2>1. n - 1 \in Nat
    BY <1>2
  <2>2. q \in [1 .. n - 1 -> S]
    <3>1. \A i \in 1 .. n - 1 : i + 1 \in 1 .. n
      BY <1>2
    <3> HIDE DEF S, n
    <3> QED
      BY <1>2, <3>1
  <2> HIDE DEF q, S
  <2>3. q \in Seq(S)
    BY <2>1, <2>2, SeqDef
  <2>4. DOMAIN q = 1 .. n - 1 /\ DOMAIN q = 1 .. Len(q) /\ Len(q) \in Nat
    BY <2>2, <2>3, LenProperties
  <2> QED
    BY <2>1, <2>3, <2>4
<1>5. \A i \in 1 .. n - 1 : q[i] = p[i + 1]
  OBVIOUS
<1> HIDE DEF q, n, S
<1>6. q \in Plans(c, p[1], b - 1)
  <2>1. ASSUME NEW i \in 1 .. n - 1 PROVE q[i] \in Candidates(c, IF i = 1 THEN p[1] ELSE q[i - 1])
    <3>1. i + 1 \in 1 .. n /\ i + 1 # 1 /\ (i + 1) - 1 = i
      BY <1>2
    <3>2. q[i] \in Candidates(c, p[i])
      BY <1>2, <1>5, <3>1
    <3>3. i # 1 => i - 1 \in 1 .. n - 1 /\ (i - 1) + 1 = i
      BY <1>2
    <3>4. p[i] = IF i = 1 THEN p[1] ELSE q[i - 1]
      BY <1>5, <3>3
    <3> QED
      BY <3>2, <3>4
  <2>2. n - 1 <= b - 1
    BY <1>1, <1>2
  <2> QED
    BY <1>3, <1>4, <2>1, <2>2, PlanIs DEF S
<1>7. p = <<p[1]>> \o q
  <2> DEFINE r == <<p[1]>> \o q
  <2>1. <<p[1]>> \in Seq(S) /\ Len(<<p[1]>>) = 1 /\ <<p[1]>>[1] = p[1]
    BY <1>3
  <2>2. /\ r \in Seq(S) /\ Len(r) = Len(<<p[1]>>) + Len(q)
        /\ \A i \in 1 .. Len(<<p[1]>>) + Len(q) :
              r[i] = IF i <= Len(<<p[1]>>) THEN <<p[1]>>[i] ELSE q[i - Len(<<p[1]>>)]
    BY <1>4, <2>1, ConcatProperties
  <2> HIDE DEF r
  <2>3. Len(r) = n
    BY <1>2, <1>4, <2>1, <2>2
  <2>4. ASSUME NEW i \in 1 .. n PROVE r[i] = p[i]
    <3>1. CASE i = 1
      BY <1>2, <1>4, <2>1, <2>2, <3>1
    <3>2. CASE i # 1
      <4>1. i - 1 \in 1 .. n - 1 /\ (i - 1) + 1 = i /\ i \in 1 .. 1 + (n - 1)
        BY <1>2, <3>2
      <4>2. r[i] = q[i - 1]
        BY <1>2, <1>4, <2>1, <2>2, <3>2, <4>1
      <4> QED
        BY <1>5, <4>1, <4>2
    <3> QED
      BY <3>1, <3>2
  <2>5. r = p
    BY <1>2, <2>2, <2>3, <2>4, SeqEqual DEF n
  <2> QED
    BY <2>5 DEF r
<1> QED
  BY <1>3, <1>6, <1>7

(* worth[k] is that of the last k attempts of a plan p of n.                 *)
IsWorth(worth, c, p, b, n) ==
    /\ worth \in [0 .. n -> Int]
    /\ worth[0] = c.w * Scale(b - n)
    /\ \A k \in 1 .. n :
          LET u == p[n - k + 1]
          IN  worth[k] = attempt_value(c, b - n + k, presence_p(c, u), u, worth[k - 1])

(* There are such values, and the plan is worth the last.                    *)
LEMMA WorthIs ==
    ASSUME NEW c \in SolverInputs, NEW b \in 0 .. c.budget, NEW p \in Seq(Slots(c)), Len(p) <= b
    PROVE  \E worth : IsWorth(worth, c, p, b, Len(p)) /\ Worth(c, p, b) = worth[Len(p)]
<1> DEFINE n == Len(p)
           base == c.w * Scale(b - n)
           One(k, v) == attempt_value(c, b - n + k, presence_p(c, p[n - k + 1]), p[n - k + 1], v)
           Def(g) == [k \in 0 .. n |-> IF k = 0 THEN base ELSE One(k, g[k - 1])]
           F == [k \in 1 .. n |-> [v \in Int |-> One(k, v)]]
           worth == CHOOSE g : g = Def(g)
<1>1. n \in Nat /\ b - n \in 0 .. c.budget /\ c.budget \in Nat
  BY InputIs, LenProperties
<1>2. base \in Int
  BY <1>1, BarType
<1>3. ASSUME NEW k \in 1 .. n, NEW v \in Int PROVE One(k, v) \in Int
  <2>1. b - n + k \in 1 .. c.budget /\ n - k + 1 \in 1 .. n
    BY <1>1
  <2>2. p[n - k + 1] \in Slots(c)
    BY <2>1, ElementOfSeq
  <2>3. presence_p(c, p[n - k + 1]) \in Int
    BY <2>2, ChanceType
  <2> HIDE DEF n
  <2> QED
    BY <2>1, <2>2, <2>3, AttemptType
<1>4. F \in [1 .. n -> [Int -> Int]]
  <2> HIDE DEF One
  <2> QED
    BY <1>3
<1>5. PICK g \in [0 .. n -> Int] : IsRun(g, n, base, F)
  <2> HIDE DEF F, n, base
  <2> QED
    BY <1>1, <1>2, <1>4, RecursionExists
<1>6. g = Def(g)
  <2> HIDE DEF One, base, n
  <2>1. ASSUME NEW k \in 1 .. n PROVE g[k] = One(k, g[k - 1])
    <3>1. k - 1 \in 0 .. n
      BY <1>1
    <3>2. g[k - 1] \in Int
      BY <1>5, <3>1
    <3> QED
      BY <1>5, <3>2 DEF IsRun
  <2>2. \A k \in 0 .. n : g[k] = IF k = 0 THEN base ELSE One(k, g[k - 1])
    BY <1>1, <1>5, <2>1 DEF IsRun
  <2>3. g = [k \in 0 .. n |-> g[k]]
    BY <1>5
  <2> QED
    BY <2>2, <2>3
<1>7. worth = Def(worth)
  BY <1>6
<1>8. Worth(c, p, b) = worth[n]
  BY DEF Worth
<1> HIDE DEF worth
<1>9. worth[0] = base /\ \A k \in 1 .. n : worth[k] = One(k, worth[k - 1])
  <2> HIDE DEF One, base, n
  <2> QED
    BY <1>1, <1>7
<1> DEFINE Typed == {k \in Nat : k <= n => worth[k] \in Int}
<1>10. 0 \in Typed
  BY <1>2, <1>9
<1>11. ASSUME NEW k \in Nat, k \in Typed PROVE k + 1 \in Typed
  <2> HIDE DEF One, n, base
  <2>1. CASE k + 1 <= n
    <3>1. k + 1 \in 1 .. n /\ k <= n /\ (k + 1) - 1 = k
      BY <1>1, <2>1
    <3>2. worth[k] \in Int /\ worth[k + 1] = One(k + 1, worth[k])
      BY <1>9, <1>11, <3>1
    <3>3. worth[k + 1] \in Int
      BY <1>3, <3>1, <3>2
    <3> QED
      BY <3>3
  <2> QED
    BY <2>1
<1>12. Nat \subseteq Typed
  <2> HIDE DEF Typed
  <2> QED
    BY <1>10, <1>11, NatInd
<1>13. worth \in [0 .. n -> Int]
  <2> HIDE DEF One, base, n
  <2>1. worth = [k \in 0 .. n |-> worth[k]]
    BY <1>7
  <2>2. \A k \in 0 .. n : worth[k] \in Int
    BY <1>1, <1>12
  <2> QED
    BY <2>1, <2>2
<1>14. IsWorth(worth, c, p, b, n)
  BY <1>9, <1>13 DEF IsWorth
<1> QED
  BY <1>8, <1>14

(* Doing nothing is worth the mandate untouched, and a plan is worth what    *)
(* its first attempt is, if it is followed by the rest.                      *)
LEMMA WorthEmpty ==
    ASSUME NEW c \in SolverInputs, NEW b \in 0 .. c.budget
    PROVE  Worth(c, <<>>, b) = c.w * Scale(b)
<1> DEFINE e == <<>>
<1>1. e \in Seq(Slots(c)) /\ Len(e) = 0
  BY EmptySeq
<1>2. b \in Nat /\ b - 0 = b
  BY InputIs
<1> HIDE DEF e
<1>3. PICK worth : IsWorth(worth, c, e, b, Len(e)) /\ Worth(c, e, b) = worth[Len(e)]
  <2>1. Len(e) <= b
    BY <1>1, <1>2
  <2> QED
    BY <1>1, <2>1, WorthIs
<1>4. Worth(c, e, b) = c.w * Scale(b - 0)
  BY <1>1, <1>3 DEF IsWorth
<1> QED
  BY <1>2, <1>4 DEF e

(* What a plan is worth, from its first attempt and the rest of it.          *)
LEMMA WorthCons ==
    ASSUME NEW c \in SolverInputs, NEW b \in 1 .. c.budget, NEW u \in Slots(c),
           NEW q \in Seq(Slots(c)), Len(q) <= b - 1
    PROVE  /\ Worth(c, q, b - 1) \in Int
           /\ Worth(c, <<u>> \o q, b) = attempt_value(c, b, presence_p(c, u), u, Worth(c, q, b - 1))
<1> DEFINE p == <<u>> \o q
           S == Slots(c)
           m == Len(q)
<1>1. m \in Nat /\ b \in Nat /\ b - 1 \in 0 .. c.budget /\ b \in 0 .. c.budget
  BY InputIs, LenProperties
<1>2. /\ p \in Seq(S) /\ Len(p) = m + 1
      /\ p[1] = u /\ \A i \in 1 .. m : p[i + 1] = q[i]
  <2>1. <<u>> \in Seq(S) /\ Len(<<u>>) = 1 /\ <<u>>[1] = u
    BY <1>1
  <2> HIDE DEF S
  <2>2. /\ p \in Seq(S) /\ Len(p) = Len(<<u>>) + Len(q)
        /\ \A i \in 1 .. Len(<<u>>) + Len(q) :
              p[i] = IF i <= Len(<<u>>) THEN <<u>>[i] ELSE q[i - Len(<<u>>)]
    BY <2>1, ConcatProperties DEF S
  <2> HIDE DEF p
  <2>3. Len(p) = m + 1
    BY <1>1, <2>1, <2>2
  <2>4. p[1] = u
    BY <1>1, <2>1, <2>2
  <2>5. ASSUME NEW i \in 1 .. m PROVE p[i + 1] = q[i]
    <3>1. i + 1 \in 1 .. 1 + m /\ ~(i + 1 <= 1) /\ (i + 1) - 1 = i
      BY <1>1
    <3> QED
      BY <2>1, <2>2, <3>1
  <2> QED
    BY <2>2, <2>3, <2>4, <2>5
<1> HIDE DEF p
<1>3. PICK f : IsWorth(f, c, p, b, m + 1) /\ Worth(c, p, b) = f[m + 1]
  <2>1. Len(p) <= b
    BY <1>1, <1>2
  <2>2. PICK f : IsWorth(f, c, p, b, Len(p)) /\ Worth(c, p, b) = f[Len(p)]
    BY <1>1, <1>2, <2>1, WorthIs
  <2> QED
    BY <1>2, <2>2
<1>4. PICK g : IsWorth(g, c, q, b - 1, m) /\ Worth(c, q, b - 1) = g[m]
  BY <1>1, WorthIs
<1> HIDE DEF m
<1>5. b - (m + 1) = b - 1 - m /\ \A k \in Int : b - (m + 1) + k = b - 1 - m + k
  BY <1>1
<1> DEFINE Same == {k \in Nat : k <= m => f[k] = g[k]}
<1>6. 0 \in Same
  BY <1>3, <1>4, <1>5 DEF IsWorth
<1>7. ASSUME NEW k \in Nat, k \in Same PROVE k + 1 \in Same
  <2>1. CASE k + 1 <= m
    <3>1. k + 1 \in 1 .. m /\ k + 1 \in 1 .. m + 1 /\ k <= m /\ (k + 1) - 1 = k
      BY <1>1, <2>1
    <3>2. m - (k + 1) + 1 \in 1 .. m /\ (m - (k + 1) + 1) + 1 = (m + 1) - (k + 1) + 1
      BY <1>1, <2>1
    <3>3. p[(m + 1) - (k + 1) + 1] = q[m - (k + 1) + 1]
      BY <1>2, <3>2
    <3>4. b - (m + 1) + (k + 1) = b - 1 - m + (k + 1)
      BY <1>5, <3>1
    <3>5. f[k] = g[k]
      BY <1>7, <3>1
    <3> QED
      BY <1>3, <1>4, <3>1, <3>3, <3>4, <3>5 DEF IsWorth
  <2> QED
    BY <2>1
<1>8. f[m] = g[m]
  <2>1. Nat \subseteq Same
    <3> HIDE DEF Same
    <3> QED
      BY <1>6, <1>7, NatInd
  <2>2. m \in Same
    BY <1>1, <2>1
  <2> QED
    BY <1>1, <2>2
<1>9. m + 1 \in 1 .. m + 1 /\ (m + 1) - 1 = m /\ (m + 1) - (m + 1) + 1 = 1 /\ b - (m + 1) + (m + 1) = b
  BY <1>1
<1>10. f[m + 1] = attempt_value(c, b, presence_p(c, u), u, f[m])
  BY <1>2, <1>3, <1>9 DEF IsWorth
<1>11. g[m] \in Int
  BY <1>1, <1>4 DEF IsWorth
<1> QED
  BY <1>3, <1>4, <1>8, <1>10, <1>11 DEF p

(* More to come is never a loss: the worth of an attempt grows with what     *)
(* follows its failure.                                                      *)
LEMMA AttemptMonotone ==
    ASSUME NEW c \in SolverInputs, NEW b \in 1 .. c.budget, NEW u \in Slots(c),
           NEW v \in Int, NEW w \in Int, v <= w
    PROVE  attempt_value(c, b, presence_p(c, u), u, v) <= attempt_value(c, b, presence_p(c, u), u, w)
<1> DEFINE p == presence_p(c, u)
           S == Scale(b - 1)
           paid == p * D * S * total(c)
           loss == At(c, u).dr * c.w * S
           fee == cost(c, b) * Scale(b)
<1>1. c.amount \in Int /\ c.w \in Int /\ At(c, u).dr \in Int /\ b - 1 \in Nat /\ b \in Nat
  BY InputIs
<1>2. S \in Int /\ Scale(b) \in Int /\ cost(c, b) \in Int /\ total(c) \in Int
  <2>1. total(c) \in Int
    BY <1>1 DEF total
  <2> QED
    BY <1>1, <2>1, ScaleStep, CostType
<1>3. p \in 0 .. D
  BY ChanceType
<1>4. paid \in Int /\ loss \in Int /\ fee \in Int
  <2> HIDE DEF p, S
  <2> QED
    BY <1>1, <1>2, <1>3 DEF D
<1>5. \A x \in Int : attempt_value(c, b, p, u, x) = paid + (D - p) * (x * D - loss) - fee
  BY DEF attempt_value
<1> HIDE DEF p, S, paid, loss, fee
<1>6. (D - p) * (v * D - loss) <= (D - p) * (w * D - loss)
  <2>1. v * D - loss \in Int /\ w * D - loss \in Int /\ v * D - loss <= w * D - loss
    BY <1>4 DEF D
  <2>2. \A k \in 0 .. 8, x, y \in Int : x <= y => k * x <= k * y
    OBVIOUS
  <2>3. D - p \in 0 .. 8
    BY <1>3 DEF D
  <2> QED
    BY <2>1, <2>2, <2>3
<1>7. \A x \in Int : (D - p) * (x * D - loss) \in Int
  <2>1. \A k \in Int, x, y \in Int : k * (x * 8 - y) \in Int
    OBVIOUS
  <2>2. D - p \in Int
    BY <1>3 DEF D
  <2> QED
    BY <1>4, <2>1, <2>2 DEF D
<1> DEFINE X == (D - p) * (v * D - loss)
           Y == (D - p) * (w * D - loss)
<1>8. X \in Int /\ Y \in Int /\ X <= Y
  BY <1>6, <1>7
<1>9. attempt_value(c, b, p, u, v) = paid + X - fee /\ attempt_value(c, b, p, u, w) = paid + Y - fee
  BY <1>5
<1> HIDE DEF X, Y
<1>10. paid + X - fee <= paid + Y - fee
  BY <1>4, <1>8
<1> QED
  BY <1>9, <1>10 DEF p

(* No plan is worth more than the policy says the slot is.                   *)
LEMMA PlansAreBounded ==
    ASSUME NEW c \in SolverInputs, c.min_ev = 0
    PROVE  \A b \in 0 .. c.budget : \A t \in Slots(c) : \A p \in Plans(c, t, b) :
              Worth(c, p, b) <= solve_presence(c)[b][t].value
<1> DEFINE V == solve_presence(c)
           Bounded(b) == \A t \in Slots(c) : \A p \in Plans(c, t, b) : Worth(c, p, b) <= V[b][t].value
           Good == {b \in Nat : b <= c.budget => Bounded(b)}
<1>1. ASSUME NEW b \in 0 .. c.budget, NEW t \in Slots(c)
      PROVE  c.w * Scale(b) \in Int /\ V[b][t].value \in Int /\ c.w * Scale(b) <= V[b][t].value
  <2>1. c.w * Scale(b) \in Int /\ (c.w + 0) * Scale(b) = c.w * Scale(b)
    BY BarType, InputIs
  <2>2. V[b][t] \in [value : Int, action : Int]
    BY PolicyIs
  <2>3. CASE b = 0
    <3>1. V[0][t] = [value |-> c.w * Scale(0), action |-> STOP]
      BY PolicyIs
    <3> HIDE DEF V
    <3> QED
      BY <2>1, <2>3, <3>1
  <2>4. CASE b \in 1 .. c.budget
    <3>1. IsChoice(V[b][t], c, b, t, V[b - 1])
      BY <2>4, PolicyIs
    <3> HIDE DEF V
    <3> QED
      BY <2>1, <2>2, <3>1 DEF IsChoice, Clears
  <2>5. b = 0 \/ b \in 1 .. c.budget
    BY InputIs
  <2> HIDE DEF V
  <2> QED
    BY <2>1, <2>2, <2>3, <2>4, <2>5
<1>2. 0 \in Good
  <2> SUFFICES ASSUME NEW t \in Slots(c), NEW p \in Plans(c, t, 0)
               PROVE  Worth(c, p, 0) <= V[0][t].value
    OBVIOUS
  <2>1. 0 \in 0 .. c.budget
    BY InputIs
  <2>2. p = <<>>
    <3>1. p # <<>> => 0 \in 1 .. c.budget
      BY <2>1, PlanSplits
    <3> QED
      BY <3>1
  <2>3. Worth(c, p, 0) = c.w * Scale(0)
    BY <2>1, <2>2, WorthEmpty
  <2> HIDE DEF V
  <2> QED
    BY <1>1, <2>1, <2>3
<1>3. ASSUME NEW k \in Nat, k \in Good PROVE k + 1 \in Good
  <2> DEFINE b == k + 1
  <2> SUFFICES ASSUME b <= c.budget, NEW t \in Slots(c), NEW p \in Plans(c, t, b)
               PROVE  Worth(c, p, b) <= V[b][t].value
    OBVIOUS
  <2>1. b \in 0 .. c.budget /\ b \in 1 .. c.budget /\ k \in 0 .. c.budget /\ b - 1 = k
    BY InputIs
  <2>2. CASE p = <<>>
    <3>1. Worth(c, p, b) = c.w * Scale(b)
      BY <2>1, <2>2, WorthEmpty
    <3> HIDE DEF V, b
    <3> QED
      BY <1>1, <2>1, <3>1
  <2>3. CASE p # <<>>
    <3> HIDE DEF b
    <3>1. PICK q \in Plans(c, p[1], b - 1) : p = <<p[1]>> \o q
      BY <2>1, <2>3, PlanSplits
    <3> DEFINE u == p[1]
    <3>2. u \in Candidates(c, t)
      BY <2>1, <2>3, PlanSplits
    <3>3. u \in Slots(c)
      BY <3>2 DEF Candidates
    <3>4. q \in Seq(Slots(c)) /\ Len(q) <= b - 1
      <4>1. b - 1 \in Nat
        BY <2>1
      <4> QED
        BY <3>1, <4>1, PlanIs
    <3> HIDE DEF u
    <3>5. Worth(c, q, b - 1) <= V[b - 1][u].value
      <4>1. Bounded(k)
        BY <1>3, <2>1
      <4> HIDE DEF V
      <4> QED
        BY <2>1, <3>1, <3>3, <4>1 DEF u
    <3>6. Worth(c, q, b - 1) \in Int
          /\ Worth(c, p, b) = attempt_value(c, b, presence_p(c, u), u, Worth(c, q, b - 1))
      BY <2>1, <3>1, <3>3, <3>4, WorthCons DEF u
    <3>7. V[b - 1][u].value \in Int
      <4> HIDE DEF V
      <4> QED
        BY <1>1, <2>1, <3>3
    <3>8. Worth(c, p, b) <= Pays(c, b, u, V[b - 1])
      <4> HIDE DEF V
      <4> QED
        BY <2>1, <3>3, <3>5, <3>6, <3>7, AttemptMonotone DEF Pays
    <3>9. Worth(c, p, b) \in Int /\ Pays(c, b, u, V[b - 1]) \in Int
      <4>1. presence_p(c, u) \in Int
        BY <3>3, ChanceType
      <4> HIDE DEF V
      <4> QED
        BY <2>1, <3>3, <3>6, <3>7, <4>1, AttemptType DEF Pays
    <3>10. Pays(c, b, u, V[b - 1]) <= V[b][t].value
      <4>1. IsChoice(V[b][t], c, b, t, V[b - 1])
        BY <2>1, PolicyIs
      <4>2. c.w * Scale(b) \in Int /\ (c.w + c.min_ev) * Scale(b) = c.w * Scale(b)
        <5>1. c.w + c.min_ev = c.w
          BY InputIs
        <5> QED
          BY <2>1, <5>1, BarType
      <4> HIDE DEF V
      <4>3. CASE V[b][t].action = STOP
        <5>1. V[b][t].value = c.w * Scale(b) /\ ~Clears(c, b, Pays(c, b, u, V[b - 1]))
          BY <3>2, <4>1, <4>3 DEF IsChoice
        <5> QED
          BY <3>9, <4>2, <5>1 DEF Clears
      <4>4. CASE V[b][t].action # STOP
        BY <3>2, <4>1, <4>4 DEF IsChoice
      <4> QED
        BY <4>3, <4>4
    <3>11. V[b][t].value \in Int
      <4> HIDE DEF V
      <4> QED
        BY <1>1, <2>1
    <3> HIDE DEF V
    <3> QED
      BY <3>8, <3>9, <3>10, <3>11
  <2> QED
    BY <2>2, <2>3
<1>4. Nat \subseteq Good
  <2> HIDE DEF Good
  <2> QED
    BY <1>2, <1>3, NatInd
<1> QED
  BY <1>4, InputIs

(* The backtest's walk, from each slot with each number of attempts.         *)
IsWalk(walk, c, policy) ==
    \A t \in Slots(c) :
        /\ walk[0][t] = <<>>
        /\ \A b \in 1 .. c.budget :
              walk[b][t] = IF policy[b][t].action = STOP THEN <<>>
                           ELSE <<policy[b][t].action>> \o walk[b - 1][policy[b][t].action]

(* There is such a walk, and the backtest follows it.                        *)
LEMMA WalkExists ==
    ASSUME NEW c \in SolverInputs
    PROVE  \E walk : /\ IsWalk(walk, c, solve_presence(c))
                     /\ treatment_slots(c, solve_presence(c)) = walk[c.budget][0]
<1> DEFINE n == c.budget
           V == solve_presence(c)
           S == Slots(c)
           T == [S -> Seq(S)]
           Row(b, v) == [t \in S |-> IF b = 0 \/ V[b][t].action = STOP THEN <<>>
                                     ELSE LET nxt == V[b][t].action IN <<nxt>> \o v[nxt]]
           None_ == [t \in S |-> <<>>]
           Def(g) == [b \in 0 .. n |-> Row(b, g[b - 1])]
           F == [b \in 1 .. n |-> [v \in T |-> Row(b, v)]]
           walk == CHOOSE g : g = Def(g)
<1>1. n \in Nat
  BY InputIs
<1>2. None_ \in T
  OBVIOUS
<1>3. ASSUME NEW b \in 1 .. n, NEW t \in S PROVE V[b][t].action = STOP \/ V[b][t].action \in S
  BY PolicyIs DEF IsChoice, Candidates
<1>4. F \in [1 .. n -> [T -> T]]
  <2>1. ASSUME NEW b \in 1 .. n, NEW v \in T PROVE Row(b, v) \in T
    <3> SUFFICES ASSUME NEW t \in S, V[b][t].action # STOP
                 PROVE  <<V[b][t].action>> \o v[V[b][t].action] \in Seq(S)
      <4> HIDE DEF V, S
      <4> QED
        OBVIOUS
    <3>1. V[b][t].action \in S
      BY <1>3
    <3> HIDE DEF V, S
    <3> QED
      BY <3>1
  <2> HIDE DEF Row, T
  <2> QED
    BY <2>1
<1>5. PICK g \in [0 .. n -> T] : IsRun(g, n, None_, F)
  <2> HIDE DEF F, n, T, None_
  <2> QED
    BY <1>1, <1>2, <1>4, RecursionExists
<1>6. g = Def(g)
  <2>1. Row(0, g[0 - 1]) = None_
    OBVIOUS
  <2> HIDE DEF Row, T, None_
  <2>2. ASSUME NEW b \in 1 .. n PROVE g[b] = Row(b, g[b - 1])
    <3>1. b - 1 \in 0 .. n
      BY <1>1
    <3>2. g[b - 1] \in T
      BY <1>5, <3>1
    <3> QED
      BY <1>5, <3>2 DEF IsRun
  <2>3. \A b \in 0 .. n : g[b] = Row(b, g[b - 1])
    BY <1>1, <1>5, <2>1, <2>2 DEF IsRun
  <2>4. g = [b \in 0 .. n |-> g[b]]
    BY <1>5
  <2> QED
    BY <2>3, <2>4
<1>7. walk = Def(walk)
  BY <1>6
<1>8. treatment_slots(c, V) = walk[n][0]
  BY DEF treatment_slots
<1> HIDE DEF walk
<1>9. ASSUME NEW b \in 0 .. n PROVE walk[b] = Row(b, walk[b - 1])
  <2> HIDE DEF Row
  <2> QED
    BY <1>7
<1>10. ASSUME NEW t \in S PROVE walk[0][t] = <<>>
  <2>1. walk[0] = Row(0, walk[0 - 1])
    BY <1>1, <1>9
  <2> QED
    BY <2>1
<1>11. ASSUME NEW t \in S, NEW b \in 1 .. n
       PROVE  walk[b][t] = IF V[b][t].action = STOP THEN <<>>
                           ELSE <<V[b][t].action>> \o walk[b - 1][V[b][t].action]
  <2>1. b \in 0 .. n /\ b # 0
    BY <1>1
  <2>2. walk[b] = Row(b, walk[b - 1])
    <3> HIDE DEF Row, n
    <3> QED
      BY <1>9, <2>1
  <2> HIDE DEF V, S
  <2> QED
    BY <2>1, <2>2
<1>12. IsWalk(walk, c, V)
  BY <1>10, <1>11 DEF IsWalk
<1> QED
  BY <1>8, <1>12

(* What the walk does from any slot is a plan, and worth what the policy     *)
(* says.                                                                     *)
LEMMA WalkAttains ==
    ASSUME NEW c \in SolverInputs, NEW walk, IsWalk(walk, c, solve_presence(c))
    PROVE  \A b \in 0 .. c.budget : \A t \in Slots(c) :
              /\ walk[b][t] \in Plans(c, t, b)
              /\ Worth(c, walk[b][t], b) = solve_presence(c)[b][t].value
<1> DEFINE V == solve_presence(c)
           Attains(b) == \A t \in Slots(c) : walk[b][t] \in Plans(c, t, b)
                                             /\ Worth(c, walk[b][t], b) = V[b][t].value
           Good == {b \in Nat : b <= c.budget => Attains(b)}
<1>1. 0 \in Good
  <2> SUFFICES ASSUME NEW t \in Slots(c)
               PROVE  walk[0][t] \in Plans(c, t, 0) /\ Worth(c, walk[0][t], 0) = V[0][t].value
    OBVIOUS
  <2>1. 0 \in 0 .. c.budget
    BY InputIs
  <2>2. walk[0][t] = <<>>
    BY DEF IsWalk
  <2>3. V[0][t] = [value |-> c.w * Scale(0), action |-> STOP]
    BY PolicyIs
  <2> HIDE DEF V
  <2> QED
    BY <2>1, <2>2, <2>3, WorthEmpty, EmptyPlan
<1>2. ASSUME NEW k \in Nat, k \in Good PROVE k + 1 \in Good
  <2> DEFINE b == k + 1
  <2> SUFFICES ASSUME b <= c.budget, NEW t \in Slots(c)
               PROVE  walk[b][t] \in Plans(c, t, b) /\ Worth(c, walk[b][t], b) = V[b][t].value
    OBVIOUS
  <2>1. b \in 0 .. c.budget /\ b \in 1 .. c.budget /\ k \in 0 .. c.budget /\ b - 1 = k /\ b \in Nat
    BY InputIs
  <2> HIDE DEF b
  <2>2. IsChoice(V[b][t], c, b, t, V[b - 1])
    BY <2>1, PolicyIs
  <2>3. walk[b][t] = IF V[b][t].action = STOP THEN <<>>
                     ELSE <<V[b][t].action>> \o walk[b - 1][V[b][t].action]
    BY <2>1 DEF IsWalk
  <2>4. CASE V[b][t].action = STOP
    <3>1. V[b][t].value = c.w * Scale(b)
      BY <2>2, <2>4 DEF IsChoice
    <3> HIDE DEF V
    <3> QED
      BY <2>1, <2>3, <2>4, <3>1, WorthEmpty, EmptyPlan
  <2>5. CASE V[b][t].action # STOP
    <3> DEFINE u == V[b][t].action
               q == walk[b - 1][u]
    <3>1. u \in Candidates(c, t) /\ V[b][t].value = Pays(c, b, u, V[b - 1])
      BY <2>2, <2>5 DEF IsChoice
    <3>2. u \in Slots(c)
      BY <3>1 DEF Candidates
    <3>3. walk[b][t] = <<u>> \o q
      BY <2>3, <2>5
    <3>4. q \in Plans(c, u, b - 1) /\ Worth(c, q, b - 1) = V[b - 1][u].value
      <4>1. Attains(k)
        BY <1>2, <2>1
      <4> HIDE DEF V
      <4> QED
        BY <2>1, <3>2, <4>1
    <3> HIDE DEF u, q
    <3>5. q \in Seq(Slots(c)) /\ Len(q) <= b - 1
      <4>1. b - 1 \in Nat
        BY <2>1
      <4> QED
        BY <3>4, <4>1, PlanIs
    <3>6. Worth(c, <<u>> \o q, b) = attempt_value(c, b, presence_p(c, u), u, Worth(c, q, b - 1))
      BY <2>1, <3>2, <3>5, WorthCons
    <3>7. <<u>> \o q \in Plans(c, t, b)
      BY <2>1, <3>1, <3>4, PlanCons
    <3> HIDE DEF V
    <3> QED
      BY <3>1, <3>3, <3>4, <3>6, <3>7 DEF Pays
  <2> HIDE DEF V
  <2> QED
    BY <2>4, <2>5
<1>3. Nat \subseteq Good
  <2> HIDE DEF Good
  <2> QED
    BY <1>1, <1>2, NatInd
<1> QED
  BY <1>3, InputIs

-----------------------------------------------------------------------------
(* What a solver does at a slot is the first of the best candidates, or to   *)
(* stop.                                                                     *)
Earns(c, b, t, u, below) == hazard_value(c, b, t, u, below[u].value)

(* Where it does not stop, every other candidate earns less or comes later.  *)
LEMMA ReferenceChoice ==
    ASSUME NEW c \in SolverInputs, NEW b \in 1 .. c.budget, NEW below \in Layers(c), NEW t \in Slots(c),
           NEW a, a = reference_layer(c, b, below)[t].action, a # STOP
    PROVE  /\ At(c, t).survival # 0 /\ a \in Candidates(c, t)
           /\ \A x \in Candidates(c, t) :
                 Earns(c, b, t, x, below) < Earns(c, b, t, a, below)
                 \/ (Earns(c, b, t, x, below) = Earns(c, b, t, a, below) /\ a <= x)
<1> DEFINE open == Candidates(c, t)
           n == Len(c.slots)
           f == [u \in Slots(c) |-> Earns(c, b, t, u, below)]
           First_(u) == \A x \in open : Earns(c, b, t, x, below) < Earns(c, b, t, u, below)
                                        \/ (Earns(c, b, t, x, below) = Earns(c, b, t, u, below) /\ u <= x)
           j == CHOOSE u \in open : First_(u)
<1>1. Stopped(c, b).action = STOP
  BY DEF Stopped
<1>2. At(c, t).survival # 0 /\ open # {}
  BY <1>1 DEF reference_layer
<1>3. n \in Nat /\ Slots(c) = 0 .. n - 1 /\ open \in SUBSET (0 .. n - 1)
  BY InputIs DEF Slots, Candidates
<1>4. ASSUME NEW u \in Slots(c) PROVE f[u] = Earns(c, b, t, u, below) /\ f[u] \in Int
  <2>1. below[u].value \in Int
    BY DEF Layers
  <2> QED
    BY <1>2, <2>1, ChanceType, AttemptType DEF hazard_value, Earns
<1> HIDE DEF f
<1>5. f \in [0 .. n - 1 -> Int]
  <2>1. f = [u \in Slots(c) |-> Earns(c, b, t, u, below)]
    BY DEF f
  <2> QED
    BY <1>3, <1>4, <2>1
<1>6. \E u \in open : First_(u)
  <2>1. PICK u \in open : \A x \in open : f[x] < f[u] \/ (f[x] = f[u] /\ u <= x)
    <3>1. open # {}
      BY <1>2
    <3> HIDE DEF open, n
    <3> QED
      BY <3>1, <1>3, <1>5, BestExists
  <2>2. \A x \in open : x \in Slots(c)
    BY <1>3
  <2>3. First_(u)
    <3> HIDE DEF open
    <3> QED
      BY <1>4, <2>1, <2>2
  <2> QED
    BY <2>3
<1>7. reference_layer(c, b, below)[t]
        = IF Clears(c, b, Earns(c, b, t, j, below))
          THEN [value |-> Earns(c, b, t, j, below), action |-> j] ELSE Stopped(c, b)
  BY <1>2 DEF reference_layer, Earns
<1>8. j \in open /\ First_(j)
  <2> HIDE DEF First_, open
  <2> QED
    BY <1>6
<1>9. a = j
  <2> HIDE DEF j
  <2> QED
    BY <1>1, <1>7
<1> HIDE DEF j
<1> QED
  BY <1>2, <1>8, <1>9

(* In a finite set with a strict order on it, the ranks are 1, 2, ... .     *)
Rank(r, S, R) == 1 + Cardinality({q \in S : <<q, r>> \in R})

(* Each of them is the rank of one element.                                  *)
LEMMA RanksAreTaken ==
    ASSUME NEW S, IsFiniteSet(S), NEW R,
           \A q \in S : <<q, q>> \notin R,
           \A q, r, x \in S : <<q, r>> \in R /\ <<r, x>> \in R => <<q, x>> \in R,
           \A q, r \in S : q = r \/ <<q, r>> \in R \/ <<r, q>> \in R
    PROVE  /\ Cardinality(S) \in Nat
           /\ \A i \in 1 .. Cardinality(S) : \E r \in S : Rank(r, S, R) = i
           /\ \A q, r \in S : <<q, r>> \in R => Rank(q, S, R) < Rank(r, S, R)
           /\ \A r \in S : Rank(r, S, R) \in 1 .. Cardinality(S)
<1> DEFINE N == Cardinality(S)
           above(r) == {q \in S : <<q, r>> \in R}
           f == [r \in S |-> Rank(r, S, R)]
<1>1. N \in Nat /\ IsFiniteSet(1 .. N) /\ Cardinality(1 .. N) = N
  <2>1. N \in Nat
    BY FS_CardinalityType
  <2> HIDE DEF N
  <2> QED
    BY <2>1, FS_Interval
<1>2. ASSUME NEW r \in S
      PROVE  IsFiniteSet(above(r)) /\ Cardinality(above(r)) \in Nat /\ r \notin above(r)
  <2>1. above(r) \in SUBSET S
    OBVIOUS
  <2>2. IsFiniteSet(above(r))
    BY <2>1, FS_Subset
  <2> QED
    BY <2>2, FS_CardinalityType
<1>3. ASSUME NEW r \in S PROVE f[r] \in 1 .. N
  <2>1. IsFiniteSet(S \ {r}) /\ Cardinality(S \ {r}) = N - 1
    BY FS_RemoveElement
  <2>2. above(r) \in SUBSET (S \ {r})
    BY <1>2
  <2>3. f[r] = 1 + Cardinality(above(r))
    BY DEF Rank
  <2> HIDE DEF above, N, f
  <2>4. Cardinality(above(r)) <= N - 1
    BY <2>1, <2>2, FS_Subset
  <2> QED
    BY <1>1, <1>2, <2>3, <2>4
<1>4. ASSUME NEW q \in S, NEW r \in S, <<q, r>> \in R PROVE f[q] < f[r]
  <2>1. above(q) \in SUBSET above(r)
    BY <1>4
  <2>2. q \in above(r) /\ q \notin above(q)
    BY <1>2, <1>4
  <2>3. f[q] = 1 + Cardinality(above(q)) /\ f[r] = 1 + Cardinality(above(r))
    BY DEF Rank
  <2> HIDE DEF above, f
  <2>4. Cardinality(above(q)) # Cardinality(above(r)) /\ Cardinality(above(q)) <= Cardinality(above(r))
    BY <1>2, <2>1, <2>2, FS_Subset
  <2> QED
    BY <1>2, <2>3, <2>4
<1>5. ASSUME NEW q \in S, NEW r \in S, f[q] = f[r] PROVE q = r
  <2>1. f[q] \in Int /\ f[r] \in Int
    BY <1>1, <1>3
  <2> HIDE DEF f
  <2>2. ~(f[q] < f[r]) /\ ~(f[r] < f[q])
    BY <1>5, <2>1
  <2>3. <<q, r>> \notin R /\ <<r, q>> \notin R
    BY <1>4, <2>2
  <2> QED
    BY <2>3
<1>6. f \in [S -> 1 .. N]
  <2>1. f = [r \in S |-> f[r]]
    OBVIOUS
  <2> HIDE DEF f, N
  <2> QED
    BY <1>3, <2>1
<1>7. f \in Injection(S, 1 .. N)
  <2> HIDE DEF f, N
  <2> QED
    BY <1>5, <1>6 DEF Injection, IsInjective
<1>8. f \in Surjection(S, 1 .. N)
  <2> HIDE DEF f
  <2> QED
    BY <1>1, <1>7, FS_Injection
<1>9. \A i \in 1 .. N : \E r \in S : f[r] = i
  <2> HIDE DEF f, N
  <2> QED
    BY <1>8 DEF Surjection
<1> QED
  BY <1>1, <1>3, <1>4, <1>9

(* So in a finite set of rows of different slots every place from 1 to *)
(* their number is taken.                                                    *)
Rows == [slot : Nat, ev : Int, chosen : BOOLEAN]
Place(r, rows) == 1 + Cardinality({q \in rows : Better(q, r)})

(* Each place is that of one row.                                            *)
LEMMA PlacesAreTaken ==
    ASSUME NEW rows \in SUBSET Rows, IsFiniteSet(rows),
           \A q, r \in rows : q.slot = r.slot => q = r
    PROVE  /\ Cardinality(rows) \in Nat
           /\ \A i \in 1 .. Cardinality(rows) : \E r \in rows : Place(r, rows) = i
<1> DEFINE R == {x \in rows \X rows : Better(x[1], x[2])}
<1>1. \A q, r \in rows : <<q, r>> \in R <=> Better(q, r)
  OBVIOUS
<1>2. \A r \in rows : r.ev \in Int /\ r.slot \in Int
  BY DEF Rows
<1>3. \A r \in rows : Rank(r, rows, R) = Place(r, rows)
  <2> SUFFICES ASSUME NEW r \in rows PROVE Rank(r, rows, R) = Place(r, rows)
    OBVIOUS
  <2>1. {q \in rows : <<q, r>> \in R} = {q \in rows : Better(q, r)}
    BY <1>1
  <2> QED
    BY <2>1 DEF Rank, Place
<1> HIDE DEF R
<1>4. \A q \in rows : <<q, q>> \notin R
  BY <1>1, <1>2 DEF Better
<1>5. ASSUME NEW q \in rows, NEW r \in rows, NEW x \in rows, <<q, r>> \in R, <<r, x>> \in R
      PROVE  <<q, x>> \in R
  <2>1. Better(q, r) /\ Better(r, x)
    BY <1>1, <1>5
  <2>2. /\ q.ev \in Int /\ q.slot \in Int /\ r.ev \in Int /\ r.slot \in Int
        /\ x.ev \in Int /\ x.slot \in Int
    BY <1>2
  <2>3. Better(q, x)
    BY <2>1, <2>2 DEF Better
  <2> QED
    BY <1>1, <2>3
<1>6. \A q, r \in rows : q = r \/ <<q, r>> \in R \/ <<r, q>> \in R
  <2> SUFFICES ASSUME NEW q \in rows, NEW r \in rows
               PROVE  q = r \/ <<q, r>> \in R \/ <<r, q>> \in R
    OBVIOUS
  <2>1. q.ev \in Int /\ q.slot \in Int /\ r.ev \in Int /\ r.slot \in Int
    BY <1>2
  <2>2. Better(q, r) \/ Better(r, q) \/ q.slot = r.slot
    BY <2>1 DEF Better
  <2> QED
    BY <1>1, <2>2
<1>7. /\ Cardinality(rows) \in Nat
      /\ \A i \in 1 .. Cardinality(rows) : \E r \in rows : Rank(r, rows, R) = i
  <2>1. \A q, r, x \in rows : <<q, r>> \in R /\ <<r, x>> \in R => <<q, x>> \in R
    BY <1>5
  <2> QED
    BY <1>4, <1>6, <2>1, RanksAreTaken
<1> QED
  BY <1>3, <1>7


(* The explanation of a decision of the production solver.                   *)
LEMMA RankingIs ==
    ASSUME NEW c \in SolverInputs, NEW b \in 1 .. c.budget, NEW t \in Slots(c),
           NEW shown, shown = rank_candidates(c, solve(c), b, t)
    PROVE  IF should_stop(solve(c), b, t)
           THEN \A i \in DOMAIN shown : ~shown[i].chosen
           ELSE shown # <<>> /\ shown[1].chosen
<1> DEFINE policy == solve(c)
           a == policy[b][t].action
           below == policy[b - 1]
<1>1. /\ below \in Layers(c)
      /\ policy[b][t] = reference_layer(c, b, below)[t]
  <2>1. /\ policy \in [0 .. c.budget -> Layers(c)]
        /\ policy[b] = reference_layer(c, b, below)
    BY SolverIsReference, ReferenceIs
  <2>2. b - 1 \in 0 .. c.budget
    BY InputIs
  <2> HIDE DEF policy
  <2> QED
    BY <2>1, <2>2
<1> HIDE DEF policy, below
<1>2. a # STOP =>
        /\ At(c, t).survival # 0 /\ a \in Candidates(c, t)
        /\ \A x \in Candidates(c, t) :
              Earns(c, b, t, x, below) < Earns(c, b, t, a, below)
              \/ (Earns(c, b, t, x, below) = Earns(c, b, t, a, below) /\ a <= x)
  BY <1>1, ReferenceChoice
<1>3. should_stop(policy, b, t) <=> a = STOP
  BY DEF should_stop
<1>4. CASE At(c, t).survival = 0
  <2>1. shown = <<>>
    BY <1>4 DEF rank_candidates, policy
  <2>2. DOMAIN shown = {}
    BY <2>1
  <2> QED
    BY <1>2, <1>3, <1>4, <2>2 DEF policy
<1>5. CASE At(c, t).survival # 0
  <2> DEFINE open == Candidates(c, t)
             row(u) == [slot |-> u, ev |-> Earns(c, b, t, u, below), chosen |-> a = u]
             listed == [u \in open |-> row(u)]
             rows == {listed[u] : u \in DOMAIN listed}
             N == Cardinality(rows)
  <2>1. shown = [i \in 1 .. N |-> CHOOSE r \in rows : Place(r, rows) = i]
    BY <1>5 DEF rank_candidates, Place, Earns, policy, below
  <2>2. rows = {row(u) : u \in open}
    OBVIOUS
  <2>3. \A u \in open : u \in Nat /\ u \in Slots(c)
    BY InputIs DEF Candidates
  <2>4. ASSUME NEW u \in open PROVE row(u) \in Rows
    <3>1. below[u].value \in Int
      BY <1>1, <2>3 DEF Layers
    <3>2. Earns(c, b, t, u, below) \in Int
      BY <1>5, <2>3, <3>1, ChanceType, AttemptType DEF hazard_value, Earns
    <3> QED
      BY <2>3, <3>2 DEF Rows
  <2>5. rows \in SUBSET Rows /\ \A q, r \in rows : q.slot = r.slot => q = r
    <3> HIDE DEF rows, open
    <3>1. \A r \in rows : r \in Rows /\ r = row(r.slot)
      BY <2>2, <2>4
    <3> HIDE DEF row
    <3> QED
      BY <3>1
  <2>6. IsFiniteSet(rows)
    <3>1. IsFiniteSet(open)
      <4>1. Len(c.slots) \in Nat /\ Slots(c) = 0 .. Len(c.slots) - 1
        BY InputIs DEF Slots
      <4>2. IsFiniteSet(Slots(c))
        <5>1. 0 \in Int /\ Len(c.slots) - 1 \in Int
          BY <4>1
        <5>2. IsFiniteSet(0 .. Len(c.slots) - 1)
          BY <5>1, FS_Interval
        <5> QED
          BY <4>1, <5>2
      <4> QED
        BY <4>2, FS_Subset DEF Candidates
    <3> HIDE DEF open
    <3>2. listed \in Surjection(open, rows)
      BY DEF Surjection
    <3> HIDE DEF listed, rows
    <3> QED
      BY <3>1, <3>2, FS_Surjection
  <2> HIDE DEF rows
  <2>7. N \in Nat /\ \A i \in 1 .. N : \E r \in rows : Place(r, rows) = i
    BY <2>5, <2>6, PlacesAreTaken
  <2> HIDE DEF N
  <2>8. DOMAIN shown = 1 .. N
    BY <2>1
  <2>9. ASSUME NEW i \in 1 .. N PROVE shown[i] \in rows /\ Place(shown[i], rows) = i
    <3>1. shown[i] = CHOOSE r \in rows : Place(r, rows) = i
      BY <2>1
    <3> QED
      BY <2>7, <3>1
  <2>10. ASSUME a = STOP, NEW i \in 1 .. N PROVE ~shown[i].chosen
    <3> HIDE DEF open
    <3>1. PICK u \in open : shown[i] = row(u)
      BY <2>2, <2>9
    <3>2. a # u
      BY <2>3, <2>10 DEF STOP
    <3>3. shown[i].chosen = (a = u)
      BY <3>1
    <3> QED
      BY <3>2, <3>3
  <2>11. ASSUME a # STOP PROVE shown # <<>> /\ shown[1].chosen
    <3> DEFINE best == row(a)
    <3>1. a \in open /\ best \in rows /\ best.slot = a /\ best.ev = Earns(c, b, t, a, below) /\ best.chosen
      BY <1>2, <2>2, <2>11
    <3>2. ASSUME NEW r \in rows, r # best PROVE Better(best, r)
      <4>1. PICK u \in open : r = row(u)
        <5> HIDE DEF open, row
        <5> QED
          BY <2>2, <3>2
      <4>2. u # a /\ r.slot = u /\ r.ev = Earns(c, b, t, u, below)
        BY <3>2, <4>1
      <4>3. r.ev < best.ev \/ (r.ev = best.ev /\ best.slot <= r.slot)
        BY <1>2, <2>11, <3>1, <4>1, <4>2
      <4>4. r.ev \in Int /\ best.ev \in Int /\ r.slot \in Nat /\ best.slot \in Nat
        BY <2>5, <3>1, <3>2 DEF Rows
      <4> HIDE DEF best, row
      <4> QED
        BY <3>1, <4>2, <4>3, <4>4 DEF Better
    <3> HIDE DEF best, row, open
    <3>3. N # 0
      BY <2>6, <3>1, FS_EmptySet DEF N
    <3>4. 1 \in 1 .. N
      BY <2>7, <3>3
    <3>5. shown[1] \in rows /\ Place(shown[1], rows) = 1
      BY <2>9, <3>4
    <3>6. {q \in rows : Better(q, shown[1])} = {}
      <4> DEFINE Q == {q \in rows : Better(q, shown[1])}
      <4>1. IsFiniteSet(Q)
        BY <2>6, FS_Subset
      <4>2. 1 + Cardinality(Q) = 1
        BY <3>5 DEF Place
      <4> HIDE DEF Q
      <4>3. Cardinality(Q) = 0
        BY <4>1, <4>2, FS_CardinalityType
      <4>4. Q = {}
        BY <4>1, <4>3, FS_EmptySet
      <4> QED
        BY <4>4 DEF Q
    <3>7. shown[1] = best
      BY <3>1, <3>2, <3>5, <3>6
    <3>8. shown # <<>>
      <4>1. DOMAIN shown # {}
        BY <2>8, <3>4
      <4> QED
        BY <4>1
    <3> QED
      BY <3>1, <3>7, <3>8
  <2> QED
    BY <1>3, <2>8, <2>10, <2>11 DEF policy
<1> QED
  BY <1>4, <1>5, InputIs

(* The sentence that justifies a stop.                                       *)
LEMMA RationaleIs ==
    ASSUME NEW c \in SolverInputs, c.min_ev = 0, NEW b \in 1 .. c.budget, NEW t \in Slots(c),
           should_stop(solve_presence(c), b, t),
           NEW reason, reason = stopping_rationale(c, solve_presence(c), b, t)
    PROVE  reason.said # "nothing legal" => reason.ev <= c.w * Scale(b)
<1> DEFINE V == solve_presence(c)
           open == Candidates(c, t)
           pays(u) == Pays(c, b, u, V[b - 1])
           j == CHOOSE u \in open : \A x \in open : pays(x) < pays(u) \/ (pays(x) = pays(u) /\ u <= x)
<1>1. V[b - 1] \in Layers(c) /\ IsChoice(V[b][t], c, b, t, V[b - 1])
  BY PolicyIs
<1>2. V[b][t].action = STOP
  BY DEF should_stop
<1> HIDE DEF V
<1>3. \A u \in open : ~Clears(c, b, pays(u))
  BY <1>1, <1>2 DEF IsChoice
<1>4. CASE open = {}
  <2>1. stopping_rationale(c, solve_presence(c), b, t) = [said |-> "nothing legal"]
    BY <1>4, Zenon DEF stopping_rationale
  <2>2. [said |-> "nothing legal"].said = "nothing legal"
    OBVIOUS
  <2>3. reason.said = "nothing legal"
    BY <2>1, <2>2, Zenon
  <2> QED
    BY <2>3, Zenon
<1>5. CASE open # {}
  <2> DEFINE n == Len(c.slots)
             f == [u \in Slots(c) |-> pays(u)]
  <2>1. n \in Nat /\ Slots(c) = 0 .. n - 1 /\ open \in SUBSET (0 .. n - 1)
    BY InputIs DEF Slots, Candidates
  <2>2. \A u \in Slots(c) : f[u] = pays(u) /\ pays(u) \in Int
    BY <1>1, PaysType
  <2>3. f \in [0 .. n - 1 -> Int]
    BY <2>1, <2>2
  <2>4. PICK u \in open : \A x \in open : f[x] < f[u] \/ (f[x] = f[u] /\ u <= x)
    <3> HIDE DEF open, n, f
    <3> QED
      BY <1>5, <2>1, <2>3, BestExists
  <2>5. \A x \in open : x \in Slots(c) /\ f[x] = pays(x)
    BY <2>1, <2>2
  <2> HIDE DEF open, f
  <2>6. \A x \in open : pays(x) < pays(u) \/ (pays(x) = pays(u) /\ u <= x)
    BY <2>4, <2>5
  <2>7. j \in open
    <3> HIDE DEF pays
    <3> QED
      BY <2>6
  <2>8. reason.ev = pays(j)
    BY <1>5 DEF stopping_rationale, Pays, V, open
  <2> HIDE DEF j
  <2>9. pays(j) \in Int /\ ~Clears(c, b, pays(j))
    BY <1>3, <2>2, <2>5, <2>7
  <2>10. c.w * Scale(b) \in Int /\ (c.w + c.min_ev) * Scale(b) = c.w * Scale(b)
    <3>1. c.w + c.min_ev = c.w
      BY InputIs
    <3>2. b \in 0 .. c.budget
      BY InputIs
    <3> QED
      BY <3>1, <3>2, BarType
  <2> HIDE DEF pays
  <2>11. ~(pays(j) > c.w * Scale(b))
    BY <2>9, <2>10 DEF Clears
  <2>12. pays(j) <= c.w * Scale(b)
    BY <2>9, <2>10, <2>11
  <2> QED
    BY <2>8, <2>12, Zenon
<1> QED
  BY <1>4, <1>5

-----------------------------------------------------------------------------
(* What the driver gives the solver is an input of it, with as many          *)
(* attempts as there are and a bar of nothing but the mandate.               *)
CyclesAreInputs ==
    cycle # None => cycle \in SolverInputs /\ cycle.min_ev = 0 /\ cycle.budget = Budget

(* A cycle is an input before it has a slot,                                 *)
LEMMA CyclesInit == Init => CyclesAreInputs
<1> SUFFICES ASSUME Init, cycle # None
             PROVE  cycle \in SolverInputs /\ cycle.min_ev = 0 /\ cycle.budget = Budget
  BY DEF CyclesAreInputs
<1>1. PICK w \in {0, 1000, continuation_value_paise(1000)} : cycle = Cycle(w)
  BY DEF Init, Given
<1>2. w \in Nat
  BY <1>1 DEF continuation_value_paise, W_MULTIPLE_OF_AMOUNT
<1>3. <<>> \in Seq([legal : BOOLEAN, presence : 0 .. 4, survival : {0, 1, 2, 4},
                    health : {1, 2}, dr : Nat])
  OBVIOUS
<1> QED
  BY <1>1, <1>2, <1>3, BudgetAssumption DEF Cycle, SolverInputs

(* and each slot that is added leaves it one.                                *)
LEMMA CyclesStep == CyclesAreInputs /\ [Next]_vars => CyclesAreInputs'
<1> SUFFICES ASSUME CyclesAreInputs, [Next]_vars, cycle' # None
             PROVE  cycle' \in SolverInputs /\ cycle'.min_ev = 0 /\ cycle'.budget = Budget
  BY DEF CyclesAreInputs
<1>1. CASE AddSlot
  <2> DEFINE Slot == [legal : BOOLEAN, presence : 0 .. 4, survival : {0, 1, 2, 4},
                      health : {1, 2}, dr : Nat]
             n == Len(cycle.slots)
  <2>1. cycle \in SolverInputs /\ cycle.min_ev = 0 /\ cycle.budget = Budget
    BY <1>1 DEF AddSlot, CyclesAreInputs
  <2>2. n \in Nat /\ cycle.slots \in Seq(Slot)
    BY <2>1, InputIs DEF SolverInputs
  <2>3. PICK legal \in BOOLEAN, f \in {0, 1, 2, 4} :
           cycle' = [cycle EXCEPT !.slots = Append(@,
              [legal |-> legal, survival |-> f,
               presence |-> IF ~legal THEN 0 ELSE IF n = 1 THEN 4 - f ELSE f,
               health |-> health_multiplier(2, n),
               dr |-> n])]
    BY <1>1 DEF AddSlot
  <2> DEFINE new == [legal |-> legal, survival |-> f,
                     presence |-> IF ~legal THEN 0 ELSE IF n = 1 THEN 4 - f ELSE f,
                     health |-> health_multiplier(2, n),
                     dr |-> n]
  <2>4. new \in Slot
    BY <2>2 DEF health_multiplier
  <2>5. cycle' = [cycle EXCEPT !.slots = Append(cycle.slots, new)]
    BY <2>3
  <2> HIDE DEF new, Slot
  <2>6. Append(cycle.slots, new) \in Seq(Slot)
    BY <2>2, <2>4
  <2> QED
    BY <2>1, <2>5, <2>6 DEF SolverInputs, Slot
<1>2. CASE UNCHANGED cycle
  BY <1>2 DEF CyclesAreInputs
<1>3. CASE AddCycle
  BY <1>2, <1>3 DEF AddCycle
<1>4. CASE Enrol
  BY <1>2, <1>4 DEF Enrol
<1>5. CASE Bill
  BY <1>2, <1>5 DEF Bill
<1>6. CASE AddUnit
  BY <1>2, <1>6 DEF AddUnit
<1>7. CASE Attempts
  BY <1>2, <1>7 DEF Attempts
<1>8. CASE UNCHANGED vars
  BY <1>2, <1>8 DEF vars
<1> QED
  BY <1>1, <1>3, <1>4, <1>5, <1>6, <1>7, <1>8 DEF Next

(* Every cycle the driver builds is an input of the solver: the invariant    *)
(* that carries the results about all inputs to the states of the run.       *)
THEOREM CyclesAreInputsAlways == Spec => []CyclesAreInputs
<1>1. Init => CyclesAreInputs
  BY CyclesInit
<1>2. CyclesAreInputs /\ [Next]_vars => CyclesAreInputs'
  BY CyclesStep
<1> QED
  BY <1>1, <1>2, PTL DEF Spec

(* For an input the policy is the best plan.                                 *)
LEMMA PolicyOfState == CyclesAreInputs => PolicyIsOptimal
<1> SUFFICES ASSUME CyclesAreInputs, Solved
             PROVE  LET policy == solve_presence(cycle)
                        walk == treatment_slots(cycle, policy)
                    IN  /\ \A b \in 0 .. Budget, t \in Slots(cycle) :
                            /\ \E p \in Plans(cycle, t, b) : Worth(cycle, p, b) = policy[b][t].value
                            /\ \A p \in Plans(cycle, t, b) : Worth(cycle, p, b) <= policy[b][t].value
                        /\ walk \in Plans(cycle, 0, Budget)
                        /\ Worth(cycle, walk, Budget) = policy[Budget][0].value
                        /\ choose_slot(cycle) = (IF walk = <<>> THEN STOP ELSE walk[1])
  BY DEF PolicyIsOptimal
<1> DEFINE V == solve_presence(cycle)
           slots == treatment_slots(cycle, V)
<1>1. /\ cycle \in SolverInputs /\ cycle.min_ev = 0 /\ cycle.budget = Budget /\ Budget \in Nat
      /\ cycle.slots # <<>>
  BY BudgetAssumption DEF CyclesAreInputs, Solved
<1>2. 0 \in Slots(cycle)
  <2> DEFINE R == [legal : BOOLEAN, presence : 0 .. 4, survival : {0, 1, 2, 4},
                   health : {1, 2}, dr : Nat]
  <2>1. cycle.slots \in Seq(R)
    BY <1>1 DEF SolverInputs
  <2> HIDE DEF R
  <2>2. Len(cycle.slots) \in Nat \ {0}
    BY <1>1, <2>1, EmptySeq
  <2> QED
    BY <2>2 DEF Slots
<1>3. PICK walk : IsWalk(walk, cycle, V) /\ slots = walk[Budget][0]
  BY <1>1, WalkExists
<1>4. ASSUME NEW b \in 0 .. Budget, NEW t \in Slots(cycle)
      PROVE  walk[b][t] \in Plans(cycle, t, b) /\ Worth(cycle, walk[b][t], b) = V[b][t].value
  BY <1>1, <1>3, WalkAttains
<1>5. ASSUME NEW b \in 0 .. Budget, NEW t \in Slots(cycle), NEW p \in Plans(cycle, t, b)
      PROVE  Worth(cycle, p, b) <= V[b][t].value
  BY <1>1, PlansAreBounded
<1>6. Budget \in 0 .. Budget
  BY <1>1
<1>7. choose_slot(cycle) = (IF slots = <<>> THEN STOP ELSE slots[1])
  <2> DEFINE a == V[Budget][0].action
  <2>1. CASE Budget = 0
    <3>1. V[0][0] = [value |-> cycle.w * Scale(0), action |-> STOP]
      BY <1>1, <1>2, PolicyIs
    <3>2. slots = <<>>
      BY <1>2, <1>3, <2>1 DEF IsWalk
    <3>3. choose_slot(cycle) = STOP
      BY <1>1, <2>1, <3>1 DEF choose_slot
    <3> HIDE DEF V, slots
    <3> QED
      BY <3>2, <3>3
  <2>2. CASE Budget # 0
    <3>1. Budget \in 1 .. Budget
      BY <1>1, <2>2
    <3>2. IsChoice(V[Budget][0], cycle, Budget, 0, V[Budget - 1])
      BY <1>1, <1>2, <3>1, PolicyIs
    <3>3. slots = IF a = STOP THEN <<>> ELSE <<a>> \o walk[Budget - 1][a]
      BY <1>1, <1>2, <1>3, <3>1 DEF IsWalk
    <3>4. CASE a = STOP
      <4>1. choose_slot(cycle) = STOP
        BY <1>1, <3>4 DEF choose_slot
      <4> HIDE DEF a, slots
      <4> QED
        BY <3>3, <3>4, <4>1
    <3>5. CASE a # STOP
      <4>1. a \in Candidates(cycle, 0)
        BY <3>2, <3>5 DEF IsChoice
      <4>2. a \in Slots(cycle) /\ At(cycle, a).legal
        BY <4>1 DEF Candidates
      <4>3. choose_slot(cycle) = a
        BY <1>1, <4>2 DEF choose_slot
      <4>4. Budget - 1 \in Nat /\ Budget - 1 \in 0 .. Budget
        BY <3>1
      <4> DEFINE q == walk[Budget - 1][a]
      <4>5. q \in Seq(Slots(cycle))
        BY <1>4, <4>2, <4>4, PlanIs
      <4> HIDE DEF q, a, slots
      <4>6. slots = <<a>> \o q
        BY <3>3, <3>5 DEF q
      <4>7. Len(slots) = 1 + Len(q) /\ Len(q) \in Nat /\ slots[1] = a
        <5>1. <<a>> \in Seq(Slots(cycle)) /\ Len(<<a>>) = 1 /\ <<a>>[1] = a
          BY <4>2
        <5> QED
          BY <4>5, <4>6, <5>1, ConcatProperties
      <4>8. slots # <<>>
        BY <4>7
      <4> QED
        BY <4>3, <4>7, <4>8
    <3> QED
      BY <3>4, <3>5
  <2> QED
    BY <2>1, <2>2
<1>8. slots \in Plans(cycle, 0, Budget) /\ Worth(cycle, slots, Budget) = V[Budget][0].value
  <2> HIDE DEF V, slots
  <2> QED
    BY <1>2, <1>3, <1>4, <1>6
<1> HIDE DEF V
<1>9. \A b \in 0 .. Budget, t \in Slots(cycle) :
         /\ \E p \in Plans(cycle, t, b) : Worth(cycle, p, b) = V[b][t].value
         /\ \A p \in Plans(cycle, t, b) : Worth(cycle, p, b) <= V[b][t].value
  BY <1>4, <1>5
<1> HIDE DEF slots
<1> QED
  BY <1>7, <1>8, <1>9 DEF slots, V

(* No way of spending the attempts left is worth more than the policy says,  *)
(* from any slot and with any number of attempts, and the walk the backtest  *)
(* makes and the slot the planner takes are what attains it: for any number  *)
(* of slots and any budget.                                                  *)
THEOREM PolicyIsOptimalAlways == Spec => []PolicyIsOptimal
  BY CyclesAreInputsAlways, PolicyOfState, PTL

(* For an input the renderings of the decision agree.                        *)
LEMMA DecisionOfState == CyclesAreInputs => DecisionIsOne
<1> SUFFICES ASSUME CyclesAreInputs, Solved PROVE DecisionIsOne
  BY DEF DecisionIsOne, SolveMatchesReference, ExplanationLeadsWithChosen
<1>1. cycle \in SolverInputs /\ cycle.min_ev = 0 /\ cycle.budget = Budget
  BY DEF CyclesAreInputs, Solved
<1>2. SolveMatchesReference
  BY <1>1, SolverIsReference DEF SolveMatchesReference
<1>3. ASSUME NEW b \in 1 .. Budget, NEW t \in Slots(cycle)
      PROVE  LET shown == rank_candidates(cycle, solve(cycle), b, t)
             IN  IF should_stop(solve(cycle), b, t)
                 THEN \A i \in DOMAIN shown : ~shown[i].chosen
                 ELSE shown # <<>> /\ shown[1].chosen
  BY <1>1, RankingIs
<1>4. ASSUME NEW b \in 1 .. Budget, NEW t \in Slots(cycle), should_stop(solve_presence(cycle), b, t)
      PROVE  LET reason == stopping_rationale(cycle, solve_presence(cycle), b, t)
             IN  reason.said # "nothing legal" => reason.ev <= cycle.w * Scale(b)
  BY <1>1, <1>4, RationaleIs
<1>5. ExplanationLeadsWithChosen
  BY <1>3, <1>4, Zenon DEF ExplanationLeadsWithChosen
<1> QED
  BY <1>2, <1>5 DEF DecisionIsOne

(* The vectorised solver, the loop it replaced and the explanation shown to  *)
(* a reviewer are one decision, for any number of slots and any budget.      *)
THEOREM DecisionIsOneAlways == Spec => []DecisionIsOne
  BY CyclesAreInputsAlways, DecisionOfState, PTL

-----------------------------------------------------------------------------
(* The masks of the planner.                                                 *)
LEMMA Clock ==
    ASSUME NEW t \in Int
    PROVE  /\ date_ist(t) \in Int /\ hour_ist(t) \in 0 .. 1439
           /\ t = 1440 * date_ist(t) + hour_ist(t)
BY DEF date_ist, hour_ist, Day, Hour

(* A contact hour is before every rail's cutoff.                             *)
LEMMA ContactIsEarly ==
    ASSUME NEW t \in Int, is_contact_window(t)
    PROVE  hour_ist(t) < CutoffMinute
<1>1. hour_ist(t) \in Int /\ ContactClose = 1140
  <2>1. hour_ist(t) \in 0 .. 1439
    BY DEF hour_ist, Day, Hour
  <2>2. ContactClose = 1140
    BY DEF ContactClose, Hour
  <2> QED
    BY <2>1, <2>2
<1>2. hour_ist(t) < ContactClose
  BY DEF is_contact_window
<1> HIDE DEF hour_ist, ContactClose
<1> QED
  BY <1>1, <1>2 DEF CutoffMinute, Hour

(* Hours in minutes.                                                         *)
LEMMA HourTimes ==
    ASSUME NEW x \in Int
    PROVE  x * Hour = 60 * x /\ x * Hour \in Int
BY DEF Hour

(* prefix counts the hours before k in which the customer may be told.       *)
CountsOpen(prefix, decided, n) ==
    /\ prefix \in [0 .. n -> Nat]
    /\ \A k \in 1 .. n :
          prefix[k] = prefix[k - 1] + (IF is_contact_window(decided + (k - 1) * Hour) THEN 1 ELSE 0)

(* The mask is what its prefix sums say, and these exist.                    *)
LEMMA FeasibleIs ==
    ASSUME NEW decided, NEW n \in Nat
    PROVE  \E prefix :
              /\ CountsOpen(prefix, decided, n)
              /\ notice_feasible_mask(decided, n) =
                    {s \in MinNotice .. n - 1 :
                        prefix[s - MinNotice + 1] - prefix[Largest({0, s - MaxNotice})] > 0}
<1> DEFINE Told_(k) == IF is_contact_window(decided + (k - 1) * Hour) THEN 1 ELSE 0
           Def(g) == [k \in 0 .. n |-> IF k = 0 THEN 0 ELSE g[k - 1] + Told_(k)]
           F == [k \in 1 .. n |-> [v \in Nat |-> v + Told_(k)]]
           prefix == CHOOSE g : g = Def(g)
<1> HIDE DEF Told_
<1>1. \A k : Told_(k) \in Nat
  BY DEF Told_
<1>2. 0 \in Nat /\ F \in [1 .. n -> [Nat -> Nat]]
  BY <1>1
<1>3. PICK g \in [0 .. n -> Nat] : IsRun(g, n, 0, F)
  <2> HIDE DEF F
  <2> QED
    BY <1>2, RecursionExists
<1>4. g = Def(g)
  <2>1. ASSUME NEW k \in 1 .. n PROVE g[k] = g[k - 1] + Told_(k)
    <3>1. k - 1 \in 0 .. n
      OBVIOUS
    <3>2. g[k - 1] \in Nat
      BY <1>3, <3>1
    <3> QED
      BY <1>3, <3>2 DEF IsRun
  <2>2. \A k \in 0 .. n : g[k] = IF k = 0 THEN 0 ELSE g[k - 1] + Told_(k)
    BY <1>3, <2>1 DEF IsRun
  <2>3. g = [k \in 0 .. n |-> g[k]]
    BY <1>3
  <2> QED
    BY <2>2, <2>3
<1>5. prefix = Def(prefix)
  BY <1>4
<1>6. notice_feasible_mask(decided, n) =
         {s \in MinNotice .. n - 1 :
             prefix[s - MinNotice + 1] - prefix[Largest({0, s - MaxNotice})] > 0}
  BY DEF notice_feasible_mask, Told_
<1> HIDE DEF prefix
<1>7. prefix[0] = 0 /\ \A k \in 1 .. n : prefix[k] = prefix[k - 1] + Told_(k)
  BY <1>5
<1> DEFINE Typed == {k \in Nat : k <= n => prefix[k] \in Nat}
<1>8. 0 \in Typed
  BY <1>7
<1>9. ASSUME NEW k \in Nat, k \in Typed PROVE k + 1 \in Typed
  <2>1. CASE k + 1 <= n
    <3>1. k + 1 \in 1 .. n /\ (k + 1) - 1 = k
      BY <2>1
    <3>2. prefix[k + 1] = prefix[k] + Told_(k + 1) /\ prefix[k] \in Nat
      BY <1>7, <1>9, <2>1, <3>1
    <3>3. prefix[k + 1] \in Nat
      BY <1>1, <3>2
    <3> QED
      BY <3>3
  <2> QED
    BY <2>1
<1>10. Nat \subseteq Typed
  <2> HIDE DEF Typed
  <2> QED
    BY <1>8, <1>9, NatInd
<1>11. prefix \in [0 .. n -> Nat]
  BY <1>5, <1>10
<1>12. CountsOpen(prefix, decided, n)
  BY <1>7, <1>11 DEF CountsOpen, Told_
<1> QED
  BY <1>6, <1>12

(* A difference of prefixes is positive iff an hour between them is open.    *)
LEMMA PrefixCounts ==
    ASSUME NEW decided, NEW n \in Nat, NEW prefix, CountsOpen(prefix, decided, n),
           NEW i \in 0 .. n, NEW j \in i .. n
    PROVE  prefix[j] - prefix[i] > 0 <=> \E h \in i .. j - 1 : is_contact_window(decided + h * Hour)
<1> DEFINE Open(h) == is_contact_window(decided + h * Hour)
           Good == {d \in Nat : i + d <= n =>
                       /\ prefix[i + d] >= prefix[i]
                       /\ prefix[i + d] > prefix[i] <=> \E h \in i .. i + d - 1 : Open(h)}
<1> HIDE DEF Open
<1>1. \A k \in 0 .. n : prefix[k] \in Nat
  BY DEF CountsOpen
<1>2. 0 \in Good
  <2>1. i + 0 = i /\ i .. i + 0 - 1 = {} /\ prefix[i] \in Nat
    BY <1>1
  <2> QED
    BY <2>1
<1>3. ASSUME NEW d \in Nat, d \in Good PROVE d + 1 \in Good
  <2> DEFINE k == i + d
  <2> SUFFICES ASSUME i + (d + 1) <= n
               PROVE  /\ prefix[i + (d + 1)] >= prefix[i]
                      /\ prefix[i + (d + 1)] > prefix[i]
                             <=> \E h \in i .. i + (d + 1) - 1 : Open(h)
    OBVIOUS
  <2>1. k \in Int /\ k + 1 \in 1 .. n /\ (k + 1) - 1 = k /\ i + (d + 1) = k + 1 /\ k \in 0 .. n /\ i <= k
    OBVIOUS
  <2>2. prefix[k + 1] = prefix[k] + (IF Open(k) THEN 1 ELSE 0)
    BY <2>1 DEF CountsOpen, Open
  <2>3. /\ prefix[k] >= prefix[i]
        /\ prefix[k] > prefix[i] <=> \E h \in i .. k - 1 : Open(h)
    BY <1>3, <2>1
  <2> HIDE DEF k
  <2>4. i .. k = {k} \cup (i .. k - 1)
    BY <2>1
  <2>5. prefix[k] \in Nat /\ prefix[i] \in Nat
    BY <1>1, <2>1
  <2>6. prefix[k + 1] >= prefix[i]
    BY <2>2, <2>3, <2>5
  <2>7. prefix[k + 1] > prefix[i] <=> \E h \in i .. k : Open(h)
    BY <2>2, <2>3, <2>4, <2>5
  <2>8. i + (d + 1) - 1 = k
    BY <2>1
  <2> QED
    BY <2>1, <2>6, <2>7, <2>8
<1>4. j - i \in Good
  <2>1. j - i \in Nat
    OBVIOUS
  <2> HIDE DEF Good
  <2> QED
    BY <1>2, <1>3, <2>1, NatInd
<1>5. i + (j - i) = j /\ prefix[i] \in Nat /\ prefix[j] \in Nat
  BY <1>1
<1>6. prefix[j] > prefix[i] <=> \E h \in i .. j - 1 : Open(h)
  BY <1>4, <1>5
<1> QED
  BY <1>5, <1>6 DEF Open

(* A slot is feasible iff the notice planner finds an instant to send at.    *)
LEMMA FeasibleIsPlanned ==
    ASSUME NEW decided \in Int, NEW n \in Nat, NEW s \in 0 .. n - 1
    PROVE  /\ s \in notice_feasible_mask(decided, n)
                 <=> LegalSends(SlotTime(decided, s), decided) # {}
           /\ \A h \in LegalSends(SlotTime(decided, s), decided) :
                 LET send == SlotTime(decided, s) - h * Hour
                 IN  /\ send \in decided .. SlotTime(decided, s) - NoticeLead
                     /\ hour_ist(send) < CutoffMinute
<1> DEFINE debit == SlotTime(decided, s)
           lo == Largest({0, s - MaxNotice})
           Open(k) == is_contact_window(decided + k * Hour)
<1>1. PICK prefix : /\ CountsOpen(prefix, decided, n)
                    /\ notice_feasible_mask(decided, n) =
                          {x \in MinNotice .. n - 1 :
                              prefix[x - MinNotice + 1] - prefix[Largest({0, x - MaxNotice})] > 0}
  BY FeasibleIs
<1>2. lo = IF s <= 96 THEN 0 ELSE s - 96
  <2> DEFINE m == IF s <= 96 THEN 0 ELSE s - 96
             S == {0, s - 96}
  <2>1. m \in S /\ \A y \in S : y <= m
    OBVIOUS
  <2>2. \A x \in S : (\A y \in S : y <= x) => x = m
    OBVIOUS
  <2> HIDE DEF m, S
  <2>3. Largest(S) = m
    BY <2>1, <2>2 DEF Largest
  <2> QED
    BY <2>3 DEF m, S, MaxNotice
<1>3. debit = decided + 60 * s /\ debit \in Int
  BY DEF SlotTime, Hour
<1>4. ASSUME NEW h \in 24 .. 96, h <= s
      PROVE  h \in LegalSends(debit, decided) <=> Open(s - h)
  <2>1. debit - h * Hour = decided + (s - h) * Hour /\ debit - h * Hour \in Int
    BY <1>3 DEF Hour
  <2> DEFINE send == decided + (s - h) * Hour
  <2>2. send \in Int /\ send >= decided /\ debit - send = 60 * h
    <3>1. s \in Int /\ h \in Int /\ s - h \in Int /\ h <= s
      BY <1>4
    <3>2. send = decided + 60 * (s - h)
      BY <3>1, HourTimes
    <3> HIDE DEF send, debit
    <3> QED
      BY <1>3, <3>1, <3>2
  <2> HIDE DEF send
  <2>3. is_contact_window(send) => hour_ist(send) < CutoffMinute
    BY <2>2, ContactIsEarly
  <2>4. is_legal_send(send, debit) <=> is_contact_window(send)
    BY <2>2, <2>3 DEF is_legal_send, is_before_cutoff, MinNotice, Hour
  <2> HIDE DEF debit
  <2> QED
    BY <2>1, <2>2, <2>4 DEF LegalSends, MinNotice, MaxNotice, send
<1>5. \A h \in LegalSends(debit, decided) : h \in 24 .. 96 /\ h <= s
  <2> SUFFICES ASSUME NEW h \in LegalSends(debit, decided) PROVE h \in 24 .. 96 /\ h <= s
    OBVIOUS
  <2>1. h \in 24 .. 96 /\ debit - h * Hour >= decided
    BY DEF LegalSends, MinNotice, MaxNotice
  <2> QED
    BY <1>3, <2>1 DEF Hour
<1> HIDE DEF Open
<1>6. LegalSends(debit, decided) # {} <=> \E k \in lo .. s - 24 : Open(k)
  <2>1. ASSUME NEW h \in LegalSends(debit, decided) PROVE \E k \in lo .. s - 24 : Open(k)
    <3>1. h \in 24 .. 96 /\ h <= s /\ Open(s - h)
      BY <1>4, <1>5
    <3>2. s - h \in lo .. s - 24
      BY <1>2, <3>1
    <3> QED
      BY <3>1, <3>2
  <2>2. ASSUME NEW k \in lo .. s - 24, Open(k) PROVE s - k \in LegalSends(debit, decided)
    <3>1. s - k \in 24 .. 96 /\ s - k <= s /\ s - (s - k) = k
      BY <1>2
    <3> QED
      BY <1>4, <2>2, <3>1
  <2> QED
    BY <2>1, <2>2
<1>7. s \in notice_feasible_mask(decided, n) <=> \E k \in lo .. s - 24 : Open(k)
  <2>1. CASE s < 24
    <3>1. lo .. s - 24 = {}
      BY <1>2, <2>1
    <3> QED
      BY <1>1, <2>1, <3>1 DEF MinNotice
  <2>2. CASE s >= 24
    <3>1. lo \in 0 .. n /\ s - 24 + 1 \in lo .. n /\ (s - 24 + 1) - 1 = s - 24
      BY <1>2, <2>2
    <3>2. prefix[s - 24 + 1] - prefix[lo] > 0 <=> \E k \in lo .. (s - 24 + 1) - 1 : Open(k)
      <4> DEFINE j == s - 24 + 1
      <4> HIDE DEF lo, j
      <4>1. CountsOpen(prefix, decided, n)
        BY <1>1
      <4>2. lo \in 0 .. n /\ j \in lo .. n
        BY <3>1 DEF j
      <4>3. prefix[j] - prefix[lo] > 0 <=> \E k \in lo .. j - 1 : is_contact_window(decided + k * Hour)
        BY <4>1, <4>2, PrefixCounts
      <4> QED
        BY <4>3 DEF Open, j
    <3>3. s \in MinNotice .. n - 1
      BY <2>2 DEF MinNotice
    <3>4. s \in notice_feasible_mask(decided, n) <=> prefix[s - 24 + 1] - prefix[lo] > 0
      BY <1>1, <3>3 DEF MinNotice
    <3> QED
      BY <3>1, <3>2, <3>4
  <2> QED
    BY <2>1, <2>2
<1>8. ASSUME NEW h \in LegalSends(debit, decided)
      PROVE  debit - h * Hour \in decided .. debit - NoticeLead /\ hour_ist(debit - h * Hour) < CutoffMinute
  <2>1. h \in 24 .. 96 /\ h <= s /\ is_contact_window(debit - h * Hour)
    BY <1>5 DEF LegalSends, is_legal_send
  <2>2. debit - h * Hour \in Int /\ debit - h * Hour \in decided .. debit - NoticeLead
    <3>1. h * Hour = 60 * h /\ NoticeLead = 1440
      BY <2>1, HourTimes DEF Hour, NoticeLead
    <3>2. debit - 60 * h \in Int /\ debit - 60 * h >= decided /\ debit - 60 * h <= debit - 1440
      BY <1>3, <2>1
    <3> HIDE DEF debit
    <3> QED
      BY <1>3, <2>1, <3>1, <3>2
  <2> QED
    BY <2>1, <2>2, ContactIsEarly
<1> QED
  BY <1>6, <1>7, <1>8

(* Some submission of the notice is accepted iff the latest one is, or the  *)
(* one at the decision: the cutoff bites from 23:50 to midnight only, and   *)
(* a debit slot is whole hours away.                                        *)
LEMMA CutoffTriesTheEnds ==
    ASSUME NEW rail, NEW decided \in Int, NEW s \in Nat
    PROVE  LET debit == SlotTime(decided, s)
               latest == debit - NoticeLead
           IN  /\ \/ is_pdn_send_legal(rail, latest, debit)
                  \/ is_pdn_send_legal(rail, decided, debit)
               /\ latest >= decided
               <=> \E m \in decided .. latest : is_pdn_send_legal(rail, m, debit)
<1> DEFINE debit == SlotTime(decided, s)
           latest == debit - NoticeLead
           Accepts(m) == is_pdn_send_legal(rail, m, debit)
<1>1. latest = decided + 60 * s - 1440 /\ latest \in Int /\ debit = latest + 1440
  BY HourTimes DEF SlotTime, NoticeLead, Hour
<1> HIDE DEF latest
<1>2. ASSUME latest >= decided, NEW m \in decided .. latest, Accepts(m)
      PROVE  Accepts(latest) \/ Accepts(decided)
  <2> SUFFICES ASSUME ~Accepts(latest), ~Accepts(decided), m # latest
               PROVE  FALSE
    BY <1>2
  <2>1. /\ hour_ist(latest) >= 1430 /\ hour_ist(decided) >= 1430
        /\ date_ist(debit) = date_ist(latest) + 1
        /\ date_ist(debit) = date_ist(decided) + 1
    <3>1. CutoffMinute = 1430
      BY DEF CutoffMinute, Hour
    <3>2. hour_ist(latest) \in Int /\ hour_ist(decided) \in Int
      BY <1>1 DEF hour_ist, Day, Hour
    <3>3. /\ ~(hour_ist(latest) < CutoffMinute) /\ ~(hour_ist(decided) < CutoffMinute)
          /\ date_ist(debit) = date_ist(latest) + 1
          /\ date_ist(debit) = date_ist(decided) + 1
      BY DEF is_pdn_send_legal, is_next_calendar_day
    <3> HIDE DEF debit
    <3> QED
      BY <3>1, <3>2, <3>3
  <2>2. /\ date_ist(latest) \in Int /\ hour_ist(latest) \in 0 .. 1439
        /\ latest = 1440 * date_ist(latest) + hour_ist(latest)
        /\ date_ist(decided) \in Int /\ hour_ist(decided) \in 0 .. 1439
        /\ decided = 1440 * date_ist(decided) + hour_ist(decided)
    <3>1. latest \in Int /\ decided \in Int
      BY <1>1
    <3> QED
      BY <3>1, Clock
  <2>3. date_ist(debit) \in Int
    BY <1>1 DEF date_ist, Day, Hour
  <2> HIDE DEF debit, Accepts
  <2>4. date_ist(latest) = date_ist(decided)
    BY <2>1, <2>2, <2>3
  <2>5. latest - decided <= 9
    <3> DEFINE day == 1440 * date_ist(latest)
               a == hour_ist(latest)
               b == hour_ist(decided)
    <3>1. latest = day + a /\ decided = day + b
      BY <2>2, <2>4
    <3>0. day \in Int
      BY <2>2
    <3>2. a \in Int /\ b \in Int /\ a <= 1439 /\ 1430 <= b
      <4>1. a \in 0 .. 1439 /\ b \in 0 .. 1439
        BY <2>2
      <4>2. b >= 1430
        BY <2>1
      <4> HIDE DEF a, b
      <4> QED
        BY <4>1, <4>2
    <3> HIDE DEF day, a, b
    <3> QED
      BY <3>0, <3>1, <3>2
  <2>6. latest = decided
    BY <1>1, <1>2, <2>5
  <2> QED
    BY <1>2, <2>6
<1> HIDE DEF debit, Accepts
<1>3. latest >= decided => latest \in decided .. latest /\ decided \in decided .. latest
  BY <1>1
<1>4. latest < decided => decided .. latest = {}
  BY <1>1
<1>5. latest >= decided \/ latest < decided
  BY <1>1
<1>6. (Accepts(latest) \/ Accepts(decided)) /\ latest >= decided
          <=> \E m \in decided .. latest : Accepts(m)
  BY <1>2, <1>3, <1>4, <1>5
<1> QED
  BY <1>6 DEF Accepts, debit, latest

(* Without a prediction of the funds, the notice goes out at the latest     *)
(* lawful instant, and there is a notice iff there is such an instant.      *)
LEMMA NoticeIsPlanned ==
    ASSUME NEW debit \in Int, NEW decided
    PROVE  LET send == plan(debit, decided, None, 0, 3)
           IN  /\ send # None <=> LegalSends(debit, decided) # {}
               /\ send # None => \E h \in LegalSends(debit, decided) : send = debit - h * Hour
<1> DEFINE legal == LegalSends(debit, decided)
           h == Smallest(legal)
<1>1. legal \subseteq Nat
  BY DEF LegalSends, MinNotice, MaxNotice
<1>2. plan(debit, decided, None, 0, 3) = IF legal = {} THEN None ELSE debit - Hour * h
  BY DEF plan
<1> HIDE DEF legal, h
<1>3. CASE legal = {}
  BY <1>2, <1>3 DEF legal
<1>4. CASE legal # {}
  <2>1. h \in legal
    <3>1. \E x \in legal : \A y \in legal : x <= y
      BY <1>1, <1>4, LeastExists
    <3> QED
      BY <3>1 DEF h, Smallest
  <2>2. h \in Int
    BY <1>1, <2>1
  <2>3. Hour * h = h * Hour /\ h * Hour \in Int
    BY <2>2, HourTimes DEF Hour
  <2>4. plan(debit, decided, None, 0, 3) = debit - h * Hour /\ debit - h * Hour \in Int
    BY <1>2, <1>4, <2>3
  <2>5. plan(debit, decided, None, 0, 3) # None
    BY <2>4, NoneAssumption
  <2> QED
    BY <1>4, <2>1, <2>4, <2>5 DEF legal
<1> QED
  BY <1>3, <1>4

(* Decisions are taken at whole minutes and stay as they are.                *)
InstantsAreDecided == instant # None => instant \in RailNames \X Int

(* So they are at first,                                                     *)
LEMMA InstantsInit ==
    Init => InstantsAreDecided
<1> SUFFICES ASSUME Init, instant # None
             PROVE  instant \in RailNames \X Int
  BY DEF InstantsAreDecided
<1>1. instant \in Instants
  BY DEF Init, Given
<1>2. PICK r \in RailNames, d \in {0, 3, 4}, m \in Minutes : instant = <<r, d * Day + m>>
  BY <1>1 DEF Instants
<1>3. m \in Int
  BY DEF Minutes, Hour
<1>4. d * Day + m \in Int
  BY <1>3 DEF Day, Hour
<1> QED
  BY <1>2, <1>4

(* and no step changes one.                                                  *)
LEMMA InstantsStep ==
    InstantsAreDecided /\ [Next]_vars => InstantsAreDecided'
<1> SUFFICES ASSUME [Next]_vars PROVE instant' = instant
  BY DEF InstantsAreDecided
<1> QED
  BY DEF vars, Next, AddSlot, AddCycle, Enrol, Bill, AddUnit, Attempts

(* At any decision the offered slots are those that can be carried out.      *)
LEMMA OfferedOfState ==
    InstantsAreDecided => OfferedSlotsExact
<1> SUFFICES ASSUME instant # None, InstantsAreDecided, NEW s \in 0 .. Horizon - 1
             PROVE  LET debit == SlotTime(Decided, s)
                        send == plan(debit, Decided, None, 0, 3)
                        accepted == {m \in Decided .. debit - NoticeLead :
                                        is_pdn_send_legal(Rail, m, debit)}
                    IN  /\ s \in offered(Rail, Decided, Decided + (Horizon - 1) * Hour, Horizon) <=>
                               /\ s < Horizon - 1
                               /\ is_execution_legal(Rail, debit)
                               /\ accepted # {} /\ send # None
                        /\ send # None /\ accepted # {} => send \in accepted
  BY DEF OfferedSlotsExact
<1> DEFINE debit == SlotTime(Decided, s)
           send == plan(debit, Decided, None, 0, 3)
           accepted == {m \in Decided .. debit - NoticeLead : is_pdn_send_legal(Rail, m, debit)}
           deadline == Decided + (Horizon - 1) * Hour
<1>1. Decided \in Int /\ s \in Nat /\ Horizon \in Nat
  BY HorizonAssumption DEF InstantsAreDecided, Decided
<1> HIDE DEF InstantsAreDecided
<1>2. debit = Decided + 60 * s /\ debit \in Int
  BY <1>1, HourTimes DEF SlotTime
<1>3. s \in pdn_cutoff_mask(Rail, Decided, Horizon) <=> accepted # {}
  BY <1>1, CutoffTriesTheEnds DEF pdn_cutoff_mask
<1>4. s \in notice_feasible_mask(Decided, Horizon) <=> send # None
  BY <1>1, <1>2, FeasibleIsPlanned, NoticeIsPlanned
<1>5. s \in execution_window_mask(Rail, Decided, Horizon) <=> is_execution_legal(Rail, debit)
  BY DEF execution_window_mask
<1>6. s \in deadline_mask(Decided, deadline, Horizon) <=> s < Horizon - 1
  <2>1. deadline = Decided + 60 * (Horizon - 1)
    BY <1>1, HourTimes
  <2>2. s \in deadline_mask(Decided, deadline, Horizon) <=> debit < deadline
    BY DEF deadline_mask
  <2> HIDE DEF debit, deadline
  <2> QED
    BY <1>1, <1>2, <2>1, <2>2
<1>7. accepted # {} => s \in notice_lead_mask(Decided, Horizon)
  <2> SUFFICES ASSUME accepted # {} PROVE SlotTime(Decided, s) >= Decided + NoticeLead
    BY DEF notice_lead_mask
  <2>1. PICK m \in Decided .. debit - NoticeLead : TRUE
    OBVIOUS
  <2>2. NoticeLead \in Int
    BY DEF NoticeLead, Hour
  <2> HIDE DEF debit
  <2>3. debit >= Decided + NoticeLead
    BY <1>1, <1>2, <2>1, <2>2
  <2> QED
    BY <2>3 DEF debit
<1>8. send # None => send \in accepted
  <2> SUFFICES ASSUME send # None PROVE send \in accepted
    OBVIOUS
  <2>1. PICK h \in LegalSends(debit, Decided) : send = debit - h * Hour
    BY <1>2, NoticeIsPlanned
  <2>2. send \in Decided .. debit - NoticeLead /\ hour_ist(send) < CutoffMinute
    BY <1>1, <2>1, FeasibleIsPlanned
  <2> QED
    BY <2>2 DEF is_pdn_send_legal
<1> HIDE DEF debit, send, accepted
<1>9. s \in offered(Rail, Decided, deadline, Horizon)
          <=> /\ s < Horizon - 1
              /\ is_execution_legal(Rail, debit)
              /\ accepted # {} /\ send # None
  BY <1>3, <1>4, <1>5, <1>6, <1>7 DEF offered, build_mask
<1> QED
  BY <1>8, <1>9 DEF debit, send, accepted

(* The planner offers the solver exactly the slots that can be carried out. *)
THEOREM OfferedSlotsExactAlways == Spec => []OfferedSlotsExact
<1>1. Spec => []InstantsAreDecided
  BY InstantsInit, InstantsStep, PTL DEF Spec
<1> QED
  BY <1>1, OfferedOfState, PTL

-----------------------------------------------------------------------------
(* The simulated cycles and the money in them.                               *)
LEMMA Hours60 ==
    ASSUME NEW t \in Int
    PROVE  t \div Hour \in Int /\ \A n \in Int : n <= t \div Hour <=> 60 * n <= t
<1>1. t \div 60 \in Int /\ t % 60 \in 0 .. 59 /\ t = 60 * (t \div 60) + (t % 60)
  <2>1. t \div 60 \in Int
    OBVIOUS
  <2>2. t % 60 \in 0 .. 59
    OBVIOUS
  <2>3. t = 60 * (t \div 60) + (t % 60)
    OBVIOUS
  <2> QED
    BY <2>1, <2>2, <2>3
<1> DEFINE q == t \div 60
           r == t % 60
<1>2. q \in Int /\ r \in 0 .. 59 /\ t = 60 * q + r
  BY <1>1
<1> HIDE DEF q, r
<1>3. \A n \in Int : n <= q <=> 60 * n <= t
  BY <1>2
<1> QED
  BY <1>2, <1>3 DEF q, Hour

(* An hour begins after an instant is rounded down, and ends before it is   *)
(* rounded up: together they are the hours that the window overlaps.        *)
LEMMA HoursOverlap ==
    ASSUME NEW due \in Int, NEW t \in Int, NEW s \in Int
    PROVE  /\ HoursFrom(due, t) <= s <=> t < SlotTime(due, s + 1)
           /\ s < HoursUpTo(due, t) <=> SlotTime(due, s) < t
<1> DEFINE from == (t - due) \div Hour
           upto == (due - t) \div Hour
<1>1. from \in Int /\ upto \in Int
  BY Hours60
<1>2. s + 1 <= from <=> 60 * (s + 1) <= t - due
  BY Hours60
<1>3. -s <= upto <=> 60 * (-s) <= due - t
  BY Hours60
<1>4. SlotTime(due, s + 1) = due + 60 * (s + 1) /\ SlotTime(due, s) = due + 60 * s
  BY HourTimes DEF SlotTime
<1>5. HoursFrom(due, t) = from /\ HoursUpTo(due, t) = -upto
  BY DEF HoursFrom, HoursUpTo
<1> HIDE DEF from, upto
<1>6. from <= s <=> t < SlotTime(due, s + 1)
  BY <1>1, <1>2, <1>4
<1>7. s < -upto <=> SlotTime(due, s) < t
  BY <1>1, <1>3, <1>4
<1> QED
  BY <1>1, <1>5, <1>6, <1>7

(* What the generator says of the money: nothing, or where it came, no       *)
(* earlier than the due time, and in which windows it is there.              *)
IsFunded(cf, c) ==
    /\ c.due \in Int
    /\ \A w \in c.truth.windows : w[1] \in Int /\ w[2] \in Int
    /\ \/ c.truth.funding_time = Nothing /\ c.truth.windows = {}
       \/ /\ c.truth.funding_time \in Int /\ c.truth.funding_time >= c.due
          /\ ~cf.non_absorbing =>
                c.truth.windows = {<<c.truth.funding_time, c.truth.funding_time + 365 * Day>>}

(* Money arrives on days after the due time.                                 *)
LEMMA PaydaysAreDays ==
    ASSUME NEW archetype \in Archetypes, NEW days \in payday_offsets(archetype, 30)
    PROVE  days \subseteq Nat
<1>1. CASE archetype = "salaried_1st"
  BY <1>1 DEF payday_offsets
<1>2. CASE archetype = "salaried_7th"
  BY <1>2 DEF payday_offsets
<1>3. CASE archetype = "gig_irregular"
  BY <1>3, ArrivalAssumption DEF payday_offsets
<1>4. CASE archetype = "chronically_dry"
  BY <1>4, ArrivalAssumption DEF payday_offsets
<1> QED
  BY <1>1, <1>2, <1>3, <1>4 DEF Archetypes

(* Every generated cycle has its money as stated.                            *)
LEMMA GeneratedIsFunded ==
    ASSUME NEW cf \in Configs, NEW archetype \in Archetypes, NEW due \in Int, NEW outages,
           NEW c \in generate_cycle(cf, archetype, due, outages)
    PROVE  IsFunded(cf, c)
<1>1. cf.horizon = 30 /\ cf.dwell \in Int /\ cf.non_absorbing \in BOOLEAN
  BY DEF Configs, Hour
<1>2. PICK days \in payday_offsets(archetype, 30), hour \in funding_hours(archetype),
           masked \in BOOLEAN, cause \in Causes \cup {Nothing} :
         c = Generated(archetype, due, cause, masked, days, hour, funding_windows(cf, days, due, hour))
  BY <1>1 DEF generate_cycle
<1>3. days \subseteq Nat /\ hour \in Nat
  BY PaydaysAreDays, ArrivalAssumption DEF funding_hours
<1> DEFINE start(d) == due + d * Day + hour * Hour
           first == First(days)
<1>4. \A d \in Nat : start(d) \in Int /\ start(d) >= due
  BY <1>3 DEF Day, Hour
<1>5. /\ c.due = due
      /\ c.truth.funding_time = IF days = {} THEN Nothing ELSE start(first)
      /\ c.truth.windows = funding_windows(cf, days, due, hour)
  BY <1>2 DEF Generated
<1>6. CASE days = {}
  <2>1. c.truth.windows = {}
    BY <1>5, <1>6 DEF funding_windows
  <2> QED
    BY <1>5, <1>6, <2>1 DEF IsFunded
<1>7. CASE days # {}
  <2>1. first \in days
    <3>1. \E d \in days : \A e \in days : d <= e
      BY <1>3, <1>7, LeastExists
    <3> QED
      BY <3>1 DEF First
  <2>2. first \in Nat
    BY <1>3, <2>1
  <2>3. /\ c.truth.windows =
             IF ~cf.non_absorbing THEN {<<start(first), start(first) + 365 * Day>>}
             ELSE {<<start(d), start(d) + cf.dwell>> : d \in days}
    BY <1>5, <1>7 DEF funding_windows
  <2>4. \A x \in Int : x + 365 * Day \in Int
    BY DEF Day, Hour
  <2> HIDE DEF start, first
  <2>5. \A w \in c.truth.windows : w[1] \in Int /\ w[2] \in Int
    <3>1. CASE ~cf.non_absorbing
      BY <1>4, <2>2, <2>3, <2>4, <3>1
    <3>2. CASE cf.non_absorbing
      BY <1>1, <1>3, <1>4, <2>3, <3>2
    <3> QED
      BY <3>1, <3>2
  <2> QED
    BY <1>4, <1>5, <1>7, <2>2, <2>3, <2>5 DEF IsFunded
<1> QED
  BY <1>6, <1>7

TrialsAreFunded == trial # None => IsFunded(trial.cf, trial.cycle)

(* The cycles of the driver are generated,                                   *)
LEMMA TrialsInit ==
    Init => TrialsAreFunded
<1> SUFFICES ASSUME Init, trial # None
             PROVE  IsFunded(trial.cf, trial.cycle)
  BY DEF TrialsAreFunded
<1>1. trial \in Trials
  BY DEF Init, Given
<1>2. PICK cf \in Configs, archetype \in Archetypes, due \in Dues \cup {ORIGIN},
           outages \in {{}, {<<ORIGIN, ORIGIN + 54>>}} :
         \E c \in generate_cycle(cf, archetype, due, outages) : trial = [cf |-> cf, cycle |-> c]
  <2>1. \A dues, outages : trial \in TrialsOf(dues, outages) =>
           \E cf \in Configs, archetype \in Archetypes, due \in dues :
               \E c \in generate_cycle(cf, archetype, due, outages) : trial = [cf |-> cf, cycle |-> c]
    BY DEF TrialsOf
  <2>2. trial \in TrialsOf(Dues, {}) \/ trial \in TrialsOf({ORIGIN}, {<<ORIGIN, ORIGIN + 54>>})
    BY <1>1 DEF Trials
  <2> QED
    BY <2>1, <2>2
<1>3. due \in Int
  <2>1. \A n \in Int : n * Day \in Int /\ n * Hour \in Int
    BY DEF Day, Hour
  <2>2. ORIGIN \in Int
    BY DEF ORIGIN, Day, Hour
  <2> QED
    BY <2>1, <2>2 DEF Dues, DueAt
<1>4. PICK c \in generate_cycle(cf, archetype, due, outages) : trial = [cf |-> cf, cycle |-> c]
  BY <1>2
<1>5. IsFunded(cf, c)
  BY <1>3, GeneratedIsFunded
<1> QED
  BY <1>4, <1>5

(* and no step changes one.                                                  *)
LEMMA TrialsStep ==
    TrialsAreFunded /\ [Next]_vars => TrialsAreFunded'
<1> SUFFICES ASSUME [Next]_vars PROVE trial' = trial
  BY DEF TrialsAreFunded
<1> QED
  BY DEF vars, Next, AddSlot, AddCycle, Enrol, Bill, AddUnit, Attempts

(* In a generated cycle the money is where the harness looks for it.         *)
LEMMA FundsOfState ==
    TrialsAreFunded => FundsAsClaimed
<1> SUFFICES ASSUME trial # None, TrialsAreFunded
             PROVE  LET c == trial.cycle
                        present == funds_present(c, Window)
                        slot == funding_slot(c, Window)
                    IN  /\ \A s \in 0 .. Window - 1 :
                              s \in present <=> \E w \in c.truth.windows :
                                    w[1] < SlotTime(c.due, s + 1) /\ SlotTime(c.due, s) < w[2]
                        /\ ~trial.cf.non_absorbing =>
                              present = (IF slot = Nothing THEN {} ELSE slot .. Window - 1)
  BY DEF FundsAsClaimed
<1> DEFINE c == trial.cycle
           present == funds_present(c, Window)
           slot == funding_slot(c, Window)
           at == c.truth.funding_time
           from == HoursFrom(c.due, at)
<1>1. IsFunded(trial.cf, c)
  BY DEF TrialsAreFunded
<1> HIDE DEF c
<1>2. Window \in Nat
  <2>1. DUNNING_WINDOW_DAYS * 24 = 168
    BY DEF DUNNING_WINDOW_DAYS
  <2>2. Window \in 168 .. 365 * 24
    BY <2>1, WindowAssumption
  <2> QED
    BY <2>2
<1>3. ASSUME NEW s \in 0 .. Window - 1
      PROVE  s \in present <=> \E w \in c.truth.windows :
                  w[1] < SlotTime(c.due, s + 1) /\ SlotTime(c.due, s) < w[2]
  <2>1. ASSUME NEW w \in c.truth.windows
        PROVE  /\ HoursFrom(c.due, w[1]) <= s <=> w[1] < SlotTime(c.due, s + 1)
               /\ s < HoursUpTo(c.due, w[2]) <=> SlotTime(c.due, s) < w[2]
    <3>1. c.due \in Int /\ w[1] \in Int /\ w[2] \in Int /\ s \in Int
      BY <1>1, <1>2 DEF IsFunded
    <3> QED
      BY <3>1, HoursOverlap
  <2> QED
    BY <2>1 DEF funds_present
<1>4. ASSUME ~trial.cf.non_absorbing
      PROVE  present = IF slot = Nothing THEN {} ELSE slot .. Window - 1
  <2>1. CASE at = Nothing
    <3>1. c.truth.windows = {} /\ slot = Nothing
      BY <1>1, <2>1, ArrivalAssumption DEF IsFunded, funding_slot
    <3>2. present = {}
      BY <3>1 DEF funds_present
    <3> QED
      BY <3>1, <3>2
  <2>2. CASE at # Nothing
    <3>1. /\ at \in Int /\ at >= c.due /\ c.due \in Int
          /\ c.truth.windows = {<<at, at + 365 * Day>>}
      BY <1>1, <1>4, <2>2 DEF IsFunded
    <3>2. slot = IF from \in 0 .. Window - 1 THEN from ELSE Nothing
      BY <2>2 DEF funding_slot
    <3> DEFINE gone == at + 365 * Day
    <3>3. gone \in Int /\ 60 * Window <= gone - at
      <4>1. 365 * Day = 60 * (365 * 24)
        BY SMT DEF Day, Hour
      <4>2. Window <= 365 * 24
        BY SMT, WindowAssumption
      <4> QED
        BY SMT, <1>2, <3>1, <4>1, <4>2
    <3> HIDE DEF gone
    <3>4. from \in Int /\ from >= 0
      <4>1. (at - c.due) \div Hour \in Int /\ 0 <= (at - c.due) \div Hour
        BY <3>1, Hours60
      <4> QED
        BY <4>1 DEF HoursFrom
    <3>5. ASSUME NEW s \in 0 .. Window - 1
          PROVE  s \in present <=> from <= s
      <4>1. SlotTime(c.due, s) = c.due + 60 * s
        BY <1>2, HourTimes DEF SlotTime
      <4> DEFINE begin == SlotTime(c.due, s)
      <4>2. begin < gone
        <5> HIDE DEF begin
        <5> QED
          BY <1>2, <3>1, <3>3, <4>1 DEF begin
      <4>3. s \in Int /\ c.due \in Int
        BY <1>2, <3>1
      <4>4. s < HoursUpTo(c.due, gone)
        BY <3>3, <4>2, <4>3, HoursOverlap
      <4>5. c.truth.windows = {<<at, gone>>}
        BY <3>1 DEF gone
      <4>6. s \in present <=> HoursFrom(c.due, at) <= s /\ s < HoursUpTo(c.due, gone)
        BY <4>5 DEF funds_present
      <4> QED
        BY <4>4, <4>6
    <3>6. present \subseteq 0 .. Window - 1
      BY DEF funds_present
    <3> HIDE DEF present, from, slot
    <3>7. CASE from \in 0 .. Window - 1
      <4>1. \A s : s \in present <=> s \in from .. Window - 1
        <5>1. ASSUME NEW s \in present PROVE s \in from .. Window - 1
          <6>1. s \in 0 .. Window - 1
            BY <3>6
          <6>2. from <= s
            BY <3>5, <6>1
          <6> QED
            BY <1>2, <3>4, <6>1, <6>2
        <5>2. ASSUME NEW s \in from .. Window - 1 PROVE s \in present
          <6>1. s \in 0 .. Window - 1 /\ from <= s
            BY <1>2, <3>4
          <6> QED
            BY <3>5, <6>1
        <5> QED
          BY <5>1, <5>2
      <4>2. slot = from /\ slot # Nothing
        BY <3>2, <3>4, <3>7, ArrivalAssumption
      <4> QED
        BY <4>1, <4>2
    <3>8. CASE from \notin 0 .. Window - 1
      <4>1. present = {}
        BY <1>2, <3>4, <3>5, <3>6, <3>8
      <4> QED
        BY <3>2, <3>8, <4>1
    <3> QED
      BY <3>7, <3>8
  <2> QED
    BY <2>1, <2>2
<1> QED
  BY <1>3, <1>4 DEF c

(* The simulated money is where the harness looks for it.                    *)
THEOREM FundsAsClaimedAlways == Spec => []FundsAsClaimed
<1>1. Spec => []TrialsAreFunded
  BY TrialsInit, TrialsStep, PTL DEF Spec
<1> QED
  BY <1>1, FundsOfState, PTL

-----------------------------------------------------------------------------
(* What is told of a customer's cycles comes from the cycles before.  p is  *)
(* the order in which they are due.                                         *)
IsOrder(p, x) ==
    /\ p \in [DOMAIN x -> DOMAIN x]
    /\ \A i, j \in DOMAIN x : i < j => x[p[i]].due <= x[p[j]].due
    /\ \A t \in Int, i \in DOMAIN x :
          i <= Cardinality({j \in DOMAIN x : x[j].due < t}) => x[p[i]].due < t

SameDues(x, y) ==
    /\ DOMAIN y = DOMAIN x
    /\ \A i \in DOMAIN x : y[i].due = x[i].due

(* The order is one of the due times: cycles with the same ones are sorted  *)
(* in the same way.                                                         *)
LEMMA OrderExists ==
    ASSUME NEW x, NEW n \in Nat, DOMAIN x = 1 .. n, \A i \in 1 .. n : x[i].due \in Int
    PROVE  \E p : /\ IsOrder(p, x)
                  /\ \A y : SameDues(x, y) => ByDue(y) = [k \in 1 .. n |-> y[p[k]]]
<1> DEFINE S == 1 .. n
           R == {q \in S \X S : \/ x[q[1]].due < x[q[2]].due
                                \/ x[q[1]].due = x[q[2]].due /\ q[1] < q[2]}
           p == [k \in S |-> CHOOSE j \in S : Rank(j, S, R) = k]
           below(j) == {i \in S : <<i, j>> \in R}
<1>1. \A i, j \in S : <<i, j>> \in R <=> x[i].due < x[j].due \/ (x[i].due = x[j].due /\ i < j)
  OBVIOUS
<1> HIDE DEF R
<1>2. IsFiniteSet(S) /\ Cardinality(S) = n
  BY FS_Interval
<1>3. \A q \in S : <<q, q>> \notin R
  BY <1>1
<1>4. ASSUME NEW q \in S, NEW r \in S, NEW z \in S, <<q, r>> \in R, <<r, z>> \in R
      PROVE  <<q, z>> \in R
  <2>1. x[q].due \in Int /\ x[r].due \in Int /\ x[z].due \in Int
    OBVIOUS
  <2>2. /\ x[q].due < x[r].due \/ (x[q].due = x[r].due /\ q < r)
        /\ x[r].due < x[z].due \/ (x[r].due = x[z].due /\ r < z)
    BY <1>1, <1>4
  <2>3. x[q].due < x[z].due \/ (x[q].due = x[z].due /\ q < z)
    BY <2>1, <2>2
  <2> QED
    BY <1>1, <2>3
<1>5. ASSUME NEW q \in S, NEW r \in S PROVE q = r \/ <<q, r>> \in R \/ <<r, q>> \in R
  <2>1. x[q].due \in Int /\ x[r].due \in Int
    OBVIOUS
  <2> QED
    BY <1>1, <2>1
<1>6. /\ \A i \in S : \E r \in S : Rank(r, S, R) = i
      /\ \A q, r \in S : <<q, r>> \in R => Rank(q, S, R) < Rank(r, S, R)
  <2>1. \A q, r, z \in S : <<q, r>> \in R /\ <<r, z>> \in R => <<q, z>> \in R
    BY <1>4
  <2>2. \A q, r \in S : q = r \/ <<q, r>> \in R \/ <<r, q>> \in R
    BY <1>5
  <2>3. Cardinality(S) = n /\ S = 1 .. Cardinality(S)
    BY <1>2
  <2> HIDE DEF S
  <2>5. IsFiniteSet(S)
    BY <1>2
  <2>4. /\ Cardinality(S) \in Nat
        /\ \A i \in 1 .. Cardinality(S) : \E r \in S : Rank(r, S, R) = i
        /\ \A q, r \in S : <<q, r>> \in R => Rank(q, S, R) < Rank(r, S, R)
        /\ \A r \in S : Rank(r, S, R) \in 1 .. Cardinality(S)
    BY <2>5, <1>3, <2>1, <2>2, RanksAreTaken
  <2> QED
    BY <2>3, <2>4
<1>7. p \in [S -> S] /\ \A k \in S : Rank(p[k], S, R) = k
  BY <1>6
<1>8. ASSUME NEW i \in S, NEW j \in S, i < j PROVE x[p[i]].due <= x[p[j]].due
  <2>1. p[i] \in S /\ p[j] \in S /\ Rank(p[i], S, R) = i /\ Rank(p[j], S, R) = j
    BY <1>7
  <2>2. <<p[j], p[i]>> \notin R
    <3>1. ~(j < i)
      BY <1>8
    <3> HIDE DEF p, S
    <3> QED
      BY <1>6, <2>1, <3>1
  <2>3. x[p[i]].due \in Int /\ x[p[j]].due \in Int
    BY <2>1
  <2> HIDE DEF p, S
  <2> QED
    BY <1>1, <2>1, <2>2, <2>3
<1>9. ASSUME NEW t \in Int, NEW i \in S, i <= Cardinality({j \in DOMAIN x : x[j].due < t})
      PROVE  x[p[i]].due < t
  <2> DEFINE early == {j \in DOMAIN x : x[j].due < t}
  <2>1. p[i] \in S /\ 1 + Cardinality(below(p[i])) = i
    BY <1>7 DEF Rank
  <2>2. x[p[i]].due \in Int
    BY <2>1
  <2>3. early \subseteq S /\ below(p[i]) \subseteq S
    OBVIOUS
  <2>4. IsFiniteSet(below(p[i])) /\ Cardinality(below(p[i])) \in Nat
    BY <1>2, <2>3, FS_Subset, FS_CardinalityType
  <2>5. CASE x[p[i]].due >= t
    <3>1. early \subseteq below(p[i])
      <4> SUFFICES ASSUME NEW j \in early PROVE <<j, p[i]>> \in R
        BY <2>3
      <4>1. j \in S /\ x[j].due < t /\ x[j].due \in Int
        OBVIOUS
      <4>2. x[j].due < x[p[i]].due
        BY <2>2, <2>5, <4>1
      <4> QED
        BY <1>1, <2>1, <4>1, <4>2
    <3> HIDE DEF early, below, p
    <3>2. Cardinality(early) <= Cardinality(below(p[i])) /\ Cardinality(early) \in Nat
      BY <2>4, <3>1, FS_Subset, FS_CardinalityType
    <3> QED
      BY <1>9, <2>1, <2>4, <3>2 DEF early
  <2> QED
    BY <2>2, <2>5
<1>10. ASSUME NEW y, SameDues(x, y) PROVE ByDue(y) = [k \in 1 .. n |-> y[p[k]]]
  <2> DEFINE ahead(j) == {i \in DOMAIN y : y[i].due < y[j].due \/ (y[i].due = y[j].due /\ i < j)}
             at(k) == CHOOSE j \in DOMAIN y : 1 + Cardinality(ahead(j)) = k
  <2>1. DOMAIN y = S /\ \A i \in S : y[i].due = x[i].due
    BY <1>10 DEF SameDues
  <2>2. ByDue(y) = [k \in DOMAIN y |-> y[at(k)]]
    BY DEF ByDue
  <2>3. ASSUME NEW j \in S PROVE 1 + Cardinality(ahead(j)) = Rank(j, S, R)
    <3>1. ahead(j) = below(j)
      BY <1>1, <2>1
    <3>2. Rank(j, S, R) = 1 + Cardinality(below(j))
      BY DEF Rank
    <3> HIDE DEF ahead, below
    <3> QED
      BY <3>1, <3>2
  <2> HIDE DEF ahead
  <2>4. ASSUME NEW k \in S PROVE at(k) = p[k]
    <3>1. at(k) = CHOOSE j \in S : Rank(j, S, R) = k
      BY <2>1, <2>3
    <3> QED
      BY <3>1
  <2> HIDE DEF at, p, S
  <2>5. [k \in S |-> y[at(k)]] = [k \in S |-> y[p[k]]]
    BY <2>4
  <2> QED
    BY <2>1, <2>2, <2>5 DEF S
<1>11. IsOrder(p, x)
  <2> HIDE DEF p
  <2> QED
    BY <1>7, <1>8, <1>9 DEF IsOrder
<1> HIDE DEF p
<1> QED
  BY <1>10, <1>11

(* The cycles a customer can have.  Two are alike to a model when they       *)
(* differ in the truth at most.                                              *)
Observables == {emit_events(due, Nothing, FALSE) : due \in Int}
               \cup {emit_events(due, "no_funds", FALSE) : due \in Int}
CustomerCycle == [due : Int, mandate : Int, observables : Observables,
                  truth : [funding_time : Int \cup {Nothing}, windows : SUBSET (Int \X Int)]]

Alike(a, b) == a.due = b.due /\ a.mandate = b.mandate /\ a.observables = b.observables

AllAlike(u, v) ==
    /\ u \in Seq(CustomerCycle) /\ v \in Seq(CustomerCycle) /\ Len(u) = Len(v)
    /\ \A i \in 1 .. Len(u) : Alike(u[i], v[i])

(* No column reads the truth of an earlier cycle.                            *)
LEMMA HistoriesAreAlike ==
    ASSUME NEW u, NEW v, AllAlike(u, v)
    PROVE  build_history(u) = build_history(v)
<1>1. u \in Seq(CustomerCycle) /\ v \in Seq(CustomerCycle) /\ Len(u) = Len(v)
  BY DEF AllAlike
<1>2. DOMAIN u = 1 .. Len(u) /\ DOMAIN v = 1 .. Len(u)
  BY <1>1
<1>3. \A i \in DOMAIN u :
         v[i].due = u[i].due /\ v[i].mandate = u[i].mandate /\ v[i].observables = u[i].observables
  BY <1>2 DEF AllAlike, Alike
<1> DEFINE with(x, e) == {i \in DOMAIN x : has_event(x[i], e)}
           in_band(x, S, b) == Cardinality({i \in S : hour_band(hour_ist(x[i].due)) = b})
<1>4. \A e : with(v, e) = with(u, e)
  BY <1>2, <1>3 DEF has_event
<1>5. ASSUME NEW S, S \subseteq DOMAIN u, NEW b PROVE in_band(v, S, b) = in_band(u, S, b)
  <2>1. {i \in S : hour_band(hour_ist(v[i].due)) = b} = {i \in S : hour_band(hour_ist(u[i].due)) = b}
    BY <1>3, <1>5
  <2> QED
    BY <2>1
<1>6. \A e : with(u, e) \subseteq DOMAIN u
  OBVIOUS
<1> DEFINE days(x, S) == [i \in S |-> date_ist(x[i].due)]
           mandates(x) == {x[i].mandate : i \in DOMAIN x}
           captured == with(u, "payment.captured")
           failed == with(u, "payment.failed")
           History(x, S, F) ==
               [success_days |-> days(x, S),
                band_successes |-> [b \in 0 .. 4 |-> in_band(x, S, b)],
                band_attempts |-> [b \in 0 .. 4 |-> in_band(x, S, b) + in_band(x, F, b)],
                n_concurrent_mandates |-> IF x = <<>> THEN 1 ELSE Cardinality(mandates(x)),
                n_prior_cycles |-> Len(x)]
<1>7. /\ build_history(u) = History(u, with(u, "payment.captured"), with(u, "payment.failed"))
      /\ build_history(v) = History(v, with(v, "payment.captured"), with(v, "payment.failed"))
  BY DEF build_history
<1>8. days(v, captured) = days(u, captured) /\ mandates(v) = mandates(u)
  BY <1>2, <1>3
<1>9. v = <<>> <=> u = <<>>
  <2> DEFINE e == <<>>
  <2>1. \A x \in Seq(CustomerCycle) : x = e <=> Len(x) = 0
    BY EmptySeq
  <2> HIDE DEF e
  <2>2. v = e <=> u = e
    BY <1>1, <2>1
  <2> QED
    BY <2>2 DEF e
<1> HIDE DEF with, in_band, days, mandates
<1>10. \A b : in_band(v, captured, b) = in_band(u, captured, b) /\ in_band(v, failed, b) = in_band(u, failed, b)
  BY <1>5, <1>6
<1> HIDE DEF captured, failed
<1>11. /\ [b \in 0 .. 4 |-> in_band(v, captured, b)] = [b \in 0 .. 4 |-> in_band(u, captured, b)]
       /\ [b \in 0 .. 4 |-> in_band(v, captured, b) + in_band(v, failed, b)]
              = [b \in 0 .. 4 |-> in_band(u, captured, b) + in_band(u, failed, b)]
  BY <1>10
<1>12. (IF v = <<>> THEN 1 ELSE Cardinality(mandates(v))) = IF u = <<>> THEN 1 ELSE Cardinality(mandates(u))
  BY <1>8, <1>9
<1> HIDE DEF in_band, days, mandates
<1>13. History(v, captured, failed) = History(u, captured, failed)
  <2>1. days(v, captured) = days(u, captured) /\ Len(v) = Len(u)
    BY <1>1, <1>8
  <2> QED
    BY <2>1, <1>11, <1>12
<1> HIDE DEF History
<1> QED
  BY <1>4, <1>7, <1>13 DEF captured, failed

(* What is told of a cycle due at t, from two customers whose cycles up to  *)
(* t are alike.                                                              *)
AlikeUpTo(x, y, t) ==
    /\ x \in Seq(CustomerCycle) /\ y \in Seq(CustomerCycle) /\ t \in Int
    /\ SameDues(x, y)
    /\ \A m \in DOMAIN x : x[m].due <= t => Alike(x[m], y[m])

(* One order sorts both.                                                     *)
Sorts(p, x, y) ==
    /\ IsOrder(p, x)
    /\ ByDue(x) = [k \in DOMAIN x |-> x[p[k]]]
    /\ ByDue(y) = [k \in DOMAIN x |-> y[p[k]]]

(* There is one, for customers alike up to an instant.                       *)
LEMMA SortsExists ==
    ASSUME NEW x, NEW y, NEW t, AlikeUpTo(x, y, t)
    PROVE  \E p : Sorts(p, x, y)
<1>1. x \in Seq(CustomerCycle) /\ Len(x) \in Nat /\ DOMAIN x = 1 .. Len(x)
  BY DEF AlikeUpTo
<1>2. \A i \in 1 .. Len(x) : x[i].due \in Int
  <2>1. \A i \in 1 .. Len(x) : x[i] \in CustomerCycle
    BY <1>1
  <2>2. \A c \in CustomerCycle : c.due \in Int
    BY DEF CustomerCycle
  <2> QED
    BY <2>1, <2>2
<1>3. SameDues(x, y) /\ SameDues(x, x)
  BY DEF AlikeUpTo, SameDues
<1> DEFINE n == Len(x)
<1>4. n \in Nat /\ DOMAIN x = 1 .. n /\ \A i \in 1 .. n : x[i].due \in Int
  BY <1>1, <1>2
<1> HIDE DEF n
<1>5. PICK p : /\ IsOrder(p, x)
               /\ \A z : SameDues(x, z) => ByDue(z) = [k \in 1 .. n |-> z[p[k]]]
  BY <1>4, OrderExists
<1>6. /\ ByDue(x) = [k \in 1 .. n |-> x[p[k]]]
      /\ ByDue(y) = [k \in 1 .. n |-> y[p[k]]]
  BY <1>3, <1>5
<1>7. Sorts(p, x, y)
  BY <1>4, <1>5, <1>6 DEF Sorts
<1> QED
  BY <1>7

(* The first k of a list.                                                    *)
LEMMA PrefixIs ==
    ASSUME NEW S, NEW s, NEW k \in Nat, \A i \in 1 .. k : s[i] \in S
    PROVE  /\ SubSeq(s, 1, k) \in Seq(S) /\ Len(SubSeq(s, 1, k)) = k
           /\ \A i \in 1 .. k : SubSeq(s, 1, k)[i] = s[i]
<1> DEFINE q == SubSeq(s, 1, k)
<1>1. q \in Seq(S) /\ Len(q) = (IF 1 <= k THEN k - 1 + 1 ELSE 0) /\ \A i \in 1 .. k - 1 + 1 : q[i] = s[1 + i - 1]
  BY SubSeqProperties
<1> HIDE DEF q
<1>2. Len(q) = k
  BY <1>1
<1>3. ASSUME NEW i \in 1 .. k PROVE q[i] = s[i]
  <2>1. i \in 1 .. k - 1 + 1 /\ 1 + i - 1 = i
    OBVIOUS
  <2> QED
    BY <1>1, <2>1
<1> QED
  BY <1>1, <1>2, <1>3 DEF q

(* What sorting and cutting leave is alike if all due before the cut is.     *)
LEMMA PrefixesAreAlike ==
    ASSUME NEW x, NEW y, NEW t, AlikeUpTo(x, y, t), NEW p, Sorts(p, x, y),
           NEW k \in 0 .. Len(x), \A i \in 1 .. k : x[p[i]].due <= t
    PROVE  AllAlike(SubSeq(ByDue(x), 1, k), SubSeq(ByDue(y), 1, k))
<1> DEFINE n == Len(x)
<1>1. n \in Nat /\ DOMAIN x = 1 .. n /\ DOMAIN y = 1 .. n
  BY DEF AlikeUpTo, SameDues
<1>2. \A i \in 1 .. n : p[i] \in 1 .. n
  BY <1>1 DEF Sorts, IsOrder
<1>3. \A i \in 1 .. n : x[i] \in CustomerCycle /\ y[i] \in CustomerCycle
  <2>1. x \in Seq(CustomerCycle) /\ y \in Seq(CustomerCycle)
    BY DEF AlikeUpTo
  <2>2. \A i \in DOMAIN x : x[i] \in CustomerCycle
    BY <2>1
  <2>3. \A i \in DOMAIN y : y[i] \in CustomerCycle
    BY <2>1
  <2> QED
    BY <1>1, <2>2, <2>3
<1>4. ByDue(x) = [i \in 1 .. n |-> x[p[i]]] /\ ByDue(y) = [i \in 1 .. n |-> y[p[i]]]
  BY <1>1 DEF Sorts
<1>5. /\ SubSeq(ByDue(x), 1, k) \in Seq(CustomerCycle) /\ Len(SubSeq(ByDue(x), 1, k)) = k
      /\ \A i \in 1 .. k : SubSeq(ByDue(x), 1, k)[i] = x[p[i]]
  <2> DEFINE s == ByDue(x)
  <2>1. k \in Nat /\ \A i \in 1 .. k : s[i] = x[p[i]] /\ s[i] \in CustomerCycle
    BY <1>1, <1>2, <1>3, <1>4
  <2> HIDE DEF s
  <2>2. SubSeq(s, 1, k) \in Seq(CustomerCycle) /\ Len(SubSeq(s, 1, k)) = k /\ \A i \in 1 .. k : SubSeq(s, 1, k)[i] = s[i]
    BY <2>1, PrefixIs
  <2> QED
    BY <2>1, <2>2 DEF s
<1>6. /\ SubSeq(ByDue(y), 1, k) \in Seq(CustomerCycle) /\ Len(SubSeq(ByDue(y), 1, k)) = k
      /\ \A i \in 1 .. k : SubSeq(ByDue(y), 1, k)[i] = y[p[i]]
  <2> DEFINE s == ByDue(y)
  <2>1. k \in Nat /\ \A i \in 1 .. k : s[i] = y[p[i]] /\ s[i] \in CustomerCycle
    BY <1>1, <1>2, <1>3, <1>4
  <2> HIDE DEF s
  <2>2. SubSeq(s, 1, k) \in Seq(CustomerCycle) /\ Len(SubSeq(s, 1, k)) = k /\ \A i \in 1 .. k : SubSeq(s, 1, k)[i] = s[i]
    BY <2>1, PrefixIs
  <2> QED
    BY <2>1, <2>2 DEF s
<1>7. ASSUME NEW i \in 1 .. k PROVE Alike(x[p[i]], y[p[i]])
  <2>1. p[i] \in DOMAIN x /\ x[p[i]].due <= t
    BY <1>1, <1>2
  <2> QED
    BY <2>1 DEF AlikeUpTo
<1> QED
  BY <1>5, <1>6, <1>7 DEF AllAlike

(* A nonempty set of numbers up to n has a greatest member.                  *)
LEMMA GreatestExists ==
    ASSUME NEW n \in Nat, NEW S \in SUBSET (1 .. n), S # {}
    PROVE  \E i \in S : \A j \in S : j <= i
<1> DEFINE T == {n - i : i \in S}
<1>1. T \in SUBSET Nat /\ T # {}
  <2>1. \A i \in S : n - i \in Nat
    OBVIOUS
  <2> QED
    BY <2>1
<1>2. PICK m \in T : \A k \in T : m <= k
  BY <1>1, LeastExists
<1>3. PICK i \in S : m = n - i
  BY <1>2
<1>4. \A j \in S : n - i <= n - j
  BY <1>2, <1>3
<1> QED
  BY <1>4

(* revocation_features and the two training sets, for two customers that     *)
(* are alike up to the cycle in hand.                                        *)
LEMMA RevocationIsAlike ==
    ASSUME NEW x, NEW y, NEW c, AlikeUpTo(x, y, c.due)
    PROVE  revocation_features(c, x) = revocation_features(c, y)
<1> DEFINE n == Len(x)
           N == Cardinality({i \in DOMAIN x : x[i].due < c.due})
           u == SubSeq(ByDue(x), 1, N)
           v == SubSeq(ByDue(y), 1, N)
<1>1. n \in Nat /\ DOMAIN x = 1 .. n /\ c.due \in Int
  BY DEF AlikeUpTo
<1>2. PICK p : Sorts(p, x, y)
  BY SortsExists
<1>3. {i \in DOMAIN y : y[i].due < c.due} = {i \in DOMAIN x : x[i].due < c.due}
  BY DEF AlikeUpTo, SameDues
<1>4. prior(c, x) = u /\ prior(c, y) = v
  BY <1>3 DEF prior
<1>5. N \in 0 .. n
  <2> DEFINE early == {i \in DOMAIN x : x[i].due < c.due}
  <2>1. early \in SUBSET (1 .. n)
    BY <1>1
  <2> HIDE DEF early, n
  <2>2. IsFiniteSet(1 .. n) /\ Cardinality(1 .. n) = n
    BY <1>1, FS_Interval
  <2>3. Cardinality(early) \in Nat /\ Cardinality(early) <= n
    BY <2>1, <2>2, FS_Subset, FS_CardinalityType
  <2> QED
    BY <1>1, <2>3 DEF early
<1>6. \A i \in 1 .. N : x[p[i]].due <= c.due
  <2> SUFFICES ASSUME NEW i \in 1 .. N PROVE x[p[i]].due <= c.due
    OBVIOUS
  <2>1. i \in DOMAIN x /\ i <= N
    BY <1>1, <1>5
  <2>0. p[i] \in DOMAIN x
    BY <1>2, <2>1 DEF Sorts, IsOrder
  <2>2. x[p[i]].due < c.due
    BY <1>1, <1>2, <2>1 DEF Sorts, IsOrder
  <2>3. x \in Seq(CustomerCycle)
    BY DEF AlikeUpTo
  <2>4. x[p[i]].due \in Int
    <3>1. x[p[i]] \in CustomerCycle
      BY <2>0, <2>3
    <3> QED
      BY <3>1 DEF CustomerCycle
  <2> QED
    BY <1>1, <2>2, <2>4
<1> HIDE DEF N
<1>7. AllAlike(u, v)
  BY <1>2, <1>5, <1>6, PrefixesAreAlike
<1> HIDE DEF u, v
<1>8. /\ Len(v) = Len(u) /\ DOMAIN v = DOMAIN u
      /\ \A i \in DOMAIN u : v[i].due = u[i].due /\ v[i].observables = u[i].observables
  BY <1>7 DEF AllAlike, Alike
<1> DEFINE settled(s) == {i \in DOMAIN s : has_event(s[i], "payment.captured")}
           last(s) == IF settled(s) = {} THEN 0 ELSE Largest(settled(s))
           days(s) == IF last(s) = 0 THEN 60 ELSE (c.due - s[last(s)].due) \div Day
           features(s) == [consecutive_failures |-> 1 + Len(s) - last(s),
                           days_since_success |-> days(s),
                           successful_cycles |-> Cardinality(settled(s))]
<1>9. settled(v) = settled(u)
  BY <1>8 DEF has_event
<1>10. last(v) = last(u)
  BY <1>9
<1>11. last(u) # 0 => v[last(u)].due = u[last(u)].due
  <2> SUFFICES ASSUME last(u) # 0 PROVE last(u) \in DOMAIN u
    BY <1>8
  <2>1. settled(u) # {} /\ settled(u) \subseteq 1 .. Len(u)
    BY <1>7 DEF AllAlike
  <2>2. Len(u) \in Nat
    BY <1>7 DEF AllAlike
  <2>3. \E i \in settled(u) : \A j \in settled(u) : j <= i
    <3> HIDE DEF settled
    <3> QED
      BY <2>1, <2>2, GreatestExists
  <2>4. Largest(settled(u)) \in settled(u)
    BY <2>3 DEF Largest
  <2> QED
    BY <2>1, <2>4
<1>12. revocation_features(c, x) = features(u) /\ revocation_features(c, y) = features(v)
  BY <1>4 DEF revocation_features
<1> HIDE DEF last, settled
<1>13. features(v) = features(u)
  BY <1>8, <1>9, <1>10, <1>11
<1> QED
  BY <1>12, <1>13

(* The history before the k-th of the sorted cycles.                         *)
Before(x, k) == build_history(SubSeq(ByDue(x), 1, k - 1))

(* Of a cycle due at the instant, both customers have the same row and       *)
(* history.                                                                  *)
LEMMA RowsAreAlike ==
    ASSUME NEW x, NEW y, NEW t, AlikeUpTo(x, y, t), NEW p, Sorts(p, x, y),
           NEW k \in DOMAIN x, x[p[k]].due = t
    PROVE  Before(x, k) = Before(y, k) /\ Alike(ByDue(x)[k], ByDue(y)[k])
<1>1. Len(x) \in Nat /\ DOMAIN x = 1 .. Len(x) /\ t \in Int
  BY DEF AlikeUpTo
<1>2. k - 1 \in 0 .. Len(x)
  BY <1>1
<1>3. ASSUME NEW i \in 1 .. k - 1 PROVE x[p[i]].due <= t
  <2>1. i \in DOMAIN x /\ i < k
    BY <1>1
  <2>2. \A a, b \in DOMAIN x : a < b => x[p[a]].due <= x[p[b]].due
    BY DEF Sorts, IsOrder
  <2> QED
    BY <2>1, <2>2
<1>4. AllAlike(SubSeq(ByDue(x), 1, k - 1), SubSeq(ByDue(y), 1, k - 1))
  BY <1>2, <1>3, PrefixesAreAlike
<1>5. Before(x, k) = Before(y, k)
  BY <1>4, HistoriesAreAlike DEF Before
<1>6. p[k] \in DOMAIN x /\ ByDue(x)[k] = x[p[k]] /\ ByDue(y)[k] = y[p[k]]
  BY DEF Sorts, IsOrder
<1>7. Alike(x[p[k]], y[p[k]])
  BY <1>1, <1>6 DEF AlikeUpTo
<1> QED
  BY <1>5, <1>6, <1>7

(* What of the training sets is about a cycle due at a time.                 *)
LEMMA ShownIs ==
    ASSUME NEW x, NEW c, NEW n, NEW r
    PROVE  /\ r \in Shown(build_dataset(x, n), c) <=>
                \E k \in DOMAIN ByDue(x) :
                    /\ initial_debit_failed(ByDue(x)[k]) /\ ByDue(x)[k].due = c.due
                    /\ \E s \in at_risk(ByDue(x)[k], n) :
                          r = <<s, slot_features(ByDue(x)[k], Before(x, k), s)>>
           /\ r \in Shown(build_presence_dataset(x, n), c) <=>
                \E k \in DOMAIN ByDue(x) :
                    /\ initial_debit_failed(ByDue(x)[k]) /\ ByDue(x)[k].due = c.due
                    /\ \E s \in legal_mask(ByDue(x)[k].due, n) :
                          r = <<s, hourly_features(ByDue(x)[k], Before(x, k), s)>>
<1> DEFINE W == WithHistory(x)
           row(due, s, label, features) ==
               [due |-> due, slot |-> s, label |-> label, features |-> features]
           rows(q) == {row(q.cycle.due, s, funded_slot(q.cycle) = s,
                           slot_features(q.cycle, q.history, s)) : s \in at_risk(q.cycle, n)}
           hours(q) == {row(q.cycle.due, h, h \in funds_present(q.cycle, n),
                            hourly_features(q.cycle, q.history, h)) : h \in legal_mask(q.cycle.due, n)}
<1>0. \A due, s, label, features :
         LET z == row(due, s, label, features)
         IN  z.due = due /\ z.slot = s /\ z.features = features
  OBVIOUS
<1>1. W = {[cycle |-> ByDue(x)[k], history |-> Before(x, k)] :
              k \in {i \in DOMAIN ByDue(x) : initial_debit_failed(ByDue(x)[i])}}
  BY DEF WithHistory, Before
<1>2. build_dataset(x, n) = UNION {rows(q) : q \in W}
  BY DEF build_dataset
<1>3. build_presence_dataset(x, n) = UNION {hours(q) : q \in W}
  BY DEF build_presence_dataset
<1> HIDE DEF W
<1>4. r \in Shown(build_dataset(x, n), c) <=>
         \E q \in W : \E z \in rows(q) : z.due = c.due /\ r = <<z.slot, z.features>>
  <2> HIDE DEF rows
  <2> QED
    BY <1>2 DEF Shown
<1>5. r \in Shown(build_presence_dataset(x, n), c) <=>
         \E q \in W : \E z \in hours(q) : z.due = c.due /\ r = <<z.slot, z.features>>
  <2> HIDE DEF hours
  <2> QED
    BY <1>3 DEF Shown
<1>6. r \in Shown(build_dataset(x, n), c) <=>
         \E q \in W : q.cycle.due = c.due /\ \E s \in at_risk(q.cycle, n) :
             r = <<s, slot_features(q.cycle, q.history, s)>>
  <2> DEFINE label(q, s) == funded_slot(q.cycle) = s
             features(q, s) == slot_features(q.cycle, q.history, s)
             Asked(q) == at_risk(q.cycle, n)
  <2>1. \A q : rows(q) = {row(q.cycle.due, s, label(q, s), features(q, s)) : s \in Asked(q)}
    OBVIOUS
  <2> HIDE DEF row, rows, label, features, Asked
  <2>2. \A q, z : z \in rows(q) <=> \E s \in Asked(q) : z = row(q.cycle.due, s, label(q, s), features(q, s))
    BY <2>1
  <2>3. \A q : (\E z \in rows(q) : z.due = c.due /\ r = <<z.slot, z.features>>)
                <=> q.cycle.due = c.due /\ \E s \in Asked(q) : r = <<s, features(q, s)>>
    <3> SUFFICES ASSUME NEW q
                 PROVE  (\E z \in rows(q) : z.due = c.due /\ r = <<z.slot, z.features>>)
                            <=> q.cycle.due = c.due /\ \E s \in Asked(q) : r = <<s, features(q, s)>>
      OBVIOUS
    <3>1. ASSUME NEW s PROVE LET z == row(q.cycle.due, s, label(q, s), features(q, s))
                             IN  z.due = q.cycle.due /\ z.slot = s /\ z.features = features(q, s)
      BY <1>0
    <3> QED
      BY <2>2, <3>1
  <2>4. r \in Shown(build_dataset(x, n), c) <=> \E q \in W : q.cycle.due = c.due /\ \E s \in Asked(q) : r = <<s, features(q, s)>>
    BY <1>4, <2>3
  <2> QED
    BY <2>4 DEF Asked, features
<1>7. r \in Shown(build_presence_dataset(x, n), c) <=>
         \E q \in W : q.cycle.due = c.due /\ \E s \in legal_mask(q.cycle.due, n) :
             r = <<s, hourly_features(q.cycle, q.history, s)>>
  <2> DEFINE label(q, h) == h \in funds_present(q.cycle, n)
             features(q, h) == hourly_features(q.cycle, q.history, h)
             Asked(q) == legal_mask(q.cycle.due, n)
  <2>1. \A q : hours(q) = {row(q.cycle.due, s, label(q, s), features(q, s)) : s \in Asked(q)}
    OBVIOUS
  <2> HIDE DEF row, hours, label, features, Asked
  <2>2. \A q, z : z \in hours(q) <=> \E s \in Asked(q) : z = row(q.cycle.due, s, label(q, s), features(q, s))
    BY <2>1
  <2>3. \A q : (\E z \in hours(q) : z.due = c.due /\ r = <<z.slot, z.features>>)
                <=> q.cycle.due = c.due /\ \E s \in Asked(q) : r = <<s, features(q, s)>>
    <3> SUFFICES ASSUME NEW q
                 PROVE  (\E z \in hours(q) : z.due = c.due /\ r = <<z.slot, z.features>>)
                            <=> q.cycle.due = c.due /\ \E s \in Asked(q) : r = <<s, features(q, s)>>
      OBVIOUS
    <3>1. ASSUME NEW s PROVE LET z == row(q.cycle.due, s, label(q, s), features(q, s))
                             IN  z.due = q.cycle.due /\ z.slot = s /\ z.features = features(q, s)
      BY <1>0
    <3> QED
      BY <2>2, <3>1
  <2>4. r \in Shown(build_presence_dataset(x, n), c) <=> \E q \in W : q.cycle.due = c.due /\ \E s \in Asked(q) : r = <<s, features(q, s)>>
    BY <1>5, <2>3
  <2> QED
    BY <2>4 DEF Asked, features
<1> DEFINE pair(k) == [cycle |-> ByDue(x)[k], history |-> Before(x, k)]
           K == {i \in DOMAIN ByDue(x) : initial_debit_failed(ByDue(x)[i])}
<1>8. \A k : pair(k).cycle = ByDue(x)[k] /\ pair(k).history = Before(x, k)
  OBVIOUS
<1>9. W = {pair(k) : k \in K}
  BY <1>1
<1> HIDE DEF pair
<1>10. r \in Shown(build_dataset(x, n), c) <=>
          \E k \in K : ByDue(x)[k].due = c.due /\ \E s \in at_risk(ByDue(x)[k], n) :
             r = <<s, slot_features(ByDue(x)[k], Before(x, k), s)>>
  <2> HIDE DEF K
  <2> QED
    BY <1>6, <1>8, <1>9
<1>11. r \in Shown(build_presence_dataset(x, n), c) <=>
          \E k \in K : ByDue(x)[k].due = c.due /\ \E s \in legal_mask(ByDue(x)[k].due, n) :
             r = <<s, hourly_features(ByDue(x)[k], Before(x, k), s)>>
  <2> HIDE DEF K
  <2> QED
    BY <1>7, <1>8, <1>9
<1> QED
  BY <1>10, <1>11

OnClock(t) == /\ date_ist(t) \in Int /\ hour_ist(t) \in Int
              /\ 0 <= hour_ist(t) /\ hour_ist(t) <= 1439
              /\ t = 1440 * date_ist(t) + hour_ist(t)

(* Every instant is a day and a minute of it.                                *)
LEMMA ClockIs ==
    ASSUME NEW t \in Int
    PROVE  OnClock(t)
<1> DEFINE d == date_ist(t)
           h == hour_ist(t)
<1>1. d \in Int /\ h \in 0 .. 1439 /\ t = 1440 * d + h
  BY Clock
<1> HIDE DEF d, h
<1>2. 0 <= h /\ h <= 1439 /\ h \in Int
  BY <1>1
<1> QED
  BY <1>1, <1>2 DEF OnClock, d, h

(* Every minute of a day is in one of its five bands.                        *)
LEMMA BandType ==
    ASSUME NEW m \in Int
    PROVE  hour_band(m) \in 0 .. 4
<1>1. CASE m < 10 * Hour
  BY <1>1 DEF hour_band
<1>2. CASE 10 * Hour <= m /\ m < 13 * Hour
  BY <1>2 DEF hour_band, Hour
<1>3. CASE 13 * Hour <= m /\ m < 17 * Hour
  BY <1>3 DEF hour_band, Hour
<1>4. CASE 17 * Hour <= m /\ m < 21 * Hour + 30
  BY <1>4 DEF hour_band, Hour
<1>5. CASE m >= 21 * Hour + 30
  BY <1>5 DEF hour_band, Hour
<1> QED
  BY <1>1, <1>2, <1>3, <1>4, <1>5 DEF Hour

(* The money of a cycle retimed to 50 hours is not in its first 7 slots, and *)
(* before that every slot is one in which the cycle is still unfunded.       *)
LEMMA RetimedIsLate ==
    ASSUME NEW a \in CustomerCycle, NEW b \in CustomerCycle, b.due = a.due,
           b.truth.funding_time = a.due + 50 * Hour
    PROVE  at_risk(a, 7) \subseteq at_risk(b, 7)
<1>1. /\ a.due \in Int /\ a.truth.funding_time \in Int \cup {Nothing}
      /\ at_risk(b, 7) = 0 .. (IF funded_slot(b) = Nothing \/ funded_slot(b) > 6 THEN 6 ELSE funded_slot(b))
      /\ at_risk(a, 7) = 0 .. (IF funded_slot(a) = Nothing \/ funded_slot(a) > 6 THEN 6 ELSE funded_slot(a))
  BY DEF CustomerCycle, at_risk
<1>2. ASSUME NEW x \in CustomerCycle PROVE funded_slot(x) \in Int \cup {Nothing}
  <2> DEFINE at == x.truth.funding_time
             offset == date_ist(at) - date_ist(x.due)
  <2>1. x.due \in Int /\ at \in Int \cup {Nothing}
    BY DEF CustomerCycle
  <2>2. CASE at = Nothing
    BY <2>2 DEF funded_slot
  <2>3. CASE at # Nothing /\ at < x.due
    <3>1. ~(at >= x.due)
      BY <2>1, <2>3
    <3>2. funded_slot(x) = 0
      BY <2>3, <3>1 DEF funded_slot
    <3> QED
      BY <3>2
  <2>4. CASE at # Nothing /\ at >= x.due
    <3>1. at \in Int
      BY <2>1, <2>4
    <3>2. offset \in Int /\ hour_ist(at) \in Int
      BY <2>1, <3>1 DEF date_ist, hour_ist, Day, Hour
    <3>3. hour_band(hour_ist(at)) \in 0 .. 4
      BY <3>2, BandType
    <3>4. funded_slot(x) = IF offset \notin 0 .. HORIZON_DAYS - 1 THEN Nothing
                           ELSE offset * SLOTS_PER_DAY + hour_band(hour_ist(at))
      BY <2>4 DEF funded_slot
    <3> HIDE DEF offset, at
    <3>5. offset * SLOTS_PER_DAY + hour_band(hour_ist(at)) \in Int
      BY <3>2, <3>3 DEF SLOTS_PER_DAY
    <3> QED
      BY <3>4, <3>5
  <2>5. at = Nothing \/ (at # Nothing /\ at < x.due) \/ (at # Nothing /\ at >= x.due)
    BY <2>1
  <2> QED
    BY <2>2, <2>3, <2>4, <2>5
<1>3. at_risk(a, 7) \subseteq 0 .. 6
  <2> DEFINE slot == funded_slot(a)
  <2>1. slot \in Int \cup {Nothing}
    BY <1>2
  <2> HIDE DEF slot
  <2>2. 0 .. (IF slot = Nothing \/ slot > 6 THEN 6 ELSE slot) \subseteq 0 .. 6
    BY <2>1
  <2> QED
    BY <1>1, <2>2 DEF slot
<1>4. at_risk(b, 7) = 0 .. 6
  <2> DEFINE at == b.truth.funding_time
             offset == date_ist(at) - date_ist(b.due)
             band == hour_band(hour_ist(at))
  <2>1. at = a.due + 3000 /\ at \in Int /\ b.due = a.due /\ at # Nothing
    BY <1>1, ArrivalAssumption DEF Hour
  <2>2. OnClock(at) /\ OnClock(b.due)
    <3>1. at \in Int /\ b.due \in Int
      BY <1>1, <2>1
    <3> QED
      BY <3>1, ClockIs
  <2>3. offset \in Int /\ offset >= 2
    <3> DEFINE x == date_ist(at)
               y == date_ist(b.due)
               g == hour_ist(at)
               h == hour_ist(b.due)
    <3>1. x \in Int /\ y \in Int /\ g \in Int /\ h \in Int /\ g <= 1439 /\ 0 <= h
      BY <2>2 DEF OnClock
    <3>2. 1440 * x + g = 1440 * y + h + 3000
      BY <2>1, <2>2 DEF OnClock
    <3> HIDE DEF x, y, g, h
    <3>3. 1440 * x >= 1440 * y + 1561
      BY <3>1, <3>2
    <3>4. x - y \in Int /\ x - y >= 2
      BY <3>1, <3>3
    <3> QED
      BY <3>4 DEF x, y
  <2>4. band \in 0 .. 4
    BY <2>2, BandType DEF OnClock
  <2>5. at >= b.due
    BY <1>1, <2>1
  <2>6. funded_slot(b) = IF offset \notin 0 .. HORIZON_DAYS - 1 THEN Nothing
                         ELSE offset * SLOTS_PER_DAY + band
    BY <2>1, <2>5 DEF funded_slot
  <2> HIDE DEF at, offset, band
  <2>7. offset * SLOTS_PER_DAY + band > 6
    BY <2>3, <2>4 DEF SLOTS_PER_DAY
  <2>8. funded_slot(b) = Nothing \/ funded_slot(b) > 6
    BY <2>6, <2>7
  <2> QED
    BY <1>1, <2>8
<1> QED
  BY <1>3, <1>4

(* The features are of the time a cycle is due.                              *)
LEMMA ColumnsOfDue ==
    ASSUME NEW a, NEW b, a.due = b.due, NEW h, NEW s
    PROVE  slot_features(a, h, s) = slot_features(b, h, s) /\ hourly_features(a, h, s) = hourly_features(b, h, s)
BY DEF slot_features, hourly_features

(* How a later cycle of the customer ended says nothing of this one.         *)
LEMMA FlippedIsUntold ==
    ASSUME NEW x \in Seq(CustomerCycle), NEW i \in DOMAIN x, NEW j \in DOMAIN x,
           x[i].due < x[j].due
    PROVE  Told(x, x[i]) = Told(Flipped(x, j), x[i])
<1> DEFINE y == Flipped(x, j)
           c == x[i]
           cause == IF has_event(x[j], "payment.failed") THEN Nothing ELSE "no_funds"
           ended == emit_events(x[j].due, cause, FALSE)
<1>1. \A m \in DOMAIN x : x[m] \in CustomerCycle
  OBVIOUS
<1>2. x[j].due \in Int /\ c.due \in Int
  BY <1>1 DEF CustomerCycle
<1>3. ended \in Observables
  <2>1. cause \in {Nothing, "no_funds"}
    OBVIOUS
  <2>2. x[j].due \in Int
    BY <1>2
  <2>3. \A d \in Int, e \in {Nothing, "no_funds"} : emit_events(d, e, FALSE) \in Observables
    BY Zenon DEF Observables
  <2> HIDE DEF cause
  <2> QED
    BY Zenon, <2>1, <2>2, <2>3
<1>4. y = [x EXCEPT ![j].observables = ended]
  BY DEF Flipped
<1> HIDE DEF ended
<1>5. [x[j] EXCEPT !.observables = ended] \in CustomerCycle /\ [x[j] EXCEPT !.observables = ended].due = x[j].due
  BY <1>1, <1>3 DEF CustomerCycle
<1>6. /\ y \in Seq(CustomerCycle) /\ DOMAIN y = DOMAIN x
      /\ \A m \in DOMAIN x : y[m] = IF m = j THEN [x[j] EXCEPT !.observables = ended] ELSE x[m]
  BY <1>4, <1>5
<1> HIDE DEF y
<1>7. SameDues(x, y)
  BY <1>5, <1>6 DEF SameDues
<1>8. \A m \in DOMAIN x : x[m].due <= c.due => m # j
  BY <1>2
<1>9. AlikeUpTo(x, y, c.due)
  BY <1>2, <1>6, <1>7, <1>8 DEF AlikeUpTo, Alike
<1>10. PICK p : Sorts(p, x, y)
  BY <1>9, SortsExists
<1>11. DOMAIN ByDue(x) = DOMAIN x /\ DOMAIN ByDue(y) = DOMAIN x
  BY <1>10 DEF Sorts
<1>12. ASSUME NEW k \in DOMAIN x PROVE ByDue(x)[k].due = ByDue(y)[k].due
  BY <1>7, <1>10 DEF Sorts, IsOrder, SameDues
<1>13. ASSUME NEW k \in DOMAIN x, ByDue(x)[k].due = c.due
       PROVE  ByDue(y)[k] = ByDue(x)[k] /\ Before(y, k) = Before(x, k)
  <2>1. p[k] \in DOMAIN x /\ ByDue(x)[k] = x[p[k]] /\ ByDue(y)[k] = y[p[k]]
    BY <1>10 DEF Sorts, IsOrder
  <2>2. x[p[k]].due = c.due
    BY <1>13, <2>1
  <2>3. p[k] # j
    BY <1>2, <2>2
  <2>4. Before(y, k) = Before(x, k)
    BY <1>9, <1>10, <2>2, RowsAreAlike
  <2> QED
    BY <1>6, <2>1, <2>3, <2>4
<1> HIDE DEF c
<1>14. Shown(build_dataset(x, 7), c) = Shown(build_dataset(y, 7), c)
  <2> SUFFICES ASSUME NEW r PROVE r \in Shown(build_dataset(x, 7), c) <=> r \in Shown(build_dataset(y, 7), c)
    BY DEF Shown
  <2> QED
    BY <1>11, <1>12, <1>13, ShownIs
<1>15. Shown(build_presence_dataset(x, 28), c) = Shown(build_presence_dataset(y, 28), c)
  <2> SUFFICES ASSUME NEW r PROVE r \in Shown(build_presence_dataset(x, 28), c) <=> r \in Shown(build_presence_dataset(y, 28), c)
    BY DEF Shown
  <2> QED
    BY <1>11, <1>12, <1>13, ShownIs
<1>16. revocation_features(c, x) = revocation_features(c, y)
  BY <1>9, RevocationIsAlike
<1> QED
  BY <1>14, <1>15, <1>16 DEF Told, c, y

(* Nor does the truth, of this one or of another.                            *)
LEMMA RetimedIsUntold ==
    ASSUME NEW x \in Seq(CustomerCycle), NEW i \in DOMAIN x
    PROVE  LET now == Told(x, x[i])
               later == Told(Retimed(x), x[i])
           IN  now[1] = later[1] /\ now[2] \subseteq later[2] /\ now[3] = later[3]
<1> DEFINE y == Retimed(x)
           c == x[i]
           paid(m) == Funded(x[m].due, 50)
<1>1. \A m \in DOMAIN x : x[m] \in CustomerCycle
  OBVIOUS
<1>2. c.due \in Int
  BY <1>1 DEF CustomerCycle
<1>3. ASSUME NEW m \in DOMAIN x
      PROVE  /\ paid(m) \in [funding_time : Int \cup {Nothing}, windows : SUBSET (Int \X Int)]
             /\ paid(m).funding_time = x[m].due + 50 * Hour
  <2>1. x[m].due \in Int /\ 50 # Nothing
    BY <1>1, ArrivalAssumption DEF CustomerCycle
  <2>2. \A n \in Int : x[m].due + n * Hour \in Int
    BY <2>1 DEF Hour
  <2>3. paid(m) = [funding_time |-> x[m].due + 50 * Hour,
                   windows |-> {<<x[m].due + 50 * Hour, x[m].due + (50 + 10) * Hour>>}]
    BY <2>1 DEF Funded
  <2>4. x[m].due + 50 * Hour \in Int /\ x[m].due + (50 + 10) * Hour \in Int
    BY <2>2
  <2> QED
    BY <2>3, <2>4
<1> HIDE DEF paid
<1>4. y = [m \in DOMAIN x |-> [x[m] EXCEPT !.truth = paid(m)]]
  BY DEF Retimed, paid
<1>5. ASSUME NEW m \in DOMAIN x
      PROVE  /\ [x[m] EXCEPT !.truth = paid(m)] \in CustomerCycle
             /\ Alike(x[m], [x[m] EXCEPT !.truth = paid(m)])
             /\ [x[m] EXCEPT !.truth = paid(m)].truth = paid(m)
  BY <1>1, <1>3 DEF CustomerCycle, Alike
<1>6. /\ y \in Seq(CustomerCycle) /\ DOMAIN y = DOMAIN x
      /\ \A m \in DOMAIN x : Alike(x[m], y[m]) /\ y[m].truth = paid(m)
  <2>1. DOMAIN y = DOMAIN x /\ \A m \in DOMAIN x : y[m] = [x[m] EXCEPT !.truth = paid(m)]
    BY <1>4
  <2>2. y \in Seq(CustomerCycle)
    <3>1. Len(x) \in Nat /\ DOMAIN x = 1 .. Len(x)
      OBVIOUS
    <3> DEFINE e(m) == [x[m] EXCEPT !.truth = paid(m)]
    <3>2. y = [m \in 1 .. Len(x) |-> e(m)] /\ \A m \in 1 .. Len(x) : e(m) \in CustomerCycle
      BY <1>4, <1>5, <3>1
    <3> HIDE DEF y, e
    <3> QED
      BY <3>1, <3>2
  <2> HIDE DEF y
  <2> QED
    BY <1>5, <2>1, <2>2
<1> HIDE DEF y
<1>7. SameDues(x, y)
  BY <1>6 DEF SameDues, Alike
<1>8. AlikeUpTo(x, y, c.due)
  BY <1>2, <1>6, <1>7 DEF AlikeUpTo
<1>9. PICK p : Sorts(p, x, y)
  BY <1>8, SortsExists
<1>10. DOMAIN ByDue(x) = DOMAIN x /\ DOMAIN ByDue(y) = DOMAIN x
  BY <1>9 DEF Sorts
<1>11. ASSUME NEW k \in DOMAIN x
       PROVE  /\ Alike(ByDue(x)[k], ByDue(y)[k])
              /\ initial_debit_failed(ByDue(x)[k]) <=> initial_debit_failed(ByDue(y)[k])
              /\ at_risk(ByDue(x)[k], 7) \subseteq at_risk(ByDue(y)[k], 7)
  <2> DEFINE a == ByDue(x)[k]
             b == ByDue(y)[k]
  <2>1. p[k] \in DOMAIN x /\ a = x[p[k]] /\ b = y[p[k]]
    BY <1>9 DEF Sorts, IsOrder
  <2>2. a \in CustomerCycle /\ b \in CustomerCycle
    <3>1. y[p[k]] \in CustomerCycle
      BY <1>6, <2>1
    <3> QED
      BY <1>1, <2>1, <3>1
  <2>3. Alike(a, b) /\ b.truth.funding_time = a.due + 50 * Hour
    BY <1>3, <1>6, <2>1
  <2> HIDE DEF a, b
  <2>4. a.due = b.due /\ a.observables = b.observables
    BY <2>3 DEF Alike
  <2>5. initial_debit_failed(a) <=> initial_debit_failed(b)
    BY <2>4 DEF initial_debit_failed, has_event
  <2>6. at_risk(a, 7) \subseteq at_risk(b, 7)
    BY <2>2, <2>3, <2>4, RetimedIsLate
  <2> QED
    BY <2>3, <2>5, <2>6 DEF a, b
<1>12. ASSUME NEW k \in DOMAIN x, ByDue(x)[k].due = c.due
       PROVE  Before(y, k) = Before(x, k)
  <2>1. x[p[k]].due = c.due
    BY <1>9, <1>12 DEF Sorts
  <2> QED
    BY <1>8, <1>9, <2>1, RowsAreAlike
<1>13. \A k \in DOMAIN x : ByDue(x)[k].due = ByDue(y)[k].due
  BY <1>11 DEF Alike
<1>14. \A k \in DOMAIN x : \A h, s :
          /\ slot_features(ByDue(x)[k], h, s) = slot_features(ByDue(y)[k], h, s)
          /\ hourly_features(ByDue(x)[k], h, s) = hourly_features(ByDue(y)[k], h, s)
  BY <1>13, ColumnsOfDue
<1> HIDE DEF c
<1>15. Shown(build_dataset(x, 7), c) \subseteq Shown(build_dataset(y, 7), c)
  <2> SUFFICES ASSUME NEW r, r \in Shown(build_dataset(x, 7), c) PROVE r \in Shown(build_dataset(y, 7), c)
    OBVIOUS
  <2>1. PICK k \in DOMAIN x :
           /\ initial_debit_failed(ByDue(x)[k]) /\ ByDue(x)[k].due = c.due
           /\ \E s \in at_risk(ByDue(x)[k], 7) :
                 r = <<s, slot_features(ByDue(x)[k], Before(x, k), s)>>
    BY <1>10, ShownIs
  <2>2. PICK s \in at_risk(ByDue(x)[k], 7) : r = <<s, slot_features(ByDue(x)[k], Before(x, k), s)>>
    BY <2>1
  <2>3. r = <<s, slot_features(ByDue(y)[k], Before(y, k), s)>> /\ s \in at_risk(ByDue(y)[k], 7)
    BY <1>11, <1>12, <1>14, <2>1, <2>2
  <2>4. initial_debit_failed(ByDue(y)[k]) /\ ByDue(y)[k].due = c.due /\ k \in DOMAIN ByDue(y)
    BY <1>10, <1>11, <1>13, <2>1
  <2> QED
    BY <2>3, <2>4, ShownIs
<1>16. Shown(build_presence_dataset(x, 28), c) = Shown(build_presence_dataset(y, 28), c)
  <2> DEFINE Row(z, k, r) ==
                /\ initial_debit_failed(ByDue(z)[k]) /\ ByDue(z)[k].due = c.due
                /\ \E s \in legal_mask(ByDue(z)[k].due, 28) :
                      r = <<s, hourly_features(ByDue(z)[k], Before(z, k), s)>>
  <2> SUFFICES ASSUME NEW r PROVE r \in Shown(build_presence_dataset(x, 28), c) <=> r \in Shown(build_presence_dataset(y, 28), c)
    BY DEF Shown
  <2>1. \A k \in DOMAIN x : Row(x, k, r) <=> Row(y, k, r)
    BY <1>11, <1>12, <1>13, <1>14
  <2>2. r \in Shown(build_presence_dataset(x, 28), c) <=> \E k \in DOMAIN x : Row(x, k, r)
    BY <1>10, ShownIs
  <2>3. r \in Shown(build_presence_dataset(y, 28), c) <=> \E k \in DOMAIN x : Row(y, k, r)
    BY <1>10, ShownIs
  <2> HIDE DEF Row
  <2> QED
    BY <2>1, <2>2, <2>3
<1>17. revocation_features(c, x) = revocation_features(c, y)
  BY <1>8, RevocationIsAlike
<1> QED
  BY <1>15, <1>16, <1>17 DEF Told, c, y

(* Customers are sequences of such cycles.                                   *)
CustomersAreCycles == customer # None => customer \in Seq(CustomerCycle)

(* A customer has no cycle at first,                                         *)
LEMMA CustomersInit ==
    Init => CustomersAreCycles
<1> SUFFICES ASSUME Init, customer # None
             PROVE  customer \in Seq(CustomerCycle)
  BY DEF CustomersAreCycles
<1>1. customer = <<>>
  BY DEF Init, Given
<1> QED
  BY <1>1

(* and the next is one more of the kind.                                     *)
LEMMA CustomersStep ==
    CustomersAreCycles /\ [Next]_vars => CustomersAreCycles'
<1> SUFFICES ASSUME CustomersAreCycles, [Next]_vars
             PROVE  CustomersAreCycles'
  OBVIOUS
<1>1. CASE AddCycle
  <2>1. customer # None /\ customer \in Seq(CustomerCycle)
    BY <1>1 DEF AddCycle, CustomersAreCycles
  <2>2. PICK day \in 0 .. 2, c \in {<<Nothing, 0>>, <<"no_funds", 26>>, <<"no_funds", Nothing>>} :
           LET due == DueAt(day, 4 * day) IN
           customer' = Append(customer,
              [due |-> due, mandate |-> day % 2, observables |-> emit_events(due, c[1], FALSE),
               truth |-> Funded(due, c[2])])
    BY <1>1 DEF AddCycle
  <2> DEFINE due == DueAt(day, 4 * day)
             events == emit_events(due, c[1], FALSE)
             truth == Funded(due, c[2])
             added == [due |-> due, mandate |-> day % 2, observables |-> events, truth |-> truth]
  <2>3. due \in Int
    <3>1. \A n \in Int : n * Day \in Int /\ n * Hour \in Int
      BY DEF Day, Hour
    <3>2. ORIGIN \in Int
      BY DEF ORIGIN, Day, Hour
    <3>3. day \in Int /\ 4 * day \in Int
      OBVIOUS
    <3> QED
      BY <3>1, <3>2, <3>3 DEF DueAt
  <2>4. events \in Observables
    <3>1. c[1] = Nothing \/ c[1] = "no_funds"
      OBVIOUS
    <3> HIDE DEF due
    <3> QED
      BY <2>3, <3>1 DEF Observables
  <2>5. truth \in [funding_time : Int \cup {Nothing}, windows : SUBSET (Int \X Int)]
    <3>1. c[2] = Nothing \/ c[2] \in Int
      OBVIOUS
    <3> HIDE DEF due
    <3>2. CASE c[2] = Nothing
      BY <3>2 DEF Funded
    <3>3. CASE c[2] # Nothing /\ c[2] \in Int
      <4> DEFINE h == c[2]
      <4>1. due + h * Hour \in Int /\ due + (h + 10) * Hour \in Int
        BY <2>3, <3>3 DEF Hour
      <4>2. truth = [funding_time |-> due + h * Hour, windows |-> {<<due + h * Hour, due + (h + 10) * Hour>>}]
        BY <3>3 DEF Funded
      <4> HIDE DEF h
      <4> QED
        BY <4>1, <4>2
    <3> QED
      BY <3>1, <3>2, <3>3
  <2>6. day % 2 \in Int
    OBVIOUS
  <2>7. customer' = Append(customer, added)
    BY <2>2
  <2> HIDE DEF due, events, truth
  <2>8. added \in CustomerCycle
    BY <2>3, <2>4, <2>5, <2>6 DEF CustomerCycle
  <2> HIDE DEF added
  <2> QED
    BY <2>1, <2>7, <2>8 DEF CustomersAreCycles
<1>2. CASE UNCHANGED customer
  BY <1>2 DEF CustomersAreCycles
<1> QED
  BY <1>1, <1>2 DEF vars, Next, AddSlot, Enrol, Bill, AddUnit, Attempts

(* What a model is told of a cycle is of the past.                           *)
THEOREM FeaturesArePastAlways == Spec => []FeaturesArePast
<1>1. CustomersAreCycles => FeaturesArePast
  BY FlippedIsUntold, RetimedIsUntold DEF FeaturesArePast, CustomersAreCycles
<1> QED
  BY <1>1, CustomersInit, CustomersStep, PTL DEF Spec

-----------------------------------------------------------------------------
(* What is kept of a list is in the set and in the list; with what is not,   *)
(* it is the whole list; and all of the list if nothing is not.              *)
KeptOf(list, S, k, v) ==
    /\ v \in Seq(S \cap Int)
    /\ Len(v) + Cardinality({i \in 1 .. k : list[i] \notin S}) = k
    /\ \A j \in 1 .. Len(v) : \E i \in 1 .. k : v[j] = list[i]
    /\ (\A i \in 1 .. k : list[i] \in S) => Len(v) = k /\ \A i \in 1 .. k : v[i] = list[i]

(* One element of the list more.                                             *)
LEMMA KeptMore ==
    ASSUME NEW n \in Nat, NEW list \in Seq(Int), Len(list) = n, NEW S, NEW k \in Nat, k + 1 <= n,
           NEW v, KeptOf(list, S, k, v)
    PROVE  KeptOf(list, S, k + 1, IF list[k + 1] \in S THEN Append(v, list[k + 1]) ELSE v)
<1> DEFINE lost(m) == {i \in 1 .. m : list[i] \notin S}
           x == list[k + 1]
<1>1. x \in Int /\ v \in Seq(S \cap Int) /\ Len(v) \in Nat
  BY DEF KeptOf
<1>2. Len(v) + Cardinality(lost(k)) = k
  BY DEF KeptOf
<1>3. IsFiniteSet(lost(k)) /\ Cardinality(lost(k)) \in Nat /\ k + 1 \notin lost(k)
  <2>1. IsFiniteSet(1 .. k)
    BY FS_Interval
  <2>2. lost(k) \subseteq 1 .. k
    OBVIOUS
  <2>3. IsFiniteSet(lost(k))
    BY <2>1, <2>2, FS_Subset
  <2>4. Cardinality(lost(k)) \in Nat
    BY <2>3, FS_CardinalityType
  <2> QED
    BY <2>3, <2>4
<1>4. \A j \in 1 .. Len(v) : \E i \in 1 .. k : v[j] = list[i]
  BY DEF KeptOf
<1>5. (\A i \in 1 .. k : list[i] \in S) => Len(v) = k /\ \A i \in 1 .. k : v[i] = list[i]
  BY DEF KeptOf
<1>6. CASE x \in S
  <2> DEFINE w == Append(v, x)
  <2>1. w \in Seq(S \cap Int) /\ Len(w) = Len(v) + 1
    BY <1>1, <1>6
  <2>2. \A j \in 1 .. Len(v) : w[j] = v[j]
    BY <1>1
  <2>3. w[Len(v) + 1] = x
    BY <1>1
  <2> HIDE DEF w
  <2>4. lost(k + 1) = lost(k)
    BY <1>6
  <2>5. Len(w) + Cardinality(lost(k + 1)) = k + 1
    <3> HIDE DEF lost
    <3>1. Cardinality(lost(k + 1)) = Cardinality(lost(k))
      BY <2>4
    <3> DEFINE a == Len(v)
               b == Cardinality(lost(k))
    <3>2. a \in Nat /\ b \in Nat /\ a + b = k /\ Len(w) = a + 1 /\ Cardinality(lost(k + 1)) = b
      BY <1>1, <1>2, <1>3, <2>1, <3>1
    <3> HIDE DEF a, b
    <3> QED
      BY <3>2
  <2>6. \A j \in 1 .. Len(w) : \E i \in 1 .. k + 1 : w[j] = list[i]
    <3> SUFFICES ASSUME NEW j \in 1 .. Len(w) PROVE \E i \in 1 .. k + 1 : w[j] = list[i]
      OBVIOUS
    <3>1. CASE j = Len(v) + 1
      <4>1. w[j] = list[k + 1] /\ k + 1 \in 1 .. k + 1
        BY <2>3, <3>1
      <4> QED
        BY <4>1
    <3>2. CASE j # Len(v) + 1
      <4>1. j \in 1 .. Len(v)
        BY <1>1, <2>1, <3>2
      <4>2. PICK i \in 1 .. k : v[j] = list[i]
        BY <1>4, <4>1
      <4>3. i \in 1 .. k + 1 /\ w[j] = list[i]
        BY <2>2, <4>1, <4>2
      <4> QED
        BY <4>3
    <3> QED
      BY <3>1, <3>2
  <2>7. ASSUME \A i \in 1 .. k + 1 : list[i] \in S
        PROVE  Len(w) = k + 1 /\ \A i \in 1 .. k + 1 : w[i] = list[i]
    <3>1. Len(v) = k /\ \A i \in 1 .. k : v[i] = list[i]
      BY <1>5, <2>7
    <3>2. ASSUME NEW i \in 1 .. k + 1 PROVE w[i] = list[i]
      <4>1. CASE i = k + 1
        BY <2>3, <3>1, <4>1
      <4>2. CASE i # k + 1
        BY <2>2, <3>1, <4>2
      <4> QED
        BY <4>1, <4>2
    <3> QED
      BY <2>1, <3>1, <3>2
  <2>8. KeptOf(list, S, k + 1, w)
    BY <2>1, <2>5, <2>6, <2>7 DEF KeptOf
  <2> QED
    BY <1>6, <2>8 DEF w
<1>7. CASE x \notin S
  <2>1. lost(k + 1) = lost(k) \cup {k + 1}
    BY <1>7
  <2>2. Cardinality(lost(k + 1)) = Cardinality(lost(k)) + 1
    <3> HIDE DEF lost
    <3>1. Cardinality(lost(k) \cup {k + 1}) = Cardinality(lost(k)) + 1
      BY <1>3, FS_AddElement
    <3> QED
      BY <2>1, <3>1
  <2>3. Len(v) + Cardinality(lost(k + 1)) = k + 1
    BY <1>1, <1>2, <1>3, <2>2
  <2>4. \A j \in 1 .. Len(v) : \E i \in 1 .. k + 1 : v[j] = list[i]
    BY <1>4
  <2>5. ~(\A i \in 1 .. k + 1 : list[i] \in S)
    BY <1>7
  <2>6. KeptOf(list, S, k + 1, v)
    BY <1>1, <2>3, <2>4, <2>5 DEF KeptOf
  <2> QED
    BY <1>7, <2>6
<1> QED
  BY <1>6, <1>7

(* So it is at the end of the list.                                          *)
LEMMA KeptIs ==
    ASSUME NEW list \in Seq(Int), NEW S
    PROVE  KeptOf(list, S, Len(list), Kept(list, S))
<1> DEFINE n == Len(list)
           more(k, v) == IF list[k] \in S THEN Append(v, list[k]) ELSE v
           F == [k \in 1 .. n |-> [v \in Seq(Int) |-> more(k, v)]]
           e == <<>>
           Def(g) == [k \in 0 .. n |-> IF k = 0 THEN e ELSE more(k, g[k - 1])]
           upto == CHOOSE g : g = Def(g)
<1>0. n \in Nat
  OBVIOUS
<1>1. F \in [1 .. n -> [Seq(Int) -> Seq(Int)]]
  <2>1. \A k \in 1 .. n : list[k] \in Int
    OBVIOUS
  <2>2. \A k \in 1 .. n, v \in Seq(Int) : more(k, v) \in Seq(Int)
    BY <2>1
  <2> HIDE DEF more
  <2> QED
    BY <2>2
<1>2. e \in Seq(Int) /\ Len(e) = 0
  OBVIOUS
<1>3. \A T : e \in Seq(T)
  OBVIOUS
<1>9. Kept(list, S) = upto[n]
  BY DEF Kept
<1> HIDE DEF e
<1>4. PICK g \in [0 .. n -> Seq(Int)] : IsRun(g, n, e, F)
  <2> HIDE DEF F, n
  <2> QED
    BY <1>0, <1>1, <1>2, RecursionExists
<1> HIDE DEF more
<1>5. g = Def(g)
  <2>1. ASSUME NEW k \in 1 .. n PROVE g[k] = more(k, g[k - 1])
    <3>1. k - 1 \in 0 .. n
      BY <1>0
    <3>2. g[k - 1] \in Seq(Int)
      BY <1>4, <3>1
    <3> QED
      BY <1>4, <3>2 DEF IsRun
  <2>2. \A k \in 0 .. n : g[k] = IF k = 0 THEN e ELSE more(k, g[k - 1])
    BY <1>0, <1>4, <2>1 DEF IsRun
  <2>3. g = [k \in 0 .. n |-> g[k]]
    BY <1>4
  <2> QED
    BY <2>2, <2>3
<1>6. upto = Def(upto)
  BY <1>5
<1> HIDE DEF upto
<1> DEFINE Good == {k \in Nat : k <= n => KeptOf(list, S, k, upto[k])}
<1>7. 0 \in Good
  <2>1. upto[0] = e
    BY <1>0, <1>6
  <2>2. KeptOf(list, S, 0, e)
    <3>1. e \in Seq(S \cap Int) /\ Len(e) = 0
      BY <1>2, <1>3
    <3>2. {i \in 1 .. 0 : list[i] \notin S} = {} /\ 1 .. 0 = {}
      OBVIOUS
    <3>3. Cardinality({i \in 1 .. 0 : list[i] \notin S}) = 0
      BY <3>2, FS_EmptySet
    <3> QED
      BY <3>1, <3>2, <3>3 DEF KeptOf
  <2> QED
    BY <2>1, <2>2
<1>8. ASSUME NEW k \in Nat, k \in Good PROVE k + 1 \in Good
  <2> SUFFICES ASSUME k + 1 <= n PROVE KeptOf(list, S, k + 1, upto[k + 1])
    OBVIOUS
  <2>1. k <= n /\ k + 1 \in 0 .. n /\ k + 1 # 0 /\ (k + 1) - 1 = k
    BY <1>0
  <2>2. KeptOf(list, S, k, upto[k])
    BY <1>8, <2>1
  <2>3. upto[k + 1] = more(k + 1, upto[k])
    BY <1>6, <2>1
  <2> HIDE DEF Good
  <2>4. KeptOf(list, S, k + 1, IF list[k + 1] \in S THEN Append(upto[k], list[k + 1]) ELSE upto[k])
    BY <1>0, <2>2, KeptMore
  <2> QED
    BY <2>3, <2>4 DEF more
<1> HIDE DEF Good
<1>10. n \in Good
  BY <1>0, <1>7, <1>8, NatInd
<1> QED
  BY <1>0, <1>9, <1>10 DEF Good

(* A retry of the control arm: on its day, before 10:00 IST, within the      *)
(* window, and after the notice's lead unless it is the first of a cycle     *)
(* that is due after 08:00 IST.                                              *)
OnItsDay(due, d, s) ==
    /\ s \in Nat /\ s < 168
    /\ date_ist(SlotTime(due, s)) = date_ist(due) + d
    /\ is_execution_legal("upi_autopay", SlotTime(due, s))
    /\ s >= 25 <=> (d # 1 \/ hour_ist(due) <= 480)

(* Every retry day gives such a slot.                                        *)
LEMMA ControlSlotIs ==
    ASSUME NEW due \in Int, NEW d \in {1, 3, 5}
    PROVE  OnItsDay(due, d, control_slot(due, d))
<1> DEFINE s == control_slot(due, d)
           day == date_ist(due)
           m == hour_ist(due)
           t == SlotTime(due, s)
           x == (day + d) * Day + CONTROL_HOUR_IST * Hour
<1>1. day \in Int /\ m \in 0 .. 1439 /\ due = 1440 * day + m
  BY Clock
<1>2. x = 1440 * (day + d) + 540
  BY <1>1, SMT DEF Day, Hour, CONTROL_HOUR_IST
<1>3. s = (x - due) \div Hour
  BY DEF control_slot, HoursFrom
<1> HIDE DEF day, m, x
<1>4. x - due \in Int /\ x - due = 1440 * d + 540 - m
  BY <1>1, <1>2
<1>5. s \in Int /\ \A n \in Int : n <= s <=> 60 * n <= x - due
  BY <1>3, <1>4, Hours60
<1> HIDE DEF s
<1>6. 60 * s <= x - due /\ x - due < 60 * s + 60
  <2>1. s <= s /\ ~(s + 1 <= s) /\ s + 1 \in Int
    BY <1>5
  <2>2. 60 * s <= x - due /\ ~(60 * (s + 1) <= x - due)
    BY <1>5, <2>1
  <2> QED
    BY <1>4, <1>5, <2>2
<1>7. t = due + 60 * s /\ t \in Int
  BY <1>5, HourTimes DEF SlotTime
<1> HIDE DEF t
<1>8. s \in Nat /\ s < 168
  BY <1>1, <1>4, <1>5, <1>6
<1>9. s >= 25 <=> (d # 1 \/ m <= 480)
  BY <1>1, <1>4, <1>5, <1>6
<1>10. 1440 * (day + d) + 480 < t /\ t <= 1440 * (day + d) + 540
  BY <1>1, <1>2, <1>4, <1>5, <1>6, <1>7
<1>11. date_ist(t) = day + d /\ hour_ist(t) \in 0 .. 1439 /\ hour_ist(t) <= 540
  <2> DEFINE E == date_ist(t)
             h == hour_ist(t)
  <2>1. E \in Int /\ h \in 0 .. 1439 /\ t = 1440 * E + h
    BY <1>7, Clock
  <2> HIDE DEF E, h
  <2>2. h \in Int /\ 0 <= h /\ h <= 1439
    BY <2>1
  <2>3. day + d \in Int
    BY <1>1
  <2>4. E = day + d /\ h <= 540
    <3> DEFINE dd == day + d
    <3>1. dd \in Int /\ 1440 * dd + 480 < 1440 * E + h /\ 1440 * E + h <= 1440 * dd + 540
      BY <1>10, <2>1, <2>3
    <3> HIDE DEF dd
    <3>2. E = dd
      BY <2>1, <2>2, <3>1
    <3> QED
      BY <2>1, <2>2, <3>1, <3>2 DEF dd
  <2> QED
    BY <2>1, <2>4 DEF E, h
<1>12. is_execution_legal("upi_autopay", t)
  <2>1. hour_ist(t) < 10 * Hour
    <3> DEFINE h == hour_ist(t)
    <3>1. h \in 0 .. 1439 /\ h <= 540
      BY <1>11
    <3> HIDE DEF h
    <3>2. h < 10 * Hour
      BY <3>1, SMT DEF Hour
    <3> QED
      BY <3>2 DEF h
  <2> QED
    BY <2>1 DEF is_execution_legal, UpiWindow
<1> QED
  BY <1>8, <1>9, <1>11, <1>12 DEF OnItsDay, day, m, t, s

(* All three are within the window: none is dropped.                         *)
ControlOf(due) == [i \in 1 .. 3 |-> control_slot(due, BASELINE_RETRY_DAYS[i])]

(* They are the slots of the arm.                                            *)
LEMMA ControlSlotsAre ==
    ASSUME NEW due \in Int
    PROVE  /\ control_slots(due, Window) = ControlOf(due)
           /\ ControlOf(due) \in Seq(Int) /\ Len(ControlOf(due)) = 3
           /\ OnItsDay(due, 1, ControlOf(due)[1])
           /\ OnItsDay(due, 3, ControlOf(due)[2])
           /\ OnItsDay(due, 5, ControlOf(due)[3])
<1> DEFINE list == ControlOf(due)
           S == 0 .. Window - 1
           kept == Kept(list, S)
<1>1. DOMAIN BASELINE_RETRY_DAYS = 1 .. 3
  BY DEF BASELINE_RETRY_DAYS
<1>2. control_slots(due, Window) = kept
  BY <1>1 DEF control_slots, ControlOf
<1>3. BASELINE_RETRY_DAYS[1] = 1 /\ BASELINE_RETRY_DAYS[2] = 3 /\ BASELINE_RETRY_DAYS[3] = 5
  BY DEF BASELINE_RETRY_DAYS
<1>4. /\ OnItsDay(due, 1, control_slot(due, 1)) /\ OnItsDay(due, 3, control_slot(due, 3))
      /\ OnItsDay(due, 5, control_slot(due, 5))
  BY ControlSlotIs
<1>5. /\ list[1] = control_slot(due, 1) /\ list[2] = control_slot(due, 3)
      /\ list[3] = control_slot(due, 5)
  BY <1>3 DEF ControlOf
<1>6. /\ OnItsDay(due, 1, list[1]) /\ OnItsDay(due, 3, list[2]) /\ OnItsDay(due, 5, list[3])
  BY <1>4, <1>5
<1>7. \A i \in 1 .. 3 : list[i] \in Nat /\ list[i] < 168
  BY <1>6 DEF OnItsDay
<1>8. list \in Seq(Int) /\ Len(list) = 3
  <2>1. list = [i \in 1 .. 3 |-> list[i]]
    BY DEF ControlOf
  <2>2. \A i \in 1 .. 3 : list[i] \in Int
    BY <1>7
  <2> HIDE DEF list
  <2>3. list \in [1 .. 3 -> Int]
    BY <2>1, <2>2
  <2>4. list \in Seq(Int)
    <3>1. list \in UNION {[1 .. n -> Int] : n \in Nat}
      BY <2>3
    <3> QED
      BY <3>1, SeqDef
  <2> QED
    BY <2>3, <2>4
<1>9. Window \in Nat /\ 168 <= Window
  <2>1. DUNNING_WINDOW_DAYS * 24 = 168
    BY DEF DUNNING_WINDOW_DAYS
  <2>2. Window \in 168 .. 365 * 24
    BY <2>1, WindowAssumption
  <2> QED
    BY SMT, <2>2
<1> HIDE DEF list
<1>10. \A i \in 1 .. Len(list) : list[i] \in S
  BY <1>7, <1>8, <1>9
<1> HIDE DEF S
<1>11. KeptOf(list, S, Len(list), kept)
  BY <1>8, KeptIs
<1> HIDE DEF kept
<1>12. kept \in Seq(S \cap Int) /\ Len(kept) = 3 /\ \A i \in 1 .. 3 : kept[i] = list[i]
  BY <1>8, <1>10, <1>11 DEF KeptOf
<1>13. kept \in [1 .. 3 -> S \cap Int] /\ list \in [1 .. 3 -> Int]
  <2>1. kept \in [1 .. Len(kept) -> S \cap Int] /\ list \in [1 .. Len(list) -> Int]
    BY <1>8, <1>12, LenProperties
  <2> QED
    BY <1>8, <1>12, <2>1
<1>14. kept = list
  BY <1>12, <1>13
<1> QED
  BY <1>2, <1>6, <1>8, <1>14 DEF list, kept

(* What the control arm spends on one cycle, from its due time alone: it is  *)
(* denied its first attempt exactly when the cycle is due after 08:00 IST.   *)
LEMMA ControlSpends ==
    ASSUME NEW c, c.due \in Int
    PROVE  LET slots == control_slots(c.due, Window)
               r == run_arm(c, slots, Window)
           IN  /\ r.gate_denials = (IF hour_ist(c.due) > 8 * Hour THEN 1 ELSE 0)
               /\ ~r.recovered => Len(r.decision_slots) + r.gate_denials = 3
               /\ \A i \in DOMAIN r.decision_slots :
                     LET t == SlotTime(c.due, r.decision_slots[i]) IN
                     /\ date_ist(t) - date_ist(c.due) \in {1, 3, 5}
                     /\ is_execution_legal("upi_autopay", t)
                     /\ t - c.due >= NoticeLead
<1> DEFINE due == c.due
           slots == control_slots(due, Window)
           list == ControlOf(due)
           tried == SubSeq(slots, 1, IF Len(slots) < ATTEMPT_BUDGET THEN Len(slots) ELSE ATTEMPT_BUDGET)
           legal == legal_mask(due, Window)
           funds == funds_present(c, Window)
           hits == {i \in DOMAIN tried : tried[i] \in legal /\ tried[i] \in funds}
           seen == IF hits = {} THEN tried ELSE SubSeq(tried, 1, Smallest(hits))
           kept == Kept(seen, legal)
           denied == {i \in DOMAIN seen : seen[i] \notin legal}
           late == hour_ist(due) > 480
           Retry(s) == \E d \in {1, 3, 5} : OnItsDay(due, d, s)
<1>1. run_arm(c, slots, Window) =
         [recovered |-> hits # {}, decision_slots |-> kept, gate_denials |-> Cardinality(denied)]
  BY DEF run_arm
<1>0. due \in Int
  OBVIOUS
<1> HIDE DEF due
<1>2. due \in Int /\ hour_ist(due) \in 0 .. 1439 /\ date_ist(due) \in Int
  <2>1. /\ date_ist(due) \in Int /\ hour_ist(due) \in 0 .. 1439
        /\ due = 1440 * date_ist(due) + hour_ist(due)
    BY <1>0, Clock
  <2> QED
    BY <1>0, <2>1
<1>3. /\ slots = list /\ list \in Seq(Int) /\ Len(list) = 3
      /\ OnItsDay(due, 1, list[1]) /\ OnItsDay(due, 3, list[2]) /\ OnItsDay(due, 5, list[3])
  BY <1>2, ControlSlotsAre
<1> HIDE DEF slots, list, funds
<1>4. tried = list
  <2>1. tried = SubSeq(list, 1, 3)
    BY <1>3 DEF ATTEMPT_BUDGET
  <2> DEFINE I == 1 .. 3
  <2>2. list \in [I -> Int]
    BY <1>3, LenProperties
  <2>3. SubSeq(list, 1, 3) = [i \in I |-> list[i]]
    BY <1>3
  <2> HIDE DEF I
  <2>4. list = [i \in I |-> list[i]]
    BY <2>2
  <2> QED
    BY <2>1, <2>3, <2>4
<1> HIDE DEF tried
<1>5. ASSUME NEW s, NEW d \in {1, 3, 5}, OnItsDay(due, d, s)
      PROVE  s \in legal <=> (d # 1 \/ ~late)
  <2>1. s \in Nat /\ s < 168 /\ is_execution_legal("upi_autopay", SlotTime(due, s))
    BY <1>5 DEF OnItsDay
  <2>2. s >= 25 <=> (d # 1 \/ ~late)
    BY <1>2, <1>5 DEF OnItsDay
  <2>3. Window \in Nat /\ 168 <= Window
    <3>1. DUNNING_WINDOW_DAYS * 24 = 168
      BY DEF DUNNING_WINDOW_DAYS
    <3>2. Window \in 168 .. 365 * 24
      BY <3>1, WindowAssumption
    <3> QED
      BY SMT, <3>2
  <2>4. s \in 0 .. Window - 1 /\ s < DUNNING_WINDOW_DAYS * 24
    BY <2>1, <2>3 DEF DUNNING_WINDOW_DAYS
  <2>5. s \in legal <=> s >= PDN_LEAD_HOURS
    BY <2>1, <2>4 DEF legal_mask
  <2> QED
    BY <2>2, <2>5 DEF PDN_LEAD_HOURS
<1> HIDE DEF legal, late
<1>6. /\ list[1] \in legal <=> ~late
      /\ list[2] \in legal /\ list[3] \in legal
  BY <1>3, <1>5
<1>7. \A i \in 1 .. 3 : Retry(list[i])
  BY <1>3
<1>8. PICK k \in 1 .. 3 : /\ seen \in Seq(Int) /\ Len(seen) = k
                          /\ \A i \in 1 .. k : seen[i] = list[i]
                          /\ hits = {} => k = 3
  <2>1. CASE hits = {}
    <3>1. seen = list
      BY <1>4, <2>1
    <3> HIDE DEF seen, hits
    <3> QED
      BY <1>3, <2>1, <3>1
  <2>2. CASE hits # {}
    <3> DEFINE h == Smallest(hits)
    <3>1. hits \in SUBSET Nat /\ hits \subseteq 1 .. 3
      BY <1>3, <1>4
    <3> HIDE DEF hits
    <3>2. h \in hits
      <4>1. \E n \in hits : \A m \in hits : n <= m
        BY <2>2, <3>1, LeastExists
      <4> QED
        BY <4>1 DEF Smallest
    <3>3. seen = SubSeq(list, 1, h)
      BY <1>4, <2>2
    <3> HIDE DEF seen, h
    <3>4. h \in 1 .. 3
      BY <3>1, <3>2
    <3>5. seen \in Seq(Int) /\ Len(seen) = h /\ \A i \in 1 .. h : seen[i] = list[i]
      BY <1>3, <3>3, <3>4
    <3> QED
      BY <2>2, <3>4, <3>5
  <2> QED
    BY <2>1, <2>2
<1> HIDE DEF hits, seen
<1>9. DOMAIN seen = 1 .. k
  BY <1>8
<1>10. Cardinality(denied) = IF late THEN 1 ELSE 0
  <2>1. \A i \in 1 .. k : seen[i] \notin legal <=> i = 1 /\ late
    <3>1. ASSUME NEW i \in 1 .. k PROVE seen[i] \notin legal <=> i = 1 /\ late
      <4>1. i = 1 \/ i = 2 \/ i = 3
        BY <1>8
      <4> QED
        BY <1>6, <1>8, <4>1
    <3> QED
      BY <3>1
  <2>2. CASE late
    <3>1. denied = {1}
      BY <1>8, <1>9, <2>1, <2>2
    <3>2. Cardinality({1}) = 1
      BY FS_Singleton
    <3> QED
      BY <2>2, <3>1, <3>2
  <2>3. CASE ~late
    <3>1. denied = {}
      BY <1>9, <2>1, <2>3
    <3> QED
      BY <2>3, <3>1, FS_EmptySet
  <2> QED
    BY <2>2, <2>3
<1>11. KeptOf(seen, legal, k, kept)
  BY <1>8, KeptIs
<1> HIDE DEF kept
<1>12. Len(kept) + Cardinality(denied) = k
  BY <1>9, <1>11 DEF KeptOf
<1>13. kept \in Seq(legal \cap Int) /\ \A j \in 1 .. Len(kept) : \E i \in 1 .. k : kept[j] = seen[i]
  BY <1>11 DEF KeptOf
<1> HIDE DEF denied
<1>14. ASSUME NEW i \in DOMAIN kept
       PROVE  /\ date_ist(SlotTime(due, kept[i])) - date_ist(due) \in {1, 3, 5}
              /\ is_execution_legal("upi_autopay", SlotTime(due, kept[i]))
              /\ SlotTime(due, kept[i]) - due >= NoticeLead
  <2> DEFINE s == kept[i]
  <2>1. s \in legal /\ i \in 1 .. Len(kept)
    BY <1>13, LenProperties
  <2>2. PICK j \in 1 .. k : s = seen[j]
    BY <1>13, <2>1
  <2>3. j \in 1 .. 3 /\ s = list[j]
    BY <1>8, <2>2
  <2>4. Retry(s)
    BY <1>7, <2>3
  <2> HIDE DEF s
  <2>5. PICK d \in {1, 3, 5} : OnItsDay(due, d, s)
    BY <2>4
  <2>6. d # 1 \/ ~late
    BY <1>5, <2>1, <2>5
  <2>7. /\ s \in Nat /\ s >= 25 /\ date_ist(SlotTime(due, s)) = date_ist(due) + d
        /\ is_execution_legal("upi_autopay", SlotTime(due, s))
    BY <1>2, <2>5, <2>6 DEF OnItsDay, late
  <2>8. SlotTime(due, s) - due >= NoticeLead
    <3>1. SlotTime(due, s) = due + 60 * s
      BY <2>7, HourTimes DEF SlotTime
    <3>2. NoticeLead = 1440
      BY DEF NoticeLead, Hour
    <3> QED
      BY <1>2, <2>7, <3>1, <3>2
  <2>9. date_ist(SlotTime(due, s)) - date_ist(due) \in {1, 3, 5}
    BY <1>2, <2>7
  <2> QED
    BY <2>7, <2>8, <2>9 DEF s
<1> DEFINE r == run_arm(c, slots, Window)
<1>15. r.recovered = (hits # {}) /\ r.decision_slots = kept /\ r.gate_denials = Cardinality(denied)
  BY <1>1
<1> HIDE DEF r
<1>16. r.gate_denials = (IF hour_ist(due) > 8 * Hour THEN 1 ELSE 0)
  <2>1. 8 * Hour = 480
    BY DEF Hour
  <2> QED
    BY <1>10, <1>15, <2>1 DEF late
<1>17. ~r.recovered => Len(r.decision_slots) + r.gate_denials = 3
  BY <1>8, <1>12, <1>15
<1>18. \A i \in DOMAIN r.decision_slots :
          /\ date_ist(SlotTime(due, r.decision_slots[i])) - date_ist(due) \in {1, 3, 5}
          /\ is_execution_legal("upi_autopay", SlotTime(due, r.decision_slots[i]))
          /\ SlotTime(due, r.decision_slots[i]) - due >= NoticeLead
  BY <1>14, <1>15
<1> QED
  BY <1>16, <1>17, <1>18 DEF r, due, slots

(* A generated cycle has a due time, which is all that matters.              *)
LEMMA ControlOfState ==
    TrialsAreFunded => ControlSpendsWhatItMay
<1> SUFFICES ASSUME trial # None, TrialsAreFunded
             PROVE  ControlSpendsWhatItMay
  BY DEF ControlSpendsWhatItMay
<1>1. trial.cycle.due \in Int
  BY DEF TrialsAreFunded, IsFunded
<1> QED
  BY <1>1, ControlSpends DEF ControlSpendsWhatItMay

(* No attempt of the control arm goes astray: each of the three is made, on  *)
(* its day and lawfully, or denied, unless money was found first.            *)
THEOREM ControlSpendsAlways == Spec => []ControlSpendsWhatItMay
<1>1. Spec => []TrialsAreFunded
  BY TrialsInit, TrialsStep, PTL DEF Spec
<1> QED
  BY <1>1, ControlOfState, PTL

-----------------------------------------------------------------------------
(* Mandates as the driver bills them: a month's bill is due within the days *)
(* that are drawn for it, and its state is the last one's after the bill.   *)
Draws == ORIGIN .. ORIGIN + DueSpreadDays * Day - Hour
MandateStates == [consecutive_failures : Nat, days_since_success : Nat, successful_cycles : Nat]
Outcomes == [state : MandateStates, died : BOOLEAN]
Bills == [due : Int, observables : Observables]
BilledLives ==
    [rail : RailNames, cycles : Seq(Bills), state : MandateStates,
     months : Seq(Outcomes), died : BOOLEAN]

Failed(l, i) == initial_debit_failed(l.cycles[i])
StateAfter(l, i) == IF i = 0 THEN Healthy ELSE l.months[i].state

IsLife(l) ==
    /\ l \in BilledLives
    /\ Len(l.months) = Len(l.cycles)
    /\ l.state = StateAfter(l, Len(l.cycles))
    /\ \A i \in 1 .. Len(l.cycles) :
        /\ l.cycles[i].due - (i - 1) * BillingDays * Day \in Draws
        /\ l.months[i].state = After(StateAfter(l, i - 1), Failed(l, i))
        /\ l.months[i].died = (l.died /\ i = Len(l.cycles))

LivesAreBilled == lives # None => lives \in Seq({l \in BilledLives : IsLife(l)})

(* The draws are instants, from the origin on.                               *)
LEMMA DrawsAre ==
    \E span \in Nat : /\ ORIGIN \in Int /\ span = 40260
                      /\ Draws = ORIGIN .. ORIGIN + span
                      /\ ORIGIN + 27 * Day + 23 * Hour = ORIGIN + span
<1> DEFINE span == DueSpreadDays * Day - Hour
<1>1. ORIGIN \in Int /\ span = 40260
  BY SMT DEF ORIGIN, Day, Hour, DueSpreadDays
<1>2. Draws = ORIGIN .. ORIGIN + span
  <2>1. ORIGIN + DueSpreadDays * Day - Hour = ORIGIN + span
    BY SMT DEF ORIGIN, Day, Hour, DueSpreadDays
  <2> QED
    BY <2>1 DEF Draws
<1>3. 27 * Day + 23 * Hour = span
  BY SMT DEF Day, Hour, DueSpreadDays
<1>4. ORIGIN + 27 * Day + 23 * Hour = ORIGIN + span
  BY <1>3, SMT DEF ORIGIN, Day, Hour, DueSpreadDays
<1> HIDE DEF span
<1> QED
  BY <1>1, <1>2, <1>4

(* A debit fails or is captured, and not both.                               *)
LEMMA FailedOrCaptured ==
    ASSUME NEW c, c.observables \in Observables
    PROVE  has_event(c, "payment.failed") <=> ~has_event(c, "payment.captured")
<1>1. PICK due \in Int, cause \in {Nothing, "no_funds"} : c.observables = emit_events(due, cause, FALSE)
  BY DEF Observables
<1> DEFINE first == [event |-> "subscription.authenticated", at |-> due - Day]
           second == IF cause = Nothing THEN [event |-> "payment.captured", at |-> due]
                     ELSE [event |-> "payment.failed", at |-> due, code |-> emit_code(cause, FALSE)]
<1>2. c.observables = <<first, second>>
  BY <1>1 DEF emit_events
<1>3. first.event = "subscription.authenticated"
  OBVIOUS
<1>4. second.event = "payment.captured" \/ second.event = "payment.failed"
  OBVIOUS
<1> HIDE DEF first, second
<1>5. /\ DOMAIN c.observables = {1, 2}
      /\ c.observables[1].event = first.event /\ c.observables[2].event = second.event
  BY <1>2
<1>6. \A e \in {"payment.failed", "payment.captured"} : has_event(c, e) <=> second.event = e
  <2>1. ASSUME NEW e, e # first.event
        PROVE  (\E i \in {1, 2} : c.observables[i].event = e) <=> second.event = e
    BY <1>5, <2>1
  <2> QED
    BY <1>3, <1>5, <2>1 DEF has_event
<1>7. has_event(c, "payment.failed") <=> second.event = "payment.failed"
  BY <1>6
<1>8. has_event(c, "payment.captured") <=> second.event = "payment.captured"
  BY <1>6
<1>9. CASE second.event = "payment.captured"
  <2>1. second.event # "payment.failed"
    BY <1>9
  <2> QED
    BY <1>7, <1>8, <1>9, <2>1, Zenon
<1>10. CASE second.event = "payment.failed"
  <2>1. second.event # "payment.captured"
    BY <1>10
  <2> QED
    BY <1>7, <1>8, <1>10, <2>1, Zenon
<1> QED
  BY <1>4, <1>9, <1>10, Zenon

(* The state after a bill is one of a mandate.                               *)
LEMMA AfterType ==
    ASSUME NEW s \in MandateStates, NEW failed \in BOOLEAN
    PROVE  After(s, failed) \in MandateStates
<1>1. CASE failed
  <2> DEFINE f == s.consecutive_failures + 1
             d == s.days_since_success + BillingDays
  <2>1. f \in Nat /\ d \in Nat
    BY DEF MandateStates, BillingDays
  <2>2. After(s, failed) = [s EXCEPT !.consecutive_failures = f, !.days_since_success = d]
    BY <1>1 DEF After
  <2> HIDE DEF f, d
  <2> QED
    BY <2>1, <2>2 DEF MandateStates
<1>2. CASE ~failed
  BY <1>2 DEF After, MandateStates
<1> QED
  BY <1>1, <1>2

(* A month's bill is one more of the kind.                                   *)
LEMMA BillIsLife ==
    ASSUME NEW l, IsLife(l), ~l.died, NEW drawn \in Draws, NEW cause \in {Nothing, "no_funds"},
           NEW dies \in BOOLEAN
    PROVE  IsLife(generate_lifecycle(l, drawn, cause, dies))
<1> DEFINE n == Len(l.cycles)
           due == drawn + n * BillingDays * Day
           bill == [due |-> due, observables |-> emit_events(drawn, cause, FALSE)]
           failed == initial_debit_failed(bill)
           state == After(l.state, failed)
           month == [state |-> state, died |-> dies]
           q == generate_lifecycle(l, drawn, cause, dies)
<1>1. /\ l \in BilledLives /\ n \in Nat /\ Len(l.months) = n
      /\ l.cycles \in Seq(Bills)
      /\ l.months \in Seq(Outcomes)
      /\ l.state \in MandateStates /\ l.rail \in RailNames
  BY DEF IsLife, BilledLives
<1>2. drawn \in Int
  BY DrawsAre
<1>3. due \in Int /\ due - n * BillingDays * Day = drawn
  BY <1>1, <1>2, SMT DEF BillingDays, Day, Hour
<1>4. emit_events(drawn, cause, FALSE) \in Observables
  BY <1>2 DEF Observables
<1>5. bill \in Bills /\ bill.due = due
  BY <1>3, <1>4 DEF Bills
<1>6. failed \in BOOLEAN
  BY DEF initial_debit_failed, has_event
<1>7. q = [l EXCEPT !.cycles = Append(l.cycles, bill), !.state = state,
                    !.months = Append(l.months, month), !.died = dies]
  BY DEF generate_lifecycle
<1> HIDE DEF due, bill, failed, q
<1>8. state \in MandateStates
  BY <1>1, <1>6, AfterType
<1>9. month \in Outcomes /\ month.state = state /\ month.died = dies
  BY <1>8 DEF Outcomes
<1> HIDE DEF state, month
<1>10. /\ q.cycles = Append(l.cycles, bill) /\ q.state = state
       /\ q.months = Append(l.months, month) /\ q.died = dies /\ q.rail = l.rail
  BY <1>1, <1>7 DEF BilledLives
<1>11. /\ q.cycles \in Seq(Bills) /\ Len(q.cycles) = n + 1
       /\ q.months \in Seq(Outcomes) /\ Len(q.months) = n + 1
  BY <1>1, <1>5, <1>9, <1>10
<1>12. q \in BilledLives
  BY <1>1, <1>7, <1>8, <1>10, <1>11 DEF BilledLives
<1>13. q.cycles[n + 1] = bill /\ q.months[n + 1] = month
  BY <1>1, <1>10
<1>14. ASSUME NEW i \in 1 .. n PROVE q.cycles[i] = l.cycles[i] /\ q.months[i] = l.months[i]
  BY <1>1, <1>10
<1>15. q.state = StateAfter(q, n + 1)
  BY <1>1, <1>9, <1>10, <1>13 DEF StateAfter
<1>16. StateAfter(q, n) = l.state
  <2>1. l.state = StateAfter(l, n)
    BY DEF IsLife
  <2>2. CASE n = 0
    BY <2>1, <2>2 DEF StateAfter
  <2>3. CASE n # 0
    <3>1. n \in 1 .. n
      BY <1>1, <2>3
    <3> QED
      BY <2>1, <2>3, <3>1, <1>14 DEF StateAfter
  <2> QED
    BY <2>2, <2>3
<1>17. ASSUME NEW i \in 1 .. n + 1
       PROVE  /\ q.cycles[i].due - (i - 1) * BillingDays * Day \in Draws
              /\ q.months[i].state = After(StateAfter(q, i - 1), Failed(q, i))
              /\ q.months[i].died = (q.died /\ i = n + 1)
  <2>1. CASE i = n + 1
    <3>1. i - 1 = n
      BY <1>1, <2>1
    <3>2. q.cycles[i].due - (i - 1) * BillingDays * Day \in Draws
      <4>1. (i - 1) * BillingDays * Day = n * BillingDays * Day
        BY <3>1
      <4> QED
        BY <1>3, <1>5, <1>13, <2>1, <4>1
    <3>3. Failed(q, i) = failed
      BY <1>13, <2>1 DEF Failed, failed
    <3>4. q.months[i].state = After(StateAfter(q, i - 1), Failed(q, i))
      BY <1>9, <1>13, <1>16, <2>1, <3>1, <3>3 DEF state
    <3>5. q.months[i].died = (q.died /\ i = n + 1)
      BY <1>9, <1>10, <1>13, <2>1
    <3> QED
      BY <3>2, <3>4, <3>5
  <2>2. CASE i \in 1 .. n
    <3>1. q.cycles[i] = l.cycles[i] /\ q.months[i] = l.months[i]
      BY <1>14, <2>2
    <3>2. /\ l.cycles[i].due - (i - 1) * BillingDays * Day \in Draws
          /\ l.months[i].state = After(StateAfter(l, i - 1), Failed(l, i))
          /\ l.months[i].died = (l.died /\ i = n)
      BY <2>2 DEF IsLife
    <3>3. StateAfter(q, i - 1) = StateAfter(l, i - 1)
      <4>1. CASE i = 1
        BY <4>1 DEF StateAfter
      <4>2. CASE i # 1
        <5>1. i - 1 \in 1 .. n /\ i - 1 # 0
          BY <1>1, <2>2, <4>2
        <5> QED
          BY <5>1, <1>14 DEF StateAfter
      <4> QED
        BY <4>1, <4>2
    <3>4. Failed(q, i) = Failed(l, i)
      BY <3>1 DEF Failed
    <3>5. i # n + 1
      BY <1>1, <2>2
    <3>6. q.months[i].died = (q.died /\ i = n + 1)
      BY <3>1, <3>2, <3>5, Zenon
    <3>7. q.cycles[i].due - (i - 1) * BillingDays * Day \in Draws
      BY <3>1, <3>2
    <3>8. q.months[i].state = After(StateAfter(q, i - 1), Failed(q, i))
      BY <3>1, <3>2, <3>3, <3>4
    <3> QED
      BY <3>6, <3>7, <3>8
  <2> QED
    BY <1>1, <2>1, <2>2
<1>18. IsLife(q)
  BY <1>11, <1>12, <1>15, <1>17 DEF IsLife
<1> QED
  BY <1>18 DEF q

(* Nobody is billed at first,                                                *)
LEMMA LivesInit == Init => LivesAreBilled
<1> SUFFICES ASSUME Init, lives # None
             PROVE  lives \in Seq({l \in BilledLives : IsLife(l)})
  BY DEF LivesAreBilled
<1>1. lives = <<>>
  BY DEF Init, Given
<1> QED
  BY <1>1

(* the next mandate has not been billed,                                     *)
LEMMA EnrolledIsLife ==
    ASSUME NEW rail \in RailNames
    PROVE  IsLife(Enrolled(rail))
<1>1. Healthy \in MandateStates
  BY DEF Healthy, MandateStates
<1>2. <<>> \in Seq(Bills)
      /\ <<>> \in Seq(Outcomes) /\ Len(<<>>) = 0
  OBVIOUS
<1>3. Enrolled(rail) \in BilledLives
  BY <1>1, <1>2 DEF Enrolled, BilledLives
<1> DEFINE e == <<>>
<1>4. Enrolled(rail) = [rail |-> rail, cycles |-> e, state |-> Healthy, months |-> e, died |-> FALSE]
  BY DEF Enrolled
<1>5. Len(e) = 0
  BY <1>2
<1> HIDE DEF e
<1> QED
  BY <1>3, <1>4, <1>5 DEF IsLife, StateAfter

(* and each bill leaves the mandates of the kind.                            *)
LEMMA LivesStep == LivesAreBilled /\ [Next]_vars => LivesAreBilled'
<1> DEFINE L == {l \in BilledLives : IsLife(l)}
<1> SUFFICES ASSUME LivesAreBilled, [Next]_vars
             PROVE  LivesAreBilled'
  OBVIOUS
<1>1. CASE Enrol
  <2>1. lives # None /\ lives \in Seq(L)
    BY <1>1 DEF Enrol, LivesAreBilled
  <2>2. PICK rail \in {"upi_autopay", "enach"} : lives' = Append(lives, Enrolled(rail))
    BY <1>1 DEF Enrol
  <2>3. Enrolled(rail) \in L
    <3>1. rail \in RailNames
      BY DEF RailNames
    <3> QED
      BY <3>1, EnrolledIsLife DEF IsLife
  <2> HIDE DEF L
  <2>4. lives' \in Seq(L)
    BY <2>1, <2>2, <2>3
  <2> QED
    BY <2>4 DEF LivesAreBilled, L
<1>2. CASE Bill
  <2> DEFINE n == Len(lives)
             l == lives[n]
  <2>1. lives # None /\ lives \in Seq(L) /\ lives # <<>>
    BY <1>2 DEF Bill, LivesAreBilled
  <2>2. n \in Nat /\ n \in DOMAIN lives
    <3> HIDE DEF L
    <3> QED
      BY <2>1
  <2>3. l \in L
    <3> HIDE DEF L
    <3> QED
      BY <2>1, <2>2
  <2>4. IsLife(l)
    BY <2>3
  <2>5. ~l.died
    BY <1>2 DEF Bill, Observing, Last
  <2>6. PICK drawn \in DrawnDues(n), cause \in {Nothing, "no_funds"}, dies \in BOOLEAN :
           lives' = [lives EXCEPT ![n] = generate_lifecycle(l, drawn, cause, dies)]
    BY <1>2 DEF Bill, revocation_roll
  <2>7. drawn \in Draws
    <3>1. drawn = ORIGIN \/ drawn = ORIGIN + 27 * Day + 23 * Hour
      <4>1. drawn = DueAt(0, 0) \/ drawn = DueAt(DueSpreadDays - 1, 23)
        BY <2>6, Zenon DEF DrawnDues
      <4>2. DueAt(0, 0) = ORIGIN /\ DueAt(27, 23) = ORIGIN + 27 * Day + 23 * Hour
        BY SMT DEF DueAt, ORIGIN, Day, Hour
      <4>3. DueSpreadDays - 1 = 27
        BY DEF DueSpreadDays
      <4>4. DueAt(DueSpreadDays - 1, 23) = DueAt(27, 23)
        BY <4>3
      <4> QED
        BY <4>1, <4>2, <4>4, Zenon
    <3> QED
      BY <3>1, DrawsAre
  <2> DEFINE q == generate_lifecycle(l, drawn, cause, dies)
  <2>8. q \in L
    <3> HIDE DEF l
    <3>1. IsLife(q)
      BY <2>4, <2>5, <2>7, BillIsLife
    <3> HIDE DEF q
    <3> QED
      BY <3>1 DEF IsLife
  <2> HIDE DEF q, l, L
  <2>9. lives' = [lives EXCEPT ![n] = q]
    BY <2>6 DEF q, l
  <2>10. lives' \in Seq(L)
    BY <2>1, <2>2, <2>8, <2>9
  <2> QED
    BY <2>10 DEF LivesAreBilled, L
<1>3. CASE UNCHANGED lives
  BY <1>3 DEF LivesAreBilled
<1> QED
  BY <1>1, <1>2, <1>3 DEF vars, Next, AddSlot, AddCycle, AddUnit, Attempts

(* The settled months of the first i, and the run of failures since.         *)
Settled(l, i) == {j \in 1 .. i : ~initial_debit_failed(l.cycles[j])}

(* The largest member is one, and not below any other.                       *)
LEMMA LargestIs ==
    ASSUME NEW n \in Nat, NEW S \in SUBSET (1 .. n), S # {}
    PROVE  Largest(S) \in S /\ \A j \in S : j <= Largest(S)
<1>1. \E i \in S : \A j \in S : j <= i
  BY GreatestExists
<1> QED
  BY <1>1 DEF Largest

(* The settled months of the first i, counted.                               *)
LEMMA SettledIs ==
    ASSUME NEW l, NEW i \in Nat
    PROVE  /\ Settled(l, i) \in SUBSET (1 .. i) /\ IsFiniteSet(Settled(l, i))
           /\ Cardinality(Settled(l, i)) \in Nat
           /\ Unsettled(l, i) \in Nat
           /\ Unsettled(l, i) = IF Settled(l, i) = {} THEN i ELSE i - Largest(Settled(l, i))
           /\ Settled(l, i) # {} <=> Cardinality(Settled(l, i)) > 0
<1>1. Settled(l, i) \in SUBSET (1 .. i)
  BY DEF Settled
<1>2. IsFiniteSet(1 .. i)
  BY FS_Interval
<1>3. IsFiniteSet(Settled(l, i))
  BY <1>1, <1>2, FS_Subset
<1>4. Cardinality(Settled(l, i)) \in Nat
  BY <1>3, FS_CardinalityType
<1>5. Unsettled(l, i) = IF Settled(l, i) = {} THEN i ELSE i - Largest(Settled(l, i))
  BY DEF Unsettled, Settled
<1>6. Settled(l, i) # {} => Largest(Settled(l, i)) \in 1 .. i
  <2> SUFFICES ASSUME Settled(l, i) # {} PROVE Largest(Settled(l, i)) \in 1 .. i
    OBVIOUS
  <2>1. Largest(Settled(l, i)) \in Settled(l, i)
    BY <1>1, LargestIs
  <2> QED
    BY <1>1, <2>1
<1>7. Unsettled(l, i) \in Nat
  BY <1>5, <1>6
<1>8. Cardinality(Settled(l, i)) = 0 <=> Settled(l, i) = {}
  BY <1>3, FS_EmptySet
<1> QED
  BY <1>1, <1>3, <1>4, <1>5, <1>7, <1>8

(* The run, closed: one longer with a failure, over with a settled month.    *)
LEMMA UnsettledStep ==
    ASSUME NEW l, NEW i \in Nat
    PROVE  IF Failed(l, i + 1)
           THEN /\ Unsettled(l, i + 1) = Unsettled(l, i) + 1
                /\ Cardinality(Settled(l, i + 1)) = Cardinality(Settled(l, i))
           ELSE /\ Unsettled(l, i + 1) = 0
                /\ Cardinality(Settled(l, i + 1)) = Cardinality(Settled(l, i)) + 1
<1>1. /\ Settled(l, i) \in SUBSET (1 .. i) /\ IsFiniteSet(Settled(l, i))
      /\ Unsettled(l, i) = IF Settled(l, i) = {} THEN i ELSE i - Largest(Settled(l, i))
      /\ Cardinality(Settled(l, i)) \in Nat
  BY SettledIs
<1>2. /\ Settled(l, i + 1) \in SUBSET (1 .. i + 1)
      /\ Unsettled(l, i + 1) = IF Settled(l, i + 1) = {} THEN i + 1 ELSE (i + 1) - Largest(Settled(l, i + 1))
  <2> DEFINE k == i + 1
  <2>1. k \in Nat
    OBVIOUS
  <2> HIDE DEF k
  <2>2. Settled(l, k) \in SUBSET (1 .. k)
    BY <2>1, SettledIs
  <2>3. Unsettled(l, k) = IF Settled(l, k) = {} THEN k ELSE k - Largest(Settled(l, k))
    BY <2>1, SettledIs
  <2> QED
    BY <2>2, <2>3, Zenon DEF k
<1>3. 1 .. i + 1 = (1 .. i) \cup {i + 1} /\ i + 1 \notin 1 .. i
  OBVIOUS
<1>4. CASE Failed(l, i + 1)
  <2>1. Settled(l, i + 1) = Settled(l, i)
    BY <1>3, <1>4 DEF Settled, Failed
  <2>2. Settled(l, i) # {} => Largest(Settled(l, i)) \in 1 .. i
    <3> SUFFICES ASSUME Settled(l, i) # {} PROVE Largest(Settled(l, i)) \in 1 .. i
      OBVIOUS
    <3>1. Largest(Settled(l, i)) \in Settled(l, i)
      BY <1>1, LargestIs
    <3> QED
      BY <1>1, <3>1
  <2>3. Unsettled(l, i + 1) = Unsettled(l, i) + 1
    <3>1. CASE Settled(l, i) = {}
      BY <1>1, <1>2, <2>1, <3>1
    <3>2. CASE Settled(l, i) # {}
      BY <1>1, <1>2, <2>1, <2>2, <3>2
    <3> QED
      BY <3>1, <3>2
  <2> QED
    BY <1>4, <2>1, <2>3
<1>5. CASE ~Failed(l, i + 1)
  <2>1. Settled(l, i + 1) = Settled(l, i) \cup {i + 1}
    BY <1>3, <1>5 DEF Settled, Failed
  <2>2. i + 1 \notin Settled(l, i)
    BY <1>1, <1>3
  <2>3. Cardinality(Settled(l, i + 1)) = Cardinality(Settled(l, i)) + 1
    BY <1>1, <2>1, <2>2, FS_AddElement
  <2>4. Largest(Settled(l, i + 1)) = i + 1
    <3> DEFINE S == Settled(l, i + 1)
    <3>1. i + 1 \in Nat /\ i + 1 \in S /\ S \in SUBSET (1 .. i + 1)
      BY <1>2, <2>1
    <3> HIDE DEF S
    <3>2. Largest(S) \in S /\ i + 1 <= Largest(S)
      BY <3>1, LargestIs
    <3>3. Largest(S) \in 1 .. i + 1
      BY <3>1, <3>2
    <3> QED
      BY <3>2, <3>3 DEF S
  <2>5. Unsettled(l, i + 1) = 0
    BY <1>2, <2>1, <2>4
  <2> QED
    BY <1>5, <2>3, <2>5
<1> QED
  BY <1>4, <1>5

(* What the fit reads off the events of i months.                            *)
Read(l, i) == [consecutive_failures |-> Unsettled(l, i), days_since_success |-> BillingDays * Unsettled(l, i),
               successful_cycles |-> Cardinality(Settled(l, i))]

(* It is the state the mandate was in: what the generator counts up month    *)
(* by month.                                                                 *)
LEMMA StatesAreRead ==
    ASSUME NEW l, IsLife(l)
    PROVE  \A i \in 0 .. Len(l.cycles) : StateAfter(l, i) = Read(l, i)
<1> DEFINE n == Len(l.cycles)
           Good == {i \in Nat : i <= n => StateAfter(l, i) = Read(l, i)}
<1>1. n \in Nat
  BY DEF IsLife, BilledLives
<1>2. 0 \in Good
  <2>1. Settled(l, 0) = {}
    BY DEF Settled
  <2>2. Unsettled(l, 0) = 0
    BY <2>1, SettledIs
  <2>3. Cardinality(Settled(l, 0)) = 0
    BY <2>1, FS_EmptySet
  <2>4. StateAfter(l, 0) = Read(l, 0)
    BY <2>2, <2>3 DEF StateAfter, Read, Healthy, BillingDays
  <2> QED
    BY <2>4
<1>3. ASSUME NEW i \in Nat, i \in Good PROVE i + 1 \in Good
  <2> SUFFICES ASSUME i + 1 <= n PROVE StateAfter(l, i + 1) = Read(l, i + 1)
    OBVIOUS
  <2>1. i + 1 \in 1 .. n /\ (i + 1) - 1 = i /\ i + 1 # 0 /\ i <= n
    BY <1>1
  <2>2. StateAfter(l, i) = Read(l, i)
    BY <1>3, <2>1
  <2>3. l.months[i + 1].state = After(StateAfter(l, i), Failed(l, i + 1))
    BY <2>1 DEF IsLife
  <2>4. StateAfter(l, i + 1) = After(Read(l, i), Failed(l, i + 1))
    BY <2>1, <2>2, <2>3 DEF StateAfter
  <2> DEFINE u == Unsettled(l, i)
             c == Cardinality(Settled(l, i))
  <2>5. u \in Nat /\ c \in Nat
    BY SettledIs
  <2>6. BillingDays * (u + 1) = BillingDays * u + BillingDays /\ BillingDays * 0 = 0
    BY <2>5 DEF BillingDays
  <2>7. CASE Failed(l, i + 1)
    <3>1. Unsettled(l, i + 1) = u + 1 /\ Cardinality(Settled(l, i + 1)) = c
      BY <2>7, UnsettledStep
    <3>2. Read(l, i) = [consecutive_failures |-> u, days_since_success |-> BillingDays * u, successful_cycles |-> c]
      BY DEF Read
    <3>3. After(Read(l, i), Failed(l, i + 1)) =
             [consecutive_failures |-> u + 1, days_since_success |-> BillingDays * u + BillingDays,
              successful_cycles |-> c]
      <4> DEFINE d == BillingDays * u
      <4> HIDE DEF u, c, d
      <4> DEFINE r == [consecutive_failures |-> u, days_since_success |-> d, successful_cycles |-> c]
      <4>1. After(r, TRUE) = [consecutive_failures |-> u + 1, days_since_success |-> d + BillingDays,
                              successful_cycles |-> c]
        BY DEF After
      <4>2. Read(l, i) = r
        BY <3>2 DEF d
      <4>3. After(Read(l, i), Failed(l, i + 1)) = After(r, TRUE)
        BY <2>7, <4>2 DEF After
      <4> QED
        BY <4>1, <4>3 DEF d
    <3> HIDE DEF u, c
    <3>4. Read(l, i + 1) = [consecutive_failures |-> u + 1, days_since_success |-> BillingDays * u + BillingDays,
                            successful_cycles |-> c]
      BY <2>6, <3>1 DEF Read
    <3> QED
      BY <2>4, <3>3, <3>4
  <2>8. CASE ~Failed(l, i + 1)
    <3>1. Unsettled(l, i + 1) = 0 /\ Cardinality(Settled(l, i + 1)) = c + 1
      BY <2>8, UnsettledStep
    <3>2. Read(l, i).successful_cycles = c
      BY DEF Read
    <3>3. After(Read(l, i), Failed(l, i + 1)) =
             [consecutive_failures |-> 0, days_since_success |-> 0, successful_cycles |-> c + 1]
      BY <2>8, <3>2 DEF After
    <3> HIDE DEF u, c
    <3>4. Read(l, i + 1) = [consecutive_failures |-> 0, days_since_success |-> 0, successful_cycles |-> c + 1]
      BY <2>6, <3>1 DEF Read
    <3> QED
      BY <2>4, <3>3, <3>4
  <2> QED
    BY <2>7, <2>8
<1> HIDE DEF Good
<1>4. Nat \subseteq Good
  BY <1>2, <1>3, NatInd
<1> QED
  BY <1>1, <1>4 DEF Good

(* A mandate's bills are due one after another, in whatever days.            *)
LEMMA BillsAscend ==
    ASSUME NEW l, IsLife(l), NEW i \in 1 .. Len(l.cycles), NEW j \in 1 .. Len(l.cycles)
    PROVE  /\ l.cycles[i].due \in Int
           /\ i < j => l.cycles[i].due < l.cycles[j].due
           /\ (l.cycles[j].due - l.cycles[i].due) \div Day - BillingDays * (j - i)
                 \in -DueSpreadDays .. DueSpreadDays - 1
<1> DEFINE a == l.cycles[i].due
           b == l.cycles[j].due
           d == a - (i - 1) * BillingDays * Day
           e == b - (j - 1) * BillingDays * Day
<1>1. Len(l.cycles) \in Nat /\ a \in Int /\ b \in Int
  <2>1. l.cycles \in Seq(Bills)
    BY DEF IsLife, BilledLives
  <2>2. Len(l.cycles) \in Nat /\ DOMAIN l.cycles = 1 .. Len(l.cycles)
    BY <2>1
  <2>3. l.cycles[i] \in Bills
    BY <2>1, <2>2
  <2>4. l.cycles[j] \in Bills
    BY <2>1, <2>2
  <2> QED
    BY <2>2, <2>3, <2>4 DEF Bills
<1>2. d \in Draws /\ e \in Draws
  BY DEF IsLife
<1>3. i \in Int /\ j \in Int
  BY <1>1
<1>4. a = d + 43200 * (i - 1) /\ b = e + 43200 * (j - 1)
  <2>1. BillingDays * Day = 43200
    BY SMT DEF BillingDays, Day, Hour
  <2>2. (i - 1) * BillingDays * Day = 43200 * (i - 1) /\ (j - 1) * BillingDays * Day = 43200 * (j - 1)
    BY <1>3, SMT DEF BillingDays, Day, Hour
  <2>3. d = a - 43200 * (i - 1) /\ e = b - 43200 * (j - 1)
    BY <2>2
  <2> HIDE DEF a, b, d, e
  <2> QED
    BY <1>1, <1>3, <2>3
<1> HIDE DEF a, b, d, e
<1>5. /\ d \in Int /\ e \in Int
      /\ -40260 <= e - d /\ e - d <= 40260
  BY <1>2, DrawsAre
<1>6. b - a = (e - d) + 43200 * (j - i)
  BY <1>3, <1>4, <1>5
<1>7. i < j => a < b
  BY <1>1, <1>3, <1>5, <1>6
<1>8. (b - a) \div Day = (e - d) \div 1440 + 30 * (j - i)
  <2> DEFINE x == e - d
             m == j - i
  <2>1. x \in Int /\ m \in Int
    BY <1>3, <1>5
  <2>2. b - a = x + 43200 * m
    BY <1>6
  <2> HIDE DEF x, m
  <2>3. (x + 43200 * m) \div 1440 = x \div 1440 + 30 * m
    BY <2>1, SMT
  <2>4. Day = 1440
    BY SMT DEF Day, Hour
  <2> QED
    BY <2>2, <2>3, <2>4 DEF x, m
<1>9. (e - d) \div 1440 \in -28 .. 27
  <2> DEFINE x == e - d
  <2>1. x \in Int /\ -40260 <= x /\ x <= 40260
    BY <1>5
  <2> HIDE DEF x
  <2>2. x \div 1440 \in -28 .. 27
    BY <2>1, SMT
  <2> QED
    BY <2>2 DEF x
<1>10. (b - a) \div Day - BillingDays * (j - i) \in -28 .. 27
  <2> DEFINE x == (e - d) \div 1440
             m == j - i
  <2>1. x \in -28 .. 27 /\ m \in Int
    BY <1>3, <1>9
  <2>2. (b - a) \div Day = x + 30 * m
    BY <1>8
  <2>3. BillingDays * (j - i) = 30 * m
    BY DEF BillingDays
  <2> HIDE DEF x, m
  <2>4. (x + 30 * m) - 30 * m = x
    BY <2>1
  <2>5. (b - a) \div Day - BillingDays * (j - i) = (x + 30 * m) - 30 * m
    BY <2>2, <2>3, Zenon
  <2> QED
    BY <2>1, <2>4, <2>5, Zenon
<1>11. -DueSpreadDays = -28 /\ DueSpreadDays - 1 = 27
  BY DEF DueSpreadDays
<1> QED
  BY <1>1, <1>7, <1>10, <1>11 DEF a, b

(* So sorting them changes nothing, and those before one are the ones due    *)
(* before it.                                                                *)
LEMMA PriorIs ==
    ASSUME NEW l, IsLife(l), NEW k \in 1 .. Len(l.cycles)
    PROVE  prior(l.cycles[k], l.cycles) = SubSeq(l.cycles, 1, k - 1)
<1> DEFINE c == l.cycles
           n == Len(c)
           early(j) == {i \in DOMAIN c : c[i].due < c[j].due}
           before(i, j) == c[i].due < c[j].due \/ (c[i].due = c[j].due /\ i < j)
           place(j) == 1 + Cardinality({i \in DOMAIN c : before(i, j)})
<1>1. n \in Nat /\ DOMAIN c = 1 .. n /\ c \in Seq(Bills)
  BY DEF IsLife, BilledLives
<1>2. ASSUME NEW i \in 1 .. n, NEW j \in 1 .. n
      PROVE  c[i].due < c[j].due <=> i < j
  <2>1. c[i].due \in Int /\ c[j].due \in Int
    BY BillsAscend
  <2>2. i < j => c[i].due < c[j].due
    BY BillsAscend
  <2>3. j < i => c[j].due < c[i].due
    BY BillsAscend
  <2>4. i = j => c[i].due = c[j].due
    OBVIOUS
  <2> HIDE DEF c
  <2> QED
    BY <1>1, <2>1, <2>2, <2>3, <2>4
<1>3. ASSUME NEW j \in 1 .. n
      PROVE  early(j) = 1 .. j - 1 /\ {i \in DOMAIN c : before(i, j)} = 1 .. j - 1
  <2>1. \A i \in 1 .. n : before(i, j) <=> i < j
    <3> SUFFICES ASSUME NEW i \in 1 .. n PROVE before(i, j) <=> i < j
      OBVIOUS
    <3>1. c[i].due \in Int /\ c[j].due \in Int
      BY BillsAscend
    <3>2. c[i].due = c[j].due => ~(i < j)
      BY <1>2, <3>1
    <3> QED
      BY <1>2, <3>2
  <2>2. 1 .. j - 1 = {i \in 1 .. n : i < j}
    BY <1>1
  <2>3. early(j) = {i \in 1 .. n : i < j}
    BY <1>1, <1>2
  <2>4. {i \in DOMAIN c : before(i, j)} = {i \in 1 .. n : i < j}
    BY <1>1, <2>1
  <2> QED
    BY <2>2, <2>3, <2>4
<1>4. \A j \in 1 .. n : Cardinality(1 .. j - 1) = j - 1
  <2> SUFFICES ASSUME NEW j \in 1 .. n PROVE Cardinality(1 .. j - 1) = j - 1
    OBVIOUS
  <2>1. 1 \in Int /\ j - 1 \in Int
    BY <1>1
  <2> DEFINE m == j - 1
  <2>2. m \in Nat
    BY <1>1
  <2> HIDE DEF m
  <2>3. Cardinality(1 .. m) = m
    BY <2>2, FS_Interval
  <2> QED
    BY <2>3 DEF m
<1>5. \A j \in 1 .. n : place(j) = j
  <2> SUFFICES ASSUME NEW j \in 1 .. n PROVE place(j) = j
    OBVIOUS
  <2>1. Cardinality({i \in DOMAIN c : before(i, j)}) = j - 1
    BY <1>3, <1>4
  <2> HIDE DEF before
  <2> QED
    BY <1>1, <2>1
<1>6. ByDue(c) = c
  <2>1. ByDue(c) = [m \in DOMAIN c |-> c[CHOOSE j \in DOMAIN c : place(j) = m]]
    BY DEF ByDue
  <2> HIDE DEF place, c
  <2>2. ASSUME NEW m \in 1 .. n PROVE (CHOOSE j \in 1 .. n : place(j) = m) = m
    <3>1. \A j \in 1 .. n : place(j) = m <=> j = m
      BY <1>5
    <3>2. (CHOOSE j \in 1 .. n : place(j) = m) \in 1 .. n
      BY <3>1
    <3>3. place(CHOOSE j \in 1 .. n : place(j) = m) = m
      BY <3>1
    <3> QED
      BY <3>1, <3>2, <3>3
  <2>3. ByDue(c) = [m \in 1 .. n |-> c[m]]
    BY <1>1, <2>1, <2>2
  <2>4. c = [m \in 1 .. n |-> c[m]]
    BY <1>1
  <2> QED
    BY <2>3, <2>4
<1>7. k \in 1 .. n
  OBVIOUS
<1>8. prior(c[k], c) = SubSeq(ByDue(c), 1, Cardinality(early(k)))
  BY DEF prior
<1>9. Cardinality(early(k)) = k - 1
  BY <1>3, <1>4, <1>7
<1> HIDE DEF c, early
<1>10. prior(c[k], c) = SubSeq(c, 1, k - 1)
  BY <1>6, <1>8, <1>9
<1> QED
  BY <1>10 DEF c

(* What the backtest asks of a month that failed, after one that did not.    *)
LEMMA BacktestAsks ==
    ASSUME NEW l, IsLife(l), NEW k \in 1 .. Len(l.cycles), Failed(l, k), Settled(l, k) # {}
    PROVE  Asks(revocation_features(l.cycles[k], l.cycles), Read(l, k))
<1> DEFINE c == l.cycles
           n == Len(c)
           before == SubSeq(c, 1, k - 1)
           S == Settled(l, k)
           settled == {i \in DOMAIN before : has_event(before[i], "payment.captured")}
<1>1. n \in Nat /\ DOMAIN c = 1 .. n /\ c \in Seq(Bills) /\ k \in 1 .. n
  BY DEF IsLife, BilledLives
<1>2. prior(c[k], c) = before
  BY PriorIs
<1>3. k - 1 \in Nat /\ k \in Nat /\ k - 1 <= n
  BY <1>1
<1>4. /\ Len(before) = k - 1 /\ DOMAIN before = 1 .. k - 1
      /\ \A i \in 1 .. k - 1 : before[i] = c[i]
  <2> HIDE DEF c
  <2> QED
    BY <1>1, <1>3
<1> HIDE DEF before
<1>5. ASSUME NEW i \in 1 .. n
      PROVE  has_event(c[i], "payment.captured") <=> ~initial_debit_failed(c[i])
  <2>1. c[i].observables \in Observables
    <3> HIDE DEF c
    <3>1. c[i] \in Bills
      BY <1>1
    <3> QED
      BY <3>1 DEF Bills
  <2> HIDE DEF c
  <2>2. has_event(c[i], "payment.failed") <=> ~has_event(c[i], "payment.captured")
    BY <2>1, FailedOrCaptured
  <2> QED
    BY <2>2 DEF initial_debit_failed
<1>6. settled = S
  <2>1. ASSUME NEW i \in 1 .. k - 1
        PROVE  has_event(before[i], "payment.captured") <=> ~initial_debit_failed(c[i])
    <3>1. i \in 1 .. n
      BY <1>1
    <3>2. before[i] = c[i]
      BY <1>4
    <3> HIDE DEF c
    <3> QED
      BY <1>5, <3>1, <3>2
  <2>2. k \notin S
    BY DEF Settled, Failed
  <2>3. 1 .. k = (1 .. k - 1) \cup {k}
    BY <1>3
  <2>4. S = {i \in 1 .. k - 1 : ~initial_debit_failed(c[i])}
    BY <2>2, <2>3 DEF Settled
  <2>5. settled = {i \in 1 .. k - 1 : ~initial_debit_failed(c[i])}
    BY <1>4, <2>1
  <2> QED
    BY <2>4, <2>5
<1> DEFINE last == Largest(S)
<1>7. S \in SUBSET (1 .. k) /\ k \notin S
  BY <1>3, SettledIs DEF Settled, Failed
<1>8. last \in S /\ last \in 1 .. k - 1
  <2>1. last \in S
    BY <1>3, <1>7, LargestIs
  <2> HIDE DEF last, S
  <2> QED
    BY <1>3, <1>7, <2>1
<1>9. Unsettled(l, k) = k - last
  BY <1>3, SettledIs
<1> DEFINE days == (c[k].due - c[last].due) \div Day
<1>10. revocation_features(c[k], c) =
         [consecutive_failures |-> 1 + Len(before) - last, days_since_success |-> days,
          successful_cycles |-> Cardinality(S)]
  <2>1. before[last].due = c[last].due /\ last # 0
    BY <1>4, <1>8
  <2>2. (IF settled = {} THEN 0 ELSE Largest(settled)) = last
    BY <1>6
  <2> HIDE DEF c, S, last, settled
  <2>3. revocation_features(c[k], c) =
          [consecutive_failures |-> 1 + Len(before) - last,
           days_since_success |-> IF last = 0 THEN 60 ELSE (c[k].due - before[last].due) \div Day,
           successful_cycles |-> Cardinality(settled)]
    BY <1>2, <2>2 DEF revocation_features, settled
  <2> QED
    BY <1>6, <2>1, <2>3
<1>11. days - BillingDays * (k - last) \in -DueSpreadDays .. DueSpreadDays - 1
  <2>1. last \in 1 .. n
    BY <1>1, <1>8
  <2> HIDE DEF last
  <2> QED
    BY <2>1, BillsAscend
<1>12. 1 + Len(before) - last = k - last
  <2> HIDE DEF last
  <2> QED
    BY <1>3, <1>4, <1>8
<1>13. Read(l, k) = [consecutive_failures |-> k - last, days_since_success |-> BillingDays * (k - last),
                     successful_cycles |-> Cardinality(S)]
  BY <1>9 DEF Read
<1> DEFINE f == revocation_features(c[k], c)
           r == Read(l, k)
<1> HIDE DEF last, days, S, c
<1>14. /\ f.consecutive_failures = k - last /\ f.successful_cycles = Cardinality(S)
       /\ f.days_since_success = days
  BY <1>10, <1>12
<1>15. /\ r.consecutive_failures = k - last /\ r.successful_cycles = Cardinality(S)
       /\ r.days_since_success = BillingDays * (k - last)
  BY <1>13
<1> HIDE DEF f, r
<1>16. Asks(f, r)
  BY <1>11, <1>14, <1>15 DEF Asks
<1> QED
  BY <1>16 DEF f, r, c

(* The rows of the fit are the months, with their states and deaths.         *)
LEMMA RowsAreMonths ==
    ASSUME NEW l, IsLife(l), NEW k \in 1 .. Len(l.cycles)
    PROVE  /\ observations(l)[k].features = l.months[k].state
           /\ observations(l)[k].died = l.months[k].died
           /\ observations(l)[k].rail = l.rail
           /\ l.months[k] = [state |-> observations(l)[k].features, died |-> observations(l)[k].died]
<1>1. /\ Len(l.cycles) \in Nat /\ DOMAIN l.cycles = 1 .. Len(l.cycles)
      /\ Len(l.months) = Len(l.cycles) /\ l.months \in Seq(Outcomes)
  BY DEF IsLife, BilledLives
<1> DEFINE row == [features |-> Read(l, k), rail |-> l.rail, died |-> l.died /\ k = Len(l.cycles)]
<1>2. observations(l)[k] = row
  BY <1>1 DEF observations, Read, Settled
<1>3. l.months[k].state = Read(l, k)
  <2>1. k \in 0 .. Len(l.cycles) /\ k # 0
    BY <1>1
  <2> QED
    BY <2>1, StatesAreRead DEF StateAfter
<1>4. l.months[k].died = (l.died /\ k = Len(l.cycles))
  BY DEF IsLife
<1>5. l.months[k] \in Outcomes
  BY <1>1
<1>6. l.months[k] = [state |-> l.months[k].state, died |-> l.months[k].died]
  BY <1>5 DEF Outcomes
<1>7. row.features = l.months[k].state /\ row.rail = l.rail /\ row.died = l.months[k].died
  BY <1>3, <1>4
<1> HIDE DEF row
<1> QED
  BY <1>2, <1>6, <1>7

(* The fit counts the months of the population as they were.                 *)
ShareOf(S) == <<Cardinality({x \in S : lives[x[1]].months[x[2]].died}), Cardinality(S)>>
AlikeMonths(x) == {y \in Months : CellOf(y) = CellOf(x)}

(* So the answer about a state is the share of its cell's months.            *)
LEMMA AnswerIsShare ==
    ASSUME LivesAreBilled, lives # None, NEW x \in Months
    PROVE  monthly_hazard(fit(lives), State(x), lives[x[1]].rail) =
              ShareOf(IF Cardinality(AlikeMonths(x)) >= MinCellObservations THEN AlikeMonths(x) ELSE Months)
<1> DEFINE row(y) == observations(lives[y[1]])[y[2]]
           cell_of(y) == cell(row(y).features, row(y).rail)
           counts(S) == <<Cardinality({y \in S : row(y).died}), Cardinality(S)>>
           cells == [c \in {cell_of(y) : y \in Months} |-> counts({y \in Months : cell_of(y) = c})]
<1>1. \A m \in DOMAIN lives : IsLife(lives[m])
  <2> DEFINE L == {l \in BilledLives : IsLife(l)}
  <2>1. lives \in Seq(L)
    BY DEF LivesAreBilled
  <2> HIDE DEF L
  <2>2. \A m \in DOMAIN lives : lives[m] \in L
    BY <2>1
  <2> QED
    BY <2>2 DEF L
<1>2. \A m \in DOMAIN lives : /\ DOMAIN lives[m].cycles = 1 .. Len(lives[m].cycles)
                              /\ DOMAIN lives[m].months = DOMAIN lives[m].cycles
  <2> SUFFICES ASSUME NEW l, IsLife(l)
               PROVE  DOMAIN l.cycles = 1 .. Len(l.cycles) /\ DOMAIN l.months = DOMAIN l.cycles
    BY <1>1
  <2>1. /\ l.cycles \in Seq(Bills) /\ Len(l.months) = Len(l.cycles)
        /\ l.months \in Seq(Outcomes)
    BY DEF IsLife, BilledLives
  <2> QED
    BY <2>1
<1>3. BilledMonths(lives) = Months
  BY <1>2 DEF BilledMonths, Months
<1>4. ASSUME NEW y \in Months
      PROVE  /\ row(y).features = State(y) /\ row(y).rail = lives[y[1]].rail
             /\ row(y).died = lives[y[1]].months[y[2]].died
  <2>1. PICK m \in DOMAIN lives : \E k \in DOMAIN lives[m].months : y = <<m, k>>
    BY DEF Months
  <2>2. y[1] \in DOMAIN lives /\ y[2] \in 1 .. Len(lives[y[1]].cycles)
    BY <1>2, <2>1
  <2>3. IsLife(lives[y[1]])
    BY <1>1, <2>2
  <2> DEFINE l == lives[y[1]]
             k == y[2]
  <2> HIDE DEF l, k
  <2>4. IsLife(l) /\ k \in 1 .. Len(l.cycles)
    BY <2>2, <2>3 DEF l, k
  <2>5. /\ observations(l)[k].features = l.months[k].state
        /\ observations(l)[k].died = l.months[k].died
        /\ observations(l)[k].rail = l.rail
    BY <2>4, RowsAreMonths
  <2> QED
    BY <2>5 DEF State, l, k
<1>5. \A y \in Months : cell_of(y) = CellOf(y)
  BY <1>4 DEF CellOf
<1>6. ASSUME NEW S \in SUBSET Months PROVE counts(S) = ShareOf(S)
  <2>1. {y \in S : row(y).died} = {y \in S : lives[y[1]].months[y[2]].died}
    BY <1>4
  <2> HIDE DEF row
  <2> QED
    BY <2>1 DEF ShareOf
<1>7. fit(lives) = [cells |-> cells, overall |-> counts(Months)]
  BY <1>3 DEF fit
<1> HIDE DEF row, cells, counts
<1> DEFINE c == CellOf(x)
<1>8. {y \in Months : cell_of(y) = c} = AlikeMonths(x)
  BY <1>5 DEF AlikeMonths
<1>9. c \in DOMAIN cells /\ cells[c] = counts(AlikeMonths(x))
  <2>1. c \in {cell_of(y) : y \in Months}
    BY <1>5
  <2> HIDE DEF cell_of, c
  <2> QED
    BY <1>8, <2>1 DEF cells
<1>10. cells[c] = ShareOf(AlikeMonths(x)) /\ counts(Months) = ShareOf(Months)
  <2>1. AlikeMonths(x) \in SUBSET Months
    BY DEF AlikeMonths
  <2> QED
    BY <1>6, <1>9, <2>1
<1>11. ShareOf(AlikeMonths(x))[2] = Cardinality(AlikeMonths(x))
  BY DEF ShareOf
<1> DEFINE model == fit(lives)
<1>12. model.cells = cells /\ model.overall = counts(Months)
  BY <1>7
<1>13. cell(State(x), lives[x[1]].rail) = c
  BY DEF CellOf
<1> HIDE DEF model, c
<1>14. monthly_hazard(model, State(x), lives[x[1]].rail) =
          IF c \in DOMAIN model.cells /\ model.cells[c][2] >= MinCellObservations
          THEN model.cells[c] ELSE model.overall
  BY <1>13 DEF monthly_hazard
<1> QED
  BY <1>9, <1>10, <1>11, <1>12, <1>14 DEF model

(* Mandates that are billed like this answer as HazardIsOfItsState says.     *)
LEMMA HazardOfState == LivesAreBilled => HazardIsOfItsState
<1> SUFFICES ASSUME LivesAreBilled, lives # None, Months # {}
             PROVE  HazardIsOfItsState
  BY DEF HazardIsOfItsState
<1> DEFINE model == fit(lives)
<1>1. ASSUME NEW m \in DOMAIN lives
      PROVE  /\ IsLife(lives[m]) /\ Len(lives[m].cycles) \in Nat
             /\ DOMAIN lives[m].months = 1 .. Len(lives[m].cycles)
             /\ DOMAIN lives[m].cycles = 1 .. Len(lives[m].cycles)
  <2> DEFINE L == {l \in BilledLives : IsLife(l)}
             l == lives[m]
  <2>1. lives \in Seq(L)
    BY DEF LivesAreBilled
  <2> HIDE DEF L
  <2>2. l \in L
    BY <2>1
  <2> HIDE DEF l
  <2>3. IsLife(l)
    BY <2>2 DEF L
  <2>4. l.cycles \in Seq(Bills) /\ Len(l.months) = Len(l.cycles) /\ l.months \in Seq(Outcomes)
    BY <2>3 DEF IsLife, BilledLives
  <2>5. /\ Len(l.cycles) \in Nat
        /\ DOMAIN l.months = 1 .. Len(l.cycles) /\ DOMAIN l.cycles = 1 .. Len(l.cycles)
    BY <2>4
  <2> QED
    BY <2>3, <2>5 DEF l
<1>2. ASSUME NEW x \in Months
      PROVE  x[1] \in DOMAIN lives /\ x[2] \in 1 .. Len(lives[x[1]].cycles)
  <2>1. PICK m \in DOMAIN lives : \E k \in DOMAIN lives[m].months : x = <<m, k>>
    BY DEF Months
  <2> QED
    BY <1>1, <2>1
<1>3. ASSUME NEW x \in Months
      PROVE  LET life == lives[x[1]]
                 row == observations(life)[x[2]]
             IN  /\ [state |-> row.features, died |-> row.died] = life.months[x[2]]
                 /\ initial_debit_failed(life.cycles[x[2]]) /\ State(x).successful_cycles > 0
                       => Asks(revocation_features(life.cycles[x[2]], life.cycles), State(x))
  <2> DEFINE life == lives[x[1]]
             k == x[2]
             row == observations(life)[k]
  <2>1. IsLife(life) /\ k \in 1 .. Len(life.cycles) /\ Len(life.cycles) \in Nat
    BY <1>1, <1>2
  <2>2. State(x) = life.months[k].state
    BY DEF State
  <2> HIDE DEF life, k
  <2>3. [state |-> row.features, died |-> row.died] = life.months[k]
    BY <2>1, RowsAreMonths
  <2>4. State(x) = Read(life, k)
    <3>1. k \in 0 .. Len(life.cycles) /\ k # 0
      BY <2>1
    <3> QED
      BY <2>1, <2>2, <3>1, StatesAreRead DEF StateAfter
  <2>5. ASSUME initial_debit_failed(life.cycles[k]), State(x).successful_cycles > 0
        PROVE  Asks(revocation_features(life.cycles[k], life.cycles), State(x))
    <3>1. Failed(life, k)
      BY <2>5 DEF Failed
    <3>2. Cardinality(Settled(life, k)) > 0
      BY <2>4, <2>5 DEF Read
    <3>3. Settled(life, k) # {}
      <4>1. k \in Nat
        BY <2>1
      <4> QED
        BY <3>2, <4>1, SettledIs
    <3> QED
      BY <2>1, <2>4, <3>1, <3>3, BacktestAsks
  <2> QED
    BY <2>3, <2>5 DEF life, k
<1>4. ASSUME NEW m \in DOMAIN lives, lives[m].cycles # <<>>
      PROVE  LET r == Last(observations(lives[m]))
             IN  r.features = lives[m].state /\ r.rail = lives[m].rail
  <2> DEFINE l == lives[m]
             n == Len(l.cycles)
  <2>1. IsLife(l) /\ n \in Nat /\ l.cycles \in Seq(Bills) /\ l.cycles # <<>>
    BY <1>1, <1>4 DEF IsLife, BilledLives
  <2> HIDE DEF l
  <2>2. n \in 1 .. n /\ n # 0
    BY <2>1
  <2>3. observations(l)[n].features = l.months[n].state /\ observations(l)[n].rail = l.rail
    BY <2>1, <2>2, RowsAreMonths
  <2>4. l.state = l.months[n].state
    BY <2>1, <2>2 DEF IsLife, StateAfter
  <2>5. Len(observations(l)) = n
    <3> DEFINE obs == observations(l)
               T == {obs[i] : i \in 1 .. n}
    <3>1. obs = [i \in 1 .. n |-> obs[i]]
      <4>1. DOMAIN l.cycles = 1 .. n
        BY <2>1
      <4> QED
        BY <4>1 DEF observations
    <3> HIDE DEF obs
    <3>2. obs \in [1 .. n -> T]
      BY <3>1
    <3>3. obs \in Seq(T) /\ DOMAIN obs = 1 .. n
      <4> HIDE DEF T
      <4> QED
        BY <2>1, <3>2, SeqDef
    <3> HIDE DEF T
    <3> QED
      BY <2>1, <3>3, LenProperties DEF obs
  <2>6. Last(observations(l)) = observations(l)[n]
    BY <2>5 DEF Last
  <2> QED
    BY <2>3, <2>4, <2>6 DEF l
<1>5. at_risk_mandates(model, lives, 15) =
         {i \in DOMAIN lives : LET h == monthly_hazard(model, lives[i].state, lives[i].rail)
                               IN  lives[i].cycles # <<>> /\ 100 * h[1] >= 15 * h[2]}
  <2> HIDE DEF model
  <2>1. \A i \in DOMAIN lives : lives[i].cycles # <<>> =>
           LET r == Last(observations(lives[i]))
           IN  monthly_hazard(model, r.features, r.rail) = monthly_hazard(model, lives[i].state, lives[i].rail)
    BY <1>4
  <2> QED
    BY <2>1 DEF at_risk_mandates
<1>6. ASSUME NEW x \in Months
      PROVE  LET alike == {y \in Months : CellOf(y) = CellOf(x)}
                 share(S) == <<Cardinality({y \in S : lives[y[1]].months[y[2]].died}), Cardinality(S)>>
             IN  monthly_hazard(model, State(x), lives[x[1]].rail) =
                    share(IF Cardinality(alike) >= MinCellObservations THEN alike ELSE Months)
  BY AnswerIsShare DEF ShareOf, AlikeMonths
<1> HIDE DEF model
<1> QED
  BY <1>3, <1>5, <1>6 DEF HazardIsOfItsState, model

(* The revocation hazard is the one of the states the mandates were in.      *)
THEOREM HazardIsOfItsStateAlways == Spec => []HazardIsOfItsState
<1> QED
  BY LivesInit, LivesStep, HazardOfState, PTL DEF Spec
=============================================================================
