------------------------------- MODULE Priors -------------------------------
(***************************************************************************)
(* segment_priors: outcomes of several tenants pooled into cells, the      *)
(* table that the planner loads of them, and what the table says of a day. *)
(*                                                                         *)
(* A segment stands for a merchant category, a ticket band and a rail; a   *)
(* cell is a segment and a day of the month, in the band before 10:00.     *)
(* Rates are fractions [num, den].                                         *)
(***************************************************************************)
EXTENDS Integers, FiniteSets, FiniteSetsExt, TLC

CONSTANTS
    Tenants, Segments,
    ANY,                                \* the segment of every bootstrap cell
    DAYS_IN_MONTH,
    MIN_COHORT, MIN_CONTRIBUTORS,
    DEFAULT_KAPPA,
    day_presence                        \* the bootstrap's rates by day, in per cent

ASSUME FloorAssumption ==
    /\ IsFiniteSet(Tenants) /\ ANY \notin Segments
    /\ MIN_COHORT \in Nat \ {0} /\ MIN_CONTRIBUTORS \in Nat \ {0}

Month == 1 .. DAYS_IN_MONTH

pooled(observations, key) == {o \in observations : o.key = key}
attempts(observations, key) == MapThenSumSet(LAMBDA o : o.attempts, pooled(observations, key))
successes(observations, key) == MapThenSumSet(LAMBDA o : o.successes, pooled(observations, key))
contributors(observations, key) == {o.tenant : o \in pooled(observations, key)}

(* The cells above both floors; the others are withheld.                     *)
publishable_OneFloor(observations) ==
    {k \in {o.key : o \in observations} : attempts(observations, k) >= MIN_COHORT}

publishable(observations) ==
    {k \in {o.key : o \in observations} :
        /\ attempts(observations, k) >= MIN_COHORT
        /\ Cardinality(contributors(observations, k)) >= MIN_CONTRIBUTORS}

aggregate(observations) ==
    [k \in publishable(observations) |->
        [rate |-> [num |-> successes(observations, k), den |-> attempts(observations, k)],
         n_obs |-> attempts(observations, k)]]

(* An upsert: a cell that is withheld this time keeps its last rate.         *)
publish(cells, priors) ==
    [k \in DOMAIN priors \cup DOMAIN cells |->
        IF k \in DOMAIN priors THEN priors[k] ELSE cells[k]]

-----------------------------------------------------------------------------
bootstrap_cells ==
    [k \in {ANY} \X Month |-> [rate |-> [num |-> day_presence[k[2]], den |-> 100], n_obs |-> 1]]

bootstrap_global_hazard ==
    [num |-> MapThenSumSet(LAMBDA d : day_presence[d], Month), den |-> 100 * DAYS_IN_MONTH]

(* One published cell displaces the whole bootstrap.                         *)
load_priors(cells) ==
    IF DOMAIN cells # {}
    THEN [source |-> "observed", cells |-> cells,
          global_hazard |-> [num |-> MapThenSumSet(LAMBDA k : cells[k].rate.num, DOMAIN cells),
                             den |-> MapThenSumSet(LAMBDA k : cells[k].n_obs, DOMAIN cells)]]
    ELSE [source |-> "bootstrap", cells |-> bootstrap_cells,
          global_hazard |-> bootstrap_global_hazard]

key_for_Concrete(priors, segment, day) == <<segment, day>>

key_for(priors, segment, day) ==
    IF priors.source = "bootstrap" THEN <<ANY, day>> ELSE <<segment, day>>

(* A cell's rate, shrunk toward the global one by n / (n + kappa) unless it  *)
(* is a bootstrap cell.                                                      *)
hazard(priors, key) ==
    IF key \notin DOMAIN priors.cells THEN priors.global_hazard
    ELSE LET c == priors.cells[key]
             g == priors.global_hazard
         IN  IF priors.source = "bootstrap" THEN c.rate
             ELSE [num |-> c.rate.num * g.den + DEFAULT_KAPPA * g.num,
                   den |-> (c.n_obs + DEFAULT_KAPPA) * g.den]
=============================================================================
