------------------------------ MODULE Profile ------------------------------
(***************************************************************************)
(* The customer payment profile: the evidence for a payday, the hint that  *)
(* a customer gave, the fatigue of contacts, and how each fades.           *)
(*                                                                         *)
(* Evidence is counted in units of 1/ONE and decays by DecayNum/DecayDen;  *)
(* ages are in days.  Probabilities are fractions [num, den].              *)
(***************************************************************************)
EXTENDS Integers

CONSTANTS
    ONE, DecayNum, DecayDen,    \* one observation, and PAYDAY_DECAY
    DAYS_IN_MONTH,
    DEFAULT_KAPPA,
    DECLARED_TTL_DAYS,
    Null

ASSUME DecayAssumption == /\ ONE \in Nat \ {0} /\ DEFAULT_KAPPA \in Nat \ {0}
                          /\ DecayNum \in 0 .. DecayDen /\ DecayDen \in Nat \ {0}
                          /\ DECLARED_TTL_DAYS \in Nat \ {0} /\ DAYS_IN_MONTH \in Nat

Month == 1 .. DAYS_IN_MONTH

(* The fields that replies, successes, contacts and withdrawals write; the   *)
(* others change no field of these.                                          *)
empty_profile ==
    [payday_posterior |-> [d \in Month |-> 0], declared_funding_day |-> Null, declared_at |-> Null,
     tenure_cycles |-> 0, messages_30d |-> 0,
     consent_withdrawn |-> FALSE]

OverMonth(f) ==
    LET upto[d \in 0 .. DAYS_IN_MONTH] == IF d = 0 THEN 0 ELSE upto[d - 1] + f[d]
    IN  upto[DAYS_IN_MONTH]

observations(p) == OverMonth(p.payday_posterior)

(* A success decays all evidence and adds one observation of its day.        *)
update_payday_Normalised(p, day) ==
    LET n == observations(p)
        decayed == [d \in Month |-> (p.payday_posterior[d] * DecayNum) \div DecayDen
                                    + IF d = day THEN ONE ELSE 0]
        total == (n * DecayNum) \div DecayDen + ONE
    IN  [p EXCEPT !.payday_posterior = [d \in Month |-> (decayed[d] * ONE) \div total],
                  !.tenure_cycles = @ + 1]

update_payday(p, day) ==
    [p EXCEPT !.payday_posterior =
                  [d \in Month |-> (@[d] * DecayNum) \div DecayDen
                                   + IF d = day THEN ONE ELSE 0],
              !.tenure_cycles = @ + 1]

(* store.py: the columns of a row and what is read back from them.  The      *)
(* count of cycles has no column.                                            *)
to_row(p) ==
    [payday_posterior |-> p.payday_posterior, declared_funding_day |-> p.declared_funding_day,
     declared_at |-> p.declared_at, messages_30d |-> p.messages_30d,
     consent_withdrawn |-> p.consent_withdrawn]

from_row(row) ==
    [payday_posterior |-> row.payday_posterior, declared_funding_day |-> row.declared_funding_day,
     declared_at |-> row.declared_at, tenure_cycles |-> 0, messages_30d |-> row.messages_30d,
     consent_withdrawn |-> row.consent_withdrawn]

record_contact(p) == [p EXCEPT !.messages_30d = @ + 1]
record_declared_hint(p, day, at) == [p EXCEPT !.declared_funding_day = day, !.declared_at = at]
withdraw_consent(p) == [p EXCEPT !.consent_withdrawn = TRUE]

modal_payday(p) ==
    IF observations(p) = 0 THEN Null
    ELSE CHOOSE d \in Month : \A e \in Month : p.payday_posterior[d] >= p.payday_posterior[e]

(* Linear, so that a hint really ends.                                       *)
declared_weight(p, now) ==
    IF p.declared_funding_day = Null THEN 0
    ELSE LET age == now - p.declared_at
         IN  IF age < DECLARED_TTL_DAYS THEN DECLARED_TTL_DAYS - age ELSE 0

(* The share of the hint: its weight, times what the evidence leaves it.     *)
hint_share(p, now) ==
    [num |-> DEFAULT_KAPPA * ONE * declared_weight(p, now),
     den |-> (observations(p) + DEFAULT_KAPPA * ONE) * DECLARED_TTL_DAYS]

payday_probability(p, day, now) ==
    LET n == observations(p)
        h == hint_share(p, now)
        seen == IF n = 0 THEN [num |-> 0, den |-> 1] ELSE [num |-> p.payday_posterior[day], den |-> n]
    IN  [num |-> (h.den - h.num) * seen.num
                 + (IF day = p.declared_funding_day THEN h.num * seen.den ELSE 0),
         den |-> h.den * seen.den]
=============================================================================
