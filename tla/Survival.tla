------------------------------ MODULE Survival ------------------------------
(***************************************************************************)
(* measure/survival.py: how long mandates live, by arm, when most of them  *)
(* are alive at the end of what was observed.  A sample is a sequence of   *)
(* [duration, observed, arm]; a fraction is a pair.                        *)
(***************************************************************************)
EXTENDS Integers, Sequences, FiniteSets, SequencesExt, Functions

Count(sample, Test(_)) == Len(SelectSeq(sample, Test))

event_times(sample) == {sample[i].duration : i \in {j \in DOMAIN sample : sample[j].observed}}

at_risk_Survivors(sample, t) == Count(sample, LAMBDA u : u.duration > t \/ (u.duration = t /\ u.observed))

(* Under observation at t: a unit censored at t still is.                    *)
at_risk_at(sample, t) == Count(sample, LAMBDA u : u.duration >= t)

events_at(sample, t) == Count(sample, LAMBDA u : u.duration = t /\ u.observed)

Times(p, q) == <<p[1] * q[1], p[2] * q[2]>>
SameFraction(p, q) == p[1] * q[2] = q[1] * p[2]

(* S(t), right-continuous and 1 before the first event: of those at risk at  *)
(* each event, the share that outlived it.                                   *)
kaplan_meier(sample, t) ==
    FoldSet(LAMBDA u, s : Times(s, <<at_risk_at(sample, u) - events_at(sample, u),
                                     at_risk_at(sample, u)>>),
            <<1, 1>>, {u \in event_times(sample) : u <= t})

Arm(sample, a) == SelectSeq(sample, LAMBDA u : u.arm = a)

(* log_rank, of arm a: at a time with one unit left nothing is compared.     *)
compared(sample) == {t \in event_times(sample) : at_risk_at(sample, t) > 1}

observed_events(sample, a) ==
    MapThenSumSet(LAMBDA t : events_at(Arm(sample, a), t), compared(sample))

Plus(p, q) == <<p[1] * q[2] + q[1] * p[2], p[2] * q[2]>>

expected_events(sample, a) ==
    FoldSet(LAMBDA t, s : Plus(s, <<at_risk_at(Arm(sample, a), t) * events_at(sample, t),
                                    at_risk_at(sample, t)>>),
            <<0, 1>>, compared(sample))

discrepancy(sample, a) ==
    LET e == expected_events(sample, a) IN <<observed_events(sample, a) * e[2] - e[1], e[2]>>
=============================================================================
