---------------------------- MODULE MCScheduling ----------------------------
(* A page of one row: the cycle behind a held-out one must still be reached. *)
EXTENDS Scheduling

MCRoster == <<"a", Platform>>
MCCycles == <<"held", "treated">>
MCTenantOf == [c \in {"held", "treated"} |-> "a"]
MCShareDraw == [c \in {"held", "treated"} |-> 0]
MCHoldoutDraw == [held |-> 10, treated |-> 50]
Never == [c \in CycleSet |-> 0]

(* A stage that is none of the five; a tenant in shadow, with one cycle left *)
(* to collect; and one on the ramp whose mandate was stopped twice.          *)
MCInitialConfig ==
    {[stage |-> 9, stopped |-> FALSE, stopped_mandates |-> Never, paid |-> {"held"}],
     [stage |-> SHADOW, stopped |-> FALSE, stopped_mandates |-> Never, paid |-> {"held"}],
     [stage |-> RAMP, stopped |-> FALSE, stopped_mandates |-> [held |-> 0, treated |-> 2],
      paid |-> {}]}
MCDeadline == [held |-> 3, treated |-> 3]

Proven ==
    [event_completeness |-> 999, projection_matches_days |-> 7,
     shadow_decisions |-> 10000, gate_errors |-> 0, calibration_ece |-> 4,
     audit_report_produced |-> TRUE,
     canary_days |-> 14, double_debits |-> 0, compliance_violations |-> 0,
     revocation_rate_above_baseline |-> FALSE,
     recovery_ci_excludes_zero |-> TRUE, survival_ci_negative |-> FALSE,
     guardrails_green_days |-> 30]

MCEvidences == {Proven, [Proven EXCEPT !.audit_report_produced = FALSE]}

(* Tenants on either side of the platform's row.                             *)
TwoRoster == <<"a", Platform, "b">>
TwoCycles == <<"c1", "c2">>
TwoTenantOf == [c1 |-> "a", c2 |-> "b"]
TwoDraw == [c \in {"c1", "c2"} |-> 50]
TwoInitialConfig ==
    {[stage |-> FULL, stopped |-> FALSE, stopped_mandates |-> Never, paid |-> {}]}
TwoDeadline == [c \in {"c1", "c2"} |-> 3]
=============================================================================
