------------------------------ MODULE Adoption ------------------------------
(***************************************************************************)
(* The adoption ramp: what each stage does, which mandates it treats, and  *)
(* the evidence that leaves it.  Shares and draws are in per cent, the     *)
(* completeness of events in per mille, the calibration error in per cent. *)
(***************************************************************************)
EXTENDS Integers, FiniteSets

Stage == 0 .. 4
OBSERVE == 0
SHADOW == 1
CANARY == 2
RAMP == 3
FULL == 4

Draws == 0 .. 99                    \* _unit_interval of a mandate and a salt

(* decides, fires, the share of mandates treated and the share held out.     *)
BEHAVIOUR ==
    [s \in Stage |->
        [decides |-> s # OBSERVE, fires |-> s >= CANARY,
         mandate_share |-> CASE s = CANARY -> 1 [] s = RAMP -> 10 [] s = FULL -> 100
                             [] OTHER -> 0,
         holdout_pct |-> IF s >= RAMP THEN 15 ELSE 0]]

may_decide(s) == BEHAVIOUR[s].decides
may_fire(s) == BEHAVIOUR[s].fires

arm_for_OneDraw(s, share_draw, holdout_draw) ==
    CASE share_draw >= BEHAVIOUR[s].mandate_share -> "excluded"
      [] share_draw < BEHAVIOUR[s].mandate_share ->
            IF share_draw < BEHAVIOUR[s].holdout_pct THEN "holdout" ELSE "treatment"

(* Two draws of the mandate, with two salts: is it in the stage's share, and *)
(* is it held out of it.                                                     *)
arm_for(s, share_draw, holdout_draw) ==
    CASE share_draw >= BEHAVIOUR[s].mandate_share -> "excluded"
      [] share_draw < BEHAVIOUR[s].mandate_share ->
            IF holdout_draw < BEHAVIOUR[s].holdout_pct THEN "holdout" ELSE "treatment"

-----------------------------------------------------------------------------
(* What is known of a tenant; nothing gathered is nothing proven.            *)
Unproven ==
    [event_completeness |-> 0, projection_matches_days |-> 0,
     shadow_decisions |-> 0, gate_errors |-> 0, calibration_ece |-> 100,
     audit_report_produced |-> FALSE,
     canary_days |-> 0, double_debits |-> 0, compliance_violations |-> 0,
     revocation_rate_above_baseline |-> TRUE,
     recovery_ci_excludes_zero |-> FALSE, survival_ci_negative |-> TRUE,
     guardrails_green_days |-> 0]

observe_to_shadow(e) == e.event_completeness >= 999 /\ e.projection_matches_days >= 7

shadow_to_canary_NoAudit(e) == /\ e.shadow_decisions >= 10000
                               /\ e.gate_errors = 0
                               /\ e.calibration_ece < 5

shadow_to_canary(e) == /\ e.shadow_decisions >= 10000
                       /\ e.gate_errors = 0
                       /\ e.calibration_ece < 5
                       /\ e.audit_report_produced

canary_to_ramp(e) == /\ e.canary_days >= 14
                     /\ e.double_debits = 0 /\ e.compliance_violations = 0
                     /\ ~e.revocation_rate_above_baseline

ramp_to_full(e) == /\ e.recovery_ci_excludes_zero
                   /\ ~e.survival_ci_negative
                   /\ e.guardrails_green_days >= 30

(* One gate per stage that can be left; FULL has none.                       *)
GATES(s, e) == CASE s = OBSERVE -> observe_to_shadow(e) [] s = SHADOW -> shadow_to_canary(e)
                 [] s = CANARY -> canary_to_ramp(e) [] s = RAMP -> ramp_to_full(e)

can_advance(s, e) == s # FULL /\ GATES(s, e)

(* A stage that cannot be read, or is none of the five, observes.            *)
current_stage(recorded) == IF recorded \in Stage THEN recorded ELSE OBSERVE
=============================================================================
