---------------------------- MODULE MCGovernance ----------------------------
(***************************************************************************)
(* What governs the loop from outside it: the model registry, experiments, *)
(* the compliance gate, consent and erasure, and the ledger.  They share   *)
(* nothing: each behaviour is one of one of them.                          *)
(***************************************************************************)
EXTENDS Registry, Experiment, MCCompliance, Consent, Ledger, TLC

CONSTANT Parts                      \* which of them are looked at

VARIABLE subject                    \* what this behaviour is about
vars == <<rvars, evars, gvars, cvars, lvars, subject>>

Fit(p, k, n, t) == [point |-> p, kind |-> k, training |-> n, fitted |-> t]

(* Two models and a refit of the first at one point, a third at another.    *)
FitsDef == {Fit("liquidity_hazard", "v0", 1, 1), Fit("liquidity_hazard", "v1", 1, 1),
            Fit("liquidity_hazard", "v0", 1, 2), Fit("cause_inference", "em", 1, 1)}
PointsDef == {"liquidity_hazard", "cause_inference"}

(* Subjects 0 and 1; a seed rotates the buckets, and one of them across the *)
(* border of the arms.                                                      *)
HashDef == [x \in Seeds \X Subjects |-> (x[1] + 3 * x[2]) % Buckets]

(* For the consent constants: observations count 64, decay to seven eighths *)
(* and weigh as much as a DEFAULT_KAPPA of 1, so that three of them pass    *)
(* every bound that twenty pass in the code.                                *)

(* Propensities of ten units a last place: shares that the column holds.    *)
Exactly == {0, 20}

Symmetric == Permutations(Mandates)

Init == /\ subject \in Parts
        /\ RegistryInit
        /\ ExperimentInit
        /\ ComplianceInit
        /\ ConsentInit
        /\ LedgerInit
        /\ subject # "experiments" => DOMAIN rows = {}

Registering == subject = "registry" /\ RegistryNext
               /\ UNCHANGED <<evars, gvars, cvars, lvars, subject>>
Experimenting == subject = "experiments" /\ ExperimentNext
                 /\ UNCHANGED <<rvars, gvars, cvars, lvars, subject>>
Judging == subject = "gate" /\ ComplianceNext
           /\ UNCHANGED <<rvars, evars, cvars, lvars, subject>>
Consenting == subject = "consent" /\ ConsentNext
              /\ UNCHANGED <<rvars, evars, gvars, lvars, subject>>
Recording == subject = "ledger" /\ LedgerNext
             /\ UNCHANGED <<rvars, evars, gvars, cvars, subject>>

Next == Registering \/ Experimenting \/ Judging \/ Consenting \/ Recording

Spec == Init /\ [][Next]_vars
=============================================================================
