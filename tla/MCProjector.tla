----------------------------- MODULE MCProjector -----------------------------
(* The projector on small instances: what the provider sends in each.       *)
EXTENDS Projector, TLC

Webhook(at, type, m, c, billing) ==
    [at |-> at, type |-> type, mandate |-> m, cycle |-> c, billing |-> billing,
     amount |-> at]

(* The first mandate fails once more than a budget of 1 allows, and without *)
(* a billing date the first time; the second one is paid.                   *)
TwoMandates ==
    {Webhook(1, "failed", 1, 1, 0),
     Webhook(2, "failed", 1, 1, 9),
     Webhook(3, "authenticated", 2, 2, 8),
     Webhook(4, "captured", 2, 2, 8)}

=============================================================================
