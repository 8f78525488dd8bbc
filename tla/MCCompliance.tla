---------------------------- MODULE MCCompliance ----------------------------
(* The published rules, the notice rule's third version, a later window rule, *)
(* and facts on both sides of every boundary.                                 *)
EXTENDS Compliance

Rule(id, version, as_of, applies_to, rails, pred, on_fail) ==
    [id |-> id, version |-> version, as_of |-> as_of, active |-> TRUE,
     applies_to |-> applies_to, rails |-> rails, pred |-> pred, on_fail |-> on_fail]

KnownRails == {"upi_autopay", "card_emandate"}
Debit == {"debit_attempt"}

MCBaseRules ==
    {Rule("RBI-EMANDATE-PDN-24H", 2, 0, Debit, KnownRails, "pdn24", "DENY"),
     Rule("NPCI-PDN-CUTOFF-2350", 1, 0, {"notification"}, Nil, "cutoff", "DENY"),
     Rule("RBI-EMANDATE-AFA-CAP", 2, 0, Debit, Nil, "afa", "ESCALATE_HUMAN"),
     Rule("RBI-FPC-CONTACT-WINDOW", 1, 0, {"sms", "whatsapp"}, Nil, "contact", "DEFER"),
     Rule("TRAI-DLT-TEMPLATE", 4, 0, {"sms"}, Nil, "dlt", "DENY"),
     Rule("DPDP-CONSENT-VALID", 1, 0, {"sms", "whatsapp"} \cup Debit, Nil, "consent", "DENY"),
     Rule("PRAYAS-FATIGUE-CAP", 1, 0, {"sms", "whatsapp"}, Nil, "fatigue", "DEFER")}

MCLaterRules ==
    {Rule("NPCI-AUTOPAY-WINDOW", 3, 2, Debit, {"upi_autopay"}, "window", "DENY"),
     Rule("RBI-EMANDATE-PDN-24H", 3, 3, Debit, Nil, "pdn24", "DENY")}

MCBaseCaps == <<[mcc |-> "*", cap |-> 15, as_of |-> 0], [mcc |-> "6300", cap |-> 100, as_of |-> 0]>>
MCLaterCaps == {[mcc |-> "*", cap |-> 10, as_of |-> 2], [mcc |-> "*", cap |-> 13, as_of |-> 1]}

Fact(action, at, amount, mcc, pdn, withdrawn, messages, template) ==
    [action |-> action, at |-> at, amount |-> amount, mcc |-> mcc, pdn |-> pdn,
     withdrawn |-> withdrawn, messages |-> messages, template |-> template]

MCFacts ==
    {Fact("debit_attempt", at, 12, "5812", pdn, FALSE, 0, Nil) :
        at \in {599, 600}, pdn \in {Nil, 599 - 1440, 600 - 1440}}
    \cup {Fact("debit_attempt", 599, amount, mcc, 599 - 1440, FALSE, 0, Nil) :
        amount \in {12, 16}, mcc \in {"5812", "6300"}}
    \cup {Fact("debit_attempt", 600, 12, "6300", 599 - 1440, TRUE, 0, Nil)}
    \cup {Fact("sms", at, 12, Nil, Nil, FALSE, 2, "T") : at \in {479, 480, 1140}}
    \cup {Fact("sms", 480, 12, Nil, Nil, withdrawn, messages, template) :
        withdrawn \in BOOLEAN, messages \in {2, 3}, template \in {Nil, "T"}}
    \cup {Fact("push", 480, 12, Nil, Nil, FALSE, 0, Nil)}
=============================================================================
