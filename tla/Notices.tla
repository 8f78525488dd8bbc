------------------------------ MODULE Notices ------------------------------
(***************************************************************************)
(* Planning a pre-debit notice: the lawful instants, the one that is       *)
(* chosen, and the mask by which the planner asks the same question of all *)
(* debit slots at once.  Messages and their templates are left out.        *)
(***************************************************************************)
EXTENDS Rails, FiniteSets

CONSTANT None                       \* no send: the plan is silence
ASSUME NoneAssumption == None \notin Int

ContactOpen == 8 * Hour
ContactClose == 19 * Hour
MinNotice == 24                     \* MIN_NOTICE_HOURS
MaxNotice == 96                     \* MAX_NOTICE_HOURS

Largest(S) == CHOOSE x \in S : \A y \in S : y <= x
Smallest(S) == CHOOSE x \in S : \A y \in S : x <= y
Abs(n) == IF n < 0 THEN -n ELSE n

is_contact_window(t) == ContactOpen <= hour_ist(t) /\ hour_ist(t) < ContactClose

(* By elapsed time, where the rail's own test is by calendar date. *)
is_before_cutoff(send, debit) == hour_ist(send) < CutoffMinute \/ debit - send > Day

is_legal_send(send, debit) ==
    /\ debit - send >= MinNotice * Hour
    /\ is_contact_window(send)
    /\ is_before_cutoff(send, debit)

(* The candidate leads, in whole hours, that no send before the decision needs. *)
LegalSends(debit, decided) ==
    {h \in MinNotice .. MaxNotice : /\ debit - h * Hour >= decided
                                    /\ is_legal_send(debit - h * Hour, debit)}

(* The instant to send at, or None.  Of two sends equally far from the      *)
(* predicted funding the later one comes first in the code's list.          *)
plan(debit, decided, funding, messages, cap) ==
    LET legal == LegalSends(debit, decided)
        far(h) == Abs(funding - (debit - h * Hour))
        near == {h \in legal : \A g \in legal : far(h) <= far(g)}
    IN  IF messages >= cap \/ legal = {} THEN None
        ELSE debit - Hour * Smallest(IF funding = None THEN legal ELSE near)

(* The fixed 72-hour notice, walking forward to the first lawful instant. *)
naive_plan(debit, decided) ==
    LET legal == {h \in LegalSends(debit, decided) : h <= 72}
    IN  IF legal = {} THEN None ELSE debit - Hour * Largest(legal)

-----------------------------------------------------------------------------
(* The channel and what the gate is told about the send. *)
Channels == {"sms", "whatsapp"}

(* A number on the DND register is not sent an SMS. *)
choose_channel(preferred, dnd) ==
    IF dnd THEN "whatsapp" ELSE IF preferred \in Channels THEN preferred ELSE "sms"

(* assemble and build_context: the facts the messaging rules read. *)
build_context(send, debit, consent, dnd) ==
    [hour_ist |-> hour_ist(send), is_next_day_debit |-> debit - send < Day,
     dlt_template_id |-> "DLT_PDN_STD_V3", header_series |-> "160",
     dnd_registered |-> dnd, consent_ref |-> consent,
     consent_withdrawn |-> consent = None, messages_30d |-> 0,
     tenant_fatigue_cap |-> 3]
=============================================================================
