------------------------------ MODULE Planning ------------------------------
(***************************************************************************)
(* Which debit slots the sequencer may consider.  Slot i is i hours after  *)
(* the decision.  Four masks of the sequencer and one of the planner, each *)
(* a claim about instants that are decided elsewhere: by the rail, by the  *)
(* rule pack, by the notice planner.                                       *)
(***************************************************************************)
EXTENDS Sequencer, Notices

SlotTime(decided, i) == decided + i * Hour

execution_window_mask(rail, decided, n) ==
    {i \in 0 .. n - 1 : is_execution_legal(rail, SlotTime(decided, i))}

notice_lead_mask(decided, n) ==
    {i \in 0 .. n - 1 : SlotTime(decided, i) >= decided + NoticeLead}

(* Only the two ends of the window of sends are tried.                      *)
pdn_cutoff_mask(rail, decided, n) ==
    {i \in 0 .. n - 1 :
        LET debit == SlotTime(decided, i)
            latest == debit - NoticeLead
        IN  /\ latest >= decided
            /\ \/ is_pdn_send_legal(rail, latest, debit)
               \/ is_pdn_send_legal(rail, decided, debit)}

deadline_mask(decided, deadline, n) == {i \in 0 .. n - 1 : SlotTime(decided, i) < deadline}

build_mask(rail, decided, deadline, n) ==
    execution_window_mask(rail, decided, n) \cap notice_lead_mask(decided, n)
        \cap pdn_cutoff_mask(rail, decided, n) \cap deadline_mask(decided, deadline, n)

(* Is there a contact hour between 96 and 24 hours before the slot?         *)
(* prefix[k] counts the sendable hours before hour k.                       *)
notice_feasible_mask_Inclusive(decided, n) ==
    {s \in 0 .. n - 1 : \E h \in 0 .. s - MinNotice + 1 :
        h >= s - MaxNotice /\ is_contact_window(decided + h * Hour)}

notice_feasible_mask(decided, n) ==
    LET prefix[k \in 0 .. n] ==
            IF k = 0 THEN 0
            ELSE prefix[k - 1] + (IF is_contact_window(decided + (k - 1) * Hour) THEN 1 ELSE 0)
    IN  {s \in MinNotice .. n - 1 :
            prefix[s - MinNotice + 1] - prefix[Largest({0, s - MaxNotice})] > 0}

(* The slots _choose_slot offers the solver.                                *)
offered(rail, decided, deadline, n) ==
    build_mask(rail, decided, deadline, n) \cap notice_feasible_mask(decided, n)

(* _choose_slot: a decision with budget already spent is solved as a fresh   *)
(* one with as many attempts as are left, from slot 0.                       *)
choose_slot(c) ==
    IF \A t \in Slots(c) : ~At(c, t).legal THEN STOP
    ELSE solve_presence(c)[c.budget][0].action
=============================================================================
