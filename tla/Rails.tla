------------------------------- MODULE Rails -------------------------------
(***************************************************************************)
(* The rail adapters and the IST clock they are written against.  An       *)
(* instant is a number of minutes since some Monday, 00:00 IST; seconds    *)
(* are dropped, as hour_ist drops them.                                    *)
(***************************************************************************)
EXTENDS Integers

Hour == 60
Day == 24 * Hour

hour_ist(t) == t % Day              \* minutes into the IST day
date_ist(t) == t \div Day
Weekday(t) == date_ist(t) % 7       \* 0 is Monday

RailNames == {"upi_autopay", "card_emandate", "enach"}

AttemptBudget == [upi_autopay |-> 4, card_emandate |-> 4, enach |-> 3]
NoticeLead == 24 * Hour             \* notice_lead_hours, the same on every rail

CutoffMinute == 23 * Hour + 50      \* PDN_CUTOFF_HOUR_IST
ClearingDays == 0 .. 4
PresentationCutoff == 13 * Hour     \* ENACH_PRESENTATION_CUTOFF_HOUR

is_next_calendar_day(send, debit) == date_ist(debit) = date_ist(send) + 1

(* The NPCI non-peak windows: before 10:00, 13:00-17:00, from 21:30. *)
UpiWindow(m) ==
    \/ m < 10 * Hour
    \/ 13 * Hour <= m /\ m < 17 * Hour
    \/ m >= 21 * Hour + 30

(* May a debit execute at t, on window grounds alone? *)
is_execution_legal(rail, t) ==
    CASE rail = "upi_autopay" -> UpiWindow(hour_ist(t))
      [] rail = "card_emandate" -> TRUE
      [] rail = "enach" -> /\ Weekday(t) \in ClearingDays
                           /\ hour_ist(t) < PresentationCutoff

(* Only UPI has a submission deadline of its own for the notice. *)
is_pdn_send_legal(rail, send, debit) ==
    rail = "upi_autopay" =>
        hour_ist(send) < CutoffMinute \/ ~is_next_calendar_day(send, debit)

(* When the outcome of a presentation is due: at once, or the next clearing *)
(* day at the same hour.                                                    *)
outcome_due_at(rail, t) ==
    IF rail # "enach" THEN t
    ELSE LET due == {t + n * Day : n \in 1 .. 3}
             open == {d \in due : Weekday(d) \in ClearingDays}
         IN  CHOOSE d \in open : \A e \in open : d <= e
=============================================================================
