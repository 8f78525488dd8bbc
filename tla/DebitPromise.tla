---------------------------- MODULE DebitPromise ----------------------------
(***************************************************************************)
(* What the executor promises the customer, without timers, transactions   *)
(* or an outbox: a debit is an intent first, a cycle has at most Budget of *)
(* them, and a cycle that is settled gets no new one.                      *)
(***************************************************************************)
EXTENDS Integers

CONSTANTS Cycles, Budget

VARIABLES
    intents,    \* the debits durably decided, as <<cycle, number>>
    debits,     \* the ones that took money
    settled     \* the cycles that are paid

Intend(c, n) ==
    /\ n \in 1 .. Budget
    /\ c \notin settled
    /\ <<c, n>> \notin intents
    /\ intents' = intents \cup {<<c, n>>}
    /\ UNCHANGED <<debits, settled>>

Debit(k) ==
    /\ k \in intents
    /\ debits' = debits \cup {k}
    /\ UNCHANGED <<intents, settled>>

Settle(c) ==
    /\ settled' = settled \cup {c}
    /\ UNCHANGED <<intents, debits>>

Init == intents = {} /\ debits = {} /\ settled = {}

Next ==
    \/ \E c \in Cycles : Settle(c) \/ \E n \in 1 .. Budget : Intend(c, n)
    \/ \E k \in intents : Debit(k)

Spec == Init /\ [][Next]_<<intents, debits, settled>>

=============================================================================
