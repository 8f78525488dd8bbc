------------------------------ MODULE Projector ------------------------------
(***************************************************************************)
(* The projector of one tenant: webhooks are stored as they come, in any   *)
(* order and more than once, and projector processes take batches of them  *)
(* and rewrite the mandate and cycle rows they concern from the mandate's  *)
(* whole history.                                                          *)
(*                                                                         *)
(* A batch is one transaction.  It is taken in Begin, each Project locks   *)
(* the next mandate and reads its events, and Commit makes the rows and    *)
(* the processed stamps visible together.  Project keeps the events it     *)
(* read; Commit writes what follows from them, which nothing else can      *)
(* change while the mandate's row is locked.                               *)
(*                                                                         *)
(* What the executor writes to these rows, and what a projection does to   *)
(* scheduled actions, is in Executor.                                      *)
(***************************************************************************)
EXTENDS Naturals, FiniteSets

CONSTANTS
    Mandates, Cycles,   \* ids; a projection walks them in ascending order
    Provisioned,        \* mandates the tenant starts with
    Events,             \* what the provider may send
    Workers,            \* projector processes
    Batch,              \* batch_size
    Budget,             \* RAIL_ATTEMPT_BUDGET
    MaxCrashes,         \* bound: transactions lost to a crash in a behaviour
    None                \* no row, no transaction, no reference

(* Which state an event proposes for its mandate.                           *)
MANDATE_EVENTS ==
    [authenticated |-> "active", resumed |-> "active", paused |-> "paused",
     halted |-> "at_risk", cancelled |-> "revoked", completed |-> "expired"]

EventTypes == DOMAIN MANDATE_EVENTS \cup {"failed", "captured"}
MandateStates == {"created", "active", "paused", "at_risk", "revoked", "expired"}

ASSUME IdAssumption == Mandates \subseteq Nat /\ Cycles \subseteq Nat
ASSUME BoundsAssumption == Provisioned \subseteq Mandates /\ Batch \in Nat \ {0}
                           /\ Budget \in Nat /\ MaxCrashes \in Nat

(* at is the event's place in the total order of (occurred_at, event_id);   *)
(* billing and amount are 0 where the payload has none.                     *)
ASSUME EventAssumption ==
    /\ IsFiniteSet(Events)
    /\ Events \subseteq [at: Nat, type: EventTypes, mandate: Mandates \cup {None},
                         cycle: Cycles \cup {None}, billing: Nat, amount: Nat]
    /\ \A e, f \in Events : e.at = f.at => e = f

(* The provider names a billing cycle under one mandate.                    *)
ASSUME OwnerAssumption ==
    \A e, f \in Events :
        e.cycle = f.cycle /\ None \notin {e.cycle, e.mandate, f.mandate}
            => e.mandate = f.mandate

VARIABLES
    arrival,    \* events_raw: how many rows there were once it was stored, or 0
    processed,  \* events_raw.processed_at is set
    enrolled,   \* mandates that have a row
    mandate,    \* mandates.state, of those that do
    cycle,      \* cycles rows
    txn,        \* what each worker's transaction has locked and read
    crashes

vars == <<arrival, processed, enrolled, mandate, cycle, txn, crashes>>

Stored == {e \in Events : arrival[e] # 0}

(* Mutant: a projection reads the new events, not the whole history.        *)
OfMandate_Unprocessed(m) == {e \in Stored \ processed : e.mandate = m}

OfMandate(m) == {e \in Stored : e.mandate = m}
OfCycle(c, S) == {e \in S : e.cycle = c /\ e.mandate # None}

-----------------------------------------------------------------------------
(* The folds.  An event is one fact however often it was delivered.         *)

Earliest(S) == CHOOSE e \in S : \A f \in S : e.at <= f.at
Latest(S) == CHOOSE e \in S : \A f \in S : f.at <= e.at

Failures(S) == {e \in S : e.type = "failed"}
Successes(S) == {e \in S : e.type = "captured"}
Billed(S) == {e \in S : e.billing > 0}
Priced(S) == {e \in S : e.amount > 0}

ProjectCycle(S) ==
    [state |-> IF Successes(S) # {} THEN "succeeded"
               ELSE IF Failures(S) # {} THEN "executing" ELSE "scheduled",
     used |-> Cardinality(Failures(S)),
     lastFailure |-> IF Failures(S) = {} THEN 0 ELSE Latest(Failures(S)).at,
     recovered |-> IF Successes(S) = {} THEN 0 ELSE Earliest(Successes(S)).amount]

(* The row a cycle gets on first sight.                                     *)
NewRow(S) ==
    [facts |-> ProjectCycle(S),
     due |-> Earliest(S).at,
     deadline |-> Earliest(Billed(S)).billing,
     amount |-> IF Priced(S) = {} THEN 0 ELSE Earliest(Priced(S)).amount]

(* MANDATE_TRANSITIONS, for the states an event can propose.                *)
CanTransition(s, t) ==
    t \in CASE s = "created" -> {"active", "expired"}
            [] s = "active" -> {"paused", "at_risk", "expired"}
            [] s = "paused" -> {"active", "expired"}
            [] s = "at_risk" -> {"active", "revoked", "expired"}
            [] OTHER -> {}

After(s, e) ==
    IF e.type \in DOMAIN MANDATE_EVENTS /\ CanTransition(s, MANDATE_EVENTS[e.type])
    THEN MANDATE_EVENTS[e.type]
    ELSE s

(* The fold of a mandate's events in their total order.                     *)
ProjectMandate(S) ==
    LET fold[T \in SUBSET S] ==
            IF T = {} THEN "created" ELSE After(fold[T \ {Latest(T)}], Latest(T))
    IN fold[S]

-----------------------------------------------------------------------------
Facts == [state: {"scheduled", "executing", "succeeded"}, used: 0 .. Budget,
          lastFailure: Nat, recovered: Nat]
Rows == [facts: Facts, due: Nat, deadline: Nat, amount: Nat]
Txns == [batch: SUBSET Events, todo: SUBSET Mandates,
         seen: [Mandates -> SUBSET Events]]

ASSUME NoneAssumption == None \notin Nat \cup Rows \cup Txns

RowsTypeOK ==
    /\ arrival \in [Events -> Nat]
    /\ processed \in SUBSET Events
    /\ enrolled \in SUBSET Mandates
    /\ cycle \in [Cycles -> Rows \cup {None}]
    /\ txn \in [Workers -> Txns \cup {None}]
    /\ crashes \in 0 .. MaxCrashes

TypeOK == RowsTypeOK /\ mandate \in [Mandates -> MandateStates]

Init ==
    /\ arrival = [e \in Events |-> 0]
    /\ processed = {}
    /\ enrolled = Provisioned
    /\ mandate = [m \in Mandates |-> "created"]
    /\ cycle = [c \in Cycles |-> None]
    /\ txn = [w \in Workers |-> None]
    /\ crashes = 0

(* A signed webhook is stored; one already known changes nothing.           *)
Receive(e) ==
    /\ arrival' = [arrival EXCEPT ![e] = IF @ = 0 THEN Cardinality(Stored) + 1 ELSE @]
    /\ UNCHANGED <<processed, enrolled, mandate, cycle, txn, crashes>>

(* A mandate is enrolled.                                                   *)
Provision(m) ==
    /\ m \notin enrolled
    /\ enrolled' = enrolled \cup {m}
    /\ UNCHANGED <<arrival, processed, mandate, cycle, txn, crashes>>

Locked == UNION {txn[w].batch : w \in {v \in Workers : txn[v] # None}}
Holds(w, m) == txn[w] # None /\ txn[w].seen[m] # {}

(* FOR UPDATE SKIP LOCKED LIMIT: the oldest unprocessed rows nobody has.    *)
Oldest(waiting) ==
    {S \in SUBSET waiting :
        /\ Cardinality(S) = IF Cardinality(waiting) < Batch
                            THEN Cardinality(waiting) ELSE Batch
        /\ \A e \in S, f \in waiting \ S : arrival[e] < arrival[f]}

Begin(w) ==
    /\ txn[w] = None
    /\ \E S \in Oldest(Stored \ (processed \cup Locked)) :
        /\ S # {}
        /\ txn' = [txn EXCEPT ![w] =
                    [batch |-> S,
                     todo |-> {e.mandate : e \in S} \ {None},
                     seen |-> [m \in Mandates |-> {}]]]
    /\ UNCHANGED <<arrival, processed, enrolled, mandate, cycle, crashes>>

(* Mutant: the mandates are not sorted.                                     *)
Upcoming_Unsorted(w) == txn[w].todo

(* The mandate a transaction projects next.                                 *)
Upcoming(w) == {m \in txn[w].todo : \A n \in txn[w].todo : m <= n}

(* A mandate without a row is passed over.                                  *)
PassOver(w) ==
    /\ txn[w] # None
    /\ \E m \in Upcoming(w) :
        /\ m \notin enrolled
        /\ txn' = [txn EXCEPT ![w].todo = @ \ {m}]
    /\ UNCHANGED <<arrival, processed, enrolled, mandate, cycle, crashes>>

(* Mutant: the mandate's row is read without FOR UPDATE.                    *)
Unlocked_NoForUpdate(w, m) == TRUE

(* What the table's CHECK allows: only a cycle with a deadline is written.  *)
WithinBudget(S) ==
    \A c \in Cycles :
        Billed(OfCycle(c, S)) # {} => Cardinality(Failures(OfCycle(c, S))) <= Budget

Unlocked(w, m) == \A v \in Workers \ {w} : ~ Holds(v, m)

(* The lock on the mandate's row is free: take it, then read its events.    *)
Project(w) ==
    /\ txn[w] # None
    /\ \E m \in Upcoming(w) :
        /\ m \in enrolled
        /\ Unlocked(w, m)
        /\ WithinBudget(OfMandate(m))
        /\ txn' = [txn EXCEPT ![w].todo = @ \ {m}, ![w].seen[m] = OfMandate(m)]
    /\ UNCHANGED <<arrival, processed, enrolled, mandate, cycle, crashes>>

(* The CHECK fails: the whole batch rolls back, for the next tick to retry. *)
Overspent(w) ==
    /\ txn[w] # None
    /\ \E m \in Upcoming(w) :
        m \in enrolled /\ Unlocked(w, m) /\ ~ WithinBudget(OfMandate(m))

Reject(w) ==
    /\ Overspent(w)
    /\ txn' = [txn EXCEPT ![w] = None]
    /\ UNCHANGED <<arrival, processed, enrolled, mandate, cycle, crashes>>

(* The events a transaction read for a cycle, and the row it writes.        *)
Seen(w, c) == OfCycle(c, UNION {txn[w].seen[m] : m \in Mandates})

Upsert(c, S) ==
    IF Billed(S) = {} THEN cycle[c]
    ELSE IF cycle[c] = None THEN NewRow(S)
    ELSE [cycle[c] EXCEPT !.facts = ProjectCycle(S)]

Commit(w) ==
    /\ txn[w] # None
    /\ txn[w].todo = {}
    /\ processed' = processed \cup txn[w].batch
    /\ mandate' = [m \in Mandates |->
                    IF Holds(w, m) THEN ProjectMandate(txn[w].seen[m]) ELSE mandate[m]]
    /\ cycle' = [c \in Cycles |-> Upsert(c, Seen(w, c))]
    /\ txn' = [txn EXCEPT ![w] = None]
    /\ UNCHANGED <<arrival, enrolled, crashes>>

(* A worker dies, or loses its connection: its transaction rolls back.      *)
Crash(w) ==
    /\ txn[w] # None
    /\ crashes < MaxCrashes
    /\ txn' = [txn EXCEPT ![w] = None]
    /\ crashes' = crashes + 1
    /\ UNCHANGED <<arrival, processed, enrolled, mandate, cycle>>

Next ==
    \/ \E e \in Events : Receive(e)
    \/ \E m \in Mandates : Provision(m)
    \/ \E w \in Workers :
        \/ Begin(w) \/ PassOver(w) \/ Project(w) \/ Reject(w) \/ Commit(w)
        \/ Crash(w)

Spec == Init /\ [][Next]_vars

(* Every projector's loop goes on (worker.run); locks are granted.          *)
Fairness ==
    \A w \in Workers : WF_vars(Begin(w) \/ PassOver(w) \/ Project(w)
                                \/ Reject(w) \/ Commit(w))

FairSpec == Spec /\ Fairness

-----------------------------------------------------------------------------
(* Safety. *)

(* No committed batch is missing from a row and no row knows more than the  *)
(* log: a cycle's facts and a mandate's state are the fold of one set of    *)
(* events that lies between the processed and the stored ones.  Two         *)
(* projectors, late arrivals and batches of several mandates all bear on    *)
(* it.  A mandate enrolled after its events has no row when they are        *)
(* stamped, so the second part is about those the tenant started with.      *)
Between(P, S) == {T \in SUBSET S : P \subseteq T}

CyclesAreFolds ==
    \A c \in Cycles :
        cycle[c] # None =>
            \E S \in Between(OfCycle(c, processed), OfCycle(c, Stored)) :
                Billed(S) # {} /\ cycle[c].facts = ProjectCycle(S)

MandatesAreFolds ==
    \A m \in Provisioned :
        \E S \in Between({e \in processed : e.mandate = m},
                         {e \in Stored : e.mandate = m}) :
            mandate[m] = ProjectMandate(S)

RowsAreFolds == CyclesAreFolds /\ MandatesAreFolds

(* Money does not disappear from a row: the projector never takes back a    *)
(* failure it counted or a payment it recorded, whichever of two projectors *)
(* commits last.                                                            *)
FactsOnlyGrow ==
    [][\A c \in Cycles :
        cycle[c] # None =>
            /\ cycle'[c] # None
            /\ cycle[c].facts.used <= cycle'[c].facts.used
            /\ cycle[c].facts.state = "succeeded"
                   => cycle'[c].facts.state = "succeeded"]_vars

(* Why CyclesAreFolds holds.  Some events of a mandate are past projecting: *)
(* processed, or in a batch that has passed their mandate over.  Whoever    *)
(* holds the mandate's row has read all of those, and all that any written  *)
(* row of the mandate was made from.                                        *)
Stamped(e) ==
    \/ e \in processed
    \/ \E w \in Workers : /\ txn[w] # None
                         /\ e \in txn[w].batch
                         /\ e.mandate \notin txn[w].todo
                         /\ ~ Holds(w, e.mandate)

BatchInv ==
    /\ processed \subseteq Stored
    /\ \A w \in Workers :
        txn[w] # None =>
            /\ txn[w].batch \subseteq Stored
            /\ \A m \in txn[w].todo : \E e \in txn[w].batch : e.mandate = m

LockInv ==
    \A w \in Workers, m \in Mandates :
        Holds(w, m) =>
            /\ m \in enrolled
            /\ m \notin txn[w].todo
            /\ txn[w].seen[m] \subseteq OfMandate(m)
            /\ WithinBudget(txn[w].seen[m])
            /\ \A e \in Events :
                e.mandate = m /\ (Stamped(e) \/ e \in txn[w].batch)
                    => e \in txn[w].seen[m]
            /\ \A v \in Workers : Holds(v, m) => v = w

Backs(S, c) ==
    /\ Billed(S) # {}
    /\ cycle[c].facts = ProjectCycle(S)
    /\ \A e \in OfCycle(c, Events) : Stamped(e) => e \in S
    /\ \A e \in S : e.mandate \in enrolled
    /\ \A e \in S, w \in Workers :
        Holds(w, e.mandate) => S \subseteq txn[w].seen[e.mandate]

RowInv ==
    \A c \in Cycles :
        cycle[c] # None => \E S \in SUBSET OfCycle(c, Stored) : Backs(S, c)

MandateInv ==
    /\ Provisioned \subseteq enrolled
    /\ \A m \in Provisioned :
        \E S \in SUBSET OfMandate(m) :
            /\ mandate[m] = ProjectMandate(S)
            /\ \A e \in Events : e.mandate = m /\ Stamped(e) => e \in S

IInv == RowsTypeOK /\ BatchInv /\ LockInv /\ RowInv /\ MandateInv

(* Liveness. *)

(* Every stored event is processed, unless some batch fails its CHECK.  Two *)
(* transactions that wait for each other's mandate, or a batch that leaves  *)
(* some of its events unstamped, would stop it.                             *)
EventsProcessed ==
    \A e \in Events :
        arrival[e] # 0 ~> e \in processed \/ \E w \in Workers : Overspent(w)

=============================================================================
