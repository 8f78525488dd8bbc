------------------------------ MODULE Executor ------------------------------
(***************************************************************************)
(* The durable executor of one tenant and everything that writes the rows  *)
(* it reads: the planner that queues debits, the projector that rewrites   *)
(* a cycle from its webhooks, the operator who stops a mandate, and the    *)
(* rail behind the outbox.                                                 *)
(*                                                                         *)
(* A database transaction whose effects become visible at its commit is    *)
(* one action.  The fire transaction is three: its first query starts and  *)
(* may wait for the cycle's row lock, BeginFire gets the lock, and one of  *)
(* four outcomes commits.  Each cycle has its own mandate.  Time is not    *)
(* modelled: whether a queued debit is due, a deadline has passed or the   *)
(* gate refuses is left open at every step.                                *)
(***************************************************************************)
EXTENDS Integers

CONSTANTS
    Cycles,             \* billing cycles of the tenant
    Workers,            \* executor processes (drain_tenant loops)
    Reconcilers,        \* callers of reconcile_ambiguous; src/ starts none
    Budget,             \* cycles.attempt_budget
    MaxRelayAttempts,   \* MAX_RELAY_ATTEMPTS
    LeaseOutlivesClaim, \* ADR-044's premise: no live worker loses its lease
    MaxFailures,        \* bound: payment.failed events per cycle
    MaxCrashes,         \* bound: worker crashes in a behaviour
    None                \* an absent transaction or provider call

ASSUME BudgetAssumption == Budget \in Nat \ {0}
ASSUME BoundsAssumption == /\ MaxRelayAttempts \in Nat
                           /\ MaxFailures \in Nat
                           /\ MaxCrashes \in Nat
ASSUME LeaseAssumption == LeaseOutlivesClaim \in BOOLEAN
ASSUME ProcessAssumption == Workers \cap Reconcilers = {}

Procs == Workers \cup Reconcilers

(* One more than the budget, so that an attempt beyond it can be written. *)
Seqs == 1 .. Budget + 1
Keys == Cycles \X Seqs              \* idem_key: cycle and attempt number
Actions == Cycles \X (0 .. Budget - 1)  \* action_id: cycle, attempts_used

Settled == {"succeeded"}            \* the one settled state any code writes
CycleStates == {"scheduled", "executing"} \cup Settled
ActionStates == {"absent", "pending", "claimed", "done", "cancelled"}
Open == {"pending", "claimed"}
Verdicts == {"ALLOW", "REFUSED"}    \* one REFUSED for DENY, DEFER, STALE, ...
Replies == {"accepted", "declined", "retriable", "ambiguous"}

VARIABLES
    state, used, active,        \* cycles.state, .attempts_used; mandate is active
    failures, captured,     \* events_raw: failures, a success
    stopped, live,              \* tenants.config: kill switch, may_fire(stage)
    action, leased,             \* scheduled_actions.state, locked_until > now()
    attempt, mintedBy,          \* attempts.state, the action of its decision
    outbox, tries,              \* outbox.state, .attempts
    ledger,                     \* decisions: which action got which verdict
    rail,                       \* the provider took a key's debit on, or declined
    draft,                      \* debits the planner is about to insert
    todo, query, txn,       \* a worker's claims, waiting query, transaction
    rows, call, busy,       \* a relay's batch and call, what a process does
    crashes

cycleVars == <<state, used, active>>
eventVars == <<failures, captured>>
switchVars == <<stopped, live>>
timerVars == <<action, leased>>
intentVars == <<attempt, mintedBy, outbox, tries, ledger>>
procVars == <<todo, query, txn, rows, call, busy, crashes>>
vars == <<cycleVars, eventVars, switchVars, timerVars, intentVars, procVars,
          rail, draft>>

Queries == [action: Actions, active: BOOLEAN]
Txns == [action: Actions, state: CycleStates, used: Nat, active: BOOLEAN,
         permitted: BOOLEAN]
Calls == [key: Keys, reply: Replies \cup {"missing"}]

TypeOK ==
    /\ state \in [Cycles -> CycleStates]
    /\ used \in [Cycles -> Nat]
    /\ active \in [Cycles -> BOOLEAN]
    /\ failures \in [Cycles -> Nat]
    /\ captured \in [Cycles -> BOOLEAN]
    /\ stopped \in SUBSET Cycles
    /\ live \in BOOLEAN
    /\ action \in [Actions -> ActionStates]
    /\ leased \in SUBSET Actions
    /\ attempt \in [Keys -> {"none", "fired", "failed", "ambiguous"}]
    /\ mintedBy \in [Keys -> Actions \cup {None}]
    /\ outbox \in [Keys -> {"none", "pending", "sent", "ambiguous"}]
    /\ tries \in [Keys -> 0 .. MaxRelayAttempts]
    /\ ledger \in SUBSET (Actions \X Verdicts)
    /\ rail \in [Keys -> {"none", "charged", "declined"}]
    /\ draft \in SUBSET Actions
    /\ todo \in [Procs -> SUBSET Actions]
    /\ query \in [Procs -> Queries \cup {None}]
    /\ txn \in [Procs -> Txns \cup {None}]
    /\ rows \in [Procs -> SUBSET Keys]
    /\ call \in [Procs -> Calls \cup {None}]
    /\ busy \in [Procs -> {"idle", "drain", "relay", "reconcile"}]
    /\ crashes \in 0 .. MaxCrashes

Init ==
    /\ state = [c \in Cycles |-> "scheduled"]
    /\ used = [c \in Cycles |-> 0]
    /\ active = [c \in Cycles |-> TRUE]
    /\ failures = [c \in Cycles |-> 0]
    /\ captured = [c \in Cycles |-> FALSE]
    /\ stopped = {}
    /\ live = TRUE
    /\ action = [a \in Actions |-> "absent"]
    /\ leased = {}
    /\ attempt = [k \in Keys |-> "none"]
    /\ mintedBy = [k \in Keys |-> None]
    /\ outbox = [k \in Keys |-> "none"]
    /\ tries = [k \in Keys |-> 0]
    /\ ledger = {}
    /\ rail = [k \in Keys |-> "none"]
    /\ draft = {}
    /\ todo = [p \in Procs |-> {}]
    /\ query = [p \in Procs |-> None]
    /\ txn = [p \in Procs |-> None]
    /\ rows = [p \in Procs |-> {}]
    /\ call = [p \in Procs |-> None]
    /\ busy = [p \in Procs |-> "idle"]
    /\ crashes = 0

-----------------------------------------------------------------------------
(* Webhooks, the projector and the operator. *)

(* A signed webhook of the cycle's mandate is stored: one more failure, or  *)
(* a success.                                                               *)
Ingest(c) ==
    /\ \/ /\ failures[c] < MaxFailures
          /\ failures' = [failures EXCEPT ![c] = @ + 1]
          /\ UNCHANGED captured
       \/ /\ captured' = [captured EXCEPT ![c] = TRUE]
          /\ UNCHANGED failures
    /\ UNCHANGED <<cycleVars, switchVars, timerVars, intentVars, procVars, rail,
                   draft>>

(* FOR UPDATE OF c: some fire transaction holds the cycle's row. *)
Locked(c) == \E p \in Procs : txn[p] # None /\ txn[p].action[1] = c

ProjectedState_FailureWins(c) ==
    IF failures[c] > 0 THEN "executing"
    ELSE IF captured[c] THEN "succeeded" ELSE "scheduled"

ProjectedState(c) ==
    IF captured[c] THEN "succeeded"
    ELSE IF failures[c] > 0 THEN "executing" ELSE "scheduled"

Project_NoCheck(c) ==
    /\ ~Locked(c)
    /\ state' = [state EXCEPT ![c] = ProjectedState(c)]
    /\ used' = [used EXCEPT ![c] = failures[c]]
    /\ UNCHANGED <<active, eventVars, switchVars, timerVars, intentVars, procVars,
                   rail, draft>>

(* project_tenant recomputes the cycle from every stored event, which       *)
(* overwrites attempts_used, and cancels what a paid cycle still has        *)
(* pending.  Any event of the mandate makes it dirty, so this can happen at *)
(* any time.  A count above the budget fails the table's CHECK: the         *)
(* transaction rolls back and nothing changes.                              *)
Project(c) ==
    /\ ~Locked(c)
    /\ failures[c] <= Budget
    /\ state' = [state EXCEPT ![c] = ProjectedState(c)]
    /\ used' = [used EXCEPT ![c] = failures[c]]
    /\ \E b \in BOOLEAN : active' = [active EXCEPT ![c] = b]
    /\ action' = [a \in Actions |->
                    IF a[1] = c /\ captured[c] /\ action[a] = "pending"
                    THEN "cancelled" ELSE action[a]]
    /\ UNCHANGED <<failures, captured, switchVars, leased, intentVars, procVars,
                   rail, draft>>

(* stop and resume of the mandate (or its tenant). *)
Stop(c) ==
    /\ stopped' = stopped \cup {c}
    /\ UNCHANGED <<cycleVars, eventVars, live, timerVars, intentVars, procVars,
                   rail, draft>>

Resume(c) ==
    /\ stopped' = stopped \ {c}
    /\ UNCHANGED <<cycleVars, eventVars, live, timerVars, intentVars, procVars,
                   rail, draft>>

(* set_stage moves the tenant between stages that may and may not fire. *)
SetStage ==
    /\ live' = ~live
    /\ UNCHANGED <<cycleVars, eventVars, stopped, timerVars, intentVars,
                   procVars, rail, draft>>

-----------------------------------------------------------------------------
(* The planner. *)

(* A cycle the planner selects: failed, with budget, without an open action. *)
Candidate(c) ==
    /\ state[c] = "executing"
    /\ used[c] < Budget
    /\ \A a \in Actions : a[1] = c => action[a] \notin Open

(* plan_tenant reads its candidates; deadline, cohort and the sequencer may *)
(* drop any of them.                                                        *)
PlanRead ==
    /\ live
    /\ draft = {}
    /\ \E C \in SUBSET {c \in Cycles : Candidate(c)} :
          draft' = {<<c, used[c]>> : c \in C}
    /\ UNCHANGED <<cycleVars, eventVars, switchVars, timerVars, intentVars,
                   procVars, rail>>

(* INSERT ... ON CONFLICT (action_id) DO NOTHING, all at one commit. *)
PlanWrite ==
    /\ draft # {}
    /\ action' = [a \in Actions |-> IF a \in draft /\ action[a] = "absent"
                                    THEN "pending" ELSE action[a]]
    /\ draft' = {}
    /\ UNCHANGED <<cycleVars, eventVars, switchVars, leased, intentVars,
                   procVars, rail>>

-----------------------------------------------------------------------------
(* Claiming. *)

Claimable_PendingOnly(a) == action[a] = "pending" /\ a \notin leased

Claimable(a) == action[a] \in Open /\ a \notin leased

(* claim_due_actions, one statement: the due rows nobody leases. *)
Claim(p) ==
    /\ busy[p] = "idle"
    /\ \E B \in SUBSET {a \in Actions : Claimable(a)} :
          /\ todo' = [todo EXCEPT ![p] = B]
          /\ leased' = leased \cup B
          /\ action' = [a \in Actions |->
                          IF a \in B THEN "claimed" ELSE action[a]]
    /\ busy' = [busy EXCEPT ![p] = "drain"]
    /\ UNCHANGED <<cycleVars, eventVars, switchVars, intentVars, rail, draft,
                   query, txn, rows, call, crashes>>

(* locked_until passes.  Under ADR-044's premise only a dead worker's does. *)
LeaseExpires(a) ==
    /\ a \in leased
    /\ LeaseOutlivesClaim => \A p \in Procs : a \notin todo[p]
    /\ leased' = leased \ {a}
    /\ UNCHANGED <<cycleVars, eventVars, switchVars, action, intentVars, procVars,
                   rail, draft>>

-----------------------------------------------------------------------------
(* The fire transaction. *)

(* The cycle is selected FOR UPDATE OF c, joined to its mandate.  At READ    *)
(* COMMITTED the statement's snapshot is taken here, before any wait for    *)
(* the lock: the locked row is read again when the wait ends, the mandate   *)
(* joined to it is not.                                                     *)
QueryCycle(p, a) ==
    /\ a \in todo[p]
    /\ query[p] = None
    /\ txn[p] = None
    /\ query' = [query EXCEPT ![p] = [action |-> a, active |-> active[a[1]]]]
    /\ UNCHANGED <<cycleVars, eventVars, switchVars, timerVars, intentVars, rail,
                   draft, todo, txn, rows, call, busy, crashes>>

(* The lock is granted; the kill switch and the stage are read under it.    *)
BeginFire(p) ==
    /\ query[p] # None
    /\ LET c == query[p].action[1] IN
          /\ ~Locked(c)
          /\ txn' = [txn EXCEPT ![p] =
                       [action |-> query[p].action, active |-> query[p].active,
                        state |-> state[c], used |-> used[c],
                        permitted |-> live /\ c \notin stopped]]
    /\ query' = [query EXCEPT ![p] = None]
    /\ UNCHANGED <<cycleVars, eventVars, switchVars, timerVars, intentVars, rail,
                   draft, todo, rows, call, busy, crashes>>

(* release_action: whatever state the action is in by now. *)
Release(p, final) ==
    LET a == txn[p].action IN
    /\ action' = [action EXCEPT ![a] = final]
    /\ leased' = leased \ {a}
    /\ todo' = [todo EXCEPT ![p] = @ \ {a}]
    /\ txn' = [txn EXCEPT ![p] = None]
    /\ UNCHANGED <<query, rows, call, busy, crashes>>

Record(p, verdict) == ledger' = ledger \cup {<<txn[p].action, verdict>>}

(* "killed" and "stage_forbids_firing": cancelled without a record. *)
RefuseStopped(p) ==
    /\ txn[p] # None
    /\ ~txn[p].permitted
    /\ Release(p, "cancelled")
    /\ UNCHANGED <<cycleVars, eventVars, switchVars, intentVars, rail, draft>>

(* _revalidate, apart from its deadline and amount. *)
Valid(t) == t.active /\ t.state \notin Settled /\ t.used < Budget

(* Some check fails.  The deadline may have passed whatever the rows say,   *)
(* so a valid cycle can be refused here too; the amount never changes once  *)
(* the cycle exists.                                                        *)
RefuseStale(p) ==
    /\ txn[p] # None
    /\ txn[p].permitted
    /\ Record(p, "REFUSED")
    /\ Release(p, "cancelled")
    /\ UNCHANGED <<cycleVars, eventVars, switchVars, attempt, mintedBy, outbox,
                   tries, rail, draft>>

Deny_KeepsOutboxRow(p) ==
    /\ txn[p] # None
    /\ txn[p].permitted
    /\ Valid(txn[p])
    /\ Record(p, "REFUSED")
    /\ Release(p, "cancelled")
    /\ outbox' = [outbox EXCEPT ![<<txn[p].action[1], txn[p].used + 1>>] =
                    IF @ = "none" THEN "pending" ELSE @]
    /\ UNCHANGED <<cycleVars, eventVars, switchVars, attempt, mintedBy, tries,
                   rail, draft>>

(* The UPDATE's rowcount is the budget check; the gate may refuse after it, *)
(* which rolls the savepoint back.                                          *)
Deny(p) ==
    /\ txn[p] # None
    /\ txn[p].permitted
    /\ Valid(txn[p])
    /\ Record(p, "REFUSED")
    /\ Release(p, IF used[txn[p].action[1]] < Budget THEN "cancelled" ELSE "done")
    /\ UNCHANGED <<cycleVars, eventVars, switchVars, attempt, mintedBy, outbox,
                   tries, rail, draft>>

KeyOf(t) == <<t.action[1], t.used + 1>>

(* Budget consumed, ALLOW recorded, attempt and outbox row inserted unless  *)
(* the idempotency key is already there.                                    *)
Fire(p) ==
    /\ txn[p] # None
    /\ txn[p].permitted
    /\ Valid(txn[p])
    /\ used[txn[p].action[1]] < Budget
    /\ used' = [used EXCEPT ![txn[p].action[1]] = @ + 1]
    /\ Record(p, "ALLOW")
    /\ LET k == KeyOf(txn[p]) IN
          /\ attempt' = [attempt EXCEPT ![k] = IF @ = "none" THEN "fired" ELSE @]
          /\ mintedBy' = [mintedBy EXCEPT ![k] = IF attempt[k] = "none"
                                                 THEN txn[p].action ELSE @]
          /\ outbox' = [outbox EXCEPT ![k] = IF @ = "none" THEN "pending" ELSE @]
    /\ Release(p, "done")
    /\ UNCHANGED <<state, active, eventVars, switchVars, tries, rail, draft>>

-----------------------------------------------------------------------------
(* The outbox relay. *)

Relayable_Once(k) == outbox[k] = "pending" /\ tries[k] = 0

Relayable(k) == outbox[k] = "pending" /\ tries[k] < MaxRelayAttempts

(* relay_once selects its batch; the row locks end with that transaction. *)
RelayBegin(p) ==
    /\ busy[p] = "drain"
    /\ todo[p] = {}
    /\ busy' = [busy EXCEPT ![p] = "relay"]
    /\ rows' = [rows EXCEPT ![p] = {k \in Keys : Relayable(k)}]
    /\ UNCHANGED <<cycleVars, eventVars, switchVars, timerVars, intentVars, rail,
                   draft, todo, query, txn, call, crashes>>

Answers(effect) ==
    {"retriable", "ambiguous"} \cup
        (CASE effect = "none" -> {}
           [] effect = "charged" -> {"accepted"}
           [] effect = "declined" -> {"declined"})

(* submit_debit.  The first submission of a key decides what happens to the *)
(* money; a later one only learns it.  A lost or late answer is ambiguous,  *)
(* a retriable one means that this submission did nothing.                  *)
Submit(p, k) ==
    /\ busy[p] = "relay"
    /\ k \in rows[p]
    /\ call[p] = None
    /\ \E effect \in IF rail[k] = "none" THEN {"none", "charged", "declined"}
                     ELSE {rail[k]} :
       \E reply \in Answers(effect) :
          /\ reply = "retriable" => effect = rail[k]
          /\ rail' = [rail EXCEPT ![k] = effect]
          /\ call' = [call EXCEPT ![p] = [key |-> k, reply |-> reply]]
    /\ UNCHANGED <<cycleVars, eventVars, switchVars, timerVars, intentVars, draft,
                   todo, query, txn, rows, busy, crashes>>

Increment(n) == IF n < MaxRelayAttempts THEN n + 1 ELSE n

(* What an answer does to the outbox row and to the attempt. *)
AfterReply(reply) ==
    CASE reply = "accepted" -> <<"sent", "fired">>
      [] reply \in {"declined", "missing"} -> <<"sent", "failed">>
      [] reply = "ambiguous" -> <<"ambiguous", "ambiguous">>

(* The settling transaction of one answer, unconditional in the row's state. *)
(* Its writes to outbox and attempts, then the batch moves on.               *)
Write(p, reply) ==
    LET k == call[p].key IN
    /\ tries' = [tries EXCEPT ![k] = Increment(@)]
    /\ IF reply = "retriable"
       THEN UNCHANGED <<outbox, attempt>>
       ELSE /\ outbox' = [outbox EXCEPT ![k] = AfterReply(reply)[1]]
            /\ attempt' = [attempt EXCEPT ![k] = AfterReply(reply)[2]]
    /\ UNCHANGED <<mintedBy, ledger>>

NextRow(p) ==
    /\ rows' = [rows EXCEPT ![p] = @ \ {call[p].key}]
    /\ call' = [call EXCEPT ![p] = None]
    /\ UNCHANGED <<todo, query, txn, busy, crashes>>

Settle(p) ==
    /\ busy[p] = "relay"
    /\ call[p] # None
    /\ Write(p, call[p].reply)
    /\ NextRow(p)
    /\ UNCHANGED <<cycleVars, eventVars, switchVars, timerVars, rail, draft>>

(* The pass is over: the relay's, or reconciliation's. *)
Finish(p) ==
    /\ busy[p] \in {"relay", "reconcile"}
    /\ rows[p] = {}
    /\ busy' = [busy EXCEPT ![p] = "idle"]
    /\ UNCHANGED <<cycleVars, eventVars, switchVars, timerVars, intentVars, rail,
                   draft, todo, query, txn, rows, call, crashes>>

-----------------------------------------------------------------------------
(* Reconciliation by key. *)

ReconcileBegin(p) ==
    /\ busy[p] = "idle"
    /\ busy' = [busy EXCEPT ![p] = "reconcile"]
    /\ rows' = [rows EXCEPT ![p] = {k \in Keys : outbox[k] = "ambiguous"}]
    /\ UNCHANGED <<cycleVars, eventVars, switchVars, timerVars, intentVars, rail,
                   draft, todo, query, txn, call, crashes>>

Fetch_ErrorIsMissing(p, k) ==
    /\ busy[p] = "reconcile"
    /\ k \in rows[p]
    /\ call[p] = None
    /\ \E reply \in {"missing", CASE rail[k] = "none" -> "missing"
                                  [] rail[k] = "charged" -> "accepted"
                                  [] rail[k] = "declined" -> "declined"} :
          call' = [call EXCEPT ![p] = [key |-> k, reply |-> reply]]
    /\ UNCHANGED <<cycleVars, eventVars, switchVars, timerVars, intentVars, rail,
                   draft, todo, query, txn, rows, busy, crashes>>

(* fetch_by_key: what is true now, "missing" for a key without a record, or *)
(* ambiguous when the query itself fails.                                   *)
Fetch(p, k) ==
    /\ busy[p] = "reconcile"
    /\ k \in rows[p]
    /\ call[p] = None
    /\ \E reply \in {"ambiguous", CASE rail[k] = "none" -> "missing"
                                    [] rail[k] = "charged" -> "accepted"
                                    [] rail[k] = "declined" -> "declined"} :
          call' = [call EXCEPT ![p] = [key |-> k, reply |-> reply]]
    /\ UNCHANGED <<cycleVars, eventVars, switchVars, timerVars, intentVars, rail,
                   draft, todo, query, txn, rows, busy, crashes>>

Resolve(p) ==
    /\ busy[p] = "reconcile"
    /\ call[p] # None
    /\ IF call[p].reply = "ambiguous"
       THEN UNCHANGED intentVars
       ELSE Write(p, call[p].reply)
    /\ NextRow(p)
    /\ UNCHANGED <<cycleVars, eventVars, switchVars, timerVars, rail, draft>>

-----------------------------------------------------------------------------
(* A process dies, or an exception aborts its pass: an open transaction      *)
(* rolls back and every local variable is gone.                              *)
Crash(p) ==
    /\ busy[p] # "idle"
    /\ crashes < MaxCrashes
    /\ crashes' = crashes + 1
    /\ todo' = [todo EXCEPT ![p] = {}]
    /\ query' = [query EXCEPT ![p] = None]
    /\ txn' = [txn EXCEPT ![p] = None]
    /\ rows' = [rows EXCEPT ![p] = {}]
    /\ call' = [call EXCEPT ![p] = None]
    /\ busy' = [busy EXCEPT ![p] = "idle"]
    /\ UNCHANGED <<cycleVars, eventVars, switchVars, timerVars, intentVars, rail,
                   draft>>

Outcome(p) == RefuseStopped(p) \/ RefuseStale(p) \/ Deny(p) \/ Fire(p)

Environment ==
    \/ \E c \in Cycles : Ingest(c) \/ Stop(c) \/ Resume(c)
    \/ SetStage
    \/ \E a \in Actions : LeaseExpires(a)
    \/ \E p \in Procs : Crash(p)

Drain(p) ==
    \/ Claim(p)
    \/ \E a \in Actions : QueryCycle(p, a)
    \/ BeginFire(p)
    \/ Outcome(p)
    \/ RelayBegin(p)
    \/ \E k \in Keys : Submit(p, k)
    \/ Settle(p)
    \/ Finish(p)

Reconcile(p) ==
    \/ ReconcileBegin(p)
    \/ \E k \in Keys : Fetch(p, k)
    \/ Resolve(p)
    \/ Finish(p)

Next ==
    \/ Environment
    \/ \E c \in Cycles : Project(c)
    \/ PlanRead \/ PlanWrite
    \/ \E p \in Workers : Drain(p)
    \/ \E p \in Reconcilers : Reconcile(p)

Spec == Init /\ [][Next]_vars

(* The scheduling src/ provides: each process loops forever, a due timer is *)
(* claimed by some later pass (claims are ordered by fire_at), and a lease  *)
(* nobody renews ends.  Nothing is assumed of reconcilers: src/ starts none. *)
Fairness ==
    /\ \A p \in Workers : WF_vars(Drain(p))
    /\ \A a \in Actions :
          /\ WF_vars(LeaseExpires(a))
          /\ SF_vars(\E p \in Workers : Claim(p) /\ a \in todo'[p])

FairSpec == Spec /\ Fairness

-----------------------------------------------------------------------------
(* Properties. *)

Minted(k) == attempt[k] # "none"

(* Nothing was ever asked of the rail that is not durable first: a key the  *)
(* provider has acted on has its attempt, its outbox row and an ALLOW       *)
(* decision of the action that minted it, whatever crashed in between.      *)
IntentBeforeCharge ==
    \A k \in Keys : rail[k] # "none" =>
        /\ Minted(k)
        /\ outbox[k] # "none"
        /\ <<mintedBy[k], "ALLOW">> \in ledger

(* However often the projector rewrites attempts_used under the executor,   *)
(* no attempt is numbered beyond the budget, so a cycle is never debited    *)
(* more than attempt_budget times.                                          *)
DebitsWithinBudget ==
    /\ \A c \in Cycles : used[c] <= Budget
    /\ \A k \in Keys : Minted(k) => k[2] <= Budget

(* A debit the customer's payment overtook: once the projector has          *)
(* committed a cycle as settled, no worker mints an attempt for it, however *)
(* old its claim.                                                           *)
SettledNeverFires ==
    [][\A k \in Keys : ~Minted(k) /\ Minted(k)' => state[k[1]] \notin Settled]_vars

(* What the customer is promised, as DebitPromise states it: the attempts   *)
(* are its intents, what the rail charged are its debits.                   *)
Promise == INSTANCE DebitPromise WITH
    intents <- {k \in Keys : Minted(k)},
    debits <- {k \in Keys : rail[k] = "charged"},
    settled <- {c \in Cycles : state[c] \in Settled}

PromiseKept == Promise!Spec

(* A timer is one debit: two attempts never come from one action.           *)
OneAttemptPerAction ==
    \A j, k \in Keys :
        Minted(j) /\ Minted(k) /\ mintedBy[j] = mintedBy[k] => j = k

(* What the database says of an answered attempt is true of the rail: one   *)
(* recorded as failed took no money, one fired over a sent row took it,     *)
(* though answers are lost, late, or looked up while a row is submitted.    *)
AnswersAreTrue ==
    \A k \in Keys :
        /\ attempt[k] = "failed" => rail[k] # "charged"
        /\ attempt[k] = "fired" /\ outbox[k] = "sent" => rail[k] = "charged"

(* retry_is_blocked: while one attempt of a cycle is ambiguous no other is   *)
(* made.                                                                    *)
SilenceIsNotFailure ==
    [][\A j, k \in Keys : ~Minted(k) /\ Minted(k)' /\ j[1] = k[1]
                            => attempt[j] # "ambiguous"]_vars

(* No timer is lost: a queued debit ends done or cancelled, also when the   *)
(* worker that claimed it dies.                                             *)
TimersResolve ==
    \A a \in Actions : action[a] \in Open ~> action[a] \in {"done", "cancelled"}

(* No intent is lost: a pending outbox row is answered, or spends every      *)
(* relay attempt it has.                                                    *)
IntentsRelayed ==
    \A k \in Keys : outbox[k] = "pending"
                      ~> outbox[k] # "pending" \/ tries[k] = MaxRelayAttempts

-----------------------------------------------------------------------------
(* The inductive invariant behind the safety properties. *)

(* A worker fires what it claimed, only while it drains.  What it read      *)
(* under the cycle's lock stays true until it commits, because nobody else  *)
(* holds the lock and the projector waits for it.                           *)
LockInv ==
    /\ \A p \in Procs : busy[p] # "drain" => todo[p] = {}
    /\ \A p \in Procs : query[p] # None =>
          txn[p] = None /\ query[p].action \in todo[p]
    /\ \A p \in Procs : txn[p] # None =>
          /\ txn[p].action \in todo[p]
          /\ txn[p].state = state[txn[p].action[1]]
          /\ txn[p].used = used[txn[p].action[1]]
    /\ \A p, q \in Procs :
          txn[p] # None /\ txn[q] # None /\ txn[p].action[1] = txn[q].action[1]
            => p = q

(* An attempt, its outbox row and its ALLOW record are one transaction's,   *)
(* and what a relay holds or the rail has seen was minted before.           *)
IntentInv ==
    /\ \A c \in Cycles : used[c] <= Budget
    /\ \A k \in Keys :
          /\ Minted(k) <=> outbox[k] # "none"
          /\ Minted(k) => k[2] <= Budget /\ <<mintedBy[k], "ALLOW">> \in ledger
          /\ rail[k] # "none" => Minted(k)
    /\ \A p \in Procs :
          /\ \A k \in rows[p] : Minted(k)
          /\ call[p] # None => Minted(call[p].key)

(* The projector settles a cycle on a stored success and never forgets it. *)
PaidInv == \A c \in Cycles : state[c] \in Settled => captured[c]

(* Under ADR-044's premise a claim is exclusive until its release, and an   *)
(* action that minted an attempt is done for good.                          *)
ClaimInv ==
    /\ \A p \in Procs : \A a \in todo[p] : action[a] = "claimed" /\ a \in leased
    /\ \A p, q \in Procs : todo[p] \cap todo[q] # {} => p = q
    /\ \A k \in Keys : Minted(k) => action[mintedBy[k]] = "done"

IInv ==
    /\ TypeOK
    /\ LockInv
    /\ IntentInv
    /\ PaidInv
    /\ LeaseOutlivesClaim => ClaimInv /\ OneAttemptPerAction

(* Who may be told that a key has no record: nobody, or a reconciler beside  *)
(* a single worker.  Two workers may hold one row, and the second submits   *)
(* what the first saw lost and a reconciler has recorded as missing.        *)
LookupsAlone == Reconcilers = {} \/ \A v, w \in Workers : v = w

(* Every answer still held is true of the rail, and an absence that was     *)
(* recorded, or is about to be, is of a row that nobody will submit again:  *)
(* no worker holds it and no relay selects it.                              *)
AnswerInv ==
    /\ \A k \in Keys :
          /\ attempt[k] = "failed" =>
                \/ rail[k] = "declined"
                \/ rail[k] = "none" /\ outbox[k] = "sent" /\ Reconcilers # {}
          /\ attempt[k] = "fired" /\ outbox[k] = "sent" => rail[k] = "charged"
    /\ \A p \in Procs : rows[p] # {} => busy[p] \in {"relay", "reconcile"}
    /\ \A p \in Procs : call[p] # None =>
          /\ call[p].key \in rows[p]
          /\ call[p].reply = "accepted" => rail[call[p].key] = "charged"
          /\ call[p].reply = "declined" => rail[call[p].key] = "declined"
          /\ call[p].reply = "missing" => p \in Reconcilers /\ rail[call[p].key] = "none"
    /\ \A p \in Workers : \A k \in rows[p] : Reconcilers # {} => outbox[k] = "pending"
    /\ \A p \in Reconcilers : \A k \in rows[p] : outbox[k] \in {"ambiguous", "sent"}

=============================================================================
