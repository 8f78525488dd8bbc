--------------------------- MODULE ExecutorProofs ---------------------------
(* What the executor guarantees for any number of cycles and processes and  *)
(* any budget.                                                              *)
EXTENDS Executor, TLAPS

(* The type invariant is inductive by itself. *)
LEMMA TypeStep == TypeOK /\ [Next]_vars => TypeOK'
<1> SUFFICES ASSUME TypeOK, [Next]_vars PROVE TypeOK'
  OBVIOUS
<1> USE BudgetAssumption, BoundsAssumption
<1> USE DEF TypeOK, vars, cycleVars, eventVars, switchVars, timerVars,
            intentVars, procVars
<1>1. ASSUME NEW c \in Cycles, Ingest(c) PROVE TypeOK'
  <2>1. failures' \in [Cycles -> Nat]
    BY <1>1 DEF Ingest
  <2>2. captured' \in [Cycles -> BOOLEAN]
    BY <1>1, Zenon DEF Ingest
  <2> QED
    BY <1>1, <2>1, <2>2 DEF Ingest
<1>2. ASSUME NEW c \in Cycles, Project(c) PROVE TypeOK'
  BY <1>2 DEF Project, ProjectedState, CycleStates, Settled, ActionStates
<1>3. ASSUME NEW c \in Cycles, Stop(c) \/ Resume(c) PROVE TypeOK'
  BY <1>3 DEF Stop, Resume
<1>4. CASE SetStage
  BY <1>4 DEF SetStage
<1>5. CASE PlanRead
  <2>1. PICK C \in SUBSET {c \in Cycles : Candidate(c)} :
                draft' = {<<c, used[c]>> : c \in C}
    BY <1>5 DEF PlanRead
  <2>2. \A c \in C : <<c, used[c]>> \in Actions
    BY <2>1 DEF Candidate, Actions
  <2> QED
    BY <1>5, <2>1, <2>2 DEF PlanRead
<1>6. CASE PlanWrite
  BY <1>6 DEF PlanWrite, ActionStates
<1>7. ASSUME NEW p \in Procs, Claim(p) PROVE TypeOK'
  BY <1>7 DEF Claim, ActionStates
<1>8. ASSUME NEW a \in Actions, LeaseExpires(a) PROVE TypeOK'
  BY <1>8 DEF LeaseExpires
<1>9. ASSUME NEW p \in Procs, NEW a \in Actions, QueryCycle(p, a) PROVE TypeOK'
  BY <1>9 DEF QueryCycle, Queries, Actions
<1>10. ASSUME NEW p \in Procs, BeginFire(p) PROVE TypeOK'
  BY <1>10 DEF BeginFire, Queries, Txns, Actions
<1>11. ASSUME NEW p \in Procs, Outcome(p) PROVE TypeOK'
  <2>1. txn[p] \in Txns
    BY <1>11 DEF Outcome, RefuseStopped, RefuseStale, Deny, Fire
  <2>2. CASE RefuseStopped(p)
    BY <2>1, <2>2 DEF RefuseStopped, Release, ActionStates, Txns
  <2>3. CASE RefuseStale(p)
    BY <2>1, <2>3 DEF RefuseStale, Release, Record, Verdicts, ActionStates, Txns
  <2>4. CASE Deny(p)
    BY <2>1, <2>4 DEF Deny, Release, Record, Verdicts, ActionStates, Txns
  <2>5. CASE Fire(p)
    <3>1. used' \in [Cycles -> Nat] /\ ledger' \in SUBSET (Actions \X Verdicts)
      BY <2>1, <2>5 DEF Fire, Record, Verdicts, Txns, Actions
    <3>2. /\ attempt' \in [Keys -> {"none", "fired", "failed", "ambiguous"}]
          /\ mintedBy' \in [Keys -> Actions \cup {None}]
          /\ outbox' \in [Keys -> {"none", "pending", "sent", "ambiguous"}]
      BY <2>1, <2>5 DEF Fire, Txns
    <3> QED
      BY <2>1, <2>5, <3>1, <3>2 DEF Fire, Release, ActionStates, Txns
  <2> QED
    BY <1>11, <2>2, <2>3, <2>4, <2>5 DEF Outcome
<1>12. ASSUME NEW p \in Procs, RelayBegin(p) \/ ReconcileBegin(p) \/ Finish(p)
       PROVE TypeOK'
  BY <1>12 DEF RelayBegin, ReconcileBegin, Finish
<1>13. ASSUME NEW p \in Procs, NEW k \in Keys, Submit(p, k) PROVE TypeOK'
  BY <1>13 DEF Submit, Answers, Calls, Replies
<1>14. ASSUME NEW p \in Procs, NEW k \in Keys, Fetch(p, k) PROVE TypeOK'
  BY <1>14 DEF Fetch, Calls, Replies
<1>15. ASSUME NEW p \in Procs, Settle(p) \/ Resolve(p) PROVE TypeOK'
  <2>1. call[p] \in Calls
    BY <1>15 DEF Settle, Resolve
  <2>2. ASSUME Write(p, call[p].reply)
        PROVE  /\ tries' \in [Keys -> 0 .. MaxRelayAttempts]
               /\ outbox' \in [Keys -> {"none", "pending", "sent", "ambiguous"}]
               /\ attempt' \in [Keys -> {"none", "fired", "failed", "ambiguous"}]
    BY <2>1, <2>2 DEF Write, Increment, AfterReply, Calls, Replies
  <2>3. rows' \in [Procs -> SUBSET Keys] /\ call' \in [Procs -> Calls \cup {None}]
    BY <1>15 DEF Settle, Resolve, NextRow
  <2> QED
    BY <1>15, <2>2, <2>3 DEF Settle, Resolve, Write, NextRow
<1>16. ASSUME NEW p \in Procs, Crash(p) PROVE TypeOK'
  BY <1>16 DEF Crash
<1>17. CASE UNCHANGED vars
  BY <1>17
<1> QED
  BY <1>1, <1>2, <1>3, <1>4, <1>5, <1>6, <1>7, <1>8, <1>9, <1>10, <1>11, <1>12,
     <1>13, <1>14, <1>15, <1>16, <1>17
     DEF Next, Environment, Drain, Reconcile, Procs

(* The executor starts with nothing written and nobody at work. *)
LEMMA InitIInv == Init => IInv
<1> SUFFICES ASSUME Init PROVE IInv
  OBVIOUS
<1> USE BudgetAssumption, BoundsAssumption DEF Init
<1>1. TypeOK
  BY DEF TypeOK, CycleStates, ActionStates
<1>2. LockInv /\ PaidInv
  BY DEF LockInv, PaidInv, Settled
<1>3. IntentInv
  BY DEF IntentInv, Minted
<1>4. ClaimInv /\ OneAttemptPerAction
  BY DEF ClaimInv, OneAttemptPerAction, Minted
<1> QED
  BY <1>1, <1>2, <1>3, <1>4 DEF IInv

-----------------------------------------------------------------------------
(* What is read under the cycle's lock stays true: no step of another       *)
(* process or of the projector touches a locked cycle.                      *)
LEMMA LockStep == TypeOK /\ LockInv /\ [Next]_vars => LockInv'
<1> SUFFICES ASSUME TypeOK, LockInv, [Next]_vars PROVE LockInv'
  OBVIOUS
<1> USE DEF LockInv
<1>1. ASSUME NEW c \in Cycles, Project(c) PROVE LockInv'
  <2>1. UNCHANGED <<busy, todo, query, txn>>
    BY <1>1 DEF Project, procVars
  <2>2. \A p \in Procs : txn[p] # None => txn[p].action[1] # c
    BY <1>1 DEF Project, Locked
  <2>3. \A d \in Cycles \ {c} : state'[d] = state[d] /\ used'[d] = used[d]
    BY <1>1 DEF Project, TypeOK
  <2>4. \A p \in Procs : txn[p] # None => txn[p].action[1] \in Cycles
    BY DEF TypeOK, Txns, Actions
  <2> QED
    BY <2>1, <2>2, <2>3, <2>4
<1>2. ASSUME NEW p \in Procs, Claim(p) PROVE LockInv'
  <2>1. todo[p] = {} /\ query[p] = None /\ txn[p] = None
    BY <1>2 DEF Claim
  <2> QED
    BY <1>2, <2>1 DEF Claim, cycleVars, TypeOK
<1>3. ASSUME NEW p \in Procs, NEW a \in Actions, QueryCycle(p, a) PROVE LockInv'
  BY <1>3 DEF QueryCycle, cycleVars, TypeOK
<1>4. ASSUME NEW p \in Procs, BeginFire(p) PROVE LockInv'
  BY <1>4 DEF BeginFire, Locked, cycleVars, TypeOK
<1>5. ASSUME NEW p \in Procs, Outcome(p) PROVE LockInv'
  <2>1. PICK final : Release(p, final)
    BY <1>5 DEF Outcome, RefuseStopped, RefuseStale, Deny, Fire
  <2>2. txn[p] # None /\ state' = state
    BY <1>5 DEF Outcome, RefuseStopped, RefuseStale, Deny, Fire, cycleVars
  <2>3. \A d \in Cycles : d # txn[p].action[1] => used'[d] = used[d]
    BY <1>5 DEF Outcome, RefuseStopped, RefuseStale, Deny, Fire, cycleVars, TypeOK
  <2>4. /\ busy' = busy /\ query' = query
        /\ todo' = [todo EXCEPT ![p] = @ \ {txn[p].action}]
        /\ txn' = [txn EXCEPT ![p] = None]
    BY <2>1 DEF Release
  <2>5. \A q \in Procs : txn[q] # None => txn[q].action[1] \in Cycles
    BY DEF TypeOK, Txns, Actions
  <2>6. query[p] = None
    BY <2>2
  <2> QED
    BY <2>2, <2>3, <2>4, <2>5, <2>6 DEF TypeOK
<1>6. ASSUME NEW p \in Procs, RelayBegin(p) \/ ReconcileBegin(p) \/ Finish(p)
      PROVE LockInv'
  BY <1>6 DEF RelayBegin, ReconcileBegin, Finish, cycleVars, TypeOK
<1>7. ASSUME NEW p \in Procs, Crash(p) PROVE LockInv'
  BY <1>7 DEF Crash, cycleVars, TypeOK
<1>8. CASE UNCHANGED <<state, used, busy, todo, query, txn>>
  BY <1>8
<1>9. CASE Environment
  BY <1>9, <1>7, <1>8
     DEF Environment, Ingest, Stop, Resume, SetStage, LeaseExpires, cycleVars, procVars
<1>10. ASSUME NEW p \in Procs, Drain(p) \/ Reconcile(p) PROVE LockInv'
  BY <1>10, <1>2, <1>3, <1>4, <1>5, <1>6, <1>8
     DEF Drain, Reconcile, Submit, Settle, Fetch, Resolve, NextRow, cycleVars
<1> QED
  BY <1>1, <1>8, <1>9, <1>10
     DEF Next, Procs, PlanRead, PlanWrite, vars, cycleVars, procVars

(* A provider's answer changes what is known of an attempt, never whether   *)
(* there is one.                                                            *)
LEMMA AnswerKeepsMinted ==
  ASSUME TypeOK, IntentInv, NEW p \in Procs, Settle(p) \/ Resolve(p)
  PROVE  \A k \in Keys :
            /\ attempt'[k] # "none" <=> attempt[k] # "none"
            /\ outbox'[k] # "none" <=> outbox[k] # "none"
<1>1. /\ call[p] # None /\ call[p].key \in Keys
      /\ call[p].reply \in Replies \cup {"missing"}
  BY DEF Settle, Resolve, TypeOK, Calls
<1>2. attempt[call[p].key] # "none" /\ outbox[call[p].key] # "none"
  BY <1>1 DEF IntentInv, Minted
<1>3. CASE call[p].reply = "retriable" \/ UNCHANGED intentVars
  BY <1>1, <1>3 DEF Settle, Resolve, Write, intentVars
<1>4. CASE call[p].reply # "retriable" /\ Write(p, call[p].reply)
  <2>1. /\ AfterReply(call[p].reply)[1] # "none"
        /\ AfterReply(call[p].reply)[2] # "none"
    BY <1>1, <1>4 DEF AfterReply, Replies
  <2> QED
    BY <1>1, <1>2, <1>4, <2>1 DEF Write, TypeOK
<1> QED
  BY <1>3, <1>4 DEF Settle, Resolve

(* The fire transaction is the only step that makes an attempt. *)
LEMMA OnlyFireMints ==
  ASSUME TypeOK, IntentInv, [Next]_vars
  PROVE  \/ mintedBy' = mintedBy /\ \A k \in Keys : attempt'[k] # "none" <=> Minted(k)
         \/ \E p \in Procs : Fire(p)
<1>1. CASE UNCHANGED <<attempt, mintedBy>>
  BY <1>1 DEF Minted
<1>2. ASSUME NEW p \in Procs, Settle(p) \/ Resolve(p)
      PROVE  mintedBy' = mintedBy /\ \A k \in Keys : attempt'[k] # "none" <=> Minted(k)
  <2>1. \A k \in Keys : attempt'[k] # "none" <=> attempt[k] # "none"
    BY <1>2, AnswerKeepsMinted
  <2> QED
    BY <1>2, <2>1 DEF Settle, Resolve, Write, Minted, intentVars
<1>3. ASSUME NEW p \in Procs, Drain(p) \/ Reconcile(p) \/ Crash(p)
      PROVE  \/ Settle(p) \/ Resolve(p) \/ Fire(p)
             \/ UNCHANGED <<attempt, mintedBy>>
  BY <1>3 DEF Drain, Reconcile, Crash, Outcome, RefuseStopped, RefuseStale, Deny, Claim,
              QueryCycle, BeginFire, RelayBegin, Submit, Finish, ReconcileBegin, Fetch,
              intentVars
<1> QED
  BY <1>1, <1>2, <1>3
     DEF Next, Environment, Procs, Ingest, Project, PlanRead, PlanWrite, Stop, Resume,
         SetStage, LeaseExpires, vars, intentVars

(* Intent comes first: an attempt, its outbox row and its ALLOW record are  *)
(* written together, within the budget the locked cycle shows, and only     *)
(* rows so written reach a relay and the rail.                              *)
LEMMA IntentStep == TypeOK /\ LockInv /\ IntentInv /\ [Next]_vars => IntentInv'
<1> SUFFICES ASSUME TypeOK, LockInv, IntentInv, [Next]_vars PROVE IntentInv'
  OBVIOUS
<1>a. ASSUME NEW p \in Procs, Settle(p) \/ Resolve(p)
      PROVE  \A k \in Keys :
                /\ attempt'[k] # "none" <=> attempt[k] # "none"
                /\ outbox'[k] # "none" <=> outbox[k] # "none"
  BY <1>a, AnswerKeepsMinted
<1> USE DEF IntentInv, Minted
<1>0. CASE UNCHANGED <<used, intentVars, rail, rows, call>>
  BY <1>0 DEF intentVars
<1>1. ASSUME NEW c \in Cycles, Project(c) PROVE IntentInv'
  BY <1>1 DEF Project, TypeOK, intentVars, procVars
<1>2. ASSUME NEW p \in Procs, RefuseStopped(p) \/ RefuseStale(p) \/ Deny(p)
      PROVE IntentInv'
  BY <1>2 DEF RefuseStopped, RefuseStale, Deny, Record, Release, cycleVars, intentVars
<1>3. ASSUME NEW p \in Procs, Fire(p) PROVE IntentInv'
  <2> DEFINE c == txn[p].action[1]
             k == KeyOf(txn[p])
  <2>1. /\ c \in Cycles /\ txn[p].action \in Actions
        /\ k = <<c, used[c] + 1>> /\ used[c] < Budget
    BY <1>3 DEF Fire, KeyOf, LockInv, TypeOK, Txns, Actions
  <2>2. k \in Keys
    BY <2>1, BudgetAssumption DEF Keys, Seqs, TypeOK
  <2>3. /\ used' = [used EXCEPT ![c] = @ + 1]
        /\ ledger' = ledger \cup {<<txn[p].action, "ALLOW">>}
        /\ UNCHANGED <<rail, rows, call>>
    BY <1>3 DEF Fire, Record, Release
  <2>4. \A d \in Cycles : used'[d] <= Budget
    BY <2>1, <2>3, BudgetAssumption DEF TypeOK
  <2>5. /\ attempt' = [attempt EXCEPT ![k] = IF @ = "none" THEN "fired" ELSE @]
        /\ outbox' = [outbox EXCEPT ![k] = IF @ = "none" THEN "pending" ELSE @]
        /\ mintedBy' = [mintedBy EXCEPT ![k] = IF attempt[k] = "none"
                                              THEN txn[p].action ELSE @]
    BY <1>3 DEF Fire
  <2>6. k[2] <= Budget
    BY <2>1, BudgetAssumption DEF TypeOK
  <2>7. \A j \in Keys \ {k} :
          /\ attempt'[j] = attempt[j]
          /\ outbox'[j] = outbox[j]
          /\ mintedBy'[j] = mintedBy[j]
    BY <2>5 DEF TypeOK
  <2>8. /\ attempt'[k] # "none" /\ outbox'[k] # "none"
        /\ <<mintedBy'[k], "ALLOW">> \in ledger'
    BY <2>2, <2>3, <2>5 DEF TypeOK
  <2> HIDE DEF c, k
  <2>9. \A j \in Keys :
          /\ attempt'[j] # "none" <=> outbox'[j] # "none"
          /\ attempt'[j] # "none" => j[2] <= Budget /\ <<mintedBy'[j], "ALLOW">> \in ledger'
          /\ rail'[j] # "none" => attempt'[j] # "none"
    BY <2>3, <2>6, <2>7, <2>8
  <2>10. \A j \in Keys : attempt[j] # "none" => attempt'[j] # "none"
    BY <2>7, <2>8
  <2> QED
    BY <2>3, <2>4, <2>9, <2>10 DEF TypeOK, Calls
<1>4. ASSUME NEW p \in Procs, RelayBegin(p) \/ ReconcileBegin(p) PROVE IntentInv'
  <2>1. PICK K \in SUBSET {k \in Keys : outbox[k] # "none"} :
                rows' = [rows EXCEPT ![p] = K]
    BY <1>4 DEF RelayBegin, ReconcileBegin, Relayable
  <2>2. UNCHANGED <<used, intentVars, rail, call>>
    BY <1>4 DEF RelayBegin, ReconcileBegin, cycleVars
  <2> QED
    BY <2>1, <2>2 DEF TypeOK, intentVars
<1>5. ASSUME NEW p \in Procs, NEW k \in Keys, Submit(p, k) \/ Fetch(p, k)
      PROVE IntentInv'
  <2>1. attempt[k] # "none"
    BY <1>5 DEF Submit, Fetch
  <2>2. UNCHANGED <<used, intentVars, rows>>
    BY <1>5 DEF Submit, Fetch, cycleVars
  <2>3. PICK r : call' = [call EXCEPT ![p] = [key |-> k, reply |-> r]]
    BY <1>5 DEF Submit, Fetch
  <2>4. \A j \in Keys : j # k => rail'[j] = rail[j]
    BY <1>5 DEF Submit, Fetch, TypeOK
  <2> QED
    BY <2>1, <2>2, <2>3, <2>4 DEF TypeOK, intentVars
<1>6. ASSUME NEW p \in Procs, Settle(p) \/ Resolve(p) PROVE IntentInv'
  <2>1. call[p] # None /\ call[p].key \in Keys /\ call[p].reply \in Replies \cup {"missing"}
    BY <1>6 DEF Settle, Resolve, TypeOK, Calls
  <2>2. /\ UNCHANGED <<used, mintedBy, ledger, rail>>
        /\ rows' = [rows EXCEPT ![p] = @ \ {call[p].key}]
        /\ call' = [call EXCEPT ![p] = None]
    BY <1>6 DEF Settle, Resolve, NextRow, Write, cycleVars, intentVars
  <2>3. \A k \in Keys :
          /\ attempt'[k] # "none" <=> attempt[k] # "none"
          /\ outbox'[k] # "none" <=> outbox[k] # "none"
    BY <1>6, <1>a
  <2>4. \A q \in Procs : rows'[q] \subseteq rows[q] /\ (call'[q] # None => call'[q] = call[q])
    BY <2>2 DEF TypeOK
  <2>5. \A q \in Procs : rows[q] \subseteq Keys /\ (call[q] # None => call[q].key \in Keys)
    BY DEF TypeOK, Calls
  <2> QED
    BY <2>2, <2>3, <2>4, <2>5
<1>7. ASSUME NEW p \in Procs, Crash(p) PROVE IntentInv'
  BY <1>7 DEF Crash, cycleVars, intentVars, TypeOK
<1>8. CASE Environment
  BY <1>8, <1>7, <1>0
     DEF Environment, Ingest, Stop, Resume, SetStage, LeaseExpires, cycleVars, procVars
<1>9. ASSUME NEW p \in Procs, Drain(p) \/ Reconcile(p) PROVE IntentInv'
  BY <1>9, <1>0, <1>2, <1>3, <1>4, <1>5, <1>6
     DEF Drain, Reconcile, Outcome, Claim, QueryCycle, BeginFire, Finish, cycleVars
<1> QED
  BY <1>0, <1>1, <1>8, <1>9
     DEF Next, Procs, PlanRead, PlanWrite, vars, cycleVars, procVars

(* A settled cycle has a stored success, and stays settled with it. *)
LEMMA PaidStep == TypeOK /\ PaidInv /\ [Next]_vars => PaidInv'
<1> SUFFICES ASSUME TypeOK, PaidInv, [Next]_vars PROVE PaidInv'
  OBVIOUS
<1> USE DEF PaidInv, Settled
<1>1. ASSUME NEW c \in Cycles, Project(c) PROVE PaidInv'
  BY <1>1 DEF Project, ProjectedState, TypeOK
<1>2. ASSUME NEW c \in Cycles, Ingest(c) PROVE PaidInv'
  BY <1>2 DEF Ingest, cycleVars, TypeOK
<1>3. CASE UNCHANGED <<state, captured>>
  BY <1>3
<1>4. ASSUME NEW p \in Procs, Drain(p) \/ Reconcile(p) \/ Crash(p) PROVE PaidInv'
  BY <1>4, <1>3
     DEF Drain, Reconcile, Crash, Outcome, RefuseStopped, RefuseStale, Deny, Fire, Claim,
         QueryCycle, BeginFire, RelayBegin, Submit, Settle, Finish, ReconcileBegin,
         Fetch, Resolve, cycleVars, eventVars
<1> QED
  BY <1>1, <1>2, <1>3, <1>4
     DEF Next, Environment, Procs, PlanRead, PlanWrite, Stop, Resume, SetStage,
         LeaseExpires, vars, cycleVars, eventVars

-----------------------------------------------------------------------------
(* While leases outlive claims, a claim is exclusive and an action that     *)
(* minted an attempt never leaves "done".                                   *)
LEMMA ClaimStep ==
  ASSUME LeaseOutlivesClaim, TypeOK, LockInv, IntentInv, ClaimInv, OneAttemptPerAction,
         [Next]_vars
  PROVE  ClaimInv' /\ OneAttemptPerAction'
<1> USE DEF ClaimInv, OneAttemptPerAction, Minted
<1>1. \A k \in Keys : Minted(k) => mintedBy[k] \in Actions
  <2>1. \A a, v : <<a, v>> \in Actions \X Verdicts => a \in Actions
    OBVIOUS
  <2> QED
    BY <2>1 DEF IntentInv, TypeOK
<1>2. ASSUME mintedBy' = mintedBy, \A k \in Keys : attempt'[k] # "none" <=> Minted(k)
      PROVE  OneAttemptPerAction'
  BY <1>2
<1>3. ASSUME UNCHANGED <<mintedBy, action, leased>>,
             \A p \in Procs : todo'[p] \subseteq todo[p],
             \A k \in Keys : attempt'[k] # "none" <=> Minted(k)
      PROVE  ClaimInv'
  BY <1>3
<1>4. ASSUME NEW c \in Cycles, Project(c) PROVE ClaimInv' /\ OneAttemptPerAction'
  BY <1>1, <1>4 DEF Project, TypeOK, intentVars, procVars
<1>5. CASE PlanWrite
  BY <1>1, <1>5 DEF PlanWrite, TypeOK, intentVars, procVars
<1>6. ASSUME NEW p \in Procs, Claim(p) PROVE ClaimInv' /\ OneAttemptPerAction'
  <2>1. PICK B \in SUBSET {a \in Actions : Claimable(a)} :
            /\ todo' = [todo EXCEPT ![p] = B]
            /\ leased' = leased \cup B
            /\ action' = [a \in Actions |-> IF a \in B THEN "claimed" ELSE action[a]]
    BY <1>6 DEF Claim
  <2>2. \A q \in Procs : todo[q] \cap B = {}
    BY <2>1 DEF Claimable
  <2>3. \A a \in B : action[a] # "done"
    BY <2>1 DEF Claimable, Open
  <2>4. UNCHANGED <<attempt, mintedBy>>
    BY <1>6 DEF Claim, intentVars
  <2> QED
    BY <1>1, <1>2, <2>1, <2>2, <2>3, <2>4 DEF TypeOK
<1>7. ASSUME NEW a \in Actions, LeaseExpires(a) PROVE ClaimInv' /\ OneAttemptPerAction'
  BY <1>7 DEF LeaseExpires, intentVars, procVars
<1>8. ASSUME NEW p \in Procs, Outcome(p) PROVE ClaimInv' /\ OneAttemptPerAction'
  <2> DEFINE a == txn[p].action
  <2>1. PICK final : Release(p, final)
    BY <1>8 DEF Outcome, RefuseStopped, RefuseStale, Deny, Fire
  <2>2. a \in todo[p] /\ a \in Actions /\ action[a] = "claimed"
    BY <1>8 DEF Outcome, RefuseStopped, RefuseStale, Deny, Fire, LockInv, TypeOK
  <2>3. /\ \A q \in Procs : todo'[q] \subseteq todo[q] /\ a \notin todo'[q]
        /\ \A b \in Actions \ {a} : action'[b] = action[b]
        /\ leased' = leased \ {a}
    BY <2>1, <2>2 DEF Release, TypeOK
  <2>4. \A k \in Keys : Minted(k) => mintedBy[k] # a
    BY <2>2
  <2>5. CASE UNCHANGED <<attempt, mintedBy>>
    BY <1>1, <2>3, <2>4, <2>5 DEF TypeOK
  <2>6. CASE Fire(p)
    <3>1. action'[a] = "done"
      BY <2>2, <2>6 DEF Fire, Release, TypeOK
    <3>2. \A k \in Keys :
            \/ attempt'[k] = attempt[k] /\ mintedBy'[k] = mintedBy[k]
            \/ k = KeyOf(txn[p]) /\ ~Minted(k) /\ mintedBy'[k] = a
      BY <2>6 DEF Fire, TypeOK
    <3> HIDE DEF a
    <3> QED
      BY <1>1, <2>3, <2>4, <3>1, <3>2 DEF TypeOK
  <2> QED
    BY <1>8, <2>5, <2>6 DEF Outcome, RefuseStopped, RefuseStale, Deny, intentVars
<1>9. CASE /\ UNCHANGED <<action, leased>>
           /\ \A p \in Procs : todo'[p] \subseteq todo[p]
           /\ ~\E p \in Procs : Fire(p)
  BY <1>2, <1>3, <1>9, OnlyFireMints
<1>10. ASSUME NEW p \in Procs, Drain(p) \/ Reconcile(p) \/ Crash(p),
              ~Claim(p), ~Outcome(p)
       PROVE  /\ UNCHANGED <<action, leased>>
              /\ \A q \in Procs : todo'[q] \subseteq todo[q]
  BY <1>10 DEF Drain, Reconcile, Crash, QueryCycle, BeginFire, RelayBegin, Submit, Settle,
               Finish, ReconcileBegin, Fetch, Resolve, NextRow, timerVars, TypeOK
<1> QED
  BY <1>4, <1>5, <1>6, <1>7, <1>8, <1>9, <1>10
     DEF Next, Environment, Procs, Ingest, PlanRead, Stop, Resume, SetStage, Outcome,
         vars, timerVars, procVars

-----------------------------------------------------------------------------
(* Every reachable state satisfies IInv. *)
THEOREM Invariance == Spec => []IInv
<1>1. IInv /\ [Next]_vars => IInv'
  <2> SUFFICES ASSUME IInv, [Next]_vars PROVE IInv'
    OBVIOUS
  <2>1. TypeOK' /\ LockInv' /\ IntentInv' /\ PaidInv'
    BY TypeStep, LockStep, IntentStep, PaidStep DEF IInv
  <2>2. CASE LeaseOutlivesClaim
    BY <2>1, <2>2, ClaimStep DEF IInv
  <2>3. CASE ~LeaseOutlivesClaim
    BY <2>1, <2>3 DEF IInv
  <2> QED
    BY <2>2, <2>3
<1> QED
  BY InitIInv, <1>1, PTL DEF Spec

(* Every variable has its type in every reachable state. *)
THEOREM TypeCorrect == Spec => []TypeOK
<1>1. IInv => TypeOK
  BY DEF IInv
<1> QED
  BY Invariance, <1>1, PTL

(* Nothing is asked of the rail that is not durable first. *)
THEOREM IntentFirst == Spec => []IntentBeforeCharge
<1>1. IInv => IntentBeforeCharge
  BY DEF IInv, IntentInv, IntentBeforeCharge
<1> QED
  BY Invariance, <1>1, PTL

(* No attempt is numbered beyond the budget, whatever the projector writes  *)
(* over attempts_used and whether or not leases hold.                       *)
THEOREM WithinBudget == Spec => []DebitsWithinBudget
<1>1. IInv => DebitsWithinBudget
  BY DEF IInv, IntentInv, DebitsWithinBudget
<1> QED
  BY Invariance, <1>1, PTL

(* If no live worker ever loses a lease, no two attempts come from one      *)
(* timer.                                                                   *)
THEOREM OneDebitPerTimer ==
  ASSUME LeaseOutlivesClaim
  PROVE  Spec => []OneAttemptPerAction
<1>1. IInv => OneAttemptPerAction
  BY DEF IInv
<1> QED
  BY Invariance, <1>1, PTL

(* No worker mints an attempt for a cycle the projector has committed as    *)
(* settled.                                                                 *)
THEOREM SettledIsFinal == Spec => SettledNeverFires
<1>1. ASSUME IInv, [Next]_vars, NEW k \in Keys, ~Minted(k), Minted(k)'
      PROVE  state[k[1]] \notin Settled
  <2>1. PICK p \in Procs : Fire(p)
    BY <1>1, OnlyFireMints DEF IInv, Minted
  <2>2. k = KeyOf(txn[p])
    BY <1>1, <2>1 DEF Fire, IInv, TypeOK, Minted
  <2>3. txn[p].state = state[k[1]]
    BY <1>1, <2>1, <2>2 DEF Fire, KeyOf, IInv, LockInv
  <2> QED
    BY <2>1, <2>3 DEF Fire, Valid
<1>2. IInv /\ [Next]_vars =>
        [\A k \in Keys : ~Minted(k) /\ Minted(k)' => state[k[1]] \notin Settled]_vars
  BY <1>1
<1> QED
  BY Invariance, <1>2, PTL DEF Spec, SettledNeverFires

-----------------------------------------------------------------------------
(* An answer is of the row that was asked about, it is still true when it   *)
(* is written, and an absence is only ever recorded of a row that no worker *)
(* holds and no relay will select again.                                    *)
LEMMA AnswerStep ==
  ASSUME LookupsAlone, TypeOK, IntentInv, AnswerInv, [Next]_vars
  PROVE  AnswerInv'
<1> USE DEF AnswerInv
<1>1. CASE UNCHANGED <<attempt, outbox, rail, rows, call, busy>>
  BY <1>1
<1>2. ASSUME NEW p \in Procs, Fire(p) PROVE AnswerInv'
  <2> DEFINE k == KeyOf(txn[p])
  <2>1. /\ attempt' = [attempt EXCEPT ![k] = IF @ = "none" THEN "fired" ELSE @]
        /\ outbox' = [outbox EXCEPT ![k] = IF @ = "none" THEN "pending" ELSE @]
        /\ UNCHANGED <<rail, rows, call, busy>>
    BY <1>2 DEF Fire, Release
  <2> HIDE DEF k
  <2>2. \A j \in Keys :
          \/ attempt'[j] = attempt[j] /\ outbox'[j] = outbox[j]
          \/ attempt'[j] = "fired" /\ outbox'[j] = "pending" /\ ~Minted(j)
    <3> SUFFICES ASSUME NEW j \in Keys
                 PROVE  \/ attempt'[j] = attempt[j] /\ outbox'[j] = outbox[j]
                        \/ attempt'[j] = "fired" /\ outbox'[j] = "pending" /\ ~Minted(j)
      OBVIOUS
    <3>1. CASE j = k /\ attempt[j] = "none" /\ outbox[j] = "none"
      BY <2>1, <3>1 DEF Minted, TypeOK
    <3>2. CASE j = k /\ attempt[j] # "none" /\ outbox[j] # "none"
      BY <2>1, <3>2 DEF TypeOK
    <3>3. CASE j # k
      BY <2>1, <3>3 DEF TypeOK
    <3> QED
      BY <3>1, <3>2, <3>3 DEF IntentInv, Minted
  <2>3. \A q \in Procs : rows[q] \subseteq {j \in Keys : Minted(j)}
    BY DEF IntentInv, TypeOK
  <2> QED
    BY <2>1, <2>2, <2>3 DEF Procs
<1>3. ASSUME NEW p \in Workers, RelayBegin(p) PROVE AnswerInv'
  <2>1. /\ rows' = [rows EXCEPT ![p] = {k \in Keys : Relayable(k)}]
        /\ UNCHANGED <<attempt, outbox, rail, call>>
    BY <1>3 DEF RelayBegin, intentVars
  <2>2. call[p] = None /\ busy' = [busy EXCEPT ![p] = "relay"]
    BY <1>3 DEF RelayBegin, Procs
  <2> QED
    BY <2>1, <2>2, ProcessAssumption DEF Relayable, TypeOK, Procs
<1>4. ASSUME NEW p \in Reconcilers, ReconcileBegin(p) PROVE AnswerInv'
  <2>1. /\ rows' = [rows EXCEPT ![p] = {k \in Keys : outbox[k] = "ambiguous"}]
        /\ UNCHANGED <<attempt, outbox, rail, call>>
    BY <1>4 DEF ReconcileBegin, intentVars
  <2>2. call[p] = None /\ busy' = [busy EXCEPT ![p] = "reconcile"]
    BY <1>4 DEF ReconcileBegin, Procs
  <2> QED
    BY <2>1, <2>2, ProcessAssumption DEF TypeOK, Procs
<1>5. ASSUME NEW p \in Workers, NEW k \in Keys, Submit(p, k) PROVE AnswerInv'
  <2>1. /\ busy[p] = "relay" /\ k \in rows[p] /\ call[p] = None
        /\ UNCHANGED <<attempt, outbox, rows, busy>>
    BY <1>5 DEF Submit, intentVars
  <2>2. PICK effect \in IF rail[k] = "none" THEN {"none", "charged", "declined"}
                        ELSE {rail[k]} : \E reply \in Answers(effect) :
          /\ reply = "retriable" => effect = rail[k]
          /\ rail' = [rail EXCEPT ![k] = effect]
          /\ call' = [call EXCEPT ![p] = [key |-> k, reply |-> reply]]
    BY <1>5, Zenon DEF Submit
  <2>3. PICK reply \in Answers(effect) :
          /\ rail' = [rail EXCEPT ![k] = effect]
          /\ call' = [call EXCEPT ![p] = [key |-> k, reply |-> reply]]
    BY <2>2, Zenon
  <2>4. /\ reply = "accepted" => effect = "charged"
        /\ reply = "declined" => effect = "declined"
        /\ reply # "missing"
    <3>1. rail[k] \in {"none", "charged", "declined"}
      BY DEF TypeOK
    <3>2. effect \in {"none", "charged", "declined"}
      BY <2>2, <3>1
    <3>3. /\ effect = "none" => reply \in {"retriable", "ambiguous"}
          /\ effect = "charged" => reply \in {"retriable", "ambiguous", "accepted"}
          /\ effect = "declined" => reply \in {"retriable", "ambiguous", "declined"}
      BY <2>3, <3>2 DEF Answers
    <3> QED
      BY <3>2, <3>3
  <2>5. rail'[k] = effect /\ \A j \in Keys : j # k => rail'[j] = rail[j]
    BY <2>3, <2>2 DEF TypeOK
  <2>6. Reconcilers # {} => outbox[k] = "pending"
    BY <2>1
  <2>7. rail[k] = "none" \/ rail' = rail
    BY <2>3, <2>2 DEF TypeOK
  <2>8. \A q \in Procs \ {p} : call'[q] = call[q]
    BY <2>3, <2>2 DEF TypeOK
  <2>9. call'[p].key = k /\ call'[p].reply = reply
    BY <2>3, <2>2 DEF TypeOK, Procs
  <2>10. \A j \in Keys : attempt[j] = "failed" =>
                \/ rail'[j] = "declined"
                \/ rail'[j] = "none" /\ outbox[j] = "sent" /\ Reconcilers # {}
    BY <2>5, <2>6, <2>7
  <2>11. ASSUME NEW q \in Procs, call'[q] # None
         PROVE  /\ call'[q].key \in rows[q]
                /\ call'[q].reply = "accepted" => rail'[call'[q].key] = "charged"
                /\ call'[q].reply = "declined" => rail'[call'[q].key] = "declined"
                /\ call'[q].reply = "missing" =>
                     q \in Reconcilers /\ rail'[call'[q].key] = "none"
    <3>1. CASE q = p
      BY <2>1, <2>4, <2>5, <2>9, <3>1
    <3>2. CASE q # p
      <4>1. call[q] # None /\ call'[q] = call[q] /\ call[q].key \in Keys
        BY <2>8, <2>11, <3>2 DEF TypeOK, Calls
      <4> QED
        BY <4>1, <2>5, <2>6, <2>7
    <3> QED
      BY <3>1, <3>2
  <2> QED
    BY <2>1, <2>5, <2>7, <2>10, <2>11 DEF TypeOK
<1>6. ASSUME NEW p \in Reconcilers, NEW k \in Keys, Fetch(p, k) PROVE AnswerInv'
  <2>1. k \in rows[p] /\ UNCHANGED <<attempt, outbox, rail, rows, busy>>
    BY <1>6 DEF Fetch, intentVars
  <2>2. PICK reply \in {"ambiguous", CASE rail[k] = "none" -> "missing"
                                       [] rail[k] = "charged" -> "accepted"
                                       [] rail[k] = "declined" -> "declined"} :
          call' = [call EXCEPT ![p] = [key |-> k, reply |-> reply]]
    BY <1>6 DEF Fetch
  <2>3. rail[k] \in {"none", "charged", "declined"}
    BY DEF TypeOK
  <2>4. /\ reply = "accepted" => rail[k] = "charged"
        /\ reply = "declined" => rail[k] = "declined"
        /\ reply = "missing" => rail[k] = "none"
    BY <2>2, <2>3
  <2>5. /\ \A q \in Procs \ {p} : call'[q] = call[q]
        /\ call'[p].key = k /\ call'[p].reply = reply
    BY <2>2 DEF TypeOK, Procs
  <2> QED
    BY <2>1, <2>4, <2>5
<1>7. ASSUME NEW p \in Procs, (p \in Workers /\ Settle(p)) \/ (p \in Reconcilers /\ Resolve(p))
      PROVE  AnswerInv'
  <2> DEFINE k == call[p].key
             reply == call[p].reply
  <2>1. /\ call[p] # None /\ k \in Keys /\ k \in rows[p]
        /\ reply \in Replies \cup {"missing"}
    BY <1>7 DEF Settle, Resolve, TypeOK, Calls
  <2>2. /\ UNCHANGED <<rail, busy>>
        /\ rows' = [rows EXCEPT ![p] = @ \ {k}]
        /\ call' = [call EXCEPT ![p] = None]
    BY <1>7 DEF Settle, Resolve, NextRow
  <2>3. /\ \A q \in Procs : rows'[q] \subseteq rows[q] /\ (q # p => rows'[q] = rows[q])
        /\ k \notin rows'[p] /\ call'[p] = None
        /\ \A q \in Procs : q # p => call'[q] = call[q]
    BY <2>2 DEF TypeOK
  <2>4. CASE UNCHANGED <<attempt, outbox>>
    BY <2>1, <2>2, <2>3, <2>4 DEF Procs
  <2>5. CASE Write(p, reply) /\ reply # "retriable"
    <3>1. /\ outbox' = [outbox EXCEPT ![k] = AfterReply(reply)[1]]
          /\ attempt' = [attempt EXCEPT ![k] = AfterReply(reply)[2]]
      BY <2>5 DEF Write
    <3>2. \/ reply = "accepted" /\ outbox'[k] = "sent" /\ attempt'[k] = "fired"
          \/ reply = "declined" /\ outbox'[k] = "sent" /\ attempt'[k] = "failed"
          \/ reply = "missing" /\ outbox'[k] = "sent" /\ attempt'[k] = "failed"
          \/ reply = "ambiguous" /\ outbox'[k] = "ambiguous" /\ attempt'[k] = "ambiguous"
      BY <2>1, <2>5, <3>1 DEF AfterReply, Replies, TypeOK
    <3>3. \A j \in Keys : j # k => outbox'[j] = outbox[j] /\ attempt'[j] = attempt[j]
      BY <3>1 DEF TypeOK
    <3> HIDE DEF k, reply
    <3>4. /\ reply = "accepted" => rail[k] = "charged"
          /\ reply = "declined" => rail[k] = "declined"
          /\ reply = "missing" => Reconcilers # {} /\ rail[k] = "none"
      BY <2>1 DEF k, reply
    <3>5. \A j \in Keys :
            /\ attempt'[j] = "failed" =>
                  \/ rail[j] = "declined"
                  \/ rail[j] = "none" /\ outbox'[j] = "sent" /\ Reconcilers # {}
            /\ attempt'[j] = "fired" /\ outbox'[j] = "sent" => rail[j] = "charged"
      BY <2>1, <3>2, <3>3, <3>4
    <3>6. ASSUME NEW q \in Workers, NEW j \in rows'[q], Reconcilers # {}
          PROVE  outbox'[j] = "pending"
      <4>1. j \in rows[q] /\ outbox[j] = "pending" /\ j \in Keys
        BY <2>3, <3>6 DEF TypeOK, Procs
      <4>2. CASE p \in Workers
        <5>1. q = p
          BY <3>6, <4>2 DEF LookupsAlone
        <5> QED
          BY <5>1, <4>1, <2>3, <3>3
      <4>3. CASE p \in Reconcilers
        BY <2>1, <4>1, <4>3, <3>3
      <4> QED
        BY <4>2, <4>3 DEF Procs
    <3>7. ASSUME NEW q \in Reconcilers, NEW j \in rows'[q]
          PROVE  outbox'[j] \in {"ambiguous", "sent"}
      <4>1. j \in rows[q] /\ j \in Keys
        BY <2>3 DEF TypeOK, Procs
      <4> QED
        BY <4>1, <3>2, <3>3
    <3> QED
      BY <2>2, <2>3, <3>5, <3>6, <3>7
  <2> QED
    BY <1>7, <2>4, <2>5 DEF Settle, Resolve, Write, intentVars
<1>8. ASSUME NEW p \in Procs, Crash(p) PROVE AnswerInv'
  BY <1>8 DEF Crash, intentVars, TypeOK, Procs
<1>9. ASSUME NEW p \in Procs, Claim(p) \/ Finish(p) PROVE AnswerInv'
  BY <1>9 DEF Claim, Finish, intentVars, TypeOK, Procs
<1>10. ASSUME NEW p \in Workers, Drain(p) PROVE AnswerInv'
  <2>1. \/ Claim(p) \/ Finish(p) \/ RelayBegin(p) \/ Settle(p) \/ Fire(p)
        \/ \E k \in Keys : Submit(p, k)
        \/ UNCHANGED <<attempt, outbox, rail, rows, call, busy>>
    BY <1>10 DEF Drain, Outcome, RefuseStopped, RefuseStale, Deny, Release, QueryCycle,
                 BeginFire, intentVars
  <2> QED
    BY <2>1, <1>1, <1>2, <1>3, <1>5, <1>7, <1>9 DEF Procs
<1>11. ASSUME NEW p \in Reconcilers, Reconcile(p) PROVE AnswerInv'
  BY <1>4, <1>6, <1>7, <1>9, <1>11 DEF Reconcile, Procs
<1>12. CASE Environment
  BY <1>1, <1>8, <1>12
     DEF Environment, Ingest, Stop, Resume, SetStage, LeaseExpires, intentVars, procVars
<1> QED
  BY <1>1, <1>10, <1>11, <1>12
     DEF Next, Project, PlanRead, PlanWrite, vars, intentVars, procVars

(* What the database says of an answered attempt is true of the rail, for   *)
(* any number of workers if nobody looks keys up, as in src/, and for any   *)
(* number of reconcilers beside one worker.                                 *)
THEOREM AnswersTrue ==
  ASSUME LookupsAlone
  PROVE  Spec => []AnswersAreTrue
<1>1. Init => AnswerInv
  BY DEF Init, AnswerInv, Procs
<1>2. IInv /\ AnswerInv /\ [Next]_vars => AnswerInv'
  BY AnswerStep DEF IInv
<1>3. AnswerInv => AnswersAreTrue
  BY DEF AnswerInv, AnswersAreTrue
<1> QED
  BY Invariance, <1>1, <1>2, <1>3, PTL DEF Spec

-----------------------------------------------------------------------------
(* Every step of the executor is a step the customer was promised, or one   *)
(* that the promise does not see.                                           *)
LEMMA PromiseStep ==
  ASSUME IInv, [Next]_vars
  PROVE  [Promise!Next]_<<{k \in Keys : Minted(k)},
                          {k \in Keys : rail[k] = "charged"},
                          {c \in Cycles : state[c] \in Settled}>>
<1> DEFINE intents == {k \in Keys : Minted(k)}
           debits == {k \in Keys : rail[k] = "charged"}
           settled == {c \in Cycles : state[c] \in Settled}
<1> SUFFICES Promise!Next \/ UNCHANGED <<intents, debits, settled>>
  OBVIOUS
<1>1. TypeOK /\ LockInv /\ IntentInv /\ PaidInv
  BY DEF IInv
<1>2. ASSUME NEW p \in Procs, Fire(p)
      PROVE  Promise!Next \/ UNCHANGED <<intents, debits, settled>>
  <2> DEFINE c == txn[p].action[1]
             k == KeyOf(txn[p])
  <2>1. /\ c \in Cycles /\ k = <<c, used[c] + 1>>
        /\ used[c] < Budget /\ used[c] \in Nat
        /\ state[c] \notin Settled
    BY <1>1, <1>2 DEF Fire, KeyOf, Valid, LockInv, TypeOK, Txns, Actions
  <2>2. k \in Keys /\ used[c] + 1 \in 1 .. Budget
    BY <2>1, BudgetAssumption DEF Keys, Seqs
  <2>3. UNCHANGED <<debits, settled>>
    BY <1>2 DEF Fire
  <2>4. intents' = intents \cup {k}
    BY <1>1, <1>2, <2>2 DEF Fire, TypeOK, Minted
  <2>5. CASE k \in intents
    BY <2>3, <2>4, <2>5
  <2>6. CASE k \notin intents
    <3>1. Promise!Intend(c, used[c] + 1)
      BY <2>1, <2>2, <2>3, <2>4, <2>6 DEF Promise!Intend
    <3> QED
      BY <2>1, <2>2, <3>1 DEF Promise!Next
  <2> QED
    BY <2>5, <2>6
<1>3. ASSUME NEW p \in Procs, NEW k \in Keys, Submit(p, k)
      PROVE  Promise!Next \/ UNCHANGED <<intents, debits, settled>>
  <2>1. k \in intents
    BY <1>1, <1>3 DEF Submit, IntentInv
  <2>2. UNCHANGED <<intents, settled>>
    BY <1>3 DEF Submit, cycleVars, intentVars, Minted
  <2>3. PICK effect \in IF rail[k] = "none" THEN {"none", "charged", "declined"}
                        ELSE {rail[k]} : rail' = [rail EXCEPT ![k] = effect]
    BY <1>3 DEF Submit
  <2>4. debits' = debits \/ debits' = debits \cup {k}
    BY <1>1, <2>3 DEF TypeOK
  <2> QED
    BY <2>1, <2>2, <2>4 DEF Promise!Next, Promise!Debit
<1>4. ASSUME NEW c \in Cycles, Project(c)
      PROVE  Promise!Next \/ UNCHANGED <<intents, debits, settled>>
  <2>1. UNCHANGED <<intents, debits>>
    BY <1>4 DEF Project, intentVars, Minted
  <2>2. state' = [state EXCEPT ![c] = ProjectedState(c)]
    BY <1>4 DEF Project
  <2>3. c \in settled => ProjectedState(c) = "succeeded"
    BY <1>1 DEF PaidInv, ProjectedState
  <2>4. settled' = settled \/ settled' = settled \cup {c}
    BY <1>1, <2>2, <2>3 DEF TypeOK, Settled
  <2> QED
    BY <2>1, <2>4 DEF Promise!Next, Promise!Settle
<1>5. CASE UNCHANGED <<state, attempt, rail>>
  BY <1>5 DEF Minted
<1>6. ASSUME NEW p \in Procs, Settle(p) \/ Resolve(p)
      PROVE  UNCHANGED <<intents, debits, settled>>
  <2>1. \A k \in Keys : attempt'[k] # "none" <=> attempt[k] # "none"
    BY <1>1, <1>6, AnswerKeepsMinted
  <2>2. UNCHANGED <<rail, state>>
    BY <1>6 DEF Settle, Resolve, cycleVars
  <2> QED
    BY <2>1, <2>2 DEF Minted
<1>7. ASSUME NEW p \in Procs, Drain(p) \/ Reconcile(p) \/ Crash(p)
      PROVE  \/ Fire(p) \/ (\E k \in Keys : Submit(p, k)) \/ Settle(p) \/ Resolve(p)
             \/ UNCHANGED <<state, attempt, rail>>
  BY <1>7 DEF Drain, Reconcile, Crash, Outcome, RefuseStopped, RefuseStale, Deny, Claim,
              QueryCycle, BeginFire, RelayBegin, Finish, ReconcileBegin, Fetch,
              cycleVars, intentVars
<1> QED
  BY <1>2, <1>3, <1>4, <1>5, <1>6, <1>7
     DEF Next, Environment, Procs, Ingest, PlanRead, PlanWrite, Stop, Resume, SetStage,
         LeaseExpires, vars, cycleVars, intentVars

(* The executor implements DebitPromise. *)
THEOREM KeepsPromise == Spec => PromiseKept
<1>1. Init => Promise!Init
  BY DEF Init, Promise!Init, Minted, Settled
<1>2. IInv /\ [Next]_vars =>
        [Promise!Next]_<<{k \in Keys : Minted(k)}, {k \in Keys : rail[k] = "charged"},
                         {c \in Cycles : state[c] \in Settled}>>
  BY PromiseStep
<1> QED
  BY Invariance, <1>1, <1>2, PTL DEF Spec, PromiseKept, Promise!Spec

=============================================================================
