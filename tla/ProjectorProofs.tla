--------------------------- MODULE ProjectorProofs ---------------------------
(* What the projector guarantees for any set of events and any number of    *)
(* projector processes, mandates and cycles.                                *)
EXTENDS Projector, FiniteSetTheorems, WellFoundedInduction, TLAPS

-----------------------------------------------------------------------------
(* The folds. *)

(* A set of sets of events has a smallest member. *)
LEMMA SmallestSet ==
    ASSUME NEW T \in SUBSET SUBSET Events, T # {}
    PROVE  \E B \in T : \A A \in T : A \subseteq B => A = B
<1>1. IsWellFoundedOn(StrictSubsetOrdering(Events), SUBSET Events)
  BY FS_StrictSubsetOrderingWellFounded, FS_FiniteSubsetsOfFinite, EventAssumption
<1>2. PICK B \in T : \A A \in T : <<A, B>> \notin StrictSubsetOrdering(Events)
  BY <1>1, WFMin
<1> QED
  BY <1>2 DEF StrictSubsetOrdering

(* A nonempty set of events has an earliest one. *)
LEMMA EarliestExists ==
    ASSUME NEW S \in SUBSET Events, S # {}
    PROVE  Earliest(S) \in S /\ \A f \in S : Earliest(S).at <= f.at
<1> DEFINE below(e) == {f \in S : f.at <= e.at}
           T == {below(e) : e \in S}
<1>1. T \in SUBSET SUBSET Events /\ T # {}
  OBVIOUS
<1> HIDE DEF T
<1>2. PICK B \in T : \A A \in T : A \subseteq B => A = B
  BY <1>1, SmallestSet
<1>3. PICK e \in S : B = below(e)
  BY <1>2 DEF T
<1>4. \A f \in Events : f.at \in Nat
  BY EventAssumption
<1>5. ASSUME NEW f \in S, ~ (e.at <= f.at) PROVE FALSE
  <2>1. f.at < e.at /\ f.at \in Nat /\ e.at \in Nat
    BY <1>4, <1>5
  <2>2. below(f) \subseteq below(e) /\ e \in below(e) /\ e \notin below(f)
    BY <2>1, <1>4
  <2>3. below(f) \in T /\ below(f) \subseteq Events /\ below(e) \subseteq Events
    BY DEF T
  <2> QED
    BY <2>2, <2>3, <1>2, <1>3
<1>6. \E x \in S : \A f \in S : x.at <= f.at
  BY <1>5
<1> QED
  BY <1>6 DEF Earliest

(* And a latest one. *)
LEMMA LatestExists ==
    ASSUME NEW S \in SUBSET Events, S # {}
    PROVE  Latest(S) \in S
<1> DEFINE above(e) == {f \in S : e.at <= f.at}
           T == {above(e) : e \in S}
<1>1. T \in SUBSET SUBSET Events /\ T # {}
  OBVIOUS
<1> HIDE DEF T
<1>2. PICK B \in T : \A A \in T : A \subseteq B => A = B
  BY <1>1, SmallestSet
<1>3. PICK e \in S : B = above(e)
  BY <1>2 DEF T
<1>4. \A f \in Events : f.at \in Nat
  BY EventAssumption
<1>5. ASSUME NEW f \in S, ~ (f.at <= e.at) PROVE FALSE
  <2>1. e.at < f.at /\ f.at \in Nat /\ e.at \in Nat
    BY <1>4, <1>5
  <2>2. above(f) \subseteq above(e) /\ e \in above(e) /\ e \notin above(f)
    BY <2>1, <1>4
  <2>3. above(f) \in T /\ above(f) \subseteq Events /\ above(e) \subseteq Events
    BY DEF T
  <2> QED
    BY <2>2, <2>3, <1>2, <1>3
<1>6. \E x \in S : \A f \in S : f.at <= x.at
  BY <1>5
<1> QED
  BY <1>6 DEF Latest

LEMMA FailuresCount ==
    ASSUME NEW S \in SUBSET Events, NEW T \in SUBSET S
    PROVE  /\ Cardinality(Failures(S)) \in Nat
           /\ Cardinality(Failures(T)) \in Nat
           /\ Cardinality(Failures(T)) <= Cardinality(Failures(S))
<1>1. IsFiniteSet(Failures(S)) /\ Failures(T) \in SUBSET Failures(S)
  BY EventAssumption, FS_Subset DEF Failures
<1>2. IsFiniteSet(Failures(T)) /\ Cardinality(Failures(T)) <= Cardinality(Failures(S))
  BY <1>1, FS_Subset
<1> QED
  BY <1>1, <1>2, FS_CardinalityType

(* A history that passes the CHECK makes a well-formed row. *)
LEMMA FactsType ==
    ASSUME NEW S \in SUBSET Events, Cardinality(Failures(S)) <= Budget
    PROVE  ProjectCycle(S) \in Facts
<1>1. Cardinality(Failures(S)) \in 0 .. Budget
  BY FailuresCount, BoundsAssumption
<1>2. Failures(S) # {} => Latest(Failures(S)).at \in Nat
  <2>1. Failures(S) \in SUBSET Events
    BY DEF Failures
  <2>2. Failures(S) # {} => Latest(Failures(S)) \in Events
    BY <2>1, LatestExists
  <2> QED
    BY <2>2, EventAssumption
<1>3. Successes(S) # {} => Earliest(Successes(S)).amount \in Nat
  <2>1. Successes(S) \in SUBSET Events
    BY DEF Successes
  <2>2. Successes(S) # {} => Earliest(Successes(S)) \in Events
    BY <2>1, EarliestExists
  <2> QED
    BY <2>2, EventAssumption
<1> QED
  BY <1>1, <1>2, <1>3 DEF ProjectCycle, Facts

LEMMA RowType ==
    ASSUME NEW S \in SUBSET Events, Cardinality(Failures(S)) <= Budget, Billed(S) # {}
    PROVE  NewRow(S) \in Rows
<1>1. ProjectCycle(S) \in Facts
  BY FactsType
<1>2. Earliest(S).at \in Nat
  <2>1. S # {}
    BY DEF Billed
  <2>2. Earliest(S) \in Events
    BY <2>1, EarliestExists
  <2> QED
    BY <2>2, EventAssumption
<1>3. Earliest(Billed(S)).billing \in Nat
  <2>1. Billed(S) \in SUBSET Events
    BY DEF Billed
  <2>2. Earliest(Billed(S)) \in Events
    BY <2>1, EarliestExists
  <2> QED
    BY <2>2, EventAssumption
<1>4. Priced(S) # {} => Earliest(Priced(S)).amount \in Nat
  <2>1. Priced(S) \in SUBSET Events
    BY DEF Priced
  <2>2. Priced(S) # {} => Earliest(Priced(S)) \in Events
    BY <2>1, EarliestExists
  <2> QED
    BY <2>2, EventAssumption
<1> QED
  BY <1>1, <1>2, <1>3, <1>4 DEF NewRow, Rows

(* A fold of more events keeps every fact of a fold of fewer. *)
LEMMA FactsGrow ==
    ASSUME NEW T \in SUBSET Events, NEW S \in SUBSET T
    PROVE  /\ ProjectCycle(S).used <= ProjectCycle(T).used
           /\ ProjectCycle(S).state = "succeeded" => ProjectCycle(T).state = "succeeded"
<1>1. Cardinality(Failures(S)) <= Cardinality(Failures(T))
  BY FailuresCount
<1>2. Successes(S) \subseteq Successes(T)
  BY DEF Successes
<1> QED
  BY <1>1, <1>2 DEF ProjectCycle

(* g folds every subset of S. *)
Folds(g, S) ==
    \A T \in SUBSET S :
        g[T] = IF T = {} THEN "created" ELSE After(g[T \ {Latest(T)}], Latest(T))

(* Two folds agree where both are defined. *)
LEMMA FoldsAgree ==
    ASSUME NEW S \in SUBSET Events, NEW g, NEW h, Folds(g, S), Folds(h, S)
    PROVE  g[S] = h[S]
<1> DEFINE Bad == {T \in SUBSET S : g[T] # h[T]}
<1>1. ASSUME Bad # {} PROVE FALSE
  <2>1. PICK T \in Bad : \A A \in Bad : A \subseteq T => A = T
    <3>1. Bad \in SUBSET SUBSET Events
      OBVIOUS
    <3> HIDE DEF Bad
    <3> QED
      BY <1>1, <3>1, SmallestSet
  <2>2. CASE T = {}
    BY <2>1, <2>2 DEF Folds
  <2>3. CASE T # {}
    <3>1. Latest(T) \in T
      BY <2>3, LatestExists
    <3>2. T \ {Latest(T)} \in SUBSET S /\ T \ {Latest(T)} # T
      BY <3>1
    <3>3. g[T \ {Latest(T)}] = h[T \ {Latest(T)}]
      BY <2>1, <3>2
    <3> QED
      BY <2>1, <2>3, <3>3 DEF Folds
  <2> QED
    BY <2>2, <2>3
<1> QED
  BY <1>1

(* The recursion of ProjectMandate has a solution for every set of events. *)
LEMMA FoldExists ==
    ASSUME NEW S \in SUBSET Events
    PROVE  \E g : g = [T \in SUBSET S |-> IF T = {} THEN "created"
                            ELSE After(g[T \ {Latest(T)}], Latest(T))]
<1> DEFINE Bad == {U \in SUBSET Events : ~ \E g : Folds(g, U)}
<1>1. ASSUME Bad # {} PROVE FALSE
  <2>1. PICK U \in Bad : \A A \in Bad : A \subseteq U => A = U
    <3>1. Bad \in SUBSET SUBSET Events
      OBVIOUS
    <3> HIDE DEF Bad
    <3> QED
      BY <1>1, <3>1, SmallestSet
  <2> DEFINE pick(V) == CHOOSE g : Folds(g, V)
             val(T) == IF T = {} THEN "created"
                       ELSE After(pick(T \ {Latest(T)})[T \ {Latest(T)}], Latest(T))
             g == [T \in SUBSET U |-> val(T)]
  <2>2. \A V \in SUBSET U : V # U => Folds(pick(V), V)
    BY <2>1
  <2> HIDE DEF pick
  <2>3. ASSUME NEW V \in SUBSET U, V # U PROVE pick(V)[V] = val(V)
    <3>1. Folds(pick(V), V)
      BY <2>2, <2>3
    <3>2. CASE V = {}
      BY <3>1, <3>2 DEF Folds
    <3>3. CASE V # {}
      <4>1. Latest(V) \in V
        BY <3>3, LatestExists
      <4> DEFINE W == V \ {Latest(V)}
      <4>2. W \in SUBSET V /\ W \in SUBSET U /\ W # U /\ W \in SUBSET Events
        BY <4>1
      <4>3. Folds(pick(V), W) /\ Folds(pick(W), W)
        BY <2>2, <3>1, <4>2 DEF Folds
      <4>4. pick(V)[W] = pick(W)[W]
        BY <4>2, <4>3, FoldsAgree
      <4> QED
        BY <3>1, <3>3, <4>4 DEF Folds
    <3> QED
      BY <3>2, <3>3
  <2>4. ASSUME NEW T \in SUBSET U, T # {}
        PROVE  g[T] = After(g[T \ {Latest(T)}], Latest(T))
    <3>1. Latest(T) \in T
      BY <2>4, LatestExists
    <3>2. T \ {Latest(T)} \in SUBSET U /\ T \ {Latest(T)} # U
      BY <3>1
    <3>3. g[T \ {Latest(T)}] = pick(T \ {Latest(T)})[T \ {Latest(T)}]
      BY <2>3, <3>2
    <3> QED
      BY <2>4, <3>3
  <2>5. Folds(g, U)
    BY <2>4 DEF Folds
  <2> QED
    BY <2>1, <2>5
<1>2. PICK g : Folds(g, S)
  BY <1>1
<1> DEFINE h == [T \in SUBSET S |-> g[T]]
<1>3. \A T \in SUBSET S : h[T] = g[T] /\ T \ {Latest(T)} \in SUBSET S
  OBVIOUS
<1>4. \A T \in SUBSET S :
        h[T] = IF T = {} THEN "created" ELSE After(h[T \ {Latest(T)}], Latest(T))
  BY <1>2, <1>3 DEF Folds
<1>5. h = [T \in SUBSET S |-> h[T]]
  OBVIOUS
<1> HIDE DEF h
<1>6. h = [T \in SUBSET S |-> IF T = {} THEN "created"
                              ELSE After(h[T \ {Latest(T)}], Latest(T))]
  BY <1>4, <1>5
<1> QED
  BY <1>6

(* So a mandate's state is one of its states, and that of a mandate without *)
(* events is the one it was created with.                                   *)
LEMMA FoldType ==
    ASSUME NEW S \in SUBSET Events
    PROVE  ProjectMandate(S) \in MandateStates
<1> DEFINE Def(g) == [T \in SUBSET S |-> IF T = {} THEN "created"
                                         ELSE After(g[T \ {Latest(T)}], Latest(T))]
           fold == CHOOSE g : g = Def(g)
           Bad == {T \in SUBSET S : fold[T] \notin MandateStates}
<1>1. fold = Def(fold)
  BY FoldExists
<1>2. ProjectMandate(S) = fold[S]
  BY DEF ProjectMandate
<1> HIDE DEF fold
<1>3. \A T \in SUBSET S :
        fold[T] = IF T = {} THEN "created" ELSE After(fold[T \ {Latest(T)}], Latest(T))
  BY <1>1
<1>4. ASSUME NEW s \in MandateStates, NEW e \in Events PROVE After(s, e) \in MandateStates
  BY DEF After, MANDATE_EVENTS, MandateStates
<1>5. ASSUME Bad # {} PROVE FALSE
  <2>1. PICK T \in Bad : \A A \in Bad : A \subseteq T => A = T
    <3>1. Bad \in SUBSET SUBSET Events
      OBVIOUS
    <3> HIDE DEF Bad
    <3> QED
      BY <1>5, <3>1, SmallestSet
  <2>2. T # {}
    BY <1>3, <2>1 DEF MandateStates
  <2>3. Latest(T) \in T
    BY <2>2, LatestExists
  <2>4. fold[T \ {Latest(T)}] \in MandateStates
    BY <2>1, <2>3
  <2> QED
    BY <1>3, <1>4, <2>1, <2>2, <2>3, <2>4
<1> QED
  BY <1>2, <1>5

(* A mandate without events is as it was created. *)
LEMMA EmptyFold == ProjectMandate({}) = "created"
<1> DEFINE Def(g) == [T \in SUBSET {} |-> IF T = {} THEN "created"
                                         ELSE After(g[T \ {Latest(T)}], Latest(T))]
           fold == CHOOSE g : g = Def(g)
<1>1. fold = Def(fold)
  BY FoldExists
<1>2. fold[{}] = "created"
  BY <1>1
<1> QED
  BY <1>2 DEF ProjectMandate

-----------------------------------------------------------------------------
(* The steps. *)

(* A step that writes no row, lets nobody new hold a mandate and stamps no  *)
(* event of an enrolled mandate keeps what the locks and rows promise.      *)
LEMMA QuietStep ==
    ASSUME IInv, cycle' = cycle, mandate' = mandate, RowsTypeOK', BatchInv',
           Stored \subseteq Stored', enrolled \subseteq enrolled',
           \A e \in Events : e.mandate \in enrolled /\ Stamped(e)' => Stamped(e),
           \A w \in Workers, m \in Mandates :
                Holds(w, m)' => /\ Holds(w, m)
                                /\ txn'[w].seen = txn[w].seen
                                /\ txn'[w].batch = txn[w].batch
                                /\ txn'[w].todo \subseteq txn[w].todo
    PROVE  IInv'
<1>1. LockInv'
  <2> SUFFICES ASSUME NEW w \in Workers, NEW m \in Mandates, Holds(w, m)'
               PROVE  /\ m \in enrolled'
                      /\ m \notin txn'[w].todo
                      /\ txn'[w].seen[m] \subseteq OfMandate(m)'
                      /\ WithinBudget(txn'[w].seen[m])
                      /\ \A e \in Events :
                            e.mandate = m /\ (Stamped(e)' \/ e \in txn'[w].batch)
                                => e \in txn'[w].seen[m]
                      /\ \A v \in Workers : Holds(v, m)' => v = w
    BY DEF LockInv, WithinBudget
  <2>1. Holds(w, m)
    OBVIOUS
  <2>2. /\ m \in enrolled /\ m \notin txn[w].todo
        /\ txn[w].seen[m] \subseteq OfMandate(m)
        /\ WithinBudget(txn[w].seen[m])
        /\ \A e \in Events :
              e.mandate = m /\ (Stamped(e) \/ e \in txn[w].batch)
                  => e \in txn[w].seen[m]
        /\ \A v \in Workers : Holds(v, m) => v = w
    BY <2>1 DEF IInv, LockInv
  <2>3. OfMandate(m) \subseteq OfMandate(m)'
    BY DEF OfMandate
  <2> QED
    BY <2>2, <2>3
<1>2. RowInv'
  <2> SUFFICES ASSUME NEW c \in Cycles, cycle'[c] # None
               PROVE  \E S \in SUBSET OfCycle(c, Stored') : Backs(S, c)'
    BY DEF RowInv, OfCycle
  <2>1. PICK S \in SUBSET OfCycle(c, Stored) : Backs(S, c)
    BY DEF IInv, RowInv
  <2>2. S \in SUBSET OfCycle(c, Stored')
    BY DEF OfCycle
  <2>3. S \subseteq Events /\ \A e \in S : e.mandate \in Mandates
    BY EventAssumption DEF OfCycle, Stored
  <2>4. \A e \in OfCycle(c, Events) : Stamped(e)' => e \in S
    <3>1. PICK f \in S : f.mandate \in enrolled
      BY <2>1 DEF Backs, Billed
    <3>2. \A e \in OfCycle(c, Events) : e.mandate = f.mandate
      BY OwnerAssumption, IdAssumption, NoneAssumption, <2>3 DEF OfCycle
    <3> QED
      BY <2>1, <3>1, <3>2 DEF Backs, OfCycle
  <2>5. \A e \in S, w \in Workers :
            Holds(w, e.mandate)' => S \subseteq txn'[w].seen[e.mandate]
    BY <2>1, <2>3 DEF Backs
  <2> QED
    BY <2>1, <2>2, <2>4, <2>5 DEF Backs, ProjectCycle
<1>3. MandateInv'
  <2>1. Provisioned \subseteq enrolled
    BY DEF IInv, MandateInv
  <2> SUFFICES ASSUME NEW m \in Provisioned
               PROVE  \E S \in SUBSET OfMandate(m)' :
                        /\ mandate[m] = ProjectMandate(S)
                        /\ \A e \in Events : e.mandate = m /\ Stamped(e)' => e \in S
    BY <2>1 DEF MandateInv
  <2>2. PICK S \in SUBSET OfMandate(m) :
            /\ mandate[m] = ProjectMandate(S)
            /\ \A e \in Events : e.mandate = m /\ Stamped(e) => e \in S
    BY DEF IInv, MandateInv
  <2>3. S \in SUBSET OfMandate(m)'
    BY DEF OfMandate
  <2> QED
    BY <2>1, <2>2, <2>3
<1> QED
  BY <1>1, <1>2, <1>3 DEF IInv

(* Receiving a webhook only adds to the log. *)
LEMMA ReceiveStep ==
    ASSUME IInv, NEW e \in Events, Receive(e)
    PROVE  IInv'
<1>1. arrival' \in [Events -> Nat]
  <2>1. IsFiniteSet(Stored)
    BY EventAssumption, FS_Subset DEF Stored
  <2>2. Cardinality(Stored) + 1 \in Nat
    BY <2>1, FS_CardinalityType
  <2> QED
    BY <2>2 DEF IInv, RowsTypeOK, Receive
<1>2. Stored \subseteq Stored'
  <2>1. \A f \in Events : arrival[f] # 0 => arrival'[f] = arrival[f]
    BY DEF IInv, RowsTypeOK, Receive
  <2> QED
    BY <2>1 DEF Stored
<1>3. RowsTypeOK'
  BY <1>1 DEF IInv, RowsTypeOK, Receive
<1>4. BatchInv'
  BY <1>2 DEF IInv, BatchInv, Receive
<1>5. \A f \in Events : Stamped(f)' <=> Stamped(f)
  BY DEF Receive, Stamped, Holds
<1>6. \A w \in Workers, m \in Mandates : Holds(w, m)' <=> Holds(w, m)
  BY DEF Receive, Holds
<1> QED
  BY <1>2, <1>3, <1>4, <1>5, <1>6, QuietStep DEF Receive

(* Enrolling a mandate stamps nothing. *)
LEMMA ProvisionStep ==
    ASSUME IInv, NEW m \in Mandates, Provision(m)
    PROVE  IInv'
<1>1. RowsTypeOK' /\ Stored' = Stored /\ enrolled \subseteq enrolled'
  BY DEF IInv, RowsTypeOK, Provision, Stored
<1>2. BatchInv'
  BY <1>1 DEF IInv, BatchInv, Provision
<1>3. \A f \in Events : Stamped(f)' <=> Stamped(f)
  BY DEF Provision, Stamped, Holds
<1>4. \A w \in Workers, n \in Mandates : Holds(w, n)' <=> Holds(w, n)
  BY DEF Provision, Holds
<1> QED
  BY <1>1, <1>2, <1>3, <1>4, QuietStep DEF Provision

(* A transaction that rolls back leaves less to be stamped. *)
LEMMA RollbackStep ==
    ASSUME IInv, NEW w \in Workers, Reject(w) \/ Crash(w)
    PROVE  IInv'
<1>1. /\ txn' = [txn EXCEPT ![w] = None]
      /\ UNCHANGED <<arrival, processed, enrolled, mandate, cycle>>
      /\ crashes' \in 0 .. MaxCrashes
  BY BoundsAssumption DEF Reject, Crash, IInv, RowsTypeOK
<1>2. \A v \in Workers : txn'[v] = IF v = w THEN None ELSE txn[v]
  BY <1>1 DEF IInv, RowsTypeOK
<1>3. RowsTypeOK' /\ Stored' = Stored
  BY <1>1 DEF IInv, RowsTypeOK, Stored
<1>4. BatchInv'
  BY <1>1, <1>2, <1>3 DEF IInv, BatchInv
<1>5. \A f \in Events : Stamped(f)' => Stamped(f)
  BY <1>1, <1>2 DEF Stamped, Holds
<1>6. \A v \in Workers, m \in Mandates :
        Holds(v, m)' => Holds(v, m) /\ txn'[v] = txn[v]
  BY <1>2 DEF Holds
<1> QED
  BY <1>1, <1>3, <1>4, <1>5, <1>6, QuietStep

(* A new batch has all its mandates to project. *)
LEMMA BeginStep ==
    ASSUME IInv, NEW w \in Workers, Begin(w)
    PROVE  IInv'
<1>1. PICK S \in SUBSET Stored :
        txn' = [txn EXCEPT ![w] = [batch |-> S,
                                   todo |-> {e.mandate : e \in S} \ {None},
                                   seen |-> [m \in Mandates |-> {}]]]
  BY DEF Begin, Oldest
<1> DEFINE new == [batch |-> S, todo |-> {e.mandate : e \in S} \ {None},
                   seen |-> [m \in Mandates |-> {}]]
<1>2. \A v \in Workers : txn'[v] = IF v = w THEN new ELSE txn[v]
  BY <1>1 DEF IInv, RowsTypeOK
<1>3. S \subseteq Events /\ \A e \in S : e.mandate \in Mandates \cup {None}
  BY EventAssumption DEF Stored
<1>4. new \in Txns
  BY <1>3 DEF Txns
<1>5. new.batch = S /\ new.todo = {e.mandate : e \in S} \ {None}
      /\ \A m \in Mandates : new.seen[m] = {}
  OBVIOUS
<1>6. new # None
  BY <1>4, NoneAssumption
<1> HIDE DEF new
<1>7. UNCHANGED <<arrival, processed, enrolled, mandate, cycle, crashes>>
  BY DEF Begin
<1>8. RowsTypeOK' /\ Stored' = Stored
  <2>1. txn' \in [Workers -> Txns \cup {None}]
    BY <1>1, <1>4 DEF IInv, RowsTypeOK, new
  <2> QED
    BY <2>1, <1>7 DEF IInv, RowsTypeOK, Stored
<1>9. BatchInv'
  BY <1>2, <1>5, <1>7, <1>8 DEF IInv, BatchInv
<1>10. \A e \in Events : e.mandate \in enrolled /\ Stamped(e)' => Stamped(e)
  <2>1. enrolled \subseteq Mandates /\ None \notin Mandates
    BY IdAssumption, NoneAssumption DEF IInv, RowsTypeOK
  <2> QED
    BY <2>1, <1>2, <1>5, <1>7 DEF Stamped, Holds
<1>11. \A v \in Workers, m \in Mandates :
        Holds(v, m)' => Holds(v, m) /\ txn'[v] = txn[v]
  BY <1>2, <1>5 DEF Holds
<1> QED
  BY <1>7, <1>8, <1>9, <1>10, <1>11, QuietStep

(* A mandate that is passed over is not enrolled. *)
LEMMA PassOverStep ==
    ASSUME IInv, NEW w \in Workers, PassOver(w)
    PROVE  IInv'
<1>1. PICK m \in txn[w].todo :
        m \notin enrolled /\ txn' = [txn EXCEPT ![w].todo = @ \ {m}]
  BY DEF PassOver, Upcoming
<1>2. /\ txn[w] \in Txns /\ txn[w] # None
      /\ UNCHANGED <<arrival, processed, enrolled, mandate, cycle, crashes>>
  BY DEF PassOver, IInv, RowsTypeOK
<1> DEFINE new == [txn[w] EXCEPT !.todo = @ \ {m}]
<1>3. \A v \in Workers : txn'[v] = IF v = w THEN new ELSE txn[v]
  BY <1>1 DEF IInv, RowsTypeOK
<1>4. new \in Txns /\ new.batch = txn[w].batch /\ new.seen = txn[w].seen
      /\ new.todo = txn[w].todo \ {m}
  BY <1>2 DEF Txns
<1>5. new # None
  BY <1>4, NoneAssumption
<1>6. RowsTypeOK' /\ Stored' = Stored
  <2>1. txn' \in [Workers -> Txns \cup {None}]
    BY <1>1, <1>4 DEF IInv, RowsTypeOK
  <2> QED
    BY <2>1, <1>2 DEF IInv, RowsTypeOK, Stored
<1> HIDE DEF new
<1>7. BatchInv'
  BY <1>2, <1>3, <1>4, <1>6 DEF IInv, BatchInv
<1>8. \A v \in Workers, n \in Mandates : Holds(v, n)' <=> Holds(v, n)
  BY <1>2, <1>3, <1>4, <1>5 DEF Holds
<1>9. \A e \in Events : e.mandate \in enrolled /\ Stamped(e)' => Stamped(e)
  <2>1. enrolled \subseteq Mandates
    BY DEF IInv, RowsTypeOK
  <2> QED
    BY <2>1, <1>1, <1>2, <1>3, <1>4, <1>8 DEF Stamped
<1> QED
  BY <1>2, <1>3, <1>4, <1>6, <1>7, <1>8, <1>9, QuietStep

(* Events of one cycle have one mandate. *)
LEMMA OneOwner ==
    ASSUME NEW c \in Cycles, NEW e \in OfCycle(c, Events), NEW f \in OfCycle(c, Events)
    PROVE  e.mandate = f.mandate /\ e.mandate \in Mandates
BY OwnerAssumption, IdAssumption, NoneAssumption, EventAssumption DEF OfCycle

(* A projection reads every stored event of a mandate nobody else holds. *)
LEMMA ProjectStep ==
    ASSUME IInv, NEW w \in Workers, Project(w)
    PROVE  IInv'
<1>1. PICK m \in txn[w].todo :
        /\ m \in enrolled /\ Unlocked(w, m) /\ WithinBudget(OfMandate(m))
        /\ txn' = [txn EXCEPT ![w].todo = @ \ {m}, ![w].seen[m] = OfMandate(m)]
  BY DEF Project, Upcoming
<1>2. /\ txn[w] \in Txns /\ txn[w] # None
      /\ UNCHANGED <<arrival, processed, enrolled, mandate, cycle, crashes>>
  BY DEF Project, IInv, RowsTypeOK
<1> DEFINE new == [txn[w] EXCEPT !.todo = @ \ {m}, !.seen[m] = OfMandate(m)]
<1>3. m \in Mandates /\ OfMandate(m) \subseteq Events
  BY <1>2 DEF Txns, OfMandate, Stored
<1>4. \A v \in Workers : txn'[v] = IF v = w THEN new ELSE txn[v]
  BY <1>1 DEF IInv, RowsTypeOK
<1>5. /\ new \in Txns
      /\ new.batch = txn[w].batch /\ new.todo = txn[w].todo \ {m}
      /\ new.seen = [txn[w].seen EXCEPT ![m] = OfMandate(m)]
  BY <1>2, <1>3 DEF Txns
<1>6. \A n \in Mandates :
        new.seen[n] = IF n = m THEN OfMandate(m) ELSE txn[w].seen[n]
  BY <1>2, <1>5 DEF Txns
<1>7. new # None
  BY <1>5, NoneAssumption
<1>8. RowsTypeOK' /\ Stored' = Stored
  <2>1. txn' \in [Workers -> Txns \cup {None}]
    BY <1>1, <1>5 DEF IInv, RowsTypeOK
  <2> QED
    BY <2>1, <1>2 DEF IInv, RowsTypeOK, Stored
<1> HIDE DEF new
<1>9. BatchInv'
  BY <1>2, <1>4, <1>5, <1>8 DEF IInv, BatchInv
<1>10. OfMandate(m) # {}
  BY <1>1, <1>2 DEF IInv, BatchInv, OfMandate
<1>11. \A v \in Workers, n \in Mandates :
        Holds(v, n)' <=> Holds(v, n) \/ (v = w /\ n = m)
  BY <1>2, <1>4, <1>6, <1>7, <1>10 DEF Holds
<1>12. \A e \in Events : e.mandate \in Mandates /\ Stamped(e)' => Stamped(e)
  BY <1>2, <1>3, <1>4, <1>5, <1>11 DEF Stamped
<1>13. \A e \in Events :
        e.mandate = m /\ (Stamped(e) \/ e \in txn[w].batch) => e \in OfMandate(m)
  BY <1>2 DEF Stamped, IInv, BatchInv, OfMandate
<1>14. LockInv'
  <2> SUFFICES ASSUME NEW v \in Workers, NEW n \in Mandates, Holds(v, n)'
               PROVE  /\ n \in enrolled'
                      /\ n \notin txn'[v].todo
                      /\ txn'[v].seen[n] \subseteq OfMandate(n)'
                      /\ WithinBudget(txn'[v].seen[n])
                      /\ \A e \in Events :
                            e.mandate = n /\ (Stamped(e)' \/ e \in txn'[v].batch)
                                => e \in txn'[v].seen[n]
                      /\ \A u \in Workers : Holds(u, n)' => u = v
    BY DEF LockInv, WithinBudget
  <2>1. OfMandate(n)' = OfMandate(n)
    BY <1>8 DEF OfMandate
  <2>2. CASE v = w /\ n = m
    <3>1. \A u \in Workers : Holds(u, m)' => u = w
      BY <1>1, <1>3, <1>11 DEF Unlocked
    <3> QED
      BY <2>1, <2>2, <3>1, <1>1, <1>2, <1>4, <1>5, <1>6, <1>12, <1>13
  <2>3. CASE ~ (v = w /\ n = m)
    <3>1. Holds(v, n)
      BY <2>3, <1>11
    <3>2. n = m => FALSE
      BY <2>3, <3>1, <1>1 DEF Unlocked
    <3>3. /\ n \in enrolled /\ n \notin txn[v].todo
          /\ txn[v].seen[n] \subseteq OfMandate(n)
          /\ WithinBudget(txn[v].seen[n])
          /\ \A e \in Events :
                e.mandate = n /\ (Stamped(e) \/ e \in txn[v].batch)
                    => e \in txn[v].seen[n]
          /\ \A u \in Workers : Holds(u, n) => u = v
      BY <3>1 DEF IInv, LockInv
    <3>4. /\ txn'[v].seen[n] = txn[v].seen[n] /\ txn'[v].batch = txn[v].batch
          /\ txn'[v].todo \subseteq txn[v].todo
      BY <3>2, <1>4, <1>5, <1>6
    <3> QED
      BY <2>1, <3>2, <3>3, <3>4, <1>2, <1>11, <1>12
  <2> QED
    BY <2>2, <2>3
<1>15. RowInv'
  <2> SUFFICES ASSUME NEW c \in Cycles, cycle[c] # None
               PROVE  \E S \in SUBSET OfCycle(c, Stored) : Backs(S, c)'
    BY <1>2, <1>8 DEF RowInv, OfCycle
  <2>1. PICK S \in SUBSET OfCycle(c, Stored) : Backs(S, c)
    BY DEF IInv, RowInv
  <2>2. S \subseteq OfCycle(c, Events)
    BY DEF OfCycle, Stored
  <2>3. \A e \in S, v \in Workers :
            Holds(v, e.mandate)' => S \subseteq txn'[v].seen[e.mandate]
    <3> SUFFICES ASSUME NEW e \in S, NEW v \in Workers, Holds(v, e.mandate)'
                 PROVE  S \subseteq txn'[v].seen[e.mandate]
      OBVIOUS
    <3>1. e.mandate \in Mandates
      BY <2>2, OneOwner
    <3>2. CASE v = w /\ e.mandate = m
      <4>1. S \subseteq OfMandate(m)
        BY <2>2, <3>2, OneOwner DEF OfMandate, OfCycle
      <4> QED
        BY <3>2, <4>1, <1>3, <1>4, <1>6
    <3>3. CASE ~ (v = w /\ e.mandate = m)
      BY <2>1, <3>1, <3>3, <1>4, <1>6, <1>11 DEF Backs
    <3> QED
      BY <3>2, <3>3
  <2>4. \A e \in OfCycle(c, Events) : Stamped(e)' => e \in S
    BY <2>1, <1>12, OneOwner DEF Backs, OfCycle
  <2> QED
    BY <2>1, <2>3, <2>4, <1>2 DEF Backs, ProjectCycle
<1>16. MandateInv'
  <2>1. \A n \in Provisioned : n \in Mandates /\ OfMandate(n)' = OfMandate(n)
    BY <1>8, BoundsAssumption DEF OfMandate
  <2> QED
    BY <2>1, <1>2, <1>12 DEF IInv, MandateInv
<1> QED
  BY <1>8, <1>9, <1>14, <1>15, <1>16 DEF IInv

(* What a transaction read for a cycle is the cycle's part of one mandate's *)
(* history, which it holds and which passed the CHECK.                      *)
LEMMA SeenIsOneHistory ==
    ASSUME IInv, NEW w \in Workers, txn[w] # None, NEW c \in Cycles,
           NEW e \in Seen(w, c)
    PROVE  /\ e \in OfCycle(c, Stored) /\ e.mandate \in Mandates
           /\ Holds(w, e.mandate)
           /\ Seen(w, c) = OfCycle(c, txn[w].seen[e.mandate])
           /\ Seen(w, c) \subseteq OfCycle(c, Stored)
           /\ Billed(Seen(w, c)) # {} => Cardinality(Failures(Seen(w, c))) <= Budget
<1>1. \A m \in Mandates : \A f \in txn[w].seen[m] :
        Holds(w, m) /\ f \in Stored /\ f.mandate = m
  BY DEF IInv, LockInv, Holds, OfMandate
<1>2. \A f \in Seen(w, c) :
        /\ f \in OfCycle(c, Stored) /\ f.mandate \in Mandates
        /\ f \in txn[w].seen[f.mandate] /\ Holds(w, f.mandate)
  BY <1>1 DEF Seen, OfCycle
<1>3. \A f \in Seen(w, c) : f.mandate = e.mandate
  BY <1>2, OneOwner DEF OfCycle, Stored
<1>4. Seen(w, c) = OfCycle(c, txn[w].seen[e.mandate])
  BY <1>2, <1>3 DEF Seen, OfCycle
<1>5. WithinBudget(txn[w].seen[e.mandate])
  BY <1>2 DEF IInv, LockInv
<1> QED
  BY <1>2, <1>4, <1>5 DEF WithinBudget

(* A commit stamps its own batch and nothing else. *)
LEMMA CommitStamps ==
    ASSUME IInv, NEW w \in Workers, Commit(w),
           NEW e \in Events, e.mandate \in Mandates, Stamped(e)'
    PROVE  Stamped(e) \/ (e \in txn[w].batch /\ Holds(w, e.mandate))
<1>1. \A v \in Workers : txn'[v] = IF v = w THEN None ELSE txn[v]
  BY DEF Commit, IInv, RowsTypeOK
<1>2. txn[w] # None /\ txn[w].todo = {} /\ processed' = processed \cup txn[w].batch
  BY DEF Commit
<1> QED
  BY <1>1, <1>2 DEF Stamped, Holds

(* What a row was made from is part of what the next commit writes it from. *)
LEMMA CommitReadMore ==
    ASSUME IInv, NEW w \in Workers, txn[w] # None, NEW c \in Cycles,
           NEW S \in SUBSET OfCycle(c, Stored), Backs(S, c),
           NEW e \in OfCycle(c, Events), Holds(w, e.mandate)
    PROVE  S \subseteq Seen(w, c) /\ Billed(Seen(w, c)) # {}
<1>1. PICK f \in S : f \in Billed(S)
  BY DEF Backs, Billed
<1>2. S \subseteq OfCycle(c, Events)
  BY DEF OfCycle, Stored
<1>3. f.mandate = e.mandate /\ f.mandate \in Mandates
  BY <1>1, <1>2, OneOwner
<1>4. S \subseteq txn[w].seen[f.mandate]
  BY <1>1, <1>3 DEF Backs
<1>5. S \subseteq Seen(w, c)
  BY <1>2, <1>3, <1>4 DEF Seen, OfCycle
<1> QED
  BY <1>1, <1>5 DEF Billed

(* A commit writes well-formed rows that the stored events account for. *)
LEMMA CommitStep ==
    ASSUME IInv, NEW w \in Workers, Commit(w)
    PROVE  IInv'
<1>1. /\ txn[w] \in Txns /\ txn[w] # None /\ txn[w].todo = {}
      /\ processed' = processed \cup txn[w].batch
      /\ UNCHANGED <<arrival, enrolled, crashes>>
  BY DEF Commit, IInv, RowsTypeOK
<1>2. \A v \in Workers : txn'[v] = IF v = w THEN None ELSE txn[v]
  BY DEF Commit, IInv, RowsTypeOK
<1>3. \A c \in Cycles : cycle'[c] = Upsert(c, Seen(w, c))
  BY DEF Commit
<1>4. ASSUME NEW c \in Cycles, Billed(Seen(w, c)) # {}
      PROVE  /\ cycle'[c] \in Rows
             /\ cycle'[c].facts = ProjectCycle(Seen(w, c))
  <2>1. PICK e \in Seen(w, c) : TRUE
    BY <1>4 DEF Billed
  <2>2. Seen(w, c) \subseteq Events /\ Cardinality(Failures(Seen(w, c))) <= Budget
    BY <1>1, <1>4, <2>1, SeenIsOneHistory DEF OfCycle, Stored
  <2>3. NewRow(Seen(w, c)) \in Rows /\ ProjectCycle(Seen(w, c)) \in Facts
    BY <1>4, <2>2, RowType, FactsType
  <2>4. cycle[c] # None => cycle[c] \in Rows
    BY DEF IInv, RowsTypeOK
  <2>5. cycle'[c] = IF cycle[c] = None THEN NewRow(Seen(w, c))
                    ELSE [cycle[c] EXCEPT !.facts = ProjectCycle(Seen(w, c))]
    BY <1>3, <1>4 DEF Upsert
  <2>6. CASE cycle[c] = None
    BY <2>3, <2>5, <2>6 DEF NewRow
  <2>7. CASE cycle[c] # None
    <3>1. cycle[c] \in Rows
      BY <2>4, <2>7
    <3> QED
      BY <2>3, <2>5, <2>7, <3>1 DEF Rows
  <2> QED
    BY <2>6, <2>7
<1>5. \A c \in Cycles : Billed(Seen(w, c)) = {} => cycle'[c] = cycle[c]
  BY <1>3 DEF Upsert
<1>6. RowsTypeOK'
  <2>1. txn[w].batch \in SUBSET Events
    BY <1>1 DEF Txns
  <2>2. cycle' = [c \in Cycles |-> Upsert(c, Seen(w, c))]
    BY DEF Commit
  <2>3. \A c \in Cycles : Upsert(c, Seen(w, c)) \in Rows \cup {None}
    BY <1>3, <1>4, <1>5 DEF IInv, RowsTypeOK
  <2>4. cycle' \in [Cycles -> Rows \cup {None}]
    BY <2>2, <2>3
  <2>5. txn' \in [Workers -> Txns \cup {None}]
    BY DEF Commit, IInv, RowsTypeOK
  <2> QED
    BY <1>1, <2>1, <2>4, <2>5 DEF IInv, RowsTypeOK
<1>7. Stored' = Stored
  BY <1>1 DEF Stored
<1>8. BatchInv'
  BY <1>1, <1>2, <1>7 DEF IInv, BatchInv
<1>9. \A v \in Workers, n \in Mandates :
        Holds(v, n)' => Holds(v, n) /\ v # w /\ txn'[v] = txn[v]
  BY <1>2 DEF Holds
<1>10. LockInv'
  <2> SUFFICES ASSUME NEW v \in Workers, NEW n \in Mandates, Holds(v, n)'
               PROVE  /\ n \in enrolled'
                      /\ n \notin txn'[v].todo
                      /\ txn'[v].seen[n] \subseteq OfMandate(n)'
                      /\ WithinBudget(txn'[v].seen[n])
                      /\ \A e \in Events :
                            e.mandate = n /\ (Stamped(e)' \/ e \in txn'[v].batch)
                                => e \in txn'[v].seen[n]
                      /\ \A u \in Workers : Holds(u, n)' => u = v
    BY DEF LockInv, WithinBudget
  <2>1. Holds(v, n) /\ v # w /\ txn'[v] = txn[v]
    BY <1>9
  <2>2. /\ n \in enrolled /\ n \notin txn[v].todo
        /\ txn[v].seen[n] \subseteq OfMandate(n)
        /\ WithinBudget(txn[v].seen[n])
        /\ \A e \in Events :
              e.mandate = n /\ (Stamped(e) \/ e \in txn[v].batch)
                  => e \in txn[v].seen[n]
        /\ \A u \in Workers : Holds(u, n) => u = v
    BY <2>1 DEF IInv, LockInv
  <2>3. \A e \in Events : e.mandate = n /\ Stamped(e)' => Stamped(e)
    BY <2>1, <2>2, CommitStamps
  <2>4. OfMandate(n)' = OfMandate(n)
    BY <1>7 DEF OfMandate
  <2> QED
    BY <1>1, <1>9, <2>1, <2>2, <2>3, <2>4
<1>11. RowInv'
  <2> SUFFICES ASSUME NEW c \in Cycles, cycle'[c] # None
               PROVE  \E S \in SUBSET OfCycle(c, Stored) : Backs(S, c)'
    BY <1>7 DEF RowInv, OfCycle
  <2>1. CASE Billed(Seen(w, c)) = {}
    <3>1. PICK S \in SUBSET OfCycle(c, Stored) : Backs(S, c)
      BY <1>5, <2>1 DEF IInv, RowInv
    <3>2. \A e \in OfCycle(c, Events) : ~ Holds(w, e.mandate)
      BY <1>1, <2>1, <3>1, CommitReadMore
    <3>3. \A e \in OfCycle(c, Events) : e \in Events /\ e.mandate \in Mandates
      BY OneOwner DEF OfCycle
    <3>4. \A e \in OfCycle(c, Events) : Stamped(e)' => Stamped(e)
      BY <3>2, <3>3, CommitStamps
    <3>5. \A e \in S : e \in OfCycle(c, Events)
      BY DEF OfCycle, Stored
    <3>6. \A e \in S, v \in Workers :
            Holds(v, e.mandate)' => S \subseteq txn'[v].seen[e.mandate]
      BY <1>9, <3>1, <3>3, <3>5 DEF Backs
    <3> QED
      BY <1>1, <1>5, <2>1, <3>1, <3>4, <3>6 DEF Backs, ProjectCycle
  <2>2. CASE Billed(Seen(w, c)) # {}
    <3>1. PICK e \in Seen(w, c) : TRUE
      BY <2>2 DEF Billed
    <3>2. /\ e.mandate \in Mandates /\ Holds(w, e.mandate)
          /\ Seen(w, c) = OfCycle(c, txn[w].seen[e.mandate])
          /\ Seen(w, c) \subseteq OfCycle(c, Stored)
          /\ e \in OfCycle(c, Stored)
      BY <1>1, <3>1, SeenIsOneHistory
    <3>3. PICK S \in SUBSET OfCycle(c, Stored) : S = Seen(w, c)
      BY <3>2
    <3>4. OfCycle(c, Stored) \subseteq OfCycle(c, Events)
      BY DEF OfCycle, Stored
    <3>5. \A f \in OfCycle(c, Events) :
            f \in Events /\ f.mandate = e.mandate /\ f.mandate \in Mandates
      BY <3>2, <3>4, OneOwner DEF OfCycle
    <3>6. /\ e.mandate \in enrolled
          /\ \A f \in Events :
                f.mandate = e.mandate /\ (Stamped(f) \/ f \in txn[w].batch)
                    => f \in txn[w].seen[e.mandate]
          /\ \A v \in Workers : Holds(v, e.mandate) => v = w
      BY <3>2 DEF IInv, LockInv
    <3>7. \A f \in OfCycle(c, Events) : Stamped(f)' => f \in S
      <4> SUFFICES ASSUME NEW f \in OfCycle(c, Events), Stamped(f)'
                   PROVE  f \in S
        OBVIOUS
      <4>1. Stamped(f) \/ f \in txn[w].batch
        BY <3>5, CommitStamps
      <4>2. f \in txn[w].seen[e.mandate]
        BY <3>5, <3>6, <4>1
      <4> QED
        BY <3>3, <3>2, <4>2 DEF OfCycle
    <3>8. \A f \in S, v \in Workers :
            Holds(v, f.mandate)' => S \subseteq txn'[v].seen[f.mandate]
      BY <1>9, <3>2, <3>4, <3>5, <3>6
    <3>9. \A f \in S : f.mandate \in enrolled'
      BY <1>1, <3>2, <3>4, <3>5, <3>6
    <3>10. cycle'[c].facts = ProjectCycle(S) /\ Billed(S) # {}
      BY <1>4, <2>2, <3>3
    <3> QED
      BY <3>7, <3>8, <3>9, <3>10 DEF Backs, ProjectCycle
  <2> QED
    BY <2>1, <2>2
<1>12. MandateInv'
  <2> SUFFICES ASSUME NEW m \in Provisioned
               PROVE  \E S \in SUBSET OfMandate(m) :
                        /\ mandate'[m] = ProjectMandate(S)
                        /\ \A e \in Events : e.mandate = m /\ Stamped(e)' => e \in S
    BY <1>1, <1>7 DEF IInv, MandateInv, OfMandate
  <2>1. m \in Mandates
    BY BoundsAssumption
  <2>2. mandate'[m] = IF Holds(w, m) THEN ProjectMandate(txn[w].seen[m]) ELSE mandate[m]
    BY <2>1 DEF Commit
  <2>3. \A e \in Events : e.mandate = m /\ Stamped(e)'
            => Stamped(e) \/ (e \in txn[w].batch /\ Holds(w, m))
    BY <2>1, CommitStamps
  <2>4. CASE Holds(w, m)
    <3>1. /\ txn[w].seen[m] \in SUBSET OfMandate(m)
          /\ \A e \in Events : e.mandate = m /\ (Stamped(e) \/ e \in txn[w].batch)
                => e \in txn[w].seen[m]
      BY <2>1, <2>4 DEF IInv, LockInv
    <3> QED
      BY <2>2, <2>3, <2>4, <3>1
  <2>5. CASE ~ Holds(w, m)
    BY <2>2, <2>3, <2>5 DEF IInv, MandateInv
  <2> QED
    BY <2>4, <2>5
<1> QED
  BY <1>6, <1>8, <1>10, <1>11, <1>12 DEF IInv

-----------------------------------------------------------------------------
(* The results. *)

LEMMA InitIInv == Init => IInv
<1> SUFFICES ASSUME Init PROVE IInv
  OBVIOUS
<1> USE DEF Init
<1>1. RowsTypeOK
  BY BoundsAssumption DEF RowsTypeOK
<1>2. BatchInv
  BY DEF BatchInv
<1>3. \A w \in Workers : txn[w] = None
  OBVIOUS
<1>4. LockInv
  BY <1>3 DEF LockInv, Holds
<1>5. RowInv
  BY DEF RowInv
<1>6. MandateInv
  <2>1. \A e \in Events : ~ Stamped(e)
    BY <1>3 DEF Stamped
  <2>2. \A m \in Provisioned : mandate[m] = ProjectMandate({})
    BY EmptyFold, BoundsAssumption
  <2> QED
    BY <2>1, <2>2 DEF MandateInv
<1> QED
  BY <1>1, <1>2, <1>4, <1>5, <1>6 DEF IInv

LEMMA NextIInv == IInv /\ [Next]_vars => IInv'
<1> SUFFICES ASSUME IInv, [Next]_vars PROVE IInv'
  OBVIOUS
<1>1. CASE \E e \in Events : Receive(e)
  BY <1>1, ReceiveStep
<1>2. CASE \E m \in Mandates : Provision(m)
  BY <1>2, ProvisionStep
<1>3. ASSUME NEW w \in Workers, Begin(w) PROVE IInv'
  BY <1>3, BeginStep
<1>4. ASSUME NEW w \in Workers, PassOver(w) PROVE IInv'
  BY <1>4, PassOverStep
<1>5. ASSUME NEW w \in Workers, Project(w) PROVE IInv'
  BY <1>5, ProjectStep
<1>6. ASSUME NEW w \in Workers, Reject(w) \/ Crash(w) PROVE IInv'
  BY <1>6, RollbackStep
<1>7. ASSUME NEW w \in Workers, Commit(w) PROVE IInv'
  BY <1>7, CommitStep
<1>8. CASE UNCHANGED vars
  <2>1. Stored' = Stored /\ RowsTypeOK' /\ \A e \in Events : Stamped(e)' <=> Stamped(e)
    BY <1>8 DEF vars, Stored, IInv, RowsTypeOK, Stamped, Holds
  <2>2. BatchInv'
    BY <1>8, <2>1 DEF vars, IInv, BatchInv
  <2>3. \A w \in Workers, m \in Mandates :
            Holds(w, m)' => Holds(w, m) /\ txn'[w] = txn[w]
    BY <1>8 DEF vars, Holds
  <2> QED
    BY <1>8, <2>1, <2>2, <2>3, QuietStep DEF vars
<1> QED
  BY <1>1, <1>2, <1>3, <1>4, <1>5, <1>6, <1>7, <1>8 DEF Next

(* Whoever holds a mandate's row has read every event that is stamped or    *)
(* about to be, and every event a committed row was made from.              *)
THEOREM Invariant == Spec => []IInv
<1>1. Init => IInv
  BY InitIInv
<1>2. IInv /\ [Next]_vars => IInv'
  BY NextIInv
<1> QED
  BY <1>1, <1>2, PTL DEF Spec

(* A commit writes a state of MandateState to every mandate it projected.   *)
LEMMA MandateTyped ==
    ASSUME IInv, [Next]_vars, mandate \in [Mandates -> MandateStates]
    PROVE  mandate' \in [Mandates -> MandateStates]
<1>1. CASE \E w \in Workers : Commit(w)
  <2>1. PICK w \in Workers : Commit(w)
    BY <1>1
  <2>2. txn[w] \in Txns
    BY <2>1 DEF Commit, IInv, RowsTypeOK
  <2>3. \A m \in Mandates : ProjectMandate(txn[w].seen[m]) \in MandateStates
    BY <2>2, FoldType DEF Txns
  <2> QED
    BY <2>1, <2>3 DEF Commit
<1>2. CASE mandate' = mandate
  BY <1>2
<1> QED
  BY <1>1, <1>2 DEF Next, vars, Receive, Provision, Begin, PassOver, Project, Reject, Crash

(* The rows keep their types; in particular no row's count exceeds the      *)
(* budget of the table's CHECK (projector.py:220-282, 0002_schema.py:128).  *)
THEOREM TypeCorrect == Spec => []TypeOK
<1>1. Init => TypeOK
  BY InitIInv DEF Init, IInv, TypeOK, MandateStates
<1>2. IInv /\ IInv' /\ TypeOK /\ [Next]_vars => TypeOK'
  BY MandateTyped DEF IInv, TypeOK
<1> QED
  BY <1>1, <1>2, Invariant, PTL DEF Spec

(* A cycle's row is always the fold of a set of events between the          *)
(* processed and the stored ones: nothing stamped is missing from it.       *)
THEOREM NothingStampedIsMissing == Spec => []RowsAreFolds
<1>1. IInv => CyclesAreFolds
  <2> SUFFICES ASSUME IInv, NEW c \in Cycles, cycle[c] # None
               PROVE  \E S \in Between(OfCycle(c, processed), OfCycle(c, Stored)) :
                        Billed(S) # {} /\ cycle[c].facts = ProjectCycle(S)
    BY DEF CyclesAreFolds
  <2>1. PICK S \in SUBSET OfCycle(c, Stored) : Backs(S, c)
    BY DEF IInv, RowInv
  <2>2. OfCycle(c, processed) \subseteq S
    <3>1. processed \subseteq Events
      BY DEF IInv, RowsTypeOK
    <3> QED
      BY <2>1, <3>1 DEF Backs, OfCycle, Stamped
  <2>3. S \in Between(OfCycle(c, processed), OfCycle(c, Stored))
    BY <2>2 DEF Between
  <2> QED
    BY <2>1, <2>3 DEF Backs
<1>2. IInv => MandatesAreFolds
  <2> SUFFICES ASSUME IInv, NEW m \in Provisioned
               PROVE  \E S \in Between({e \in processed : e.mandate = m},
                                      {e \in Stored : e.mandate = m}) :
                        mandate[m] = ProjectMandate(S)
    BY DEF MandatesAreFolds
  <2>1. PICK S \in SUBSET OfMandate(m) :
            /\ mandate[m] = ProjectMandate(S)
            /\ \A e \in Events : e.mandate = m /\ Stamped(e) => e \in S
    BY DEF IInv, MandateInv
  <2>2. {e \in processed : e.mandate = m} \subseteq S
    BY <2>1 DEF IInv, RowsTypeOK, Stamped
  <2> QED
    BY <2>1, <2>2 DEF Between, OfMandate
<1> QED
  BY <1>1, <1>2, Invariant, PTL DEF RowsAreFolds

(* No step of any projector takes a counted failure or a payment back.      *)
LEMMA FactsKept ==
    ASSUME IInv, [Next]_vars, NEW c \in Cycles, cycle[c] # None
    PROVE  /\ cycle'[c] # None
           /\ cycle[c].facts.used <= cycle'[c].facts.used
           /\ cycle[c].facts.state = "succeeded" => cycle'[c].facts.state = "succeeded"
<1>1. cycle[c] \in Rows /\ cycle[c].facts.used \in Nat
  BY BoundsAssumption DEF IInv, RowsTypeOK, Rows, Facts
<1>2. CASE cycle'[c] = cycle[c]
  BY <1>1, <1>2
<1>3. CASE cycle'[c] # cycle[c]
  <2>1. PICK w \in Workers : Commit(w)
    BY <1>3 DEF Next, vars, Receive, Provision, Begin, PassOver, Project, Reject, Crash
  <2>2. Billed(Seen(w, c)) # {}
    BY <1>3, <2>1 DEF Commit, Upsert
  <2>3. txn[w] # None
    BY <2>1 DEF Commit
  <2>4. PICK e \in Seen(w, c) : TRUE
    BY <2>2 DEF Billed
  <2>5. /\ e \in OfCycle(c, Events) /\ Holds(w, e.mandate)
        /\ Seen(w, c) \in SUBSET Events
    BY <2>3, <2>4, SeenIsOneHistory DEF OfCycle, Stored
  <2>6. PICK S \in SUBSET OfCycle(c, Stored) : Backs(S, c)
    BY DEF IInv, RowInv
  <2>7. S \subseteq Seen(w, c)
    BY <2>3, <2>5, <2>6, CommitReadMore
  <2>8. cycle'[c] = [cycle[c] EXCEPT !.facts = ProjectCycle(Seen(w, c))]
    BY <2>1, <2>2 DEF Commit, Upsert
  <2>9. cycle'[c].facts = ProjectCycle(Seen(w, c)) /\ cycle[c].facts = ProjectCycle(S)
    BY <1>1, <2>6, <2>8 DEF Rows, Backs
  <2>10. cycle'[c] # None
    <3>1. cycle'[c] \in Rows
      BY <1>1, <2>1, <2>2, <2>5, <2>8, <2>3, <2>4, SeenIsOneHistory, FactsType DEF Rows
    <3> QED
      BY <3>1, NoneAssumption
  <2> QED
    BY <2>5, <2>7, <2>9, <2>10, FactsGrow
<1> QED
  BY <1>2, <1>3

(* No commit of any projector lowers a cycle's count of failures or undoes a *)
(* payment that its row has recorded.                                        *)
THEOREM NothingIsTakenBack == Spec => FactsOnlyGrow
<1>1. IInv /\ [Next]_vars =>
        [\A c \in Cycles :
            cycle[c] # None =>
                /\ cycle'[c] # None
                /\ cycle[c].facts.used <= cycle'[c].facts.used
                /\ cycle[c].facts.state = "succeeded"
                       => cycle'[c].facts.state = "succeeded"]_vars
  BY FactsKept
<1> QED
  BY <1>1, Invariant, PTL DEF Spec, FactsOnlyGrow

=============================================================================
