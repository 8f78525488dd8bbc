--------------------------- MODULE GovernanceProofs ---------------------------
(***************************************************************************)
(* What the model registry's history, the frozen experiments and an        *)
(* erasure guarantee: for any models, decision points, tenants, shares and *)
(* hash; and however erasures interleave with enrolments, updates of       *)
(* profiles, replies and each other.  And what a profile's evidence is     *)
(* worth, for any decay and any length of a month.                         *)
(***************************************************************************)
EXTENDS Registry, Experiment, Consent, FiniteSetTheorems, WellFoundedInduction, TLAPS

(* A nonempty set of numbers that has a bound has a greatest member.         *)
LEMMA GreatestExists ==
    ASSUME NEW n \in Nat, NEW S \in SUBSET (0 .. n), S # {}
    PROVE  \E i \in S : \A j \in S : j <= i
<1> DEFINE above(i) == {j \in S : i <= j}
           T == {above(i) : i \in S}
<1>1. IsFiniteSet(0 .. n)
  BY FS_Interval
<1>2. IsWellFoundedOn(StrictSubsetOrdering(0 .. n), SUBSET (0 .. n))
  BY <1>1, FS_StrictSubsetOrderingWellFounded, FS_FiniteSubsetsOfFinite
<1>3. T \in SUBSET SUBSET (0 .. n) /\ T # {}
  OBVIOUS
<1> HIDE DEF T
<1>4. PICK B \in T : \A A \in T : <<A, B>> \notin StrictSubsetOrdering(0 .. n)
  BY <1>2, <1>3, WFMin
<1>5. \A A \in T : A \subseteq B => A = B
  BY <1>3, <1>4 DEF StrictSubsetOrdering
<1>6. PICK i \in S : B = above(i)
  BY <1>4 DEF T
<1>7. ASSUME NEW j \in S, ~(j <= i) PROVE FALSE
  <2>1. i < j
    <3>1. i \in Int /\ j \in Int
      OBVIOUS
    <3> QED
      BY <1>7, <3>1
  <2>2. above(j) \subseteq above(i) /\ i \in above(i) /\ i \notin above(j)
    <3>1. S \subseteq Int
      OBVIOUS
    <3>2. \A a, b, k \in Int : a < b => a <= a /\ ~(b <= a) /\ (b <= k => a <= k)
      OBVIOUS
    <3> QED
      BY <2>1, <3>1, <3>2
  <2>3. above(j) \in T
    BY DEF T
  <2> QED
    BY <1>5, <1>6, <2>2, <2>3
<1> QED
  BY <1>7

-----------------------------------------------------------------------------
(* The registry's history.  The latest of some entries is one of them.       *)
LEMMA LatestIs ==
    ASSUME NEW h, NEW n \in Nat, NEW S \in SUBSET (1 .. n), S # {}
    PROVE  \E i \in S : Latest(h, S) = h[i] /\ \A j \in S : j <= i
<1>1. S \in SUBSET (0 .. n)
  OBVIOUS
<1>2. \E i \in S : \A j \in S : j <= i
  BY <1>1, GreatestExists
<1>3. PICK i \in S : i = (CHOOSE k \in S : \A j \in S : j <= k) /\ \A j \in S : j <= i
  BY <1>2
<1> QED
  BY <1>3 DEF Latest

(* Entries added later leave the latest of earlier ones what it was, and an  *)
(* entry that is the last is the latest.                                     *)
LEMMA LatestKept ==
    ASSUME NEW h, NEW g, NEW n \in Nat, NEW S \in SUBSET (1 .. n), S # {},
           \A i \in 1 .. n : g[i] = h[i]
    PROVE  Latest(g, S) = Latest(h, S)
<1>1. S \in SUBSET (0 .. n)
  OBVIOUS
<1>2. \E i \in S : \A j \in S : j <= i
  BY <1>1, GreatestExists
<1>3. (CHOOSE i \in S : \A j \in S : j <= i) \in 1 .. n
  BY <1>2
<1> QED
  BY <1>3 DEF Latest

(* An entry just appended to a history is the latest of any selection that   *)
(* has it.                                                                   *)
LEMMA LatestNew ==
    ASSUME NEW h, NEW n \in Nat, NEW S \in SUBSET (1 .. n), n \in S
    PROVE  Latest(h, S) = h[n]
<1>1. PICK i \in S : Latest(h, S) = h[i] /\ \A j \in S : j <= i
  BY LatestIs
<1>2. i = n
  BY <1>1
<1> QED
  BY <1>1, <1>2

(* Appending an entry leaves those before it alone.                          *)
LEMMA EntryAdded ==
    ASSUME NEW h \in Seq(Entries), NEW e \in Entries
    PROVE  /\ Len(h) \in Nat /\ Len(Append(h, e)) = Len(h) + 1
           /\ DOMAIN h = 1 .. Len(h) /\ DOMAIN Append(h, e) = 1 .. Len(h) + 1
           /\ Append(h, e) \in Seq(Entries)
           /\ Append(h, e)[Len(h) + 1] = e
           /\ \A i \in 1 .. Len(h) : Append(h, e)[i] = h[i]
  OBVIOUS

(* What served after the entries there were is what it was; what serves now  *)
(* is what the new entry says, at its point.                                 *)
LEMMA ServedBefore ==
    ASSUME NEW h \in Seq(Entries), NEW e \in Entries, NEW p, NEW m \in 0 .. Len(h)
    PROVE  ServedAfter(Append(h, e), p, m) = ServedAfter(h, p, m)
<1> DEFINE g == Append(h, e)
           S == {i \in 1 .. m : h[i].point = p}
<1>1. Len(h) \in Nat /\ \A i \in 1 .. Len(h) : g[i] = h[i]
  BY EntryAdded
<1> HIDE DEF g
<1>2. {i \in 1 .. m : g[i].point = p} = S
  BY <1>1
<1>3. S \in SUBSET (1 .. Len(h))
  BY <1>1
<1>4. S # {} => Latest(g, S) = Latest(h, S)
  BY <1>1, <1>3, LatestKept
<1>5. ServedAfter(g, p, m) = ServedAfter(h, p, m)
  BY <1>2, <1>4 DEF ServedAfter
<1> QED
  BY <1>5 DEF g

(* What is served once an entry is appended: its model at its point, and     *)
(* what was served before at any other.                                      *)
LEMMA ServedNow ==
    ASSUME NEW h \in Seq(Entries), NEW e \in Entries, NEW p
    PROVE  ServedAfter(Append(h, e), p, Len(Append(h, e))) =
             IF e.point = p THEN e.to ELSE ServedAfter(h, p, Len(h))
<1> DEFINE g == Append(h, e)
           n == Len(h)
           S == {i \in 1 .. n : h[i].point = p}
           T == {i \in 1 .. n + 1 : g[i].point = p}
<1>1. n \in Nat /\ Len(g) = n + 1 /\ g[n + 1] = e /\ \A i \in 1 .. n : g[i] = h[i]
  BY EntryAdded
<1> HIDE DEF g, n
<1>2. T \in SUBSET (1 .. n + 1) /\ S \in SUBSET (1 .. n) /\ n + 1 \in Nat
  BY <1>1
<1>3. ServedAfter(g, p, Len(g)) = IF T = {} THEN None ELSE Latest(g, T).to
  BY <1>1 DEF ServedAfter
<1>4. ServedAfter(h, p, n) = IF S = {} THEN None ELSE Latest(h, S).to
  BY DEF ServedAfter
<1>5. CASE e.point = p
  <2>1. n + 1 \in T
    BY <1>1, <1>5
  <2> HIDE DEF T
  <2>2. Latest(g, T) = e
    BY <1>1, <1>2, <2>1, LatestNew
  <2> QED
    BY <1>3, <1>5, <2>1, <2>2 DEF g, n
<1>6. CASE e.point # p
  <2>1. T = S
    BY <1>1, <1>6
  <2> HIDE DEF S, T
  <2>2. S # {} => Latest(g, S) = Latest(h, S)
    BY <1>1, <1>2, LatestKept
  <2> QED
    BY <1>3, <1>4, <1>6, <2>1, <2>2 DEF g, n
<1> QED
  BY <1>5, <1>6

(* What an entry does to the displaced entries of a point.                   *)
LEMMA DisplacedAfter ==
    ASSUME NEW h \in Seq(Entries), NEW e \in Entries, NEW p
    PROVE  LET g == Append(h, e) IN
           /\ e.point = p /\ e.from # None =>
                Displaced(g, p) # {} /\ Latest(g, Displaced(g, p)) = e
           /\ ~(e.point = p /\ e.from # None) =>
                /\ Displaced(g, p) = Displaced(h, p)
                /\ Displaced(h, p) # {} => Latest(g, Displaced(g, p)) = Latest(h, Displaced(h, p))
<1> DEFINE g == Append(h, e)
           n == Len(h)
           D == Displaced(h, p)
           E == Displaced(g, p)
<1>1. /\ n \in Nat /\ DOMAIN h = 1 .. n /\ DOMAIN g = 1 .. n + 1
      /\ g[n + 1] = e /\ \A i \in 1 .. n : g[i] = h[i]
  BY EntryAdded
<1> HIDE DEF g, n
<1>2. D \in SUBSET (1 .. n) /\ E \in SUBSET (1 .. n + 1) /\ n + 1 \in Nat
  BY <1>1 DEF Displaced
<1>3. ASSUME e.point = p, e.from # None PROVE E # {} /\ Latest(g, E) = e
  <2>1. n + 1 \in E
    BY <1>1, <1>3 DEF Displaced
  <2> HIDE DEF E
  <2> QED
    BY <1>1, <1>2, <2>1, LatestNew
<1>4. ASSUME ~(e.point = p /\ e.from # None) PROVE E = D /\ (D # {} => Latest(g, E) = Latest(h, D))
  <2>1. E = D
    BY <1>1, <1>4 DEF Displaced
  <2> HIDE DEF D, E
  <2>2. D # {} => Latest(g, D) = Latest(h, D)
    BY <1>1, <1>2, LatestKept
  <2> QED
    BY <2>1, <2>2
<1> QED
  BY <1>3, <1>4 DEF g

(* What an id names.                                                         *)
LEMMA IdPoint == ASSUME NEW id \in Ids PROVE id.point \in Points /\ id # None /\ id # Unknown
  BY FitsAssumption, MarkAssumption DEF Ids, version_id

(* A rollback's target is on record and of the point that is rolled back.    *)
LEMMA Target ==
    ASSUME RegistryInv, NEW p \in Points, Displaced(history, p) # {}
    PROVE  LET id == Latest(history, Displaced(history, p)).from
           IN  id \in Ids /\ Known(id) /\ id.point = p
<1> DEFINE D == Displaced(history, p)
<1>1. history \in Seq(Entries) /\ DOMAIN history = 1 .. Len(history) /\ Len(history) \in Nat
  BY DEF RegistryInv, RegistryTypeOK
<1>2. D \in SUBSET (1 .. Len(history))
  BY <1>1 DEF Displaced
<1>3. PICK i \in D : Latest(history, D) = history[i]
  <2> HIDE DEF D
  <2> QED
    BY <1>1, <1>2, LatestIs DEF D
<1>4. history[i].point = p /\ history[i].from # None /\ i \in DOMAIN history
  BY DEF Displaced
<1>5. history[i].from \in Ids
  <2>1. history[i] \in Entries
    BY <1>1, <1>4
  <2> QED
    BY <1>4, <2>1 DEF Entries
<1> QED
  BY <1>3, <1>4, <1>5 DEF RegistryInv, EntriesKnown

(* What serves is on record.                                                 *)
LEMMA Serves ==
    ASSUME RegistryInv, NEW p \in Points, pins[p] # None
    PROVE  Known(pins[p]) /\ pins[p].point = p
<1> DEFINE n == Len(history)
           S == {i \in 1 .. n : history[i].point = p}
<1>1. n \in Nat /\ DOMAIN history = 1 .. n
  BY DEF RegistryInv, RegistryTypeOK
<1>2. pins[p] = ServedAfter(history, p, n)
  BY DEF RegistryInv, StampsReconstruct
<1>3. S # {} /\ Latest(history, S).to = pins[p]
  BY <1>2 DEF ServedAfter
<1>4. PICK i \in S : Latest(history, S) = history[i]
  <2>1. S \in SUBSET (1 .. n)
    OBVIOUS
  <2> HIDE DEF S
  <2> QED
    BY <1>1, <1>3, <2>1, LatestIs
<1> QED
  BY <1>1, <1>3, <1>4 DEF RegistryInv, EntriesKnown

(* A promotion, or a rollback, enters the history and pins what it says.     *)
LEMMA EntryStep ==
    ASSUME RegistryInv, NEW e \in Entries,
           \/ e.to \in Ids /\ Known(e.to) /\ e.to.point = e.point /\ e.from = pins[e.point]
           \/ e.to = None /\ e.from = None /\ Displaced(history, e.point) = {},
           history' = Append(history, e), pins' = [pins EXCEPT ![e.point] = e.to],
           \/ before' = [before EXCEPT ![e.point] = Unknown]
           \/ before' = [before EXCEPT ![e.point] = e.from] /\ e.from = pins[e.point],
           UNCHANGED <<versions, stamps>>
    PROVE  RegistryInv'
<1> DEFINE n == Len(history)
<1>1. /\ pins \in [Points -> Ids \cup {None}] /\ before \in [Points -> Ids \cup {None, Unknown}]
      /\ history \in Seq(Entries) /\ e.point \in Points /\ e.from \in Ids \cup {None}
  BY DEF RegistryInv, RegistryTypeOK, Entries
<1>2. /\ n \in Nat /\ Len(history') = n + 1 /\ DOMAIN history = 1 .. n
      /\ DOMAIN history' = 1 .. n + 1 /\ history' \in Seq(Entries) /\ history'[n + 1] = e
      /\ \A i \in 1 .. n : history'[i] = history[i]
  BY <1>1, EntryAdded
<1>3. \A id : Known(id) <=> Known(id)'
  BY DEF Known
<1>4. \A p \in Points : pins[p] # None => Known(pins[p]) /\ pins[p].point = p
  BY Serves
<1>5. RegistryTypeOK'
  <2>1. pins' \in [Points -> Ids \cup {None}]
    BY <1>1
  <2>2. before' \in [Points -> Ids \cup {None, Unknown}]
    BY <1>1
  <2> QED
    BY <1>2, <2>1, <2>2 DEF RegistryInv, RegistryTypeOK
<1>6. EntriesKnown'
  <2> SUFFICES ASSUME NEW i \in DOMAIN history', NEW id \in {history'[i].from, history'[i].to} \ {None}
               PROVE  Known(id)' /\ id.point = history'[i].point
    BY DEF EntriesKnown
  <2>1. CASE i \in 1 .. n
    BY <1>2, <1>3, <2>1 DEF RegistryInv, EntriesKnown
  <2>2. CASE i = n + 1
    BY <1>1, <1>2, <1>3, <1>4, <2>2
  <2> QED
    BY <1>2, <2>1, <2>2
<1>7. \A p \in Points : pins'[p] = ServedAfter(history', p, Len(history'))
  BY <1>1, ServedNow DEF RegistryInv, StampsReconstruct
<1>8. \A i \in DOMAIN stamps : stamps[i].after \in 0 .. n
  <2>1. stamps \in Seq(StampRecords)
    BY DEF RegistryInv, RegistryTypeOK
  <2>2. \A i \in DOMAIN stamps : stamps[i] \in StampRecords
    BY <2>1
  <2>3. \A i \in DOMAIN stamps : stamps[i].after \in Nat /\ stamps[i].after <= n
    BY <2>2 DEF RegistryInv, StampRecords
  <2> QED
    BY <1>2, <2>3
<1>9. \A i \in DOMAIN stamps, p \in Points :
        ServedAfter(history', p, stamps[i].after) = ServedAfter(history, p, stamps[i].after)
  BY <1>1, <1>8, ServedBefore
<1>10. StampsReconstruct'
  BY <1>3, <1>7, <1>9 DEF RegistryInv, StampsReconstruct
<1>11. \A i \in DOMAIN stamps' : stamps'[i].after <= Len(history')
  BY <1>2, <1>8
<1>12. DisplacedKept'
  <2> SUFFICES ASSUME NEW p \in Points
               PROVE  /\ pins'[p] = None => Displaced(history', p) = {}
                      /\ before'[p] = None => Displaced(history', p) = {}
                      /\ before'[p] \in Ids =>
                            /\ Displaced(history', p) # {}
                            /\ Latest(history', Displaced(history', p)).from = before'[p]
    BY DEF DisplacedKept
  <2>1. /\ pins[p] = None => Displaced(history, p) = {}
        /\ before[p] = None => Displaced(history, p) = {}
        /\ before[p] \in Ids => /\ Displaced(history, p) # {}
                                /\ Latest(history, Displaced(history, p)).from = before[p]
    BY DEF RegistryInv, DisplacedKept
  <2>2. /\ e.point = p /\ e.from # None =>
             /\ Displaced(history', p) # {}
             /\ Latest(history', Displaced(history', p)) = e
        /\ ~(e.point = p /\ e.from # None) =>
             /\ Displaced(history', p) = Displaced(history, p)
             /\ Displaced(history, p) # {} =>
                  Latest(history', Displaced(history', p)) = Latest(history, Displaced(history, p))
    BY <1>1, DisplacedAfter
  <2>5. pins'[p] = IF p = e.point THEN e.to ELSE pins[p]
    BY <1>1
  <2>6. p = e.point => before'[p] = Unknown \/ (before'[p] = e.from /\ e.from = pins[p])
    BY <1>1
  <2>3. CASE p # e.point
    <3>1. pins'[p] = pins[p]
      BY <2>5, <2>3
    <3>2. before'[p] = before[p]
      BY <2>3, <1>1
    <3> QED
      BY <2>1, <2>2, <2>3, <3>1, <3>2
  <2>4. CASE p = e.point
    <3>1. pins'[p] = e.to /\ (before'[p] = Unknown \/ (before'[p] = e.from /\ e.from = pins[p]))
      BY <2>4, <2>5, <2>6
    <3>2. e.to = None => Displaced(history', p) = {}
      BY <2>2, <2>4, IdPoint
    <3>3. Unknown # None /\ Unknown \notin Ids /\ None \notin Ids
      BY MarkAssumption
    <3> QED
      BY <2>1, <2>2, <2>4, <3>1, <3>2, <3>3
  <2> QED
    BY <2>3, <2>4
<1> QED
  BY <1>5, <1>6, <1>10, <1>11, <1>12 DEF RegistryInv

LEMMA RegistryInitially == RegistryInit => RegistryInv
<1> SUFFICES ASSUME RegistryInit PROVE RegistryInv
  OBVIOUS
<1> USE DEF RegistryInit
<1>1. RegistryTypeOK
  BY DEF RegistryTypeOK
<1>2. EntriesKnown /\ \A i \in DOMAIN stamps : stamps[i].after <= Len(history)
  BY DEF EntriesKnown
<1>3. DisplacedKept
  BY MarkAssumption DEF DisplacedKept, Displaced
<1>4. StampsReconstruct
  BY DEF StampsReconstruct, ServedAfter
<1> QED
  BY <1>1, <1>2, <1>3, <1>4 DEF RegistryInv

LEMMA RegistryStep == RegistryInv /\ [RegistryNext]_rvars => RegistryInv'
<1> SUFFICES ASSUME RegistryInv, [RegistryNext]_rvars PROVE RegistryInv'
  OBVIOUS
<1>0. /\ pins \in [Points -> Ids \cup {None}] /\ versions \subseteq Fits
      /\ history \in Seq(Entries)
  BY DEF RegistryInv, RegistryTypeOK
<1>1. ASSUME NEW v \in Fits, register(v) PROVE RegistryInv'
  <2>1. versions' = {w \in versions : version_id(w) # version_id(v)} \cup {v}
    BY <1>1 DEF register
  <2>2. \A id : Known(id) => Known(id)'
    BY <2>1 DEF Known
  <2>3. UNCHANGED <<pins, history, stamps, before>>
    BY <1>1 DEF register
  <2>4. RegistryTypeOK'
    BY <1>0, <2>1, <2>3 DEF RegistryInv, RegistryTypeOK
  <2>5. EntriesKnown'
    BY <2>2, <2>3 DEF RegistryInv, EntriesKnown
  <2>6. DisplacedKept'
    BY <2>3 DEF RegistryInv, DisplacedKept
  <2>7. StampsReconstruct'
    BY <2>2, <2>3 DEF RegistryInv, StampsReconstruct
  <2> QED
    BY <2>3, <2>4, <2>5, <2>6, <2>7 DEF RegistryInv
<1>2. ASSUME NEW id \in Ids, promote(id) PROVE RegistryInv'
  <2> DEFINE e == [point |-> id.point, from |-> pins[id.point], to |-> id]
  <2>1. e \in Entries /\ e.point = id.point /\ e.from = pins[id.point] /\ e.to = id
    BY <1>0, IdPoint DEF Entries
  <2>2. /\ history' = Append(history, e) /\ pins' = [pins EXCEPT ![id.point] = id] /\ Known(id)
        /\ before' = [before EXCEPT ![id.point] = pins[id.point]]
        /\ UNCHANGED <<versions, stamps>>
    BY <1>2 DEF promote, Pinned
  <2> HIDE DEF e
  <2> QED
    BY <2>1, <2>2, EntryStep
<1>3. ASSUME NEW p \in Points, rollback(p) PROVE RegistryInv'
  <2>1. CASE Displaced(history, p) = {}
    <3> DEFINE e == [point |-> p, from |-> None, to |-> None]
    <3>1. e \in Entries /\ e.point = p /\ e.from = None /\ e.to = None
      BY DEF Entries
    <3>2. /\ history' = Append(history, e) /\ pins' = [pins EXCEPT ![p] = None]
          /\ before' = [before EXCEPT ![p] = Unknown]
          /\ UNCHANGED <<versions, stamps>>
      BY <1>3, <2>1 DEF rollback
    <3> HIDE DEF e
    <3> QED
      BY <2>1, <3>1, <3>2, EntryStep
  <2>2. CASE Displaced(history, p) # {}
    <3> DEFINE id == Latest(history, Displaced(history, p)).from
               e == [point |-> id.point, from |-> pins[id.point], to |-> id]
    <3>1. id \in Ids /\ Known(id) /\ id.point = p
      BY <2>2, Target
    <3>2. /\ Pinned(id) /\ before' = [before EXCEPT ![p] = Unknown]
          /\ UNCHANGED <<versions, stamps>>
      BY <1>3, <2>2 DEF rollback
    <3> HIDE DEF id
    <3>3. e \in Entries /\ e.point = p /\ e.from = pins[p] /\ e.to = id
      BY <1>0, <3>1 DEF Entries
    <3>4. history' = Append(history, e) /\ pins' = [pins EXCEPT ![p] = id]
      BY <3>1, <3>2 DEF Pinned
    <3> HIDE DEF e
    <3> QED
      BY <3>1, <3>2, <3>3, <3>4, EntryStep
  <2> QED
    BY <2>1, <2>2
<1>4. CASE TakeStamp
  <2> DEFINE s == [says |-> stamp_all, after |-> Len(history)]
  <2>1. stamps' = Append(stamps, s) /\ UNCHANGED <<versions, pins, history, before>>
    BY <1>4 DEF TakeStamp
  <2>2. stamps \in Seq(StampRecords)
    BY DEF RegistryInv, RegistryTypeOK
  <2>3. stamp_all \in [Points -> Ids \cup {Heuristic}] /\ Len(history) \in Nat
    BY <1>0 DEF stamp_all, serving
  <2>4. s \in StampRecords
    BY <2>3 DEF StampRecords
  <2>5. /\ s.after = Len(history)
        /\ \A p \in Points : s.says[p] = IF pins[p] = None THEN Heuristic ELSE pins[p]
    BY DEF stamp_all, serving
  <2> HIDE DEF s
  <2>6. stamps' \in Seq(StampRecords)
    BY <2>1, <2>2, <2>4
  <2>7. RegistryTypeOK'
    BY <2>1, <2>6 DEF RegistryInv, RegistryTypeOK
  <2>8. EntriesKnown' /\ DisplacedKept'
    BY <2>1 DEF RegistryInv, EntriesKnown, DisplacedKept, Known
  <2>9. \A i \in DOMAIN stamps' : (i \in DOMAIN stamps /\ stamps'[i] = stamps[i]) \/ stamps'[i] = s
    BY <2>1, <2>2
  <2>10. \A p \in Points : pins[p] = ServedAfter(history, p, Len(history))
    BY DEF RegistryInv, StampsReconstruct
  <2>11. \A p \in Points : pins[p] # None => Known(pins[p]) /\ pins[p].point = p
    BY <2>10, Serves
  <2>12. \A i \in DOMAIN stamps' : stamps'[i].after <= Len(history')
    BY <2>1, <2>3, <2>5, <2>9 DEF RegistryInv
  <2>13. \A id : Known(id)' <=> Known(id)
    BY <2>1 DEF Known
  <2>14. StampsReconstruct'
    <3> SUFFICES ASSUME NEW i \in DOMAIN stamps', NEW p \in Points
                 PROVE  LET served == ServedAfter(history, p, stamps'[i].after)
                        IN  /\ stamps'[i].says[p] = (IF served = None THEN Heuristic ELSE served)
                            /\ served # None => Known(served) /\ served.point = p
      BY <2>1, <2>10, <2>13 DEF StampsReconstruct
    <3>1. CASE stamps'[i] = s
      BY <2>5, <2>10, <2>11, <3>1
    <3>2. CASE i \in DOMAIN stamps /\ stamps'[i] = stamps[i]
      BY <3>2 DEF RegistryInv, StampsReconstruct
    <3> QED
      BY <2>9, <3>1, <3>2
  <2> QED
    BY <2>7, <2>8, <2>12, <2>14 DEF RegistryInv
<1>5. CASE UNCHANGED rvars
  BY <1>5 DEF rvars, RegistryInv, RegistryTypeOK, EntriesKnown, DisplacedKept, StampsReconstruct, Known
<1> QED
  BY <1>1, <1>2, <1>3, <1>4, <1>5 DEF RegistryNext

(* The history of pins knows, in every reachable state, what serves, what    *)
(* each stamp said and what the last promotion of each point displaced.      *)
THEOREM RegistryInvariance == RegistrySpec => []RegistryInv
  BY RegistryInitially, RegistryStep, PTL DEF RegistrySpec

(* Every decision can be reconstructed: whatever is registered again,        *)
(* promoted and rolled back afterwards, the history alone tells what each    *)
(* stamp of stamp_all named, and that version is still on record.            *)
THEOREM DecisionsReconstruct == RegistrySpec => []StampsReconstruct
<1>1. RegistryInv => StampsReconstruct
  BY DEF RegistryInv
<1> QED
  BY <1>1, RegistryInvariance, PTL

(* Rolling back right after a promotion restores what that promotion         *)
(* displaced, a model or nothing, at that point and in however long a        *)
(* history of promotions and rollbacks of all points.                        *)
THEOREM RollbackRestores == RegistrySpec => RollbackUndoes
<1>1. RegistryInv /\ [RegistryNext]_rvars =>
        [\A p \in Points : rollback(p) /\ before[p] # Unknown => pins'[p] = before[p]]_rvars
  <2> SUFFICES ASSUME RegistryInv, NEW p \in Points, rollback(p), before[p] # Unknown
               PROVE  pins'[p] = before[p]
    OBVIOUS
  <2>1. /\ pins \in [Points -> Ids \cup {None}]
        /\ before[p] \in Ids \cup {None}
    BY DEF RegistryInv, RegistryTypeOK
  <2>2. CASE before[p] = None
    <3>1. Displaced(history, p) = {}
      BY <2>2 DEF RegistryInv, DisplacedKept
    <3> QED
      BY <2>1, <2>2, <3>1 DEF rollback
  <2>3. CASE before[p] # None
    <3>1. Displaced(history, p) # {} /\ Latest(history, Displaced(history, p)).from = before[p]
      BY <2>1, <2>3 DEF RegistryInv, DisplacedKept
    <3>2. before[p].point = p
      BY <3>1, Target
    <3>3. Pinned(before[p])
      BY <3>1 DEF rollback
    <3> QED
      BY <2>1, <3>2, <3>3 DEF Pinned
  <2> QED
    BY <2>2, <2>3
<1> QED
  BY <1>1, RegistryInvariance, PTL DEF RegistrySpec, RollbackUndoes

-----------------------------------------------------------------------------
(* The experiments.  A share is kept as a whole number of buckets, and the   *)
(* propensity of an arm is the share of all buckets that fall into it.       *)
StoredShares == {Stored(share) : share \in Shares}

(* A stored share is a whole number of buckets.                              *)
LEMMA WholeBuckets ==
    ASSUME NEW share \in StoredShares
    PROVE  \E k \in 0 .. Buckets : share = 2 * k
<1>1. PICK asked \in Shares : share = 2 * ((asked + 1) \div 2)
  BY DEF StoredShares, Stored
<1>2. Buckets \in Nat /\ asked \in 1 .. 2 * Buckets - 1
  BY BucketsAssumption
<1>3. (asked + 1) \div 2 \in 0 .. Buckets
  BY <1>2
<1> QED
  BY <1>1, <1>3

(* The propensity of an arm is the share of the buckets that fall into it.   *)
LEMMA PropensityCounts ==
    ASSUME NEW share \in StoredShares, NEW a \in {CONTROL, TREATMENT}
    PROVE  propensity(a, share) = 2 * Cardinality({b \in 0 .. Buckets - 1 : InArm(b, share) = a})
<1>1. PICK k \in 0 .. Buckets : share = 2 * k
  BY WholeBuckets
<1>2. Buckets \in Nat /\ k \in Nat /\ k <= Buckets
  BY BucketsAssumption
<1>3. \A b \in 0 .. Buckets - 1 : InArm(b, share) = IF b < k THEN CONTROL ELSE TREATMENT
  BY <1>1, <1>2 DEF InArm
<1>4. CASE a = CONTROL
  <2>1. {b \in 0 .. Buckets - 1 : InArm(b, share) = a} = 0 .. k - 1
    BY <1>2, <1>3, <1>4 DEF CONTROL, TREATMENT
  <2>2. Cardinality(0 .. k - 1) = k
    BY <1>2, FS_Interval
  <2> QED
    BY <1>1, <1>2, <1>4, <2>1, <2>2 DEF propensity
<1>5. CASE a = TREATMENT
  <2>1. {b \in 0 .. Buckets - 1 : InArm(b, share) = a} = k .. Buckets - 1
    BY <1>2, <1>3, <1>5 DEF CONTROL, TREATMENT
  <2>2. Cardinality(k .. Buckets - 1) = Buckets - k
    <3>1. k \in Int /\ Buckets - 1 \in Int
      BY <1>2
    <3>2. Cardinality(k .. Buckets - 1) = IF k > Buckets - 1 THEN 0 ELSE (Buckets - 1) - k + 1
      BY <3>1, FS_Interval
    <3> QED
      BY <1>2, <3>2
  <2>3. propensity(a, share) = 2 * Buckets - share
    BY <1>5 DEF propensity, CONTROL, TREATMENT
  <2>4. 2 * Buckets - share = 2 * (Buckets - k)
    BY <1>1, <1>2
  <2> QED
    BY <2>1, <2>2, <2>3, <2>4, Zenon
<1> QED
  BY <1>4, <1>5

(* The experiment that governs a tenant is one of those it sees, its own if  *)
(* it has one that is frozen.                                                *)
LEMMA Governs ==
    ASSUME ExperimentTypeOK, NEW t, active_experiment(t) # NoExperiment
    PROVE  LET id == active_experiment(t) IN
           /\ id \in ExperimentIds /\ IsFrozen(id)
           /\ (\E own \in DOMAIN rows : IsFrozen(own) /\ rows[own].owner = t) => rows[id].owner = t
<1> DEFINE own == {id \in Governing(t) : rows[id].owner = t}
           first == IF own = {} THEN Governing(t) ELSE own
           ats == {rows[id].at : id \in first}
<1>1. active_experiment(t) = IF first = {} THEN NoExperiment
                             ELSE CHOOSE id \in first : \A other \in first : rows[other].at <= rows[id].at
  BY DEF active_experiment
<1>2. first \subseteq Governing(t) /\ Governing(t) \subseteq DOMAIN rows
  BY DEF Governing
<1>3. first # {}
  BY <1>1
<1>4. \A id \in DOMAIN rows : rows[id].at \in 0 .. now
  BY DEF ExperimentTypeOK, RowRecords
<1>5. own # {} => first = own
  OBVIOUS
<1> HIDE DEF first
<1>6. ats \in SUBSET (0 .. now) /\ ats # {} /\ now \in Nat
  BY <1>2, <1>3, <1>4 DEF ExperimentTypeOK
<1>7. PICK i \in ats : \A j \in ats : j <= i
  BY <1>6, GreatestExists
<1>8. \E id \in first : \A other \in first : rows[other].at <= rows[id].at
  BY <1>7
<1>9. active_experiment(t) \in first
  BY <1>1, <1>3, <1>8
<1>10. active_experiment(t) \in DOMAIN rows /\ IsFrozen(active_experiment(t))
  BY <1>2, <1>9 DEF Governing, IsFrozen
<1>11. ASSUME NEW x \in DOMAIN rows, IsFrozen(x), rows[x].owner = t
       PROVE  rows[active_experiment(t)].owner = t
  <2>1. x \in own
    BY <1>11 DEF Governing, IsFrozen
  <2> QED
    BY <1>5, <1>9, <2>1
<1> QED
  BY <1>10, <1>11 DEF ExperimentTypeOK

-----------------------------------------------------------------------------
(* How a freeze changes the rows.                                            *)
LEMMA Upsert ==
    ASSUME ExperimentTypeOK, NEW o \in Operators, freeze_write(o)
    PROVE  LET q == checked[o] IN
           /\ q \in Requests
           /\ DOMAIN rows' = DOMAIN rows \cup {q.id}
           /\ rows' \in [DOMAIN rows' -> RowRecords]
           /\ \A id \in DOMAIN rows : id # q.id => rows'[id] = rows[id]
           /\ \A id \in DOMAIN rows : rows'[id].owner = rows[id].owner
           /\ rows'[q.id].frozen /\ rows'[q.id].at = now + 1
<1> DEFINE q == checked[o]
           kept == IF q.id \in DOMAIN rows THEN rows[q.id].owner ELSE q.owner
<1>1. q \in Requests
  BY DEF freeze_write, ExperimentTypeOK
<1>2. rows' = [id \in DOMAIN rows \cup {q.id} |->
                 IF id = q.id
                 THEN Row(q, IF id \in DOMAIN rows THEN rows[id].owner ELSE q.owner, now + 1, TRUE)
                 ELSE rows[id]]
  BY DEF freeze_write
<1>3. kept \in Owners
  BY <1>1 DEF ExperimentTypeOK, RowRecords, Requests
<1>4. q.seed \in Seeds /\ Stored(q.share) \in {Stored(share) : share \in Shares} /\ now + 1 \in Nat
  BY <1>1 DEF Requests, ExperimentTypeOK
<1> HIDE DEF q
<1>5. DOMAIN rows' = DOMAIN rows \cup {q.id}
  BY <1>2
<1>6. rows'[q.id] = Row(q, kept, now + 1, TRUE)
  BY <1>2
<1>7. /\ Row(q, kept, now + 1, TRUE) \in RowRecords
      /\ Row(q, kept, now + 1, TRUE).owner = kept
      /\ Row(q, kept, now + 1, TRUE).frozen /\ Row(q, kept, now + 1, TRUE).at = now + 1
  BY <1>3, <1>4 DEF Row, RowRecords
<1>8. \A id \in DOMAIN rows : id # q.id => rows'[id] = rows[id]
  BY <1>2
<1>9. rows' = [id \in DOMAIN rows' |-> rows'[id]]
  BY <1>2
<1>10. \A id \in DOMAIN rows' : rows'[id] \in RowRecords
  BY <1>5, <1>6, <1>7, <1>8 DEF ExperimentTypeOK
<1>11. rows' \in [DOMAIN rows' -> RowRecords]
  BY <1>9, <1>10, Zenon
<1>12. \A id \in DOMAIN rows : rows'[id].owner = rows[id].owner
  BY <1>6, <1>7, <1>8
<1> QED
  BY <1>1, <1>5, <1>6, <1>7, <1>8, <1>11, <1>12 DEF q

(* How a decision extends the records.                                       *)
LEMMA Appended ==
    ASSUME NEW T, NEW d \in Seq(T), NEW r \in T
    PROVE  /\ Len(d) \in Nat /\ DOMAIN d = 1 .. Len(d)
           /\ Len(Append(d, r)) = Len(d) + 1 /\ DOMAIN Append(d, r) = 1 .. Len(d) + 1
           /\ Append(d, r)[Len(d) + 1] = r
           /\ \A i \in 1 .. Len(d) : Append(d, r)[i] = d[i]
           /\ Append(d, r) \in Seq(T)
  OBVIOUS

(* A sequence is the function of its elements.                               *)
LEMMA SeqIs == ASSUME NEW T, NEW d \in Seq(T) PROVE d = [i \in 1 .. Len(d) |-> d[i]]
  OBVIOUS

(* A decision appends its record and leaves those before it alone.           *)
LEMMA RecordAdded ==
    ASSUME ExperimentTypeOK, NEW t, NEW c, Decide(t, c)
    PROVE  LET r == Recorded(t, c, active_experiment(t)) IN
           /\ Len(decisions) \in Nat
           /\ DOMAIN decisions = 1 .. Len(decisions)
           /\ DOMAIN decisions' = 1 .. Len(decisions) + 1
           /\ decisions'[Len(decisions) + 1] = r
           /\ \A i \in 1 .. Len(decisions) : decisions'[i] = decisions[i]
           /\ (decisions = [i \in 1 .. Len(decisions) |-> decisions[i]] /\ Len(decisions) \in Nat)'
           /\ UNCHANGED <<rows, checked, now, contested>>
           /\ r.tenant = t /\ r.customer = c /\ r.experiment = active_experiment(t)
           /\ active_experiment(t) # NoExperiment =>
                LET e == rows[active_experiment(t)] IN
                r.owner = e.owner /\ r.share = e.share /\ r.arm = arm(c, e.seed, e.share)
                  /\ r.propensity = propensity(r.arm, e.share)
<1> DEFINE r == Recorded(t, c, active_experiment(t))
<1>1. decisions' = Append(decisions, r) /\ UNCHANGED <<rows, checked, now, contested>>
  BY DEF Decide
<1>2. decisions = [i \in 1 .. Len(decisions) |-> decisions[i]] /\ Len(decisions) \in Nat
  BY DEF ExperimentTypeOK
<1>3. r.tenant = t /\ r.customer = c /\ r.experiment = active_experiment(t)
  BY DEF Recorded
<1>4. active_experiment(t) # NoExperiment =>
                LET e == rows[active_experiment(t)] IN
                r.owner = e.owner /\ r.share = e.share /\ r.arm = arm(c, e.seed, e.share)
                  /\ r.propensity = propensity(r.arm, e.share)
  BY DEF Recorded
<1> HIDE DEF r
<1> DEFINE T == {decisions[i] : i \in DOMAIN decisions} \cup {r}
<1>5. decisions \in Seq(T) /\ r \in T
  BY <1>2
<1> HIDE DEF T
<1>6. /\ Len(decisions') = Len(decisions) + 1 /\ DOMAIN decisions' = 1 .. Len(decisions) + 1
      /\ DOMAIN decisions = 1 .. Len(decisions)
      /\ decisions'[Len(decisions) + 1] = r
      /\ \A i \in 1 .. Len(decisions) : decisions'[i] = decisions[i]
      /\ decisions' \in Seq(T)
  BY <1>1, <1>5, Appended
<1>7. (decisions = [i \in 1 .. Len(decisions) |-> decisions[i]] /\ Len(decisions) \in Nat)'
  BY <1>2, <1>6, SeqIs
<1> QED
  BY <1>1, <1>2, <1>3, <1>4, <1>6, <1>7 DEF r

LEMMA RecordInitially == ExperimentInit => ExperimentInv
<1> SUFFICES ASSUME ExperimentInit PROVE ExperimentInv
  OBVIOUS
<1>1. /\ checked = [o \in Operators |-> NoOne] /\ now = 0 /\ decisions = <<>>
      /\ Governed = {}
  BY DEF ExperimentInit, Governed
<1>2. CASE rows = [id \in {} |-> NoOne]
  BY <1>1, <1>2 DEF ExperimentInv, RecordInv, ExperimentTypeOK, RecordOwned, RecordWeighed, OwnOverrides,
                    Overlaps, CheckStands, RecordStands
<1>3. ASSUME NEW q \in Requests, rows = [id \in {q.id} |-> Row(q, q.owner, 0, FALSE)]
      PROVE  ExperimentInv
  <2>1. Row(q, q.owner, 0, FALSE) \in RowRecords /\ Row(q, q.owner, 0, FALSE).at = 0
    BY DEF Row, RowRecords, Requests
  <2>2. q.id \in ExperimentIds
    BY DEF Requests
  <2>4. /\ DOMAIN rows = {q.id} /\ rows[q.id] = Row(q, q.owner, 0, FALSE)
    BY <1>3
  <2>8. rows = [id \in DOMAIN rows |-> rows[id]]
    <3>1. \A v : LET f == [id \in {q.id} |-> v] IN f = [id \in DOMAIN f |-> f[id]]
      OBVIOUS
    <3> QED
      BY <1>3, <3>1
  <2>5. \A id \in DOMAIN rows : rows[id] \in RowRecords /\ rows[id].at <= now
    <3>1. \A id \in DOMAIN rows : rows[id] = Row(q, q.owner, 0, FALSE)
      BY <2>4
    <3>2. 0 <= now
      BY <1>1
    <3> QED
      BY <2>1, <3>1, <3>2, Zenon
  <2>6. rows \in [DOMAIN rows -> RowRecords]
    BY <2>5, <2>8, Zenon
  <2>7. /\ checked \in [Operators -> Requests \cup {NoOne}]
        /\ decisions = [i \in 1 .. Len(decisions) |-> decisions[i]] /\ Len(decisions) \in Nat
    BY <1>1
  <2>3. ExperimentTypeOK
    BY <1>1, <2>2, <2>4, <2>5, <2>6, <2>7 DEF ExperimentTypeOK
  <2> QED
    BY <1>1, <2>3 DEF ExperimentInv, RecordInv, RecordOwned, RecordWeighed, OwnOverrides,
                      Overlaps, CheckStands, RecordStands
<1> QED
  BY <1>2, <1>3 DEF ExperimentInit

LEMMA RecordStep == RecordInv /\ [ExperimentNext]_evars => RecordInv'
<1> SUFFICES ASSUME RecordInv, [ExperimentNext]_evars PROVE RecordInv'
  OBVIOUS
<1>0. ExperimentTypeOK
  BY DEF RecordInv
<1>1. ASSUME UNCHANGED <<rows, now, decisions>>, checked' \in [Operators -> Requests \cup {NoOne}]
      PROVE  RecordInv'
  BY <1>1 DEF RecordInv, ExperimentTypeOK, RecordOwned, RecordWeighed, OwnOverrides, Governed, IsFrozen
<1>2. ASSUME NEW o \in Operators, NEW q \in Requests, freeze_check(o, q) PROVE RecordInv'
  BY <1>0, <1>1, <1>2 DEF freeze_check, ExperimentTypeOK
<1>3. ASSUME NEW o \in Operators, freeze_write(o) PROVE RecordInv'
  <2> DEFINE id == checked[o].id
  <2>1. /\ checked[o] \in Requests
        /\ DOMAIN rows' = DOMAIN rows \cup {id}
        /\ rows' \in [DOMAIN rows' -> RowRecords]
        /\ \A x \in DOMAIN rows : x # id => rows'[x] = rows[x]
        /\ \A x \in DOMAIN rows : rows'[x].owner = rows[x].owner
        /\ rows'[id].frozen /\ rows'[id].at = now + 1
    BY <1>0, <1>3, Upsert
  <2>2. now' = now + 1 /\ decisions' = decisions /\ checked' = [checked EXCEPT ![o] = NoOne]
    BY <1>3 DEF freeze_write
  <2>3. \A x \in DOMAIN rows' : rows'[x].at <= now'
    <3>1. \A x \in DOMAIN rows : rows[x].at \in Nat /\ rows[x].at <= now
      BY <1>0 DEF ExperimentTypeOK, RowRecords
    <3>2. now \in Nat
      BY <1>0 DEF ExperimentTypeOK
    <3> QED
      BY <2>1, <2>2, <3>1, <3>2
  <2>4. ExperimentTypeOK'
    <3>1. id \in ExperimentIds
      BY <2>1 DEF Requests
    <3>2. checked' \in [Operators -> Requests \cup {NoOne}] /\ now' \in Nat
      BY <1>0, <2>2 DEF ExperimentTypeOK
    <3> QED
      BY <1>0, <2>1, <2>2, <2>3, <3>1, <3>2 DEF ExperimentTypeOK
  <2>5. \A x : IsFrozen(x) => IsFrozen(x)' /\ rows'[x].owner = rows[x].owner
    <3>1. \A x \in DOMAIN rows : rows[x].frozen => rows'[x].frozen
      BY <2>1
    <3> QED
      BY <2>1, <3>1 DEF IsFrozen
  <2>6. RecordOwned' /\ RecordWeighed' /\ OwnOverrides'
    BY <2>2, <2>5 DEF RecordInv, RecordOwned, RecordWeighed, OwnOverrides, Governed
  <2> QED
    BY <2>4, <2>6 DEF RecordInv
<1>4. ASSUME NEW t \in Tenants, NEW c \in Subjects, Decide(t, c) PROVE RecordInv'
  <2> DEFINE id == active_experiment(t)
             r == Recorded(t, c, id)
             n == Len(decisions)
  <2>1. /\ n \in Nat /\ DOMAIN decisions = 1 .. n /\ DOMAIN decisions' = 1 .. n + 1
        /\ decisions'[n + 1] = r /\ \A i \in 1 .. n : decisions'[i] = decisions[i]
        /\ (decisions = [i \in 1 .. Len(decisions) |-> decisions[i]] /\ Len(decisions) \in Nat)'
        /\ UNCHANGED <<rows, checked, now, contested>>
        /\ r.tenant = t /\ r.experiment = id
        /\ id # NoExperiment =>
             LET e == rows[id] IN
             r.owner = e.owner /\ r.share = e.share /\ r.arm = arm(c, e.seed, e.share)
               /\ r.propensity = propensity(r.arm, e.share)
    BY <1>0, <1>4, RecordAdded
  <2>2. id # NoExperiment =>
          /\ id \in ExperimentIds /\ IsFrozen(id)
          /\ (\E own \in DOMAIN rows : IsFrozen(own) /\ rows[own].owner = t) => rows[id].owner = t
    BY <1>0, Governs
  <2> HIDE DEF r, id, n
  <2>3. ExperimentTypeOK'
    BY <1>0, <2>1 DEF ExperimentTypeOK
  <2>4. \A i \in Governed' : (i \in Governed /\ decisions'[i] = decisions[i])
                            \/ (i = n + 1 /\ decisions'[i] = r /\ id # NoExperiment)
    BY <2>1 DEF Governed
  <2>5. \A x : IsFrozen(x)' <=> IsFrozen(x)
    BY <2>1 DEF IsFrozen
  <2>6. RecordOwned'
    BY <2>1, <2>2, <2>4, <2>5 DEF RecordInv, RecordOwned
  <2>7. RecordWeighed'
    <3>1. id # NoExperiment => rows[id] \in RowRecords
      BY <1>0, <2>2 DEF IsFrozen, ExperimentTypeOK
    <3>2. id # NoExperiment => /\ r.share \in {Stored(share) : share \in Shares}
                               /\ r.arm \in {CONTROL, TREATMENT}
                               /\ r.propensity = propensity(r.arm, r.share)
      BY <2>1, <3>1 DEF RowRecords, arm, InArm
    <3> QED
      BY <2>4, <3>2 DEF RecordInv, RecordWeighed
  <2>8. OwnOverrides'
    <3> SUFFICES ASSUME NEW i \in Governed', NEW j \in Governed', i < j,
                        decisions'[i].tenant = decisions'[j].tenant,
                        decisions'[i].owner = decisions'[i].tenant
                 PROVE  decisions'[j].owner = decisions'[j].tenant
      BY DEF OwnOverrides
    <3>1. CASE j \in Governed /\ decisions'[j] = decisions[j]
      <4>1. j \in 1 .. n
        BY <2>1, <3>1 DEF Governed
      <4>2. i # n + 1
        BY <2>1, <4>1
      <4> QED
        BY <2>4, <3>1, <4>2 DEF RecordInv, OwnOverrides
    <3>2. CASE j = n + 1 /\ decisions'[j] = r /\ id # NoExperiment
      <4>1. i \in Governed /\ decisions'[i] = decisions[i]
        BY <2>4, <3>2, <2>1
      <4>2. IsFrozen(decisions[i].experiment) /\ rows[decisions[i].experiment].owner = t
        BY <2>1, <3>2, <4>1 DEF RecordInv, RecordOwned
      <4> QED
        BY <2>1, <2>2, <3>2, <4>2 DEF IsFrozen
    <3> QED
      BY <2>4, <3>1, <3>2
  <2> QED
    BY <2>3, <2>6, <2>7, <2>8 DEF RecordInv
<1>5. CASE UNCHANGED evars
  BY <1>0, <1>1, <1>5 DEF evars, ExperimentTypeOK
<1> QED
  BY <1>2, <1>3, <1>4, <1>5 DEF ExperimentNext

-----------------------------------------------------------------------------
(* A frozen row is written again only by a freeze that overlapped another of *)
(* the same id, so that otherwise an arm can always be computed again from   *)
(* the row that its record names.                                            *)
LEMMA StandStep == ExperimentInv /\ [ExperimentNext]_evars => Overlaps' /\ CheckStands' /\ RecordStands'
<1> SUFFICES ASSUME ExperimentInv, [ExperimentNext]_evars
             PROVE  Overlaps' /\ CheckStands' /\ RecordStands'
  OBVIOUS
<1>0. /\ ExperimentTypeOK /\ DOMAIN checked = Operators
      /\ RecordInv /\ Overlaps /\ CheckStands /\ RecordStands
  BY DEF ExperimentInv, RecordInv, ExperimentTypeOK
<1>1. ASSUME NEW o \in Operators, NEW q \in Requests, freeze_check(o, q)
      PROVE  Overlaps' /\ CheckStands' /\ RecordStands'
  <2>1. /\ checked' = [checked EXCEPT ![o] = q] /\ ~IsFrozen(q.id)
        /\ UNCHANGED <<rows, now, decisions>>
    BY <1>1 DEF freeze_check
  <2>2. /\ contested \subseteq contested'
        /\ \A p \in Operators : p # o /\ checked[p] # NoOne /\ checked[p].id = q.id => q.id \in contested'
    BY <1>1 DEF freeze_check, Contested
  <2>3. \A p \in Operators : checked'[p] = IF p = o THEN q ELSE checked[p]
    BY <1>0, <2>1
  <2>4. Overlaps'
    BY <1>0, <2>2, <2>3 DEF Overlaps
  <2>5. CheckStands'
    <3>1. \A id : IsFrozen(id)' <=> IsFrozen(id)
      BY <2>1 DEF IsFrozen
    <3> QED
      BY <1>0, <2>1, <2>2, <2>3, <3>1 DEF CheckStands
  <2>6. RecordStands'
    <3>1. Governed' = Governed /\ decisions' = decisions /\ rows' = rows
      BY <2>1 DEF Governed
    <3> QED
      BY <1>0, <2>2, <3>1 DEF RecordStands, Governed
  <2> QED
    BY <2>4, <2>5, <2>6
<1>2. ASSUME NEW o \in Operators, freeze_write(o) PROVE Overlaps' /\ CheckStands' /\ RecordStands'
  <2> DEFINE id == checked[o].id
  <2>1. \A x \in DOMAIN rows : x # id => rows'[x] = rows[x]
    BY <1>0, <1>2, Upsert
  <2>2. /\ checked[o] # NoOne /\ decisions' = decisions /\ contested' = contested
        /\ checked' = [checked EXCEPT ![o] = NoOne]
    BY <1>2 DEF freeze_write
  <2>3. \A p \in Operators : checked'[p] = IF p = o THEN NoOne ELSE checked[p]
    BY <1>0, <2>2
  <2>4. Overlaps'
    BY <1>0, <2>2, <2>3 DEF Overlaps
  <2>5. \A x : x # id /\ ~IsFrozen(x) => ~IsFrozen(x)'
    <3>1. DOMAIN rows' = DOMAIN rows \cup {id}
      BY <1>0, <1>2, Upsert
    <3> QED
      BY <2>1, <3>1 DEF IsFrozen
  <2>6. CheckStands'
    <3> SUFFICES ASSUME NEW p \in Operators, checked'[p] # NoOne, checked'[p].id \notin contested'
                 PROVE  ~IsFrozen(checked[p].id)'
      BY DEF CheckStands
    <3>1. p # o /\ checked'[p] = checked[p] /\ checked[p].id \notin contested
      BY <2>2, <2>3
    <3>2. checked[p].id # id
      BY <1>0, <2>2, <3>1 DEF Overlaps
    <3>3. ~IsFrozen(checked[p].id)
      BY <1>0, <3>1 DEF CheckStands
    <3>4. checked'[p].id = checked[p].id
      BY <3>1
    <3> HIDE DEF id
    <3> QED
      BY <2>5, <3>2, <3>3, <3>4 DEF IsFrozen
  <2>7. RecordStands'
    <3> SUFFICES ASSUME NEW i \in Governed, decisions[i].experiment \notin contested
                 PROVE  rows'[decisions[i].experiment] = rows[decisions[i].experiment]
      BY <1>0, <2>2 DEF RecordStands, Governed
    <3>1. IsFrozen(decisions[i].experiment)
      BY <1>0 DEF RecordInv, RecordOwned
    <3>2. decisions[i].experiment # id
      BY <1>0, <2>2, <3>1 DEF CheckStands
    <3> QED
      BY <2>1, <3>1, <3>2 DEF IsFrozen
  <2> QED
    BY <2>4, <2>6, <2>7
<1>3. ASSUME NEW t \in Tenants, NEW c \in Subjects, Decide(t, c)
      PROVE  Overlaps' /\ CheckStands' /\ RecordStands'
  <2> DEFINE id == active_experiment(t)
             r == Recorded(t, c, id)
             n == Len(decisions)
  <2>1. /\ n \in Nat /\ DOMAIN decisions = 1 .. n /\ DOMAIN decisions' = 1 .. n + 1
        /\ decisions'[n + 1] = r /\ \A i \in 1 .. n : decisions'[i] = decisions[i]
        /\ UNCHANGED <<rows, checked, now, contested>>
        /\ r.customer = c /\ r.experiment = id
        /\ id # NoExperiment =>
             LET e == rows[id] IN r.share = e.share /\ r.arm = arm(c, e.seed, e.share)
    BY <1>0, <1>3, RecordAdded
  <2> HIDE DEF r, id, n
  <2>2. \A i \in Governed' : (i \in Governed /\ decisions'[i] = decisions[i])
                            \/ (decisions'[i] = r /\ id # NoExperiment)
    BY <2>1 DEF Governed
  <2>3. RecordStands'
    BY <1>0, <2>1, <2>2 DEF RecordStands
  <2>4. Overlaps' /\ CheckStands'
    BY <1>0, <2>1 DEF Overlaps, CheckStands, IsFrozen
  <2> QED
    BY <2>3, <2>4
<1>4. CASE UNCHANGED evars
  BY <1>0, <1>4 DEF evars, Overlaps, CheckStands, RecordStands, Governed, IsFrozen
<1> QED
  BY <1>1, <1>2, <1>3, <1>4 DEF ExperimentNext

(* However many operators freeze, and however their looks and writes         *)
(* interleave: a customer changes arms within an experiment only if freezes  *)
(* of that experiment overlapped, a tenant's own experiment keeps overriding *)
(* the platform's, and every recorded propensity is the share of the buckets *)
(* in the recorded arm.                                                      *)
THEOREM ArmsKept == ExperimentSpec => []ArmsAreKept
<1>1. ExperimentInv => ArmsAreKept
  <2> SUFFICES ASSUME RecordInv, RecordStands PROVE ArmsAreKept
    BY DEF ExperimentInv
  <2>1. OwnOverrides /\ PropensityIsShare
    BY PropensityCounts DEF RecordInv, RecordWeighed, PropensityIsShare, StoredShares
  <2>2. ArmsStay
    BY DEF RecordInv, RecordWeighed, RecordStands, ArmsStay
  <2> QED
    BY <2>1, <2>2 DEF ArmsAreKept
<1>2. ExperimentInv /\ [ExperimentNext]_evars => ExperimentInv'
  BY RecordStep, StandStep DEF ExperimentInv
<1> QED
  BY <1>1, <1>2, RecordInitially, PTL DEF ExperimentSpec

-----------------------------------------------------------------------------
(* Consent: under what names a customer is found after an erasure.           *)
LEMMA NameOf ==
    ASSUME NEW ref \in Names
    PROVE  /\ ref[1] \in Customers /\ ref[2] \in Nat /\ ref # Null
           /\ pseudonymise(ref) \in Names /\ pseudonymise(ref)[1] = ref[1]
           /\ is_pseudonym(pseudonymise(ref))
           /\ ~is_pseudonym(ref) => pseudonymise(ref) = <<ref[1], 1>>
<1>1. ref[1] \in Customers /\ ref[2] \in Nat /\ ref # Null
  BY NullAssumption DEF Names
<1>2. pseudonymise(ref) \in Names /\ pseudonymise(ref)[1] = ref[1] /\ pseudonymise(ref)[2] > 0
  BY <1>1 DEF Names, pseudonymise
<1>3. ~(ref[2] > 0) => ref[2] + 1 = 1
  BY <1>1
<1> QED
  BY <1>1, <1>2, <1>3 DEF is_pseudonym, pseudonymise

(* A reference that nobody erased is not a pseudonym.                        *)
LEMMA RawName ==
    ASSUME NEW c \in Customers
    PROVE  Raw(c) \in Names /\ Raw(c)[1] = c /\ ~is_pseudonym(Raw(c))
  BY DEF Raw, Names, is_pseudonym

(* What an erasure leaves of a reply.                                        *)
LEMMA ScrubbedReply ==
    ASSUME NEW reply \in ReplyRows, NEW ref \in Names
    PROVE  /\ Scrubbed(reply, ref) \in ReplyRows
           /\ Scrubbed(reply, ref).needs_human =>
                /\ reply.needs_human
                /\ Scrubbed(reply, ref).words = reply.words
                /\ Scrubbed(reply, ref).resolved = reply.resolved
<1>1. pseudonymise(ref) \in Names
  BY NameOf
<1>2. CASE reply.ref = ref
  <2> DEFINE scrubbed == [reply EXCEPT !.ref = pseudonymise(ref), !.words = FALSE,
                                       !.needs_human = FALSE, !.resolved = TRUE]
  <2>1. Scrubbed(reply, ref) = scrubbed
    BY <1>2 DEF Scrubbed
  <2>2. scrubbed \in ReplyRows /\ scrubbed.needs_human = FALSE
    BY <1>1 DEF ReplyRows
  <2> QED
    BY <2>1, <2>2
<1>3. CASE reply.ref # ref
  BY <1>3 DEF Scrubbed
<1> QED
  BY <1>2, <1>3

-----------------------------------------------------------------------------
LEMMA InitConsent == ConsentInit => ConsentInv
<1> SUFFICES ASSUME ConsentInit PROVE ConsentInv
  OBVIOUS
<1> USE DEF ConsentInit
<1>1. ConsentTypeOK
  BY DEF ConsentTypeOK
<1>2. Remembered /\ QueueIsLegible
  BY DEF Remembered, QueueIsLegible, human_queue
<1> QED
  BY <1>1, <1>2 DEF ConsentInv

(* Forgetting: whichever reference it is called with, the first hash of the  *)
(* customer is suppressed afterwards, and so is the name of each mandate     *)
(* that is not raw.                                                          *)
LEMMA ForgetStep ==
    ASSUME ConsentInv, NEW ref \in Ref, forget(ref)
    PROVE  ConsentInv'
<1>1. ref \in Names
  BY ErasuresAssumption DEF Ref, Names
<1>2. /\ ref[1] \in Customers /\ pseudonymise(ref) \in Names /\ pseudonymise(ref)[1] = ref[1]
      /\ is_pseudonym(pseudonymise(ref))
      /\ ~is_pseudonym(ref) => pseudonymise(ref) = <<ref[1], 1>>
  BY <1>1, NameOf
<1>3. /\ contact_suppressions' = contact_suppressions \cup {pseudonymise(ref)}
      /\ mandates' = [m \in Mandates |-> IF mandates[m] = ref THEN pseudonymise(ref) ELSE mandates[m]]
      /\ inbound_replies' = [r \in DOMAIN inbound_replies |-> Scrubbed(inbound_replies[r], ref)]
      /\ forgotten' = forgotten \cup {ref[1]}
      /\ UNCHANGED <<pdn_sent, updating, noticing, owner, withdrew>>
      /\ ~is_pseudonym(ref) \/ \E m \in Mandates : mandates[m] = ref
  BY DEF forget
<1>4. ConsentTypeOK /\ Remembered /\ QueueIsLegible
  BY DEF ConsentInv
<1>5. \A r \in DOMAIN inbound_replies :
        /\ inbound_replies'[r] \in ReplyRows
        /\ inbound_replies'[r].needs_human =>
             /\ inbound_replies[r].needs_human
             /\ inbound_replies'[r].words = inbound_replies[r].words
             /\ inbound_replies'[r].resolved = inbound_replies[r].resolved
  BY <1>1, <1>3, <1>4, ScrubbedReply DEF ConsentTypeOK
<1>6. ConsentTypeOK'
  <2>1. mandates' \in [Mandates -> Names \cup {Null}]
    BY <1>2, <1>3, <1>4 DEF ConsentTypeOK
  <2>2. inbound_replies' \in [DOMAIN inbound_replies' -> ReplyRows]
    BY <1>3, <1>5
  <2> QED
    BY <1>2, <1>3, <1>4, <2>1, <2>2 DEF ConsentTypeOK
<1>7. Remembered'
  <2>1. <<ref[1], 1>> \in contact_suppressions'
    <3>1. CASE ~is_pseudonym(ref)
      BY <1>2, <1>3, <3>1
    <3>2. CASE is_pseudonym(ref)
      <4>1. PICK m \in Mandates : mandates[m] = ref
        BY <1>3, <3>2
      <4>2. ref[1] \in forgotten
        BY <1>1, <1>4, <3>2, <4>1, NameOf DEF Remembered
      <4> QED
        BY <1>3, <1>4, <4>2 DEF Remembered
    <3> QED
      BY <3>1, <3>2
  <2>2. \A c \in forgotten' : <<c, 1>> \in contact_suppressions'
    BY <1>3, <1>4, <2>1 DEF Remembered
  <2>3. ASSUME NEW m \in Mandates, mandates'[m] # Null
        PROVE  /\ mandates'[m][1] = owner'[m]
               /\ is_pseudonym(mandates'[m]) =>
                    mandates'[m] \in contact_suppressions' /\ owner'[m] \in forgotten'
    <3>1. CASE mandates[m] = ref
      <4>1. mandates'[m] = pseudonymise(ref) /\ owner[m] = ref[1]
        BY <1>1, <1>3, <1>4, <3>1, NameOf DEF Remembered
      <4> QED
        BY <1>2, <1>3, <4>1
    <3>2. CASE mandates[m] # ref
      <4>1. mandates'[m] = mandates[m]
        BY <1>3, <3>2
      <4> QED
        BY <1>3, <1>4, <2>3, <4>1 DEF Remembered
    <3> QED
      BY <3>1, <3>2
  <2>4. ASSUME NEW m \in Mandates, noticing'[m] # Null
        PROVE  /\ mandates'[m] # Null /\ noticing'[m].ref[1] = owner'[m]
               /\ is_pseudonym(noticing'[m].ref) => noticing'[m].ref \in contact_suppressions'
    <3>1. /\ mandates[m] # Null /\ noticing[m].ref[1] = owner[m] /\ noticing'[m] = noticing[m]
          /\ owner'[m] = owner[m]
          /\ is_pseudonym(noticing[m].ref) => noticing[m].ref \in contact_suppressions
      BY <1>3, <1>4, <2>4 DEF Remembered
    <3>2. mandates'[m] # Null
      BY <1>2, <1>3, <3>1, NameOf
    <3> QED
      BY <1>3, <3>1, <3>2
  <2> QED
    BY <2>2, <2>3, <2>4 DEF Remembered
<1>8. QueueIsLegible'
  BY <1>3, <1>4, <1>5 DEF QueueIsLegible, human_queue
<1> QED
  BY <1>6, <1>7, <1>8 DEF ConsentInv

(* Replies, recorded and resolved.                                           *)
LEMMA ReplyStep ==
    ASSUME ConsentInv, NEW r \in Replies, resolve(r) \/ \E c \in Customers : record_reply(r, c)
    PROVE  ConsentInv'
<1>1. ConsentTypeOK /\ Remembered /\ QueueIsLegible
  BY DEF ConsentInv
<1>2. UNCHANGED <<mandates, contact_suppressions, pdn_sent, updating, noticing, owner, withdrew, forgotten>>
  BY DEF resolve, record_reply
<1>3. CASE resolve(r)
  <2>1. r \in DOMAIN inbound_replies /\ inbound_replies[r] \in ReplyRows
    BY <1>1, <1>3 DEF resolve, human_queue, ConsentTypeOK
  <2>2. /\ [inbound_replies[r] EXCEPT !.resolved = TRUE] \in ReplyRows
        /\ [inbound_replies[r] EXCEPT !.resolved = TRUE].resolved
    BY <2>1 DEF ReplyRows
  <2>3. inbound_replies' = [inbound_replies EXCEPT ![r] = [inbound_replies[r] EXCEPT !.resolved = TRUE]]
    BY <1>3 DEF resolve
  <2>4. ConsentTypeOK'
    BY <1>1, <1>2, <2>1, <2>2, <2>3 DEF ConsentTypeOK
  <2>5. QueueIsLegible'
    BY <1>1, <2>1, <2>2, <2>3 DEF QueueIsLegible, human_queue, ConsentTypeOK
  <2> QED
    BY <1>1, <1>2, <2>4, <2>5 DEF ConsentInv, Remembered
<1>4. ASSUME NEW c \in Customers, record_reply(r, c) PROVE ConsentInv'
  <2>1. PICK o \in Outcomes :
          inbound_replies' =
              Upserted(inbound_replies, r,
                       [ref |-> Raw(c), words |-> TRUE, rejected |-> o.rejected,
                        needs_human |-> o.needs_human, resolved |-> FALSE])
    BY <1>4 DEF record_reply
  <2> DEFINE row == [ref |-> Raw(c), words |-> TRUE, rejected |-> o.rejected,
                     needs_human |-> o.needs_human, resolved |-> FALSE]
  <2>2. row \in ReplyRows /\ row.words
    <3>1. o.rejected \in BOOLEAN /\ o.needs_human \in BOOLEAN
      <4>1. \A a, b \in BOOLEAN :
              [rejected |-> a, needs_human |-> b] \in [rejected : BOOLEAN, needs_human : BOOLEAN]
        OBVIOUS
      <4>2. o \in [rejected : BOOLEAN, needs_human : BOOLEAN]
        BY <4>1 DEF Outcomes
      <4> QED
        BY <4>2
    <3>2. Raw(c) \in Names
      BY RawName
    <3> QED
      BY <3>1, <3>2 DEF ReplyRows
  <2>3. inbound_replies' = [k \in DOMAIN inbound_replies \cup {r} |->
                              IF k = r THEN row ELSE inbound_replies[k]]
    BY <2>1 DEF Upserted
  <2> HIDE DEF row
  <2>4. ConsentTypeOK'
    BY <1>1, <1>2, <2>2, <2>3 DEF ConsentTypeOK
  <2>5. QueueIsLegible'
    BY <1>1, <2>2, <2>3 DEF QueueIsLegible, human_queue
  <2> QED
    BY <1>1, <1>2, <2>4, <2>5 DEF ConsentInv, Remembered
<1> QED
  BY <1>3, <1>4

LEMMA NextConsent == ConsentInv /\ [ConsentNext]_cvars => ConsentInv'
<1> SUFFICES ASSUME ConsentInv, [ConsentNext]_cvars PROVE ConsentInv'
  OBVIOUS
<1>0. ConsentTypeOK /\ Remembered /\ QueueIsLegible
  BY DEF ConsentInv
<1>1. ASSUME UNCHANGED <<mandates, contact_suppressions, inbound_replies, noticing, owner, forgotten>>,
             pdn_sent' \subseteq Mandates, withdrew' \subseteq Customers,
             DOMAIN updating' = Updates,
             \A u \in Updates : updating'[u] # Null => updating'[u].ref \in Names
      PROVE  ConsentInv'
  BY <1>0, <1>1 DEF ConsentInv, ConsentTypeOK, Remembered, QueueIsLegible, human_queue
<1>2. ASSUME NEW m \in Mandates, NEW c \in Customers, Enrol(m, c) PROVE ConsentInv'
  <2>1. /\ mandates' = [mandates EXCEPT ![m] = Raw(c)] /\ owner' = [owner EXCEPT ![m] = c]
        /\ UNCHANGED <<contact_suppressions, inbound_replies, pdn_sent, updating, noticing, withdrew,
                       forgotten>>
        /\ mandates[m] = Null
    BY <1>2 DEF Enrol
  <2>2. Raw(c) \in Names /\ Raw(c)[1] = c /\ ~is_pseudonym(Raw(c))
    BY RawName
  <2>3. ConsentTypeOK'
    BY <1>0, <2>1, <2>2 DEF ConsentTypeOK
  <2>4. Remembered'
    <3>1. \A n \in Mandates : n # m => mandates'[n] = mandates[n] /\ owner'[n] = owner[n]
      BY <1>0, <2>1 DEF ConsentTypeOK
    <3>2. mandates'[m] = Raw(c) /\ owner'[m] = c /\ noticing'[m] = Null
      BY <1>0, <2>1 DEF ConsentTypeOK, Remembered
    <3> QED
      BY <1>0, <2>1, <2>2, <3>1, <3>2 DEF Remembered
  <2>5. QueueIsLegible'
    BY <1>0, <2>1 DEF QueueIsLegible, human_queue
  <2> QED
    BY <2>3, <2>4, <2>5 DEF ConsentInv
<1>3. ASSUME NEW m \in Mandates, fire_debit(m) PROVE ConsentInv'
  BY <1>0, <1>1, <1>3 DEF fire_debit, ConsentTypeOK
<1>10. ASSUME NEW m \in Mandates, NEW n, noticing' = [noticing EXCEPT ![m] = n],
              UNCHANGED <<mandates, contact_suppressions, inbound_replies, updating, owner, withdrew,
                          forgotten>>,
              pdn_sent' \subseteq Mandates,
              n # Null => /\ n \in Notices /\ mandates[m] # Null /\ n.ref[1] = owner[m]
                          /\ is_pseudonym(n.ref) => n.ref \in contact_suppressions
       PROVE  ConsentInv'
  <2>1. \A k \in Mandates : noticing'[k] = IF k = m THEN n ELSE noticing[k]
    BY <1>0, <1>10 DEF ConsentTypeOK
  <2>2. ConsentTypeOK'
    BY <1>0, <1>10, <2>1 DEF ConsentTypeOK
  <2>3. Remembered'
    BY <1>0, <1>10, <2>1 DEF Remembered
  <2>4. QueueIsLegible'
    BY <1>0, <1>10 DEF QueueIsLegible, human_queue
  <2> QED
    BY <2>2, <2>3, <2>4 DEF ConsentInv
<1>11. ASSUME NEW m \in Mandates, fire_notice(m) PROVE ConsentInv'
  <2> DEFINE n == [ref |-> mandates[m], stage |-> "read"]
  <2>1. mandates[m] \in Names /\ mandates[m] # Null /\ mandates[m][1] = owner[m]
        /\ (is_pseudonym(mandates[m]) => mandates[m] \in contact_suppressions)
    BY <1>0, <1>11 DEF fire_notice, ConsentTypeOK, Remembered
  <2>2. n \in Notices /\ n.ref = mandates[m]
    BY <2>1 DEF Notices
  <2>3. noticing' = [noticing EXCEPT ![m] = n] /\ pdn_sent' \subseteq Mandates
        /\ UNCHANGED <<mandates, contact_suppressions, inbound_replies, updating, owner, withdrew, forgotten>>
    BY <1>0, <1>11 DEF fire_notice, ConsentTypeOK
  <2> HIDE DEF n
  <2> QED
    BY <1>10, <2>1, <2>2, <2>3
<1>12. ASSUME NEW m \in Mandates, notice_gated(m) \/ notice_cleared(m) PROVE ConsentInv'
  <2>1. PICK s \in {"gated", "cleared"} : noticing' = [noticing EXCEPT ![m].stage = s]
    BY <1>12 DEF notice_gated, notice_cleared
  <2> DEFINE was == noticing[m]
             n == [was EXCEPT !.stage = s]
  <2>2. was # Null /\ was \in Notices /\ mandates[m] # Null /\ was.ref[1] = owner[m]
        /\ (is_pseudonym(was.ref) => was.ref \in contact_suppressions)
    BY <1>0, <1>12 DEF notice_gated, notice_cleared, ConsentTypeOK, Remembered
  <2>3. noticing' = [noticing EXCEPT ![m] = n] /\ pdn_sent' \subseteq Mandates
        /\ UNCHANGED <<mandates, contact_suppressions, inbound_replies, updating, owner, withdrew, forgotten>>
    BY <1>0, <1>12, <2>1 DEF notice_gated, notice_cleared, ConsentTypeOK
  <2> HIDE DEF was
  <2>4. n \in Notices /\ n.ref = was.ref
    BY <2>2 DEF Notices
  <2> HIDE DEF n
  <2> QED
    BY <1>10, <2>2, <2>3, <2>4
<1>13. ASSUME NEW m \in Mandates, notice_sent(m) \/ notice_dropped(m) PROVE ConsentInv'
  <2>1. noticing' = [noticing EXCEPT ![m] = Null] /\ pdn_sent' \subseteq Mandates
        /\ UNCHANGED <<mandates, contact_suppressions, inbound_replies, updating, owner, withdrew, forgotten>>
    BY <1>0, <1>13 DEF notice_sent, notice_dropped, ConsentTypeOK
  <2> QED
    BY <1>10, <2>1
<1>4. ASSUME NEW u \in Updates, NEW c \in Customers, Load(u, c) PROVE ConsentInv'
  <2> DEFINE row == [ref |-> Raw(c), profile |-> load_or_empty(Raw(c)),
                     folded |-> IF Raw(c) \in DOMAIN folded THEN folded[Raw(c)] ELSE 0]
  <2>1. /\ updating' = [updating EXCEPT ![u] = row] /\ row.ref = Raw(c)
        /\ UNCHANGED <<mandates, contact_suppressions, inbound_replies, pdn_sent, noticing, owner,
                       withdrew, forgotten>>
    BY <1>4 DEF Load
  <2> HIDE DEF row
  <2>2. \A v \in Updates : updating'[v] # Null => updating'[v].ref \in Names
    BY <1>0, <2>1, RawName DEF ConsentTypeOK
  <2> QED
    BY <1>0, <1>1, <2>1, <2>2 DEF ConsentTypeOK
<1>5. ASSUME NEW u \in Updates, Save(u) \/ SaveWithdrawal(u) PROVE ConsentInv'
  <2>1. /\ updating[u] # Null /\ updating' = [updating EXCEPT ![u] = Null]
        /\ UNCHANGED <<mandates, contact_suppressions, inbound_replies, pdn_sent, noticing, owner, forgotten>>
    BY <1>5 DEF Save, SaveWithdrawal
  <2>2. updating[u].ref[1] \in Customers
    BY <1>0, <2>1, NameOf DEF ConsentTypeOK
  <2>3. withdrew' \subseteq Customers
    BY <1>0, <1>5, <2>2 DEF Save, SaveWithdrawal, ConsentTypeOK
  <2>4. \A v \in Updates : updating'[v] # Null => updating'[v].ref \in Names
    BY <1>0, <2>1 DEF ConsentTypeOK
  <2> QED
    BY <1>0, <1>1, <2>1, <2>3, <2>4 DEF ConsentTypeOK
<1>6. ASSUME NEW ref \in Ref, forget(ref) PROVE ConsentInv'
  BY <1>6, ForgetStep
<1>7. ASSUME NEW r \in Replies, resolve(r) \/ \E c \in Customers : record_reply(r, c)
      PROVE  ConsentInv'
  BY <1>7, ReplyStep
<1>8. CASE UNCHANGED cvars
  BY <1>0, <1>1, <1>8 DEF ConsentTypeOK, cvars
<1>9. CASE ConsentNext
  BY <1>9, <1>2, <1>3, <1>4, <1>5, <1>6, <1>7, <1>11, <1>12, <1>13 DEF ConsentNext
<1> QED
  BY <1>8, <1>9

(* Erasure is remembered in every reachable state: the first hash of all who *)
(* were forgotten is suppressed, and so is every hashed name a mandate has.  *)
THEOREM ConsentInvariance == ConsentSpec => []ConsentInv
  BY InitConsent, NextConsent, PTL DEF ConsentSpec

(* Once someone is forgotten no notice passes its check for them any more:   *)
(* not through a mandate enrolled after the erasure under the raw id, not    *)
(* through one that forget has renamed, once or again, before or after the   *)
(* notice read its name, and whatever profile a late update saved.           *)
THEOREM Forgotten == ConsentSpec => ForgottenNeverMessaged
<1>1. ConsentInv /\ [ConsentNext]_cvars =>
        [/\ \A m \in Cleared' \ Cleared : owner[m] \notin forgotten
         /\ pdn_sent' \ pdn_sent \subseteq Cleared]_cvars
  <2> SUFFICES ASSUME ConsentInv, ConsentNext
               PROVE  /\ \A m \in Cleared' \ Cleared : owner[m] \notin forgotten
                      /\ pdn_sent' \ pdn_sent \subseteq Cleared
    OBVIOUS
  <2>0. ConsentTypeOK /\ Remembered
    BY DEF ConsentInv
  <2>1. ASSUME NEW m \in Cleared' \ Cleared PROVE owner[m] \notin forgotten
    <3>1. m \in Mandates /\ noticing'[m] # Null /\ noticing'[m].stage = "cleared"
          /\ ~(noticing[m] # Null /\ noticing[m].stage = "cleared")
      BY <2>1 DEF Cleared
    <3>2. PICK n \in Mandates : fire_notice(n) \/ notice_gated(n) \/ notice_cleared(n)
                                 \/ notice_sent(n) \/ notice_dropped(n)
      BY <3>1 DEF ConsentNext, Enrol, fire_debit, Load, Save, SaveWithdrawal, forget, resolve, record_reply
    <3>3. m = n
      BY <2>0, <3>1, <3>2
         DEF ConsentTypeOK, fire_notice, notice_gated, notice_cleared, notice_sent, notice_dropped
    <3> DEFINE was == noticing[m]
               ref == was.ref
    <3>4. notice_cleared(m)
      <4>1. ~fire_notice(m) /\ ~notice_sent(m) /\ ~notice_dropped(m)
        BY <2>0, <3>1 DEF ConsentTypeOK, fire_notice, notice_sent, notice_dropped
      <4>2. ~notice_gated(m)
        <5>1. SUFFICES ASSUME notice_gated(m) PROVE FALSE
          OBVIOUS
        <5>2. was \in Notices /\ noticing'[m] = [was EXCEPT !.stage = "gated"]
          BY <2>0, <3>1, <5>1 DEF ConsentTypeOK, notice_gated
        <5> HIDE DEF was
        <5>3. noticing'[m].stage = "gated"
          BY <5>2 DEF Notices
        <5> QED
          BY <3>1, <5>3
      <4> QED
        BY <3>2, <3>3, <4>1, <4>2
    <3>5. /\ was # Null /\ was \in Notices /\ ref[1] = owner[m]
          /\ is_pseudonym(ref) => ref \in contact_suppressions
      BY <2>0, <3>1, <3>4 DEF notice_cleared, ConsentTypeOK, Remembered
    <3>6. ref \notin contact_suppressions /\ pseudonymise(ref) \notin contact_suppressions
      BY <3>4 DEF notice_cleared, suppressed
    <3> HIDE DEF was
    <3>7. ref \in Names
      BY <3>5 DEF Notices
    <3> HIDE DEF ref
    <3>8. pseudonymise(ref) = <<owner[m], 1>>
      BY <3>5, <3>6, <3>7, NameOf
    <3> QED
      BY <2>0, <3>6, <3>8 DEF Remembered
  <2>2. pdn_sent' \ pdn_sent \subseteq Cleared
    <3>1. SUFFICES ASSUME NEW m \in pdn_sent' \ pdn_sent PROVE m \in Cleared
      OBVIOUS
    <3>2. PICK n \in Mandates : notice_sent(n)
      BY <3>1 DEF ConsentNext, Enrol, fire_notice, notice_gated, notice_cleared, notice_dropped, fire_debit,
                  Load, Save, SaveWithdrawal, forget, resolve, record_reply
    <3> QED
      BY <3>1, <3>2 DEF notice_sent, Cleared
  <2> QED
    BY <2>1, <2>2
<1> QED
  BY <1>1, ConsentInvariance, PTL DEF ConsentSpec, ForgottenNeverMessaged

(* No person is asked to judge a reply whose words are gone, in whatever     *)
(* order it was parsed, rejected, resolved and scrubbed.                     *)
THEOREM QueueLegible == ConsentSpec => []QueueIsLegible
<1>1. ConsentInv => QueueIsLegible
  BY DEF ConsentInv
<1> QED
  BY <1>1, ConsentInvariance, PTL

-----------------------------------------------------------------------------
(* The evidence in a profile.  Induction, over a set: a nonempty set of      *)
(* numbers has a least member.                                               *)
LEMMA LeastExists ==
    ASSUME NEW S \in SUBSET Nat, S # {}
    PROVE  \E n \in S : \A m \in S : n <= m
<1>1. PICK n \in S : \A m \in S : <<m, n>> \notin OpToRel(<, Nat)
  BY NatLessThanWellFounded, WFMin
<1>2. \A m \in S : ~(m < n)
  BY <1>1 DEF OpToRel
<1> QED
  BY <1>2

(* Induction: a set that has 0 and with each number the next has all.        *)
LEMMA NatInd ==
    ASSUME NEW S, 0 \in S, \A n \in Nat : n \in S => n + 1 \in S
    PROVE  Nat \subseteq S
<1> SUFFICES ASSUME Nat \ S # {} PROVE FALSE
  OBVIOUS
<1>1. PICK n \in Nat \ S : \A m \in Nat \ S : n <= m
  BY LeastExists
<1>2. n # 0 /\ n - 1 \in Nat
  BY <1>1
<1>3. n - 1 \in S
  BY <1>1, <1>2
<1> QED
  BY <1>1, <1>2, <1>3

(* A sum over the days of a month is the last of its partial sums.           *)
Sums(f) == {g \in [0 .. DAYS_IN_MONTH -> Int] :
              \A d \in 0 .. DAYS_IN_MONTH : g[d] = IF d = 0 THEN 0 ELSE g[d - 1] + f[d]}

(* There are partial sums, and theirs is the sum.                            *)
LEMMA SumIsLast ==
    ASSUME NEW f \in [Month -> Int]
    PROVE  \E g \in Sums(f) : OverMonth(f) = g[DAYS_IN_MONTH]
<1> DEFINE Upto(m) == {g \in [0 .. m -> Int] :
                          \A d \in 0 .. m : g[d] = IF d = 0 THEN 0 ELSE g[d - 1] + f[d]}
           Good == {m \in Nat : m <= DAYS_IN_MONTH => Upto(m) # {}}
<1>0. DAYS_IN_MONTH \in Nat
  BY DecayAssumption
<1>1. 0 \in Good
  <2>1. [d \in 0 .. 0 |-> 0] \in Upto(0)
    OBVIOUS
  <2> QED
    BY <2>1
<1>2. ASSUME NEW m \in Nat, m \in Good PROVE m + 1 \in Good
  <2> SUFFICES ASSUME m + 1 <= DAYS_IN_MONTH PROVE Upto(m + 1) # {}
    OBVIOUS
  <2>0. m <= DAYS_IN_MONTH
    BY <1>0
  <2>1. PICK g : g \in Upto(m)
    <3>1. Upto(m) # {}
      BY <1>2, <2>0
    <3> HIDE DEF Upto
    <3> QED
      BY <3>1
  <2> DEFINE h == [d \in 0 .. m + 1 |-> IF d <= m THEN g[d] ELSE g[m] + f[m + 1]]
  <2>2. f[m + 1] \in Int /\ g[m] \in Int
    BY <1>0, <2>1 DEF Month
  <2>3. h \in [0 .. m + 1 -> Int]
    BY <2>1, <2>2
  <2>4. ASSUME NEW d \in 0 .. m + 1
        PROVE  h[d] = IF d = 0 THEN 0 ELSE h[d - 1] + f[d]
    <3>1. CASE d <= m
      BY <2>1, <3>1
    <3>2. CASE d = m + 1
      BY <2>1, <3>2
    <3> QED
      BY <3>1, <3>2
  <2>5. h \in Upto(m + 1)
    BY <2>3, <2>4
  <2> QED
    BY <2>5
<1> HIDE DEF Good
<1>3. DAYS_IN_MONTH \in Good
  BY <1>0, <1>1, <1>2, NatInd
<1>4. PICK g : g \in Upto(DAYS_IN_MONTH)
  BY <1>3 DEF Good
<1> DEFINE step(d, h) == IF d = 0 THEN 0 ELSE h[d - 1] + f[d]
           upto == CHOOSE h : h = [d \in 0 .. DAYS_IN_MONTH |-> step(d, h)]
<1>5. g = [d \in 0 .. DAYS_IN_MONTH |-> step(d, g)]
  BY <1>4
<1>6. upto = [d \in 0 .. DAYS_IN_MONTH |-> step(d, upto)]
  BY <1>5
<1>7. OverMonth(f) = upto[DAYS_IN_MONTH]
  BY DEF OverMonth
<1> HIDE DEF upto
<1> DEFINE Same == {d \in Nat : d <= DAYS_IN_MONTH => upto[d] = g[d]}
<1>8. 0 \in Same
  BY <1>0, <1>5, <1>6
<1>9. ASSUME NEW d \in Nat, d \in Same PROVE d + 1 \in Same
  <2> SUFFICES ASSUME d + 1 <= DAYS_IN_MONTH PROVE upto[d + 1] = g[d + 1]
    OBVIOUS
  <2>1. d + 1 \in 0 .. DAYS_IN_MONTH /\ d + 1 # 0 /\ (d + 1) - 1 = d
    BY <1>0
  <2>2. upto[d] = g[d]
    <3>1. d <= DAYS_IN_MONTH
      BY <1>0
    <3> QED
      BY <1>9, <3>1
  <2>3. upto[d + 1] = step(d + 1, upto) /\ g[d + 1] = step(d + 1, g)
    BY <1>5, <1>6, <2>1
  <2> QED
    BY <2>1, <2>2, <2>3
<1> HIDE DEF Same
<1>10. DAYS_IN_MONTH \in Same
  BY <1>0, <1>8, <1>9, NatInd
<1>11. upto[DAYS_IN_MONTH] = g[DAYS_IN_MONTH]
  BY <1>10 DEF Same
<1>12. g \in Sums(f)
  BY <1>4 DEF Sums
<1> QED
  BY <1>7, <1>11, <1>12

(* One partial sum and the next.                                             *)
LEMMA SumStep ==
    ASSUME NEW f \in [Month -> Int], NEW g \in Sums(f), NEW d \in Nat
    PROVE  /\ g[0] = 0
           /\ d <= DAYS_IN_MONTH => g[d] \in Int
           /\ d + 1 <= DAYS_IN_MONTH => /\ d + 1 \in Month /\ f[d + 1] \in Int
                                        /\ g[d + 1] = g[d] + f[d + 1]
<1>0. DAYS_IN_MONTH \in Nat
  BY DecayAssumption
<1>1. g \in [0 .. DAYS_IN_MONTH -> Int]
  BY DEF Sums
<1>2. \A b \in 0 .. DAYS_IN_MONTH : g[b] = IF b = 0 THEN 0 ELSE g[b - 1] + f[b]
  BY DEF Sums
<1>3. g[0] = 0
  BY <1>0, <1>2
<1>4. d <= DAYS_IN_MONTH => g[d] \in Int
  BY <1>0, <1>1
<1>5. ASSUME d + 1 <= DAYS_IN_MONTH
      PROVE  d + 1 \in Month /\ f[d + 1] \in Int /\ g[d + 1] = g[d] + f[d + 1]
  <2>1. d + 1 \in Month /\ d + 1 \in 0 .. DAYS_IN_MONTH /\ d + 1 # 0 /\ (d + 1) - 1 = d
    BY <1>0, <1>5 DEF Month
  <2> QED
    BY <1>2, <2>1
<1> QED
  BY <1>3, <1>4, <1>5

(* A sum of multiples, with one day raised.                                  *)
LEMMA SumIsLinear ==
    ASSUME NEW f \in [Month -> Int], NEW A \in Int, NEW B \in Int, NEW day \in Month,
           NEW e \in [Month -> Int],
           \A d \in Month : e[d] = (A * f[d]) + IF d = day THEN B ELSE 0
    PROVE  OverMonth(e) = (A * OverMonth(f)) + B
<1>0. DAYS_IN_MONTH \in Nat /\ day \in 1 .. DAYS_IN_MONTH
  BY DecayAssumption DEF Month
<1>1. PICK g \in Sums(f) : OverMonth(f) = g[DAYS_IN_MONTH]
  BY SumIsLast
<1>2. PICK s \in Sums(e) : OverMonth(e) = s[DAYS_IN_MONTH]
  BY SumIsLast
<1> DEFINE Good == {d \in Nat : d <= DAYS_IN_MONTH =>
                        s[d] = (A * g[d]) + IF day <= d THEN B ELSE 0}
<1>3. 0 \in Good
  <2>1. g[0] = 0 /\ s[0] = 0
    BY SumStep
  <2>2. ~(day <= 0)
    BY <1>0
  <2> QED
    BY <2>1, <2>2
<1>4. ASSUME NEW d \in Nat, d \in Good PROVE d + 1 \in Good
  <2> SUFFICES ASSUME d + 1 <= DAYS_IN_MONTH
               PROVE  s[d + 1] = (A * g[d + 1]) + IF day <= d + 1 THEN B ELSE 0
    OBVIOUS
  <2>1. d <= DAYS_IN_MONTH
    BY <1>0
  <2>2. s[d] = (A * g[d]) + IF day <= d THEN B ELSE 0
    BY <1>4, <2>1
  <2>3. /\ d + 1 \in Month /\ f[d + 1] \in Int /\ g[d] \in Int
        /\ g[d + 1] = g[d] + f[d + 1]
    BY <2>1, SumStep
  <2>4. e[d + 1] \in Int /\ s[d] \in Int /\ s[d + 1] = s[d] + e[d + 1]
    BY <2>1, SumStep
  <2>5. e[d + 1] = (A * f[d + 1]) + IF d + 1 = day THEN B ELSE 0
    BY <2>3
  <2>6. A * (g[d] + f[d + 1]) = (A * g[d]) + (A * f[d + 1])
    BY <2>3
  <2> DEFINE x == A * g[d]
             y == A * f[d + 1]
  <2>7. x \in Int /\ y \in Int
    BY <2>3
  <2>8. /\ s[d] = x + IF day <= d THEN B ELSE 0
        /\ e[d + 1] = y + IF d + 1 = day THEN B ELSE 0
        /\ A * g[d + 1] = x + y
    BY <2>2, <2>3, <2>5, <2>6
  <2> HIDE DEF x, y
  <2>9. s[d + 1] = (x + y) + IF day <= d + 1 THEN B ELSE 0
    BY <1>0, <2>4, <2>7, <2>8
  <2> QED
    BY <2>8, <2>9
<1> HIDE DEF Good
<1>5. DAYS_IN_MONTH \in Good
  BY <1>0, <1>3, <1>4, NatInd
<1> QED
  BY <1>0, <1>1, <1>2, <1>5 DEF Good

(* A sum of zeros is zero.                                                   *)
LEMMA SumOfNothing ==
    ASSUME NEW f \in [Month -> Int], \A d \in Month : f[d] = 0
    PROVE  OverMonth(f) = 0
<1>0. DAYS_IN_MONTH \in Nat
  BY DecayAssumption
<1>1. PICK g \in Sums(f) : OverMonth(f) = g[DAYS_IN_MONTH]
  BY SumIsLast
<1> DEFINE Good == {d \in Nat : d <= DAYS_IN_MONTH => g[d] = 0}
<1>2. 0 \in Good
  BY SumStep
<1>3. ASSUME NEW d \in Nat, d \in Good PROVE d + 1 \in Good
  <2> SUFFICES ASSUME d + 1 <= DAYS_IN_MONTH PROVE g[d + 1] = 0
    OBVIOUS
  <2>1. d <= DAYS_IN_MONTH
    BY <1>0
  <2>2. g[d] = 0
    BY <1>3, <2>1
  <2>3. d + 1 \in Month /\ g[d + 1] = g[d] + f[d + 1]
    BY SumStep
  <2> QED
    BY <2>2, <2>3
<1> HIDE DEF Good
<1>4. DAYS_IN_MONTH \in Good
  BY <1>0, <1>2, <1>3, NatInd
<1> QED
  BY <1>0, <1>1, <1>4 DEF Good

(* What decay leaves of the evidence for one day is rounded down once.       *)
LEMMA DecaysOnce ==
    ASSUME NEW x \in Nat
    PROVE  LET y == (x * DecayNum) \div DecayDen
           IN  /\ y \in Nat /\ y <= x
               /\ (DecayNum * x) <= (DecayDen * y) + DecayDen
<1> DEFINE a == x * DecayNum
           y == a \div DecayDen
<1>0. /\ DecayNum \in Nat /\ DecayDen \in Nat /\ DecayDen > 0 /\ DecayNum <= DecayDen
  BY DecayAssumption
<1>1. a \in Nat /\ a = DecayNum * x
  BY <1>0
<1>2. a <= DecayDen * x
  <2>1. (DecayDen - DecayNum) * x >= 0
    BY <1>0
  <2>2. (DecayDen - DecayNum) * x = (DecayDen * x) - (DecayNum * x)
    BY <1>0
  <2>3. DecayDen * x \in Int /\ DecayNum * x \in Int
    BY <1>0
  <2> QED
    BY <1>1, <2>1, <2>2, <2>3
<1> HIDE DEF a
<1>3. y \in Nat /\ DecayDen * y <= a /\ a < (DecayDen * y) + DecayDen
  BY <1>0, <1>1
<1> HIDE DEF y
<1>4. y <= x
  <2>1. SUFFICES ASSUME x + 1 <= y PROVE FALSE
    BY <1>3
  <2>2. DecayDen * y >= (DecayDen * x) + DecayDen
    <3>1. DecayDen * (y - (x + 1)) >= 0
      BY <1>0, <1>3, <2>1
    <3>2. DecayDen * (y - (x + 1)) = (DecayDen * y) - ((DecayDen * x) + DecayDen)
      BY <1>0, <1>3
    <3>3. DecayDen * y \in Int /\ DecayDen * x \in Int
      BY <1>0, <1>3
    <3> QED
      BY <1>0, <3>1, <3>2, <3>3
  <2>3. DecayDen * y \in Int /\ DecayDen * x \in Int
    BY <1>0, <1>3
  <2> QED
    BY <1>0, <1>1, <1>2, <1>3, <2>2, <2>3
<1>5. DecayDen * y \in Int /\ DecayNum * x \in Int
  BY <1>0, <1>3
<1> QED
  BY <1>0, <1>1, <1>3, <1>4, <1>5 DEF y, a

(* One success: the evidence decays, rounded down for each day, and gains    *)
(* one observation.                                                          *)
LEMMA SumDecays ==
    ASSUME NEW f \in [Month -> Nat], NEW day \in Month, NEW e,
           e = [d \in Month |-> (f[d] * DecayNum) \div DecayDen + IF d = day THEN ONE ELSE 0]
    PROVE  /\ e \in [Month -> Nat]
           /\ OverMonth(f) \in Nat /\ OverMonth(e) \in Nat
           /\ OverMonth(e) <= OverMonth(f) + ONE
           /\ (DecayNum * OverMonth(f)) + (ONE * DecayDen)
                  <= (DecayDen * OverMonth(e)) + (DAYS_IN_MONTH * DecayDen)
<1>0. /\ DAYS_IN_MONTH \in Nat /\ day \in 1 .. DAYS_IN_MONTH /\ ONE \in Nat
      /\ DecayNum \in Nat /\ DecayDen \in Nat
  BY DecayAssumption DEF Month
<1> DEFINE y(d) == (f[d] * DecayNum) \div DecayDen
<1>1. \A d \in Month : /\ y(d) \in Nat /\ y(d) <= f[d]
                       /\ (DecayNum * f[d]) <= (DecayDen * y(d)) + DecayDen
  BY DecaysOnce
<1>2. \A d \in Month : e[d] = y(d) + IF d = day THEN ONE ELSE 0
  OBVIOUS
<1> HIDE DEF y
<1>3. e \in [Month -> Nat]
  <2>1. \A d \in Month : e[d] \in Nat
    BY <1>0, <1>1, <1>2
  <2> QED
    BY <2>1
<1>4. e \in [Month -> Int] /\ f \in [Month -> Int]
  BY <1>3
<1>5. PICK g \in Sums(f) : OverMonth(f) = g[DAYS_IN_MONTH]
  BY <1>4, SumIsLast
<1>6. PICK s \in Sums(e) : OverMonth(e) = s[DAYS_IN_MONTH]
  BY <1>4, SumIsLast
<1> DEFINE one(d) == IF day <= d THEN ONE ELSE 0
           Holds3(d) == /\ g[d] \in Nat /\ s[d] \in Nat
                        /\ s[d] <= g[d] + one(d)
                        /\ (DecayNum * g[d]) + (one(d) * DecayDen) <= (DecayDen * s[d]) + (d * DecayDen)
           Good == {d \in Nat : d <= DAYS_IN_MONTH => Holds3(d)}
<1>7. 0 \in Good
  <2>1. g[0] = 0 /\ s[0] = 0
    BY <1>4, SumStep
  <2>2. one(0) = 0
    BY <1>0
  <2> QED
    BY <1>0, <2>1, <2>2
<1>8. ASSUME NEW d \in Nat, d \in Good PROVE d + 1 \in Good
  <2> SUFFICES ASSUME d + 1 <= DAYS_IN_MONTH PROVE Holds3(d + 1)
    OBVIOUS
  <2>1. d <= DAYS_IN_MONTH
    BY <1>0
  <2>2. Holds3(d)
    BY <1>8, <2>1
  <2>3. d + 1 \in Month /\ g[d + 1] = g[d] + f[d + 1]
    BY <1>4, SumStep
  <2>4. s[d + 1] = s[d] + e[d + 1]
    BY <1>4, SumStep
  <2> DEFINE x == f[d + 1]
             z == y(d + 1)
             o == IF d + 1 = day THEN ONE ELSE 0
             G == g[d]
             S == s[d]
             p == one(d)
             q == one(d + 1)
  <2>5. /\ z \in Nat /\ z <= x /\ x \in Nat /\ o \in Nat
        /\ (DecayNum * x) <= (DecayDen * z) + DecayDen
    BY <1>0, <1>1, <2>3
  <2>6. e[d + 1] = z + o
    BY <1>2, <2>3
  <2>7. p \in Nat /\ q \in Nat /\ q = p + o
    BY <1>0
  <2>8. /\ G \in Nat /\ S \in Nat /\ S <= G + p
        /\ (DecayNum * G) + (p * DecayDen) <= (DecayDen * S) + (d * DecayDen)
    BY <2>2
  <2> HIDE DEF x, z, o, G, S, p, q, Holds3
  <2>9. g[d + 1] = G + x /\ s[d + 1] = S + (z + o)
    BY <2>3, <2>4, <2>6 DEF G, S, x
  <2>10. G + x \in Nat /\ S + (z + o) \in Nat /\ S + (z + o) <= (G + x) + q
    BY <2>5, <2>7, <2>8
  <2>11. (DecayNum * (G + x)) + (q * DecayDen) <= (DecayDen * (S + (z + o))) + ((d + 1) * DecayDen)
    <3>1. /\ DecayNum * (G + x) = (DecayNum * G) + (DecayNum * x)
          /\ q * DecayDen = (p * DecayDen) + (o * DecayDen)
          /\ DecayDen * (S + (z + o)) = (DecayDen * S) + (DecayDen * z) + (o * DecayDen)
          /\ (d + 1) * DecayDen = (d * DecayDen) + DecayDen
      BY <1>0, <2>5, <2>7, <2>8
    <3> DEFINE a1 == DecayNum * G
               a2 == DecayNum * x
               a3 == p * DecayDen
               a4 == o * DecayDen
               a5 == DecayDen * S
               a6 == DecayDen * z
               a7 == d * DecayDen
    <3>2. a1 \in Int /\ a2 \in Int /\ a3 \in Int /\ a4 \in Int /\ a5 \in Int /\ a6 \in Int /\ a7 \in Int
      BY <1>0, <2>5, <2>7, <2>8
    <3>3. a2 <= a6 + DecayDen /\ a1 + a3 <= a5 + a7
      BY <2>5, <2>8
    <3>4. /\ DecayNum * (G + x) = a1 + a2
          /\ q * DecayDen = a3 + a4
          /\ DecayDen * (S + (z + o)) = (a5 + a6) + a4
          /\ (d + 1) * DecayDen = a7 + DecayDen
      BY <3>1
    <3> HIDE DEF a1, a2, a3, a4, a5, a6, a7
    <3>5. (a1 + a2) + (a3 + a4) <= ((a5 + a6) + a4) + (a7 + DecayDen)
      BY <1>0, <3>2, <3>3
    <3> QED
      BY <3>4, <3>5
  <2>12. q = one(d + 1)
    BY DEF q
  <2> HIDE DEF one
  <2> QED
    BY <2>9, <2>10, <2>11, <2>12 DEF Holds3
<1> HIDE DEF Good
<1>9. DAYS_IN_MONTH \in Good
  BY <1>0, <1>7, <1>8, NatInd
<1>10. one(DAYS_IN_MONTH) = ONE
  BY <1>0
<1> HIDE DEF one
<1>11. Holds3(DAYS_IN_MONTH)
  BY <1>0, <1>9 DEF Good
<1> QED
  BY <1>3, <1>5, <1>6, <1>10, <1>11

(* A profile's evidence of n successes: at most an observation for each, and *)
(* no less than half of one for each after the first.                        *)
Profiles ==
    [payday_posterior : [Month -> Nat], declared_funding_day : Month \cup {Null},
     declared_at : Int \cup {Null}, tenure_cycles : Nat, messages_30d : Nat,
     consent_withdrawn : BOOLEAN]

Evident(p, n) ==
    /\ p \in Profiles /\ n \in Nat
    /\ n <= MaxSuccesses
    /\ p.declared_funding_day # Null => p.declared_at = 0
    /\ n = 0 => \A d \in Month : p.payday_posterior[d] = 0
    /\ observations(p) \in Nat
    /\ observations(p) <= n * ONE
    /\ n > 0 => 2 * observations(p) >= (n + 1) * ONE

(* A customer nobody knows yet has no evidence.                              *)
LEMMA EmptyIsEvident == Evident(empty_profile, 0)
<1> DEFINE f == [d \in Month |-> 0]
<1>1. f \in [Month -> Int] /\ f \in [Month -> Nat] /\ \A d \in Month : f[d] = 0
  OBVIOUS
<1>2. empty_profile.payday_posterior = f
  BY DEF empty_profile
<1> HIDE DEF f
<1>3. observations(empty_profile) = 0
  BY <1>1, <1>2, SumOfNothing DEF observations
<1>4. empty_profile \in Profiles
  BY <1>1, <1>2 DEF empty_profile, Profiles
<1>5. ONE \in Nat /\ MaxSuccesses \in Nat
  BY DecayAssumption, SuccessesAssumption
<1>6. empty_profile.tenure_cycles = 0 /\ empty_profile.declared_funding_day = Null
  BY DEF empty_profile
<1>7. 0 * ONE = 0
  BY <1>5
<1> QED
  BY <1>1, <1>2, <1>3, <1>4, <1>5, <1>6, <1>7 DEF Evident

(* One success more: what was known is worn and rounded down, and one        *)
(* observation is added.                                                     *)
LEMMA UpdatedIsEvident ==
    ASSUME NEW p, NEW t, Evident(p, t), NEW day \in Month, t < MaxSuccesses
    PROVE  /\ Evident(update_payday(p, day), t + 1)
           /\ update_payday(p, day).tenure_cycles = p.tenure_cycles + 1
<1> DEFINE f == p.payday_posterior
           held == p.tenure_cycles
           q == update_payday(p, day)
           e == [d \in Month |-> (f[d] * DecayNum) \div DecayDen + IF d = day THEN ONE ELSE 0]
           N == observations(p)
           M == OverMonth(e)
           sum == OverMonth(f)
<1>0. /\ DAYS_IN_MONTH \in Nat /\ ONE \in Nat /\ DecayNum \in Nat
      /\ DecayDen \in Nat /\ DecayDen > 0 /\ DecayNum <= DecayDen /\ MaxSuccesses \in Nat
      /\ 2 * (MaxSuccesses * ONE * (DecayDen - DecayNum) + DAYS_IN_MONTH * DecayDen) <= ONE * DecayDen
  BY DecayAssumption, SuccessesAssumption
<1>1. p \in Profiles /\ f \in [Month -> Nat] /\ t \in Nat /\ t + 1 <= MaxSuccesses /\ held \in Nat
  BY <1>0 DEF Evident, Profiles
<1>2. q = [p EXCEPT !.payday_posterior = e, !.tenure_cycles = held + 1]
  BY <1>1 DEF update_payday, Profiles
<1>3. /\ e \in [Month -> Nat] /\ M \in Nat /\ M <= sum + ONE
      /\ (DecayNum * sum) + (ONE * DecayDen) <= (DecayDen * M) + (DAYS_IN_MONTH * DecayDen)
  BY <1>1, SumDecays
<1>4. sum = N
  BY DEF observations
<1>5. N \in Nat /\ N <= t * ONE /\ (t > 0 => 2 * N >= (t + 1) * ONE)
  BY DEF Evident
<1>6. ASSUME t = 0 PROVE M = ONE
  <2>1. \A d \in Month : f[d] = 0
    BY <1>6 DEF Evident
  <2>2. 0 \div DecayDen = 0 /\ 0 * DecayNum = 0
    BY <1>0
  <2>3. \A d \in Month : e[d] = 0 + IF d = day THEN ONE ELSE 0
    BY <2>1, <2>2
  <2>4. f \in [Month -> Int] /\ e \in [Month -> Int] /\ ONE \in Int /\ 0 \in Int
    BY <1>0, <1>1, <1>3
  <2> HIDE DEF e, f
  <2>5. \A d \in Month : e[d] = (0 * f[d]) + IF d = day THEN ONE ELSE 0
    BY <2>3, <2>4
  <2>6. OverMonth(e) = (0 * OverMonth(f)) + ONE
    BY <2>4, <2>5, SumIsLinear
  <2>7. OverMonth(f) \in Int
    BY <1>4, <1>5
  <2> QED
    BY <1>0, <2>6, <2>7
<1> HIDE DEF e, N, M, sum
<1>7. q \in Profiles /\ q.tenure_cycles = held + 1 /\ q.payday_posterior = e
      /\ q.declared_funding_day = p.declared_funding_day /\ q.declared_at = p.declared_at
  <2> DEFINE s == held + 1
             fund == p.declared_funding_day
             at == p.declared_at
             sent == p.messages_30d
             gone == p.consent_withdrawn
  <2>1. p = [payday_posterior |-> f, declared_funding_day |-> fund, declared_at |-> at,
             tenure_cycles |-> held, messages_30d |-> sent, consent_withdrawn |-> gone]
    BY <1>1 DEF Profiles
  <2>2. /\ fund \in Month \cup {Null} /\ at \in Int \cup {Null} /\ sent \in Nat
        /\ gone \in BOOLEAN /\ s \in Nat
    BY <1>1 DEF Profiles
  <2>3. q = [p EXCEPT !.payday_posterior = e, !.tenure_cycles = s]
    BY <1>2
  <2> HIDE DEF q, f, held, s, fund, at, sent, gone
  <2>4. q = [payday_posterior |-> e, declared_funding_day |-> fund, declared_at |-> at,
             tenure_cycles |-> s, messages_30d |-> sent, consent_withdrawn |-> gone]
    BY <2>1, <2>3
  <2>5. q \in Profiles
    BY <1>3, <2>2, <2>4 DEF Profiles
  <2>6. q.tenure_cycles = s /\ q.payday_posterior = e /\ q.declared_funding_day = fund
        /\ q.declared_at = at
    BY <2>4
  <2> QED
    BY <2>5, <2>6 DEF s, fund, at
<1>8. observations(q) = M
  BY <1>7 DEF observations, M
<1> HIDE DEF q, f, held
<1>9. M <= (t + 1) * ONE
  <2>1. (t + 1) * ONE = (t * ONE) + ONE /\ t * ONE \in Int
    BY <1>0, <1>1
  <2> QED
    BY <1>0, <1>3, <1>4, <1>5, <2>1
<1>10. 2 * M >= (t + 2) * ONE
  <2>1. CASE t = 0
    BY <1>0, <1>6, <2>1
  <2>2. CASE t > 0
    <3> DEFINE lost == DecayDen - DecayNum
    <3>1. lost \in Nat /\ DecayNum = DecayDen - lost
      BY <1>0
    <3> HIDE DEF lost
    <3>2. N * lost <= (MaxSuccesses * ONE) * lost
      <4>1. N <= MaxSuccesses * ONE
        <5>1. t * ONE <= MaxSuccesses * ONE
          BY <1>0, <1>1
        <5>2. t * ONE \in Int /\ MaxSuccesses * ONE \in Int
          BY <1>0, <1>1
        <5> QED
          BY <1>5, <5>1, <5>2
      <4> DEFINE most == MaxSuccesses * ONE
      <4>2. most \in Nat
        BY <1>0
      <4> HIDE DEF most
      <4>3. N * lost <= most * lost
        BY <1>5, <3>1, <4>1, <4>2 DEF most
      <4> QED
        BY <4>3 DEF most
    <3>3. 2 * ((MaxSuccesses * ONE) * lost + DAYS_IN_MONTH * DecayDen) <= ONE * DecayDen
      BY <1>0, <3>1 DEF lost
    <3> DEFINE a1 == N * lost
               a2 == (MaxSuccesses * ONE) * lost
               a3 == DAYS_IN_MONTH * DecayDen
               a4 == ONE * DecayDen
               a5 == DecayDen * N
               a6 == DecayDen * M
               a7 == (t + 1) * ONE
               a8 == DecayDen * a7
    <3>4. /\ a1 \in Int /\ a2 \in Int /\ a3 \in Int /\ a4 \in Int /\ a5 \in Int /\ a6 \in Int
          /\ a7 \in Int /\ a8 \in Int
      BY <1>0, <1>1, <1>3, <1>5, <3>1
    <3>5. DecayNum * N = a5 - a1
      BY <1>0, <1>5, <3>1
    <3>6. (a5 - a1) + a4 <= a6 + a3
      BY <1>3, <1>4, <3>5
    <3>7. a1 <= a2 /\ 2 * (a2 + a3) <= a4
      BY <3>2, <3>3
    <3>8. a8 <= 2 * a5
      <4>1. a7 <= 2 * N
        BY <1>5, <2>2
      <4> HIDE DEF a7
      <4>2. DecayDen * (2 * N - a7) >= 0
        BY <1>0, <1>5, <3>4, <4>1
      <4>3. DecayDen * (2 * N - a7) = 2 * (DecayDen * N) - (DecayDen * a7)
        BY <1>0, <1>5, <3>4
      <4> QED
        BY <3>4, <4>2, <4>3
    <3>9. (t + 2) * ONE = a7 + ONE
      BY <1>0, <1>1
    <3> HIDE DEF a1, a2, a3, a5
    <3>10. a8 + a4 <= 2 * a6
      <4> HIDE DEF a4, a6, a8
      <4> QED
        BY <3>4, <3>6, <3>7, <3>8
    <3>11. a7 + ONE <= 2 * M
      <4> HIDE DEF a7
      <4>1. SUFFICES ASSUME 2 * M + 1 <= a7 + ONE PROVE FALSE
        BY <1>0, <1>3, <3>4
      <4>2. DecayDen * ((a7 + ONE) - 2 * M) >= DecayDen
        <5> DEFINE k == (a7 + ONE) - 2 * M
        <5>1. k \in Int /\ k >= 1
          BY <1>0, <1>3, <3>4, <4>1
        <5> HIDE DEF k
        <5>2. DecayDen * k >= DecayDen
          BY <1>0, <5>1
        <5> QED
          BY <5>2 DEF k
      <4>3. DecayDen * ((a7 + ONE) - 2 * M) = ((DecayDen * a7) + (ONE * DecayDen)) - 2 * (DecayDen * M)
        BY <1>0, <1>3, <3>4
      <4> QED
        BY <1>0, <3>4, <3>10, <4>2, <4>3
    <3> QED
      BY <3>9, <3>11
  <2> QED
    BY <1>1, <2>1, <2>2
<1>11. t + 1 > 0 /\ (t + 1) + 1 = t + 2 /\ t + 1 # 0
  BY <1>1
<1> QED
  <2> DEFINE posterior == q.payday_posterior
             fund == q.declared_funding_day
  <2>1. q.declared_funding_day # Null => q.declared_at = 0
    BY <1>7 DEF Evident
  <2>2. t + 1 \in Nat /\ t + 1 <= MaxSuccesses /\ t + 1 # 0
    BY <1>1, <1>11
  <2>3. observations(q) \in Nat /\ observations(q) <= (t + 1) * ONE
    BY <1>3, <1>8, <1>9
  <2>4. 2 * observations(q) >= ((t + 1) + 1) * ONE
    BY <1>8, <1>10, <1>11
  <2>5. q \in Profiles
    BY <1>7
  <2>6. Evident(q, t + 1)
    BY <2>1, <2>2, <2>3, <2>4, <2>5 DEF Evident
  <2> QED
    BY <1>7, <2>6 DEF q, held

(* What a row keeps of a profile is as evident, though not its count.        *)
LEMMA RowIsEvident ==
    ASSUME NEW p, NEW t, Evident(p, t)
    PROVE  Evident(from_row(to_row(p)), t) /\ from_row(to_row(p)).tenure_cycles = 0
<1> DEFINE q == from_row(to_row(p))
<1>1. q = [payday_posterior |-> p.payday_posterior, declared_funding_day |-> p.declared_funding_day,
           declared_at |-> p.declared_at, tenure_cycles |-> 0, messages_30d |-> p.messages_30d,
           consent_withdrawn |-> p.consent_withdrawn]
  BY DEF from_row, to_row
<1>2. p \in Profiles
  BY DEF Evident
<1>3. q \in Profiles
  BY <1>1, <1>2 DEF Profiles
<1>4. /\ q.payday_posterior = p.payday_posterior /\ q.declared_at = p.declared_at
      /\ q.declared_funding_day = p.declared_funding_day /\ q.tenure_cycles = 0
  BY <1>1
<1> HIDE DEF q
<1>5. observations(q) = observations(p)
  BY <1>4 DEF observations
<1>6. Evident(q, t)
  BY <1>3, <1>4, <1>5 DEF Evident
<1> QED
  BY <1>4, <1>6 DEF q

(* Contacts, hints and withdrawals leave the evidence as it is.              *)
LEMMA OthersAreEvident ==
    ASSUME NEW p, NEW t, Evident(p, t)
    PROVE  /\ Evident(record_contact(p), t) /\ Evident(withdraw_consent(p), t)
           /\ \A day \in Month : Evident(record_declared_hint(p, day, 0), t)
           /\ record_contact(p).tenure_cycles = p.tenure_cycles
           /\ \A day \in Month : record_declared_hint(p, day, 0).tenure_cycles = p.tenure_cycles
<1> DEFINE f == p.payday_posterior
           held == p.tenure_cycles
           fund == p.declared_funding_day
           at == p.declared_at
           sent == p.messages_30d
           gone == p.consent_withdrawn
           row(d, a, n, w) == [payday_posterior |-> f, declared_funding_day |-> d, declared_at |-> a,
                               tenure_cycles |-> held, messages_30d |-> n, consent_withdrawn |-> w]
<1>1. p \in Profiles
  BY DEF Evident
<1>2. p = row(fund, at, sent, gone)
  BY <1>1 DEF Profiles
<1>3. /\ f \in [Month -> Nat] /\ fund \in Month \cup {Null} /\ at \in Int \cup {Null}
      /\ sent \in Nat /\ gone \in BOOLEAN /\ held \in Nat
  BY <1>1 DEF Profiles
<1>4. /\ t \in Nat /\ t <= MaxSuccesses
      /\ fund # Null => at = 0
      /\ t = 0 => \A d \in Month : f[d] = 0
      /\ OverMonth(f) \in Nat /\ OverMonth(f) <= t * ONE
      /\ t > 0 => 2 * OverMonth(f) >= (t + 1) * ONE
  BY DEF Evident, observations
<1> HIDE DEF f, held, fund, at, sent, gone
<1>5. ASSUME NEW d \in Month \cup {Null}, NEW a \in Int \cup {Null}, NEW n \in Nat, NEW w \in BOOLEAN,
             d # Null => a = 0
      PROVE  Evident(row(d, a, n, w), t) /\ row(d, a, n, w).tenure_cycles = held
  <2>1. /\ row(d, a, n, w).payday_posterior = f /\ row(d, a, n, w).tenure_cycles = held
        /\ row(d, a, n, w).declared_funding_day = d /\ row(d, a, n, w).declared_at = a
    OBVIOUS
  <2>2. row(d, a, n, w) \in Profiles
    BY <1>3 DEF Profiles
  <2> HIDE DEF row
  <2> QED
    BY <1>4, <1>5, <2>1, <2>2 DEF Evident, observations
<1>6. record_contact(p) = row(fund, at, sent + 1, gone)
  BY <1>2 DEF record_contact
<1> DEFINE yes == TRUE
<1>7a. yes \in BOOLEAN
  OBVIOUS
<1>7b. withdraw_consent(p) = [p EXCEPT !.consent_withdrawn = yes]
  BY DEF withdraw_consent
<1> HIDE DEF yes
<1>7. withdraw_consent(p) = row(fund, at, sent, yes)
  BY <1>2, <1>7b
<1>8. ASSUME NEW day \in Month PROVE record_declared_hint(p, day, 0) = row(day, 0, sent, gone)
  <2> DEFINE zero == 0
  <2>1. record_declared_hint(p, day, 0) = [p EXCEPT !.declared_funding_day = day, !.declared_at = zero]
    BY DEF record_declared_hint
  <2> HIDE DEF zero
  <2>2. record_declared_hint(p, day, 0) = row(day, zero, sent, gone)
    BY <1>2, <2>1
  <2> QED
    BY <2>2 DEF zero
<1> HIDE DEF row
<1>9. Evident(record_contact(p), t) /\ Evident(withdraw_consent(p), t)
      /\ record_contact(p).tenure_cycles = held
  <2>1. sent + 1 \in Nat
    BY <1>3
  <2>2. Evident(row(fund, at, sent + 1, gone), t) /\ row(fund, at, sent + 1, gone).tenure_cycles = held
    BY <1>3, <1>4, <1>5, <2>1
  <2>3. Evident(row(fund, at, sent, yes), t)
    BY <1>3, <1>4, <1>5, <1>7a
  <2> QED
    BY <1>6, <1>7, <2>2, <2>3
<1>10. ASSUME NEW day \in Month 
       PROVE  Evident(record_declared_hint(p, day, 0), t) /\ record_declared_hint(p, day, 0).tenure_cycles = held
  BY <1>3, <1>5, <1>8
<1> QED
  BY <1>9, <1>10 DEF held

(* Every profile is evident of the successes that are in it, saved or being  *)
(* updated.                                                                  *)
EvidenceInv ==
    /\ DOMAIN updating = Updates /\ DOMAIN folded = DOMAIN customer_profiles
    /\ \A ref \in DOMAIN customer_profiles : Evident(from_row(customer_profiles[ref]), folded[ref])
    /\ \A u \in Updates : updating[u] # Null =>
          /\ Evident(updating[u].profile, updating[u].folded)
          /\ updating[u].profile.tenure_cycles = 0

(* At first there is no profile,                                             *)
LEMMA EvidenceInitially == ConsentInit => EvidenceInv
<1> SUFFICES ASSUME ConsentInit PROVE EvidenceInv
  OBVIOUS
<1>1. DOMAIN customer_profiles = {} /\ DOMAIN folded = {} /\ updating = [u \in Updates |-> Null]
  BY DEF ConsentInit
<1> QED
  BY <1>1 DEF EvidenceInv

(* and every step saves, updates or erases evident ones.                     *)
LEMMA EvidenceStep == EvidenceInv /\ [ConsentNext]_cvars => EvidenceInv'
<1> SUFFICES ASSUME EvidenceInv, [ConsentNext]_cvars PROVE EvidenceInv'
  OBVIOUS
<1>0. /\ DOMAIN updating = Updates /\ DOMAIN folded = DOMAIN customer_profiles
      /\ \A ref \in DOMAIN customer_profiles : Evident(from_row(customer_profiles[ref]), folded[ref])
      /\ \A u \in Updates : updating[u] # Null =>
            /\ Evident(updating[u].profile, updating[u].folded)
            /\ updating[u].profile.tenure_cycles = 0
  BY DEF EvidenceInv
<1>1. ASSUME UNCHANGED <<customer_profiles, updating, folded>> PROVE EvidenceInv'
  BY <1>0, <1>1 DEF EvidenceInv
<1>2. ASSUME NEW u \in Updates, NEW c \in Customers, Load(u, c) PROVE EvidenceInv'
  <2> DEFINE read == load_or_empty(Raw(c))
             n == IF Raw(c) \in DOMAIN folded THEN folded[Raw(c)] ELSE 0
             row == [ref |-> Raw(c), profile |-> read, folded |-> n]
  <2>1. updating' = [updating EXCEPT ![u] = row] /\ UNCHANGED <<customer_profiles, folded>>
    BY <1>2 DEF Load
  <2>2. Evident(read, n) /\ read.tenure_cycles = 0
    <3>1. CASE Raw(c) \in DOMAIN customer_profiles
      <4>1. read = from_row(customer_profiles[Raw(c)]) /\ n = folded[Raw(c)]
        BY <1>0, <3>1 DEF load_or_empty
      <4>2. \A x : from_row(x).tenure_cycles = 0
        BY DEF from_row
      <4> QED
        BY <1>0, <3>1, <4>1, <4>2
    <3>2. CASE Raw(c) \notin DOMAIN customer_profiles
      <4>1. read = empty_profile /\ n = 0
        BY <1>0, <3>2 DEF load_or_empty
      <4>2. empty_profile.tenure_cycles = 0
        BY DEF empty_profile
      <4> QED
        BY <4>1, <4>2, EmptyIsEvident
    <3> QED
      BY <3>1, <3>2
  <2>3. row.profile = read /\ row.folded = n
    OBVIOUS
  <2> HIDE DEF read, n, row
  <2>4. \A v \in Updates : updating'[v] = IF v = u THEN row ELSE updating[v]
    BY <1>0, <2>1
  <2>5. \A v \in Updates : updating'[v] # Null =>
            /\ Evident(updating'[v].profile, updating'[v].folded)
            /\ updating'[v].profile.tenure_cycles = 0
    BY <1>0, <2>2, <2>3, <2>4
  <2> QED
    BY <1>0, <2>1, <2>5 DEF EvidenceInv
<1>3. ASSUME NEW u \in Updates, NEW p, NEW n, Evident(p, n),
             customer_profiles' = Upserted(customer_profiles, updating[u].ref, to_row(p)),
             folded' = Upserted(folded, updating[u].ref, n),
             updating' = [updating EXCEPT ![u] = Null]
      PROVE  EvidenceInv'
  <2> DEFINE key == updating[u].ref
             row == to_row(p)
  <2>1. Evident(from_row(row), n)
    BY <1>3, RowIsEvident
  <2> HIDE DEF key, row
  <2>2. /\ customer_profiles' = [k \in DOMAIN customer_profiles \cup {key} |->
                                   IF k = key THEN row ELSE customer_profiles[k]]
        /\ folded' = [k \in DOMAIN folded \cup {key} |-> IF k = key THEN n ELSE folded[k]]
    BY <1>3 DEF Upserted, key, row
  <2>3. /\ DOMAIN folded' = DOMAIN customer_profiles'
        /\ \A ref \in DOMAIN customer_profiles' :
              \/ customer_profiles'[ref] = row /\ folded'[ref] = n
              \/ /\ ref \in DOMAIN customer_profiles
                 /\ customer_profiles'[ref] = customer_profiles[ref] /\ folded'[ref] = folded[ref]
    BY <1>0, <2>2
  <2>4. \A ref \in DOMAIN customer_profiles' : Evident(from_row(customer_profiles'[ref]), folded'[ref])
    BY <1>0, <2>1, <2>3
  <2>5. \A v \in Updates : updating'[v] # Null => updating'[v] = updating[v]
    BY <1>0, <1>3
  <2> QED
    BY <1>0, <1>3, <2>3, <2>4, <2>5 DEF EvidenceInv
<1>4. ASSUME NEW u \in Updates, Save(u) PROVE EvidenceInv'
  <2> DEFINE was == updating[u].profile
             had == updating[u].folded
  <2>1. PICK p \in Updated(was, had) :
            /\ customer_profiles' = Upserted(customer_profiles, updating[u].ref, to_row(p))
            /\ folded' = Upserted(folded, updating[u].ref, had + p.tenure_cycles)
    BY <1>4 DEF Save
  <2>2. updating[u] # Null /\ updating' = [updating EXCEPT ![u] = Null]
    BY <1>4 DEF Save
  <2>3. Evident(was, had) /\ was.tenure_cycles = 0 /\ had \in Nat
    BY <1>0, <2>2 DEF Evident
  <2> HIDE DEF was, had
  <2>4. \/ p = record_contact(was)
        \/ \E d \in Month : had < MaxSuccesses /\ p = update_payday(was, d)
        \/ \E d \in Month : p = record_declared_hint(was, d, 0)
    BY <2>1 DEF Updated
  <2>5. Evident(p, had + p.tenure_cycles)
    <3>1. had + 0 = had
      BY <2>3
    <3>2. CASE \E d \in Month : had < MaxSuccesses /\ p = update_payday(was, d)
      <4>1. Evident(p, had + 1) /\ p.tenure_cycles = 0 + 1
        BY <2>3, <3>2, UpdatedIsEvident
      <4> QED
        BY <4>1
    <3>3. CASE p = record_contact(was) \/ \E d \in Month : p = record_declared_hint(was, d, 0)
      <4>1. Evident(p, had) /\ p.tenure_cycles = 0
        BY <2>3, <3>3, OthersAreEvident
      <4> QED
        BY <3>1, <4>1
    <3> QED
      BY <2>4, <3>2, <3>3
  <2> QED
    BY <1>3, <2>1, <2>2, <2>5
<1>5. ASSUME NEW u \in Updates, SaveWithdrawal(u) PROVE EvidenceInv'
  <2> DEFINE was == updating[u].profile
             had == updating[u].folded
  <2>1. /\ updating[u] # Null /\ updating' = [updating EXCEPT ![u] = Null]
        /\ customer_profiles' =
              Upserted(customer_profiles, updating[u].ref, to_row(withdraw_consent(was)))
        /\ folded' = Upserted(folded, updating[u].ref, had)
    BY <1>5 DEF SaveWithdrawal
  <2>2. Evident(was, had)
    BY <1>0, <2>1
  <2> HIDE DEF was, had
  <2>3. Evident(withdraw_consent(was), had)
    BY <2>2, OthersAreEvident
  <2> QED
    BY <1>3, <2>1, <2>3
<1>6. ASSUME NEW ref \in Ref, forget(ref) PROVE EvidenceInv'
  <2>1. /\ customer_profiles' = [r \in DOMAIN customer_profiles \ {ref} |-> customer_profiles[r]]
        /\ folded' = [r \in DOMAIN folded \ {ref} |-> folded[r]]
        /\ updating' = updating
    BY <1>6 DEF forget
  <2> QED
    BY <1>0, <2>1 DEF EvidenceInv
<1>7. CASE UNCHANGED cvars
  BY <1>1, <1>7 DEF cvars
<1>8. ASSUME NEW m \in Mandates,
             \/ fire_notice(m) \/ notice_gated(m) \/ notice_cleared(m) \/ notice_sent(m)
             \/ notice_dropped(m) \/ fire_debit(m) \/ \E c \in Customers : Enrol(m, c)
      PROVE  EvidenceInv'
  BY <1>1, <1>8 DEF fire_notice, notice_gated, notice_cleared, notice_sent, notice_dropped, fire_debit, Enrol
<1>9. ASSUME NEW r \in Replies, resolve(r) \/ \E c \in Customers : record_reply(r, c)
      PROVE  EvidenceInv'
  BY <1>1, <1>9 DEF resolve, record_reply
<1> QED
  BY <1>2, <1>4, <1>5, <1>6, <1>7, <1>8, <1>9 DEF ConsentNext

(* The share of a hint given at time 0: none when it is as old as it may be, *)
(* less than half once the evidence outweighs DEFAULT_KAPPA observations.    *)
LEMMA ShareIsBounded ==
    ASSUME NEW p, NEW n, Evident(p, n), p.declared_funding_day # Null,
           NEW age \in 0 .. DECLARED_TTL_DAYS
    PROVE  LET h == hint_share(p, age)
           IN  /\ h.num \in 0 .. h.den /\ h.den \in Nat
               /\ observations(p) > DEFAULT_KAPPA * ONE => 2 * h.num < h.den
               /\ age = DECLARED_TTL_DAYS => h.num = 0
<1> DEFINE N == observations(p)
           T == DECLARED_TTL_DAYS
           w == declared_weight(p, age)
           k == DEFAULT_KAPPA * ONE
           h == hint_share(p, age)
<1>0. /\ ONE \in Nat /\ ONE > 0 /\ DEFAULT_KAPPA \in Nat /\ DEFAULT_KAPPA > 0 /\ T \in Nat /\ T > 0
  BY DecayAssumption
<1>1. N \in Nat /\ p.declared_at = 0
  BY DEF Evident
<1>2. w \in Nat /\ w <= T /\ (age = T => w = 0)
  BY <1>0, <1>1 DEF declared_weight
<1>3. k \in Nat
  BY <1>0
<1>4. h.num = k * w /\ h.den = (N + k) * T
  BY DEF hint_share
<1> HIDE DEF N, T, w, k, h
<1>5. k * w \in Nat /\ k * T \in Nat /\ N * T \in Nat
  BY <1>0, <1>1, <1>2, <1>3
<1>6. k * w <= k * T
  BY <1>0, <1>2, <1>3
<1>7. (N + k) * T = (N * T) + (k * T)
  BY <1>0, <1>1, <1>3
<1>8. h.num \in 0 .. h.den /\ h.den \in Nat
  BY <1>4, <1>5, <1>6, <1>7
<1>9. ASSUME N > k PROVE 2 * h.num < h.den
  <2>1. N * T >= (k * T) + T
    <3>1. (N - (k + 1)) * T >= 0
      BY <1>0, <1>1, <1>3, <1>9
    <3>2. (N - (k + 1)) * T = (N * T) - ((k * T) + T)
      BY <1>0, <1>1, <1>3
    <3> QED
      BY <1>0, <1>5, <3>1, <3>2
  <2> QED
    BY <1>0, <1>4, <1>5, <1>6, <1>7, <2>1
<1>10. age = T => h.num = 0
  BY <1>2, <1>3, <1>4
<1> QED
  BY <1>8, <1>9, <1>10 DEF N, T, k, h

(* The chances of the days sum to one.                                       *)
LEMMA ChancesSumToOne ==
    ASSUME NEW p, NEW n, Evident(p, n), p.declared_funding_day # Null, observations(p) > 0, NEW day \in Month
    PROVE  LET q == [d \in Month |-> payday_probability(p, d, 1)]
           IN  OverMonth([e \in Month |-> q[e].num]) = q[day].den
<1> DEFINE f == p.payday_posterior
           N == observations(p)
           h == hint_share(p, 1)
           fund == p.declared_funding_day
           q == [d \in Month |-> payday_probability(p, d, 1)]
           E == [e \in Month |-> q[e].num]
           A == h.den - h.num
           B == h.num * N
<1>0. 1 \in 0 .. DECLARED_TTL_DAYS
  BY DecayAssumption
<1>1. f \in [Month -> Nat] /\ fund \in Month /\ N \in Nat /\ N = OverMonth(f) /\ N # 0
  BY DEF Evident, Profiles, observations
<1>2. h.num \in Nat /\ h.den \in Nat
  <2>1. h.num \in 0 .. h.den /\ h.den \in Nat
    BY <1>0, ShareIsBounded
  <2> HIDE DEF h
  <2> QED
    BY <2>1
<1>3. ASSUME NEW d \in Month
      PROVE  /\ payday_probability(p, d, 1).num = (A * f[d]) + IF d = fund THEN B ELSE 0
             /\ payday_probability(p, d, 1).den = h.den * N
  BY <1>1 DEF payday_probability
<1>4. \A d \in Month : q[d].num = (A * f[d]) + (IF d = fund THEN B ELSE 0) /\ q[d].den = h.den * N
  BY <1>3
<1> HIDE DEF q, h, f, fund, N
<1>5. A \in Int /\ B \in Int
  BY <1>1, <1>2
<1>6. \A d \in Month : E[d] = (A * f[d]) + IF d = fund THEN B ELSE 0
  BY <1>4
<1>7. E \in [Month -> Int]
  <2>1. \A d \in Month : E[d] \in Int
    <3> HIDE DEF E
    <3>1. \A d \in Month : A * f[d] \in Int
      BY <1>1, <1>5
    <3> QED
      BY <1>5, <1>6, <3>1
  <2> QED
    BY <2>1
<1>8. f \in [Month -> Int]
  BY <1>1
<1> HIDE DEF E
<1>9. OverMonth(E) = (A * N) + B
  <2> HIDE DEF A, B
  <2> QED
    BY <1>1, <1>5, <1>6, <1>7, <1>8, SumIsLinear
<1>10. (A * N) + B = h.den * N
  BY <1>1, <1>2
<1> QED
  BY <1>4, <1>9, <1>10 DEF E, q

(* Evidence compounds in every profile that any order of updates, lost ones  *)
(* and erasures included, can leave: for any month, decay, shrinkage and     *)
(* life of a hint, as long as SuccessesAssumption keeps the bound on         *)
(* successes short of where decay saturates.                                 *)
THEOREM EvidenceAlwaysCompounds == ConsentSpec => []EvidenceCompounds
<1>1. ASSUME EvidenceInv PROVE EvidenceCompounds
  <2> SUFFICES ASSUME NEW ref \in DOMAIN customer_profiles
      PROVE  LET p == from_row(customer_profiles[ref]) IN
        /\ folded[ref] > 0 => observations(p) >= ONE + ((folded[ref] - 1) * ONE) \div 2
        /\ p.declared_funding_day # Null => \A age \in Ages : LET h == hint_share(p, age) IN
              /\ h.num \in 0 .. h.den
              /\ observations(p) > DEFAULT_KAPPA * ONE => 2 * h.num < h.den
              /\ age = DECLARED_TTL_DAYS => h.num = 0
        /\ p.declared_funding_day # Null /\ observations(p) > 0 =>
              LET q == [d \in Month |-> payday_probability(p, d, 1)]
              IN  \A d \in Month : OverMonth([e \in Month |-> q[e].num]) = q[d].den
    BY DEF EvidenceCompounds
  <2> DEFINE p == from_row(customer_profiles[ref])
             t == folded[ref]
  <2>1. Evident(p, t)
    BY <1>1 DEF EvidenceInv
  <2> HIDE DEF p, t
  <2>2. ASSUME t > 0
        PROVE  observations(p) >= ONE + ((t - 1) * ONE) \div 2
    <3> DEFINE N == observations(p)
               a == (t - 1) * ONE
    <3>1. t \in Nat /\ N \in Nat /\ ONE \in Nat /\ 2 * N >= (t + 1) * ONE
      BY <2>1, <2>2, DecayAssumption DEF Evident, Profiles
    <3> HIDE DEF N
    <3>2. (t + 1) * ONE = a + (2 * ONE) /\ a \in Int
      BY <3>1
    <3> HIDE DEF a
    <3>3. N >= ONE + (a \div 2)
      BY <3>1, <3>2
    <3> QED
      BY <3>3 DEF N, a
  <2>3. Ages \subseteq 0 .. DECLARED_TTL_DAYS
    <3>1. DECLARED_TTL_DAYS \div 2 \in 0 .. DECLARED_TTL_DAYS
      BY DecayAssumption
    <3> QED
      BY <3>1, DecayAssumption DEF Ages
  <2>4. ASSUME p.declared_funding_day # Null, NEW age \in Ages
        PROVE  LET h == hint_share(p, age) IN
                  /\ h.num \in 0 .. h.den
                  /\ observations(p) > DEFAULT_KAPPA * ONE => 2 * h.num < h.den
                  /\ age = DECLARED_TTL_DAYS => h.num = 0
    <3>1. age \in 0 .. DECLARED_TTL_DAYS
      BY <2>3
    <3> QED
      BY <2>1, <2>4, <3>1, ShareIsBounded
  <2>5. ASSUME p.declared_funding_day # Null, observations(p) > 0, NEW d \in Month
        PROVE  LET q == [c \in Month |-> payday_probability(p, c, 1)]
               IN  OverMonth([e \in Month |-> q[e].num]) = q[d].den
    BY <2>1, <2>5, ChancesSumToOne
  <2> QED
    BY <2>2, <2>4, <2>5 DEF p, t
<1> QED
  BY <1>1, EvidenceInitially, EvidenceStep, PTL DEF ConsentSpec
=============================================================================
