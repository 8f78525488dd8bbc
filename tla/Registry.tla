------------------------------ MODULE Registry ------------------------------
(***************************************************************************)
(* models/registry.py: fitted models, the pin that says which one answers  *)
(* at each decision point, the history of pins, and the stamp a decision   *)
(* records.  A version's id is its content: the hash of its point, kind,   *)
(* parameters, columns and training data is the record of them, so the     *)
(* refusal of one id with two contents (a collision) never arises.         *)
(***************************************************************************)
EXTENDS Integers, Sequences, FiniteSets

CONSTANTS Points,                   \* DECISION_POINTS
          Fits,                     \* records [point, kind, training, fitted]
          Heuristic, None, Unknown,
          MaxHistory, MaxStamps     \* bounds

VARIABLES versions,                 \* the fits on record, one for each id
          pins,                     \* point -> id, or None
          history,                  \* entries [point, from, to]
          stamps,                   \* what callers recorded, and after which entry
          before                    \* ghost: what a promotion displaced, else Unknown
rvars == <<versions, pins, history, stamps, before>>

version_id(v) == [point |-> v.point, kind |-> v.kind, training |-> v.training]
Ids == {version_id(v) : v \in Fits}

(* A version is fitted for a decision point; no id is one of the markers.    *)
ASSUME FitsAssumption == \A v \in Fits : v.point \in Points
ASSUME MarkAssumption == {None, Unknown} \cap Ids = {} /\ None # Unknown

Known(id) == \E v \in versions : version_id(v) = id

RegistryInit ==
    /\ versions = {}
    /\ pins = [p \in Points |-> None]
    /\ history = <<>>
    /\ stamps = <<>>
    /\ before = [p \in Points |-> Unknown]

(* The same model fitted again replaces the record and not the id.           *)
register(v) ==
    /\ versions' = {w \in versions : version_id(w) # version_id(v)} \cup {v}
    /\ UNCHANGED <<pins, history, stamps, before>>

Pinned(id) ==
    /\ pins' = [pins EXCEPT ![id.point] = id]
    /\ history' = Append(history, [point |-> id.point, from |-> pins[id.point], to |-> id])

promote(id) ==
    /\ Known(id)
    /\ Len(history) < MaxHistory
    /\ Pinned(id)
    /\ before' = [before EXCEPT ![id.point] = pins[id.point]]
    /\ UNCHANGED <<versions, stamps>>

(* The entries of p that displaced a model; the last one says what to serve. *)
Displaced_AnyPoint(h, p) == {i \in DOMAIN h : h[i].from # None}
Displaced(h, p) == {i \in DOMAIN h : h[i].point = p /\ h[i].from # None}

Latest(h, entries) == h[CHOOSE i \in entries : \A j \in entries : j <= i]

rollback_Unrecorded(p) ==
    /\ Len(history) < MaxHistory
    /\ IF Displaced(history, p) = {}
       THEN /\ pins' = [pins EXCEPT ![p] = None]
            /\ UNCHANGED history
       ELSE Pinned(Latest(history, Displaced(history, p)).from)
    /\ before' = [before EXCEPT ![p] = Unknown]
    /\ UNCHANGED <<versions, stamps>>

rollback(p) ==
    /\ Len(history) < MaxHistory
    /\ IF Displaced(history, p) = {}
       THEN /\ pins' = [pins EXCEPT ![p] = None]
            /\ history' = Append(history, [point |-> p, from |-> None, to |-> None])
       ELSE Pinned(Latest(history, Displaced(history, p)).from)
    /\ before' = [before EXCEPT ![p] = Unknown]
    /\ UNCHANGED <<versions, stamps>>

serving(p) == pins[p]

stamp_all == [p \in Points |-> IF serving(p) = None THEN Heuristic ELSE serving(p)]

(* A caller takes a stamp.                                                   *)
TakeStamp ==
    /\ Len(stamps) < MaxStamps
    /\ stamps' = Append(stamps, [says |-> stamp_all, after |-> Len(history)])
    /\ UNCHANGED <<versions, pins, history, before>>

RegistryNext ==
    \/ \E v \in Fits : register(v)
    \/ \E id \in Ids : promote(id)
    \/ \E p \in Points : rollback(p)
    \/ TakeStamp

RegistrySpec == RegistryInit /\ [][RegistryNext]_rvars

-----------------------------------------------------------------------------
Entries == [point : Points, from : Ids \cup {None}, to : Ids \cup {None}]
StampRecords == [says : [Points -> Ids \cup {Heuristic}], after : Nat]

RegistryTypeOK ==
    /\ versions \subseteq Fits
    /\ pins \in [Points -> Ids \cup {None}]
    /\ history \in Seq(Entries)
    /\ stamps \in Seq(StampRecords)
    /\ before \in [Points -> Ids \cup {None, Unknown}]

(* What served at p after the first n entries, from the history alone.      *)
ServedAfter(h, p, n) ==
    LET of_p == {i \in 1 .. n : h[i].point = p}
    IN  IF of_p = {} THEN None ELSE Latest(h, of_p).to

(* A decision can be reconstructed: the history alone tells which version,  *)
(* or the heuristic, every stamp must name, and the version is on record;   *)
(* and it tells what serves now.                                            *)
StampsReconstruct ==
    /\ \A i \in DOMAIN stamps, p \in Points :
        LET served == ServedAfter(history, p, stamps[i].after)
        IN  /\ stamps[i].says[p] = (IF served = None THEN Heuristic ELSE served)
            /\ served # None => Known(served) /\ served.point = p
    /\ \A p \in Points : pins[p] = ServedAfter(history, p, Len(history))

(* Rolling back right after a promotion restores exactly what the promotion *)
(* displaced at that point, a model or nothing, whatever was promoted or    *)
(* rolled back before it and at the other points.                           *)
RollbackUndoes ==
    [][\A p \in Points : rollback(p) /\ before[p] # Unknown => pins'[p] = before[p]]_rvars

(* The inductive invariant behind both: what the history names is on record  *)
(* and of its entry's point, no stamp is older than its entries, and the     *)
(* history still holds what the last promotion of a point displaced.         *)
EntriesKnown ==
    \A i \in DOMAIN history : \A id \in {history[i].from, history[i].to} \ {None} :
        Known(id) /\ id.point = history[i].point

DisplacedKept ==
    \A p \in Points :
        /\ pins[p] = None => Displaced(history, p) = {}
        /\ before[p] = None => Displaced(history, p) = {}
        /\ before[p] \in Ids =>
              /\ Displaced(history, p) # {}
              /\ Latest(history, Displaced(history, p)).from = before[p]

RegistryInv == /\ RegistryTypeOK
               /\ EntriesKnown
               /\ DisplacedKept
               /\ \A i \in DOMAIN stamps : stamps[i].after <= Len(history)
               /\ StampsReconstruct
=============================================================================
