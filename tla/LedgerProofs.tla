----------------------------- MODULE LedgerProofs -----------------------------
(* What the ledger guarantees for any number of transactions, any records   *)
(* and any length of the chain.                                             *)
EXTENDS Ledger, FiniteSetTheorems, WellFoundedInduction, TLAPS

-----------------------------------------------------------------------------
(* Rows and their order. *)

Numbered(S) == IsFiniteSet(S) /\ \A r \in S : r.seq \in Nat

(* Rows that are there have a newest one. *)
LEMMA NewestExists ==
    ASSUME NEW S, Numbered(S), S # {}
    PROVE  Newest(S) \in S /\ \A q \in S : q.seq <= Newest(S).seq
<1> DEFINE above(r) == {q \in S : r.seq <= q.seq}
           T == {above(r) : r \in S}
<1>1. T \in SUBSET SUBSET S /\ T # {}
  OBVIOUS
<1> HIDE DEF T
<1>2. IsWellFoundedOn(StrictSubsetOrdering(S), SUBSET S)
  BY FS_StrictSubsetOrderingWellFounded, FS_FiniteSubsetsOfFinite DEF Numbered
<1>3. PICK B \in T : \A A \in T : <<A, B>> \notin StrictSubsetOrdering(S)
  BY <1>1, <1>2, WFMin
<1>4. PICK r \in S : B = above(r)
  BY <1>3 DEF T
<1>5. ASSUME NEW q \in S, ~ (q.seq <= r.seq) PROVE FALSE
  <2>1. r.seq < q.seq /\ q.seq \in Nat /\ r.seq \in Nat
    BY <1>5 DEF Numbered
  <2>2. above(q) \subseteq above(r) /\ r \in above(r) /\ r \notin above(q)
    BY <2>1 DEF Numbered
  <2>3. above(q) \in T /\ above(q) \subseteq S /\ above(r) \subseteq S
    BY DEF T
  <2> QED
    BY <2>2, <2>3, <1>3, <1>4 DEF StrictSubsetOrdering
<1>6. \E x \in S : \A q \in S : q.seq <= x.seq
  BY <1>5
<1> QED
  BY <1>6 DEF Newest

(* The next row comes after every other and names the last one, if any. *)
LEMMA RowFollows ==
    ASSUME NEW S, Numbered(S), NEW d, NEW v
    PROVE  LET n == Sealed(NextSeq(S), HeadHash(S), d, v)
           IN /\ n.seq \in Nat
              /\ \A q \in S : q.seq < n.seq
              /\ IF n.seq = 0 THEN n.prev = GENESIS
                 ELSE \E q \in S : q.seq + 1 = n.seq /\ q.hash = n.prev
<1>1. CASE S = {}
  BY <1>1 DEF Sealed, NextSeq, HeadHash
<1>2. CASE S # {}
  <2>1. Newest(S) \in S /\ \A q \in S : q.seq <= Newest(S).seq
    BY <1>2, NewestExists
  <2>2. Newest(S).seq \in Nat /\ \A q \in S : q.seq \in Nat
    BY <2>1 DEF Numbered
  <2>3. NextSeq(S) = Newest(S).seq + 1 /\ HeadHash(S) = Newest(S).hash
    BY <1>2 DEF NextSeq, HeadHash
  <2> QED
    BY <2>1, <2>2, <2>3 DEF Sealed
<1> QED
  BY <1>1, <1>2

LEMMA AppendLinks ==
    ASSUME NEW S, Numbered(S), Linked(S), NEW d, NEW v
    PROVE  Linked(S \cup {Sealed(NextSeq(S), HeadHash(S), d, v)})
<1> DEFINE n == Sealed(NextSeq(S), HeadHash(S), d, v)
<1>1. /\ n.seq \in Nat
      /\ \A q \in S : q.seq < n.seq
      /\ IF n.seq = 0 THEN n.prev = GENESIS
         ELSE \E q \in S : q.seq + 1 = n.seq /\ q.hash = n.prev
  BY RowFollows
<1> HIDE DEF n
<1>2. \A q \in S : q.seq # n.seq
  BY <1>1 DEF Numbered
<1> DEFINE R == S \cup {n}
<1>3. ASSUME NEW x \in R, NEW y \in R, x.seq = y.seq PROVE x = y
  BY <1>2, <1>3 DEF Linked
<1>4. ASSUME NEW x \in R
      PROVE  IF x.seq = 0 THEN x.prev = GENESIS
             ELSE \E q \in R : q.seq + 1 = x.seq /\ q.hash = x.prev
  <2>1. CASE x = n
    BY <1>1, <2>1
  <2>2. CASE x \in S
    BY <2>2 DEF Linked
  <2> QED
    BY <2>1, <2>2
<1>5. Linked(R)
  BY <1>3, <1>4 DEF Linked
<1> QED
  BY <1>5 DEF n

(* A row that only says something else leaves the chain linked. *)
LEMMA RewriteLinks ==
    ASSUME NEW S, Linked(S), NEW r \in S, NEW n,
           n.seq = r.seq, n.prev = r.prev, n.hash = r.hash
    PROVE  Linked((S \ {r}) \cup {n})
<1> DEFINE R == (S \ {r}) \cup {n}
<1>1. ASSUME NEW x \in R, NEW y \in R, x.seq = y.seq PROVE x = y
  BY <1>1 DEF Linked
<1>2. ASSUME NEW x \in R
      PROVE  IF x.seq = 0 THEN x.prev = GENESIS
             ELSE \E q \in R : q.seq + 1 = x.seq /\ q.hash = x.prev
  <2>1. PICK y \in S : y.seq = x.seq /\ y.prev = x.prev
    BY <1>2
  <2>2. CASE y.seq = 0
    BY <2>1, <2>2 DEF Linked
  <2>3. CASE y.seq # 0
    <3>1. PICK q \in S : q.seq + 1 = y.seq /\ q.hash = y.prev
      BY <2>3 DEF Linked
    <3>2. \E p \in R : p.seq = q.seq /\ p.hash = q.hash
      BY <3>1
    <3> QED
      BY <2>1, <2>3, <3>1, <3>2
  <2> QED
    BY <2>2, <2>3
<1> QED
  BY <1>1, <1>2 DEF Linked

(* In a linked chain every row is what the verifier expects. *)
LEMMA ExpectedOfLinked ==
    ASSUME NEW S, Numbered(S), Linked(S), NEW r \in S
    PROVE  ~ Gap(r, S) /\ ~ BrokenLink(r, S)
<1> DEFINE E == Earlier(r, S)
<1>1. Twins(r, S) = {}
  BY DEF Twins, Linked
<1>2. CASE r.seq = 0
  <2>1. E = {}
    BY <1>2 DEF Earlier, Numbered
  <2>2. r.prev = GENESIS
    BY <1>2 DEF Linked
  <2> QED
    BY <1>1, <1>2, <2>1, <2>2 DEF Gap, BrokenLink, Expected, NextSeq, HeadHash
<1>3. CASE r.seq # 0
  <2>1. PICK q \in S : q.seq + 1 = r.seq /\ q.hash = r.prev
    BY <1>3 DEF Linked
  <2>2. q \in E /\ \A p \in E : p.seq <= q.seq
    BY <2>1 DEF Earlier, Numbered
  <2>3. Numbered(E)
    BY FS_Subset DEF Earlier, Numbered
  <2>4. Newest(E) \in E /\ q.seq <= Newest(E).seq
    BY <2>2, <2>3, NewestExists
  <2>5. Newest(E).seq = q.seq /\ Newest(E) \in S
    BY <2>2, <2>3, <2>4 DEF Earlier, Numbered
  <2>6. Newest(E) = q
    BY <2>5 DEF Linked
  <2>7. NextSeq(E) = r.seq /\ HeadHash(E) = r.prev
    BY <2>1, <2>2, <2>6 DEF NextSeq, HeadHash
  <2> QED
    BY <1>1, <2>7 DEF Gap, BrokenLink, Expected
<1> QED
  BY <1>2, <1>3

-----------------------------------------------------------------------------
(* Steps. *)

LEMMA TypedIsNumbered ==
    ASSUME NEW S, RowsTyped(S)
    PROVE  Numbered(S)
BY DEF RowsTyped, Numbered

LEMMA VisibleNumbered ==
    ASSUME LedgerTypeOK, NEW w \in Writers
    PROVE  Numbered(chain \cup pending[w])
BY FS_Union DEF LedgerTypeOK, RowsTyped, Numbered

LEMMA AppendStep ==
    ASSUME LedgerIInv, NEW w \in Writers, append(w)
    PROVE  LedgerIInv'
<1> DEFINE visible == chain \cup pending[w]
<1>1. PICK d \in Decisions, v \in Propensities :
        pending' = [pending EXCEPT ![w] =
                        @ \cup {Sealed(NextSeq(visible), HeadHash(visible), d, v)}]
  BY DEF append
<1> DEFINE n == Sealed(NextSeq(visible), HeadHash(visible), d, v)
<1>2. /\ \A u \in Writers : pending'[u] = IF u = w THEN pending[w] \cup {n} ELSE pending[u]
      /\ DOMAIN pending' = Writers
      /\ UNCHANGED <<chain, rewrites, removals>>
  BY <1>1 DEF append, LedgerIInv, LedgerTypeOK
<1>3. \A u \in Writers \ {w} : pending[u] = {}
  BY DEF append, Unlocked
<1>4. Numbered(visible)
  BY VisibleNumbered DEF LedgerIInv
<1>5. n.seq \in Nat /\ \A q \in visible : q.seq < n.seq
  BY <1>4, RowFollows
<1>6. /\ n = [seq |-> n.seq, prev |-> n.prev, decision |-> n.decision,
              propensity |-> n.propensity, hash |-> n.hash]
      /\ n.decision = d /\ n.propensity = Column(v)
      /\ n.hash = Body(n.seq, n.prev, d, v)
  BY DEF Sealed
<1>7. n.hash.decision = d /\ n.hash.propensity = v
  BY <1>6 DEF Body
<1>8. removals = 0 => Linked(visible \cup {n})
  BY <1>4, AppendLinks DEF LedgerIInv, ChainInv
<1> HIDE DEF n
<1>a. LedgerTypeOK'
  <2>1. RowsTyped(pending[w] \cup {n})
    BY <1>5, <1>6, FS_AddElement DEF LedgerIInv, LedgerTypeOK, RowsTyped
  <2> QED
    BY <1>2, <2>1 DEF LedgerIInv, LedgerTypeOK, RowsTyped
<1>b. SealInv'
  <2>1. ASSUME NEW r \in (chain \cup UNION {pending[u] : u \in Writers})'
        PROVE  r = n \/ r \in chain \cup UNION {pending[u] : u \in Writers}
    BY <1>2
  <2>2. /\ n.hash = Body(n.seq, n.prev, n.hash.decision, n.hash.propensity)
        /\ Exact => n.hash.propensity = n.propensity
        /\ n.hash.decision = n.decision
    BY <1>6, <1>7 DEF Exact
  <2> QED
    BY <1>2, <2>1, <2>2 DEF LedgerIInv, SealInv, Exact
<1>c. LockInv'
  BY <1>2, <1>3 DEF LockInv
<1>d. ChainInv'
  <2> SUFFICES ASSUME removals = 0
               PROVE  /\ Linked(chain)
                      /\ \A u \in Writers :
                          /\ Linked(chain \cup pending'[u])
                          /\ \A r \in chain, q \in pending'[u] : r.seq # q.seq
    BY <1>2 DEF ChainInv
  <2>1. Linked(chain)
    BY DEF LedgerIInv, ChainInv
  <2>2. chain \cup pending'[w] = visible \cup {n}
    BY <1>2
  <2>3. \A r \in chain : r.seq # n.seq
    BY <1>4, <1>5 DEF Numbered
  <2>4. \A u \in Writers : Linked(chain \cup pending'[u])
    BY <1>2, <1>8, <2>2 DEF LedgerIInv, ChainInv
  <2>5. \A u \in Writers : \A r \in chain, q \in pending'[u] : r.seq # q.seq
    BY <1>2, <2>3 DEF LedgerIInv, ChainInv
  <2> QED
    BY <2>1, <2>4, <2>5
<1> QED
  BY <1>a, <1>b, <1>c, <1>d DEF LedgerIInv

LEMMA EmptyTyped == RowsTyped({})
BY FS_EmptySet DEF RowsTyped

LEMMA CommitStep ==
    ASSUME LedgerIInv, NEW w \in Writers, Commit(w)
    PROVE  LedgerIInv'
<1>1. /\ \A u \in Writers : pending'[u] = {}
      /\ DOMAIN pending' = Writers
      /\ chain' = chain \cup pending[w]
      /\ UNCHANGED <<rewrites, removals>>
  BY DEF Commit, LedgerIInv, LedgerTypeOK, LockInv
<1>2. LedgerTypeOK'
  <2>1. RowsTyped(chain \cup pending[w])
    BY FS_Union DEF LedgerIInv, LedgerTypeOK, RowsTyped
  <2> QED
    BY <1>1, <2>1, EmptyTyped DEF LedgerIInv, LedgerTypeOK, RowsTyped
<1>3. SealInv'
  BY <1>1 DEF LedgerIInv, SealInv, Exact
<1>4. ChainInv'
  BY <1>1 DEF LedgerIInv, ChainInv, Linked
<1> QED
  BY <1>1, <1>2, <1>3, <1>4 DEF LedgerIInv, LockInv

LEMMA RollbackStep ==
    ASSUME LedgerIInv, NEW w \in Writers, Rollback(w)
    PROVE  LedgerIInv'
<1>1. /\ \A u \in Writers : pending'[u] = IF u = w THEN {} ELSE pending[u]
      /\ DOMAIN pending' = Writers
      /\ UNCHANGED <<chain, rewrites, removals>>
  BY DEF Rollback, LedgerIInv, LedgerTypeOK
<1>2. LedgerTypeOK'
  BY <1>1, EmptyTyped DEF LedgerIInv, LedgerTypeOK, RowsTyped
<1>3. SealInv'
  BY <1>1 DEF LedgerIInv, SealInv, Exact
<1>4. ChainInv'
  <2>1. chain \cup pending'[w] = chain
    BY <1>1
  <2> QED
    BY <1>1, <2>1 DEF LedgerIInv, ChainInv, Linked
<1>5. LockInv'
  BY <1>1 DEF LedgerIInv, LockInv
<1> QED
  BY <1>2, <1>3, <1>4, <1>5 DEF LedgerIInv

LEMMA RewriteStep ==
    ASSUME LedgerIInv, NEW r \in chain, Rewrite(r)
    PROVE  LedgerIInv'
<1>1. PICK d \in Decisions :
        chain' = (chain \ {r}) \cup {[r EXCEPT !.decision = d]}
  BY DEF Rewrite
<1> DEFINE n == [r EXCEPT !.decision = d]
<1>2. r = [seq |-> r.seq, prev |-> r.prev, decision |-> r.decision,
           propensity |-> r.propensity, hash |-> r.hash]
  BY DEF LedgerIInv, LedgerTypeOK, RowsTyped
<1>3. n = [seq |-> r.seq, prev |-> r.prev, decision |-> d,
           propensity |-> r.propensity, hash |-> r.hash]
  BY <1>2
<1>4. /\ n.seq = r.seq /\ n.prev = r.prev /\ n.decision = d
      /\ n.propensity = r.propensity /\ n.hash = r.hash
  BY <1>3
<1>5. /\ chain' = (chain \ {r}) \cup {n}
      /\ UNCHANGED <<pending, removals>>
      /\ rewrites' = rewrites + 1 /\ rewrites \in Nat
      /\ rewrites' \in 0 .. MaxRewrites
  BY <1>1, BoundsAssumption DEF Rewrite, LedgerIInv, LedgerTypeOK
<1> HIDE DEF n
<1>6. LedgerTypeOK'
  <2>1. IsFiniteSet((chain \ {r}) \cup {n})
    BY FS_RemoveElement, FS_AddElement DEF LedgerIInv, LedgerTypeOK, RowsTyped
  <2>2. n = [seq |-> n.seq, prev |-> n.prev, decision |-> n.decision,
             propensity |-> n.propensity, hash |-> n.hash]
    BY <1>3, <1>4
  <2>3. RowsTyped((chain \ {r}) \cup {n})
    BY <1>4, <2>1, <2>2 DEF LedgerIInv, LedgerTypeOK, RowsTyped
  <2> QED
    BY <1>5, <2>3 DEF LedgerIInv, LedgerTypeOK, RowsTyped
<1>7. SealInv'
  <2>1. rewrites' # 0
    BY <1>5
  <2> QED
    BY <1>4, <1>5, <2>1 DEF LedgerIInv, SealInv, Exact
<1>8. LockInv'
  BY <1>5 DEF LedgerIInv, LockInv
<1>9. ChainInv'
  <2> SUFFICES ASSUME removals = 0
               PROVE  /\ Linked(chain')
                      /\ \A w \in Writers :
                          /\ Linked(chain' \cup pending[w])
                          /\ \A x \in chain', q \in pending[w] : x.seq # q.seq
    BY <1>5 DEF ChainInv
  <2>1. Linked(chain')
    BY <1>4, <1>5, RewriteLinks DEF LedgerIInv, ChainInv
  <2>2. ASSUME NEW w \in Writers
        PROVE  Linked(chain' \cup pending[w])
    <3>1. chain' \cup pending[w] = ((chain \cup pending[w]) \ {r}) \cup {n}
      BY <1>5 DEF LedgerIInv, ChainInv
    <3>2. Linked(chain \cup pending[w])
      BY DEF LedgerIInv, ChainInv
    <3> QED
      BY <1>4, <3>1, <3>2, RewriteLinks
  <2>3. \A w \in Writers : \A x \in chain', q \in pending[w] : x.seq # q.seq
    BY <1>4, <1>5 DEF LedgerIInv, ChainInv
  <2> QED
    BY <2>1, <2>2, <2>3
<1> QED
  BY <1>6, <1>7, <1>8, <1>9 DEF LedgerIInv

LEMMA RemoveStep ==
    ASSUME LedgerIInv, NEW r \in chain, Remove(r)
    PROVE  LedgerIInv'
<1>1. /\ chain' = chain \ {r}
      /\ UNCHANGED <<pending, rewrites>>
      /\ removals' \in 0 .. MaxRemovals /\ removals' # 0
  BY BoundsAssumption DEF Remove, LedgerIInv, LedgerTypeOK
<1>2. LedgerTypeOK'
  <2>1. RowsTyped(chain \ {r})
    BY FS_RemoveElement DEF LedgerIInv, LedgerTypeOK, RowsTyped
  <2> QED
    BY <1>1, <2>1 DEF LedgerIInv, LedgerTypeOK, RowsTyped
<1>3. SealInv'
  BY <1>1 DEF LedgerIInv, SealInv, Exact
<1> QED
  BY <1>1, <1>2, <1>3 DEF LedgerIInv, LockInv, ChainInv

LEMMA InitIInv == LedgerInit => LedgerIInv
<1> SUFFICES ASSUME LedgerInit PROVE LedgerIInv
  OBVIOUS
<1>1. LedgerTypeOK
  BY EmptyTyped, BoundsAssumption DEF LedgerInit, LedgerTypeOK
<1> QED
  BY <1>1 DEF LedgerInit, LedgerIInv, SealInv, LockInv, ChainInv, Linked

LEMMA NextIInv == LedgerIInv /\ [LedgerNext]_lvars => LedgerIInv'
<1> SUFFICES ASSUME LedgerIInv, [LedgerNext]_lvars PROVE LedgerIInv'
  OBVIOUS
<1>1. CASE UNCHANGED lvars
  BY <1>1 DEF lvars, LedgerIInv, LedgerTypeOK, RowsTyped, SealInv, LockInv, ChainInv, Linked, Exact
<1>2. CASE LedgerNext
  BY <1>2, AppendStep, CommitStep, RollbackStep, RewriteStep, RemoveStep DEF LedgerNext
<1> QED
  BY <1>1, <1>2

-----------------------------------------------------------------------------
(* Theorems. *)

(* Open transactions and committed rows always form one chain, each row     *)
(* hashed as it is stored but for what a rewrite changed.                   *)
THEOREM Invariant == LedgerSpec => []LedgerIInv
BY InitIInv, NextIInv, PTL DEF LedgerSpec

(* Every variable stays in its type. *)
THEOREM TypeCorrect == LedgerSpec => []LedgerTypeOK
<1>1. LedgerIInv => LedgerTypeOK
  BY DEF LedgerIInv
<1> QED
  BY <1>1, Invariant, PTL

(* If the column holds every propensity exactly, a rewritten row is one     *)
(* break of the verifier, at that row, and there is no other.               *)
THEOREM OneBreakPerRewrite == Exact => (LedgerSpec => []DamageIsLocated)
<1> SUFFICES ASSUME Exact PROVE LedgerSpec => []DamageIsLocated
  OBVIOUS
<1>1. ASSUME LedgerIInv PROVE DamageIsLocated
  <2> SUFFICES ASSUME removals = 0
               PROVE  verify_chain(chain) =
                        {<<r.seq, "hash mismatch">> :
                            r \in {q \in chain : q.decision # q.hash.decision}}
    BY DEF DamageIsLocated
  <2>1. Numbered(chain) /\ Linked(chain)
    BY <1>1, TypedIsNumbered DEF LedgerIInv, LedgerTypeOK, ChainInv
  <2>2. \A r \in chain : ~ Gap(r, chain) /\ ~ BrokenLink(r, chain)
    BY <2>1, ExpectedOfLinked
  <2>3. ASSUME NEW r \in chain
        PROVE  Mismatch(r) <=> r.decision # r.hash.decision
    <3>1. r.hash = Body(r.seq, r.prev, r.hash.decision, r.propensity)
      BY <1>1 DEF LedgerIInv, SealInv
    <3>2. compute_hash(r) = Body(r.seq, r.prev, r.decision, r.propensity)
      BY DEF compute_hash
    <3>3. compute_hash(r).decision = r.decision
      BY <3>2 DEF Body
    <3> QED
      BY <3>1, <3>2, <3>3 DEF Mismatch
  <2> QED
    BY <2>2, <2>3 DEF verify_chain
<1> QED
  BY <1>1, Invariant, PTL

(* Then a chain that nobody damaged verifies, whatever appends interleave   *)
(* and roll back.                                                           *)
THEOREM HonestChainVerifies == Exact => (LedgerSpec => []VerifiesAfterAppends)
<1> SUFFICES ASSUME Exact PROVE LedgerSpec => []VerifiesAfterAppends
  OBVIOUS
<1>1. ASSUME LedgerIInv, DamageIsLocated PROVE VerifiesAfterAppends
  <2> SUFFICES ASSUME rewrites + removals = 0 PROVE verify_chain(chain) = {}
    BY DEF VerifiesAfterAppends
  <2>1. rewrites = 0 /\ removals = 0
    BY <1>1, BoundsAssumption DEF LedgerIInv, LedgerTypeOK
  <2>2. \A r \in chain : r.decision = r.hash.decision
    BY <1>1, <2>1 DEF LedgerIInv, SealInv
  <2> QED
    BY <1>1, <2>1, <2>2 DEF DamageIsLocated
<1> QED
  BY <1>1, Invariant, OneBreakPerRewrite, PTL

(* A row whose predecessor is gone is always reported.                      *)
THEOREM MissingRowsAreFound == LedgerSpec => []OrphansAreFound
<1>1. ASSUME LedgerIInv, NEW r \in chain, r.prev # GENESIS,
             \A q \in chain : q.hash # r.prev
      PROVE  BrokenLink(r, chain)
  <2> DEFINE E == Earlier(r, chain)
  <2>1. CASE E = {}
    BY <1>1, <2>1 DEF BrokenLink, Expected, HeadHash
  <2>2. CASE E # {}
    <3>1. Numbered(E)
      BY <1>1, FS_Subset DEF LedgerIInv, LedgerTypeOK, RowsTyped, Earlier, Numbered
    <3>2. Newest(E) \in chain
      BY <2>2, <3>1, NewestExists DEF Earlier
    <3> QED
      BY <1>1, <2>2, <3>2 DEF BrokenLink, Expected, HeadHash
  <2> QED
    BY <2>1, <2>2
<1>2. LedgerIInv => OrphansAreFound
  BY <1>1 DEF OrphansAreFound, verify_chain
<1> QED
  BY <1>2, Invariant, PTL

=============================================================================
