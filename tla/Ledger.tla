-------------------------------- MODULE Ledger --------------------------------
(***************************************************************************)
(* The decision ledger of one tenant: a hash chain that any transaction of *)
(* the executor, the notices and the planner appends to, and that a        *)
(* verifier walks.                                                         *)
(*                                                                         *)
(* A transaction takes the tenant's advisory lock at its first append and  *)
(* keeps it to its end; its rows are its own until it commits.  Verifying  *)
(* is one SELECT, so what it sees is some state of the table.              *)
(*                                                                         *)
(* The table has no other writer.  Rewrite and Remove are what the owner   *)
(* role, or a restore, does to it behind the application's back: the       *)
(* damage that the chain is there to show.                                 *)
(*                                                                         *)
(* A hash is the record that was hashed: no two records share one.         *)
(***************************************************************************)
EXTENDS Naturals, FiniteSets

CONSTANTS
    Writers,        \* transactions that append
    Decisions,      \* what a record says
    Propensities,   \* as the writer has them, in units finer than the column's
    Scale,          \* how many of these units the column's last place is
    GENESIS,        \* prev_hash of the first record
    MaxLength,      \* bound: records of the chain
    MaxRewrites, MaxRemovals    \* bounds: damage in a behaviour

ASSUME BoundsAssumption ==
    /\ Propensities \subseteq Nat
    /\ Scale \in Nat \ {0}
    /\ MaxLength \in Nat /\ MaxRewrites \in Nat /\ MaxRemovals \in Nat

VARIABLES
    chain,      \* the committed rows of decisions
    pending,    \* the rows of each open transaction
    rewrites, removals

lvars == <<chain, pending, rewrites, removals>>

-----------------------------------------------------------------------------
(* NUMERIC(6,5) rounds what is written to it, halves up.                    *)
Column(v) == ((v + Scale \div 2) \div Scale) * Scale

(* What a row is hashed over: HASHED_FIELDS, in the form _normalise gives   *)
(* them, which reads a NUMERIC back as the number that was stored.          *)
Body(seq, prev, d, v) == [seq |-> seq, prev |-> prev, decision |-> d, propensity |-> v]

compute_hash(r) == Body(r.seq, r.prev, r.decision, r.propensity)

(* The row that comes after head: hashed as given, stored as the column     *)
(* has it.                                                                  *)
Sealed(seq, prev, d, v) ==
    [seq |-> seq, prev |-> prev, decision |-> d, propensity |-> Column(v),
     hash |-> Body(seq, prev, d, v)]

Newest(S) == CHOOSE r \in S : \A q \in S : q.seq <= r.seq

NextSeq(S) == IF S = {} THEN 0 ELSE Newest(S).seq + 1
HeadHash(S) == IF S = {} THEN GENESIS ELSE Newest(S).hash

(* What verify_chain expects of a row is what the stored row before it      *)
(* says.                                                                    *)
Earlier(r, S) == {q \in S : q.seq < r.seq}
Twins(r, S) == {q \in S \ {r} : q.seq = r.seq}

(* Mutant: the walk starts from the first row there is.                     *)
Expected_FirstTrusted(r, S) ==
    IF Earlier(r, S) = {} THEN [seq |-> r.seq, prev |-> r.prev]
    ELSE [seq |-> NextSeq(Earlier(r, S)), prev |-> HeadHash(Earlier(r, S))]

(* Mutant: the walk goes on from what it recomputed.                        *)
Expected_Recomputed(r, S) ==
    [seq |-> NextSeq(Earlier(r, S)),
     prev |-> IF Earlier(r, S) = {} THEN GENESIS
              ELSE compute_hash(Newest(Earlier(r, S)))]

Expected(r, S) == [seq |-> NextSeq(Earlier(r, S)), prev |-> HeadHash(Earlier(r, S))]

Gap(r, S) == r.seq # Expected(r, S).seq \/ Twins(r, S) # {}
BrokenLink(r, S) == r.prev # Expected(r, S).prev \/ Twins(r, S) # {}
Mismatch(r) == compute_hash(r) # r.hash

verify_chain(S) ==
    {<<r.seq, "sequence gap">> : r \in {q \in S : Gap(q, S)}}
    \cup {<<r.seq, "broken link">> : r \in {q \in S : BrokenLink(q, S)}}
    \cup {<<r.seq, "hash mismatch">> : r \in {q \in S : Mismatch(q)}}

-----------------------------------------------------------------------------
RowsTyped(S) ==
    /\ IsFiniteSet(S)
    /\ \A r \in S :
        /\ r = [seq |-> r.seq, prev |-> r.prev, decision |-> r.decision,
                propensity |-> r.propensity, hash |-> r.hash]
        /\ r.seq \in Nat
        /\ r.decision \in Decisions
        /\ r.propensity \in {Column(v) : v \in Propensities}

LedgerTypeOK ==
    /\ RowsTyped(chain)
    /\ DOMAIN pending = Writers
    /\ \A w \in Writers : RowsTyped(pending[w])
    /\ rewrites \in 0 .. MaxRewrites
    /\ removals \in 0 .. MaxRemovals

LedgerInit ==
    /\ chain = {}
    /\ pending = [w \in Writers |-> {}]
    /\ rewrites = 0
    /\ removals = 0

(* Mutant: no advisory lock.                                                *)
Unlocked_NoLock(w) == TRUE

(* pg_advisory_xact_lock: no other open transaction has appended.           *)
Unlocked(w) == \A v \in Writers \ {w} : pending[v] = {}

(* The head is read after the lock is taken, in a statement of its own.     *)
append(w) ==
    /\ Unlocked(w)
    /\ Cardinality(chain \cup pending[w]) < MaxLength
    /\ LET visible == chain \cup pending[w]
       IN \E d \in Decisions, v \in Propensities :
            pending' = [pending EXCEPT ![w] =
                            @ \cup {Sealed(NextSeq(visible), HeadHash(visible), d, v)}]
    /\ UNCHANGED <<chain, rewrites, removals>>

Commit(w) ==
    /\ pending[w] # {}
    /\ chain' = chain \cup pending[w]
    /\ pending' = [pending EXCEPT ![w] = {}]
    /\ UNCHANGED <<rewrites, removals>>

(* Whatever else the transaction does fails, or its process dies.           *)
Rollback(w) ==
    /\ pending[w] # {}
    /\ pending' = [pending EXCEPT ![w] = {}]
    /\ UNCHANGED <<chain, rewrites, removals>>

(* A committed row is made to say something else.                           *)
Rewrite(r) ==
    /\ rewrites < MaxRewrites
    /\ \E d \in Decisions \ {r.decision} :
        chain' = (chain \ {r}) \cup {[r EXCEPT !.decision = d]}
    /\ rewrites' = rewrites + 1
    /\ UNCHANGED <<pending, removals>>

Remove(r) ==
    /\ removals < MaxRemovals
    /\ chain' = chain \ {r}
    /\ removals' = removals + 1
    /\ UNCHANGED <<pending, rewrites>>

LedgerNext ==
    \/ \E w \in Writers : append(w) \/ Commit(w) \/ Rollback(w)
    \/ \E r \in chain : Rewrite(r) \/ Remove(r)

LedgerSpec == LedgerInit /\ [][LedgerNext]_lvars

-----------------------------------------------------------------------------
(* LLD:1240: the chain verifies after any sequence of appends, whoever they *)
(* interleave with and whichever of them roll back.                         *)
VerifiesAfterAppends == rewrites + removals = 0 => verify_chain(chain) = {}

(* test_one_tampered_record_reports_one_break_not_a_cascade: a rewritten    *)
(* row is one break, at that row, whatever is appended to it later and      *)
(* however many there are.                                                  *)
DamageIsLocated ==
    removals = 0 =>
        verify_chain(chain) =
            {<<r.seq, "hash mismatch">> :
                r \in {q \in chain : q.decision # q.hash.decision}}

(* A row is never taken out from under another unnoticed, even when an      *)
(* open transaction was about to build on it and commits afterwards.        *)
OrphansAreFound ==
    \A r \in chain :
        r.prev # GENESIS /\ (\A q \in chain : q.hash # r.prev)
            => \E reason \in {"sequence gap", "broken link"} :
                  <<r.seq, reason>> \in verify_chain(chain)

(* Why they hold: at most one transaction has rows of its own, and with the *)
(* committed ones they form one chain, each row hashed as it is stored but  *)
(* for what a rewrite changed.                                              *)
Exact == \A v \in Propensities : Column(v) = v

Linked(S) ==
    /\ \A r, q \in S : r.seq = q.seq => r = q
    /\ \A r \in S :
        IF r.seq = 0 THEN r.prev = GENESIS
        ELSE \E q \in S : q.seq + 1 = r.seq /\ q.hash = r.prev

SealInv ==
    \A r \in chain \cup UNION {pending[w] : w \in Writers} :
        /\ r.hash = Body(r.seq, r.prev, r.hash.decision, r.hash.propensity)
        /\ Exact => r.hash.propensity = r.propensity
        /\ rewrites = 0 => r.hash.decision = r.decision

LockInv == \A v, w \in Writers : pending[v] # {} /\ pending[w] # {} => v = w

ChainInv ==
    removals = 0 =>
        /\ Linked(chain)
        /\ \A w \in Writers :
            /\ Linked(chain \cup pending[w])
            /\ \A r \in chain, q \in pending[w] : r.seq # q.seq

LedgerIInv == LedgerTypeOK /\ SealInv /\ LockInv /\ ChainInv

=============================================================================
