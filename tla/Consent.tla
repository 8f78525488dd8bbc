------------------------------ MODULE Consent ------------------------------
(***************************************************************************)
(* Consent, its withdrawal and erasure: profiles, mandates, suppressions   *)
(* and replies of one tenant's customers, and what the notice and the      *)
(* debit read of them.                                                     *)
(*                                                                         *)
(* A reference is a customer and the number of times it was hashed: 0 is   *)
(* the raw id.  A profile is updated by a read and a write of the whole    *)
(* row, in one transaction that locks nothing.                             *)
(***************************************************************************)
EXTENDS Profile

CONSTANTS
    Customers, Mandates, Replies,
    Updates,            \* open updates of profiles at a time
    FatigueCap,         \* tenants.config: fatigue_cap
    MaxSuccesses,       \* bound: successes folded into one row's evidence
    MaxErasures         \* bound: runs of forget

Ref == Customers \X (0 .. MaxErasures - 1)
Raw(c) == <<c, 0>>
pseudonymise(ref) == <<ref[1], ref[2] + 1>>
is_pseudonym(ref) == ref[2] > 0

ASSUME NullAssumption == Null \notin Customers /\ Null \notin Customers \X Nat
ASSUME ErasuresAssumption == MaxErasures \in Nat

(* So few successes that what decay takes in one of them, with what each day *)
(* is rounded down by, is at most half an observation: evidence has not yet  *)
(* begun to saturate.                                                        *)
ASSUME SuccessesAssumption ==
    /\ MaxSuccesses \in Nat
    /\ 2 * (MaxSuccesses * ONE * (DecayDen - DecayNum) + DAYS_IN_MONTH * DecayDen) <= ONE * DecayDen

(* INSERT ... ON CONFLICT DO UPDATE.                                         *)
Upserted(rows, key, row) == [k \in DOMAIN rows \cup {key} |-> IF k = key THEN row ELSE rows[k]]

VARIABLES
    customer_profiles,      \* rows by reference
    mandates,               \* the reference of an enrolled mandate, or Null
    contact_suppressions,   \* references
    inbound_replies,        \* rows by reply: [ref, words, needs_human, resolved, rejected]
    pdn_sent,               \* mandates whose cycle has had its notice
    updating,               \* an update's [ref, profile, folded] as it was read, or Null
    noticing,               \* a notice's [ref, stage] between its statements, or Null
    \* history, read by no action: the successes in each row's evidence, who holds
    \* a mandate, who withdrew, who was forgotten, and how often forget ran
    folded, owner, withdrew, forgotten, erasures

cvars == <<customer_profiles, mandates, contact_suppressions, inbound_replies, pdn_sent,
          updating, noticing, folded, owner, withdrew, forgotten, erasures>>

ConsentInit ==
    /\ customer_profiles = [r \in {} |-> Null]
    /\ mandates = [m \in Mandates |-> Null]
    /\ contact_suppressions = {}
    /\ inbound_replies = [r \in {} |-> Null]
    /\ pdn_sent = {}
    /\ updating = [u \in Updates |-> Null]
    /\ noticing = [m \in Mandates |-> Null]
    /\ folded = [r \in {} |-> 0]
    /\ owner = [m \in Mandates |-> Null]
    /\ withdrew = {} /\ forgotten = {} /\ erasures = 0

(* The provider's mandate names the customer as the merchant does.           *)
Enrol(m, c) ==
    /\ mandates[m] = Null
    /\ mandates' = [mandates EXCEPT ![m] = Raw(c)]
    /\ owner' = [owner EXCEPT ![m] = c]
    /\ UNCHANGED <<customer_profiles, contact_suppressions, inbound_replies, pdn_sent,
                   updating, noticing, folded, withdrew, forgotten, erasures>>

load_or_empty(ref) ==
    IF ref \in DOMAIN customer_profiles THEN from_row(customer_profiles[ref]) ELSE empty_profile

Load(u, c) ==
    /\ updating[u] = Null
    /\ updating' = [updating EXCEPT ![u] =
                      [ref |-> Raw(c), profile |-> load_or_empty(Raw(c)),
                       folded |-> IF Raw(c) \in DOMAIN folded THEN folded[Raw(c)] ELSE 0]]
    /\ UNCHANGED <<customer_profiles, mandates, contact_suppressions, inbound_replies, pdn_sent,
                   noticing, folded, owner, withdrew, forgotten, erasures>>

(* What becomes of the profile that was read, with n successes in it.        *)
Updated(p, n) == {record_contact(p)}
                 \cup {update_payday(p, d) : d \in IF n < MaxSuccesses THEN Month ELSE {}}
                 \cup {record_declared_hint(p, d, 0) : d \in Month}

Save(u) ==
    /\ updating[u] # Null
    /\ \E p \in Updated(updating[u].profile, updating[u].folded) :
          /\ p.messages_30d <= FatigueCap
          /\ customer_profiles' = Upserted(customer_profiles, updating[u].ref, to_row(p))
          /\ folded' = Upserted(folded, updating[u].ref, updating[u].folded + p.tenure_cycles)
    /\ updating' = [updating EXCEPT ![u] = Null]
    /\ UNCHANGED <<mandates, contact_suppressions, inbound_replies, pdn_sent, noticing,
                   owner, withdrew, forgotten, erasures>>

SaveWithdrawal(u) ==
    /\ updating[u] # Null
    /\ customer_profiles' =
          Upserted(customer_profiles, updating[u].ref, to_row(withdraw_consent(updating[u].profile)))
    /\ folded' = Upserted(folded, updating[u].ref, updating[u].folded)
    /\ withdrew' = withdrew \cup {updating[u].ref[1]}
    /\ updating' = [updating EXCEPT ![u] = Null]
    /\ UNCHANGED <<mandates, contact_suppressions, inbound_replies, pdn_sent, noticing,
                   owner, forgotten, erasures>>

-----------------------------------------------------------------------------
Scrubbed_StaysQueued(reply, ref) ==
    IF reply.ref = ref
    THEN [reply EXCEPT !.ref = pseudonymise(ref), !.words = FALSE, !.resolved = FALSE]
    ELSE reply

Scrubbed(reply, ref) ==
    IF reply.ref = ref
    THEN [reply EXCEPT !.ref = pseudonymise(ref), !.words = FALSE,
                       !.needs_human = FALSE, !.resolved = TRUE]
    ELSE reply

(* The cascade, for the id the caller has: a raw one, or one read from a     *)
(* mandate that was erased before.                                           *)
forget(ref) ==
    /\ erasures < MaxErasures
    /\ ~is_pseudonym(ref) \/ \E m \in Mandates : mandates[m] = ref
    /\ contact_suppressions' = contact_suppressions \cup {pseudonymise(ref)}
    /\ mandates' = [m \in Mandates |-> IF mandates[m] = ref THEN pseudonymise(ref) ELSE mandates[m]]
    /\ customer_profiles' =
          [r \in DOMAIN customer_profiles \ {ref} |-> customer_profiles[r]]
    /\ folded' = [r \in DOMAIN folded \ {ref} |-> folded[r]]
    /\ inbound_replies' = [r \in DOMAIN inbound_replies |-> Scrubbed(inbound_replies[r], ref)]
    /\ forgotten' = forgotten \cup {ref[1]}
    /\ erasures' = erasures + 1
    /\ UNCHANGED <<pdn_sent, updating, noticing, owner, withdrew>>

(* parse: a reply of the schema, one that is not or a provider that raised,  *)
(* or no provider.                                                           *)
Outcomes == {[rejected |-> FALSE, needs_human |-> FALSE],
             [rejected |-> TRUE, needs_human |-> TRUE],
             [rejected |-> TRUE, needs_human |-> FALSE]}

record_reply(r, c) ==
    /\ r \notin DOMAIN inbound_replies
    /\ \E o \in Outcomes :
          inbound_replies' =
              Upserted(inbound_replies, r,
                       [ref |-> Raw(c), words |-> TRUE, rejected |-> o.rejected,
                        needs_human |-> o.needs_human, resolved |-> FALSE])
    /\ UNCHANGED <<customer_profiles, mandates, contact_suppressions, pdn_sent, updating,
                   noticing, folded, owner, withdrew, forgotten, erasures>>

human_queue == {r \in DOMAIN inbound_replies :
                  inbound_replies[r].needs_human /\ ~inbound_replies[r].resolved}

resolve(r) ==
    /\ r \in human_queue
    /\ inbound_replies' = [inbound_replies EXCEPT ![r].resolved = TRUE]
    /\ UNCHANGED <<customer_profiles, mandates, contact_suppressions, pdn_sent, updating,
                   noticing, folded, owner, withdrew, forgotten, erasures>>

-----------------------------------------------------------------------------
(* What a notice and a debit read.  No service counts a message that it      *)
(* sends: messages_30d is what updates made of it.                           *)
suppressed_Hashed(ref) == pseudonymise(ref) \in contact_suppressions

suppressed(ref) == {ref, pseudonymise(ref)} \cap contact_suppressions # {}

consent_withdrawn(m) ==
    mandates[m] \in DOMAIN customer_profiles /\ customer_profiles[mandates[m]].consent_withdrawn

messages_30d(m) ==
    IF mandates[m] \in DOMAIN customer_profiles THEN customer_profiles[mandates[m]].messages_30d
    ELSE 0

(* fire_notice is one transaction of several statements.  It locks the cycle *)
(* and reads under what name the mandate has its customer,                   *)
fire_notice(m) ==
    /\ noticing[m] = Null
    /\ mandates[m] # Null /\ m \notin pdn_sent
    /\ noticing' = [noticing EXCEPT ![m] = [ref |-> mandates[m], stage |-> "read"]]
    /\ UNCHANGED <<customer_profiles, mandates, contact_suppressions, inbound_replies, pdn_sent,
                   updating, folded, owner, withdrew, forgotten, erasures>>

(* then reads the profile, through what the mandate says by then, and asks   *)
(* the gate,                                                                 *)
notice_gated(m) ==
    /\ noticing[m] # Null /\ noticing[m].stage = "read"
    /\ ~consent_withdrawn(m) /\ messages_30d(m) < FatigueCap
    /\ noticing' = [noticing EXCEPT ![m].stage = "gated"]
    /\ UNCHANGED <<customer_profiles, mandates, contact_suppressions, inbound_replies, pdn_sent,
                   updating, folded, owner, withdrew, forgotten, erasures>>

(* then looks up the name that it read at first,                             *)
notice_cleared(m) ==
    /\ noticing[m] # Null /\ noticing[m].stage = "gated"
    /\ ~suppressed(noticing[m].ref)
    /\ noticing' = [noticing EXCEPT ![m].stage = "cleared"]
    /\ UNCHANGED <<customer_profiles, mandates, contact_suppressions, inbound_replies, pdn_sent,
                   updating, folded, owner, withdrew, forgotten, erasures>>

(* and then sends, records and commits;                                      *)
notice_sent(m) ==
    /\ noticing[m] # Null /\ noticing[m].stage = "cleared"
    /\ pdn_sent' = pdn_sent \cup {m}
    /\ noticing' = [noticing EXCEPT ![m] = Null]
    /\ UNCHANGED <<customer_profiles, mandates, contact_suppressions, inbound_replies,
                   updating, folded, owner, withdrew, forgotten, erasures>>

(* or it is refused by the gate or a suppression, or rolled back.            *)
notice_dropped(m) ==
    /\ noticing[m] # Null
    /\ noticing' = [noticing EXCEPT ![m] = Null]
    /\ UNCHANGED <<customer_profiles, mandates, contact_suppressions, inbound_replies, pdn_sent,
                   updating, folded, owner, withdrew, forgotten, erasures>>

(* The next cycle of the mandate starts without a notice.                    *)
fire_debit(m) ==
    /\ m \in pdn_sent
    /\ ~consent_withdrawn(m)
    /\ pdn_sent' = pdn_sent \ {m}
    /\ UNCHANGED <<customer_profiles, mandates, contact_suppressions, inbound_replies,
                   updating, noticing, folded, owner, withdrew, forgotten, erasures>>

ConsentNext ==
    \/ \E m \in Mandates : \/ \E c \in Customers : Enrol(m, c)
                           \/ fire_notice(m) \/ notice_gated(m) \/ notice_cleared(m)
                           \/ notice_sent(m) \/ notice_dropped(m) \/ fire_debit(m)
    \/ \E u \in Updates : \/ \E c \in Customers : Load(u, c)
                          \/ Save(u) \/ SaveWithdrawal(u)
    \/ \E ref \in Ref : forget(ref)
    \/ \E r \in Replies : resolve(r) \/ \E c \in Customers : record_reply(r, c)

ConsentSpec == ConsentInit /\ [][ConsentNext]_cvars

-----------------------------------------------------------------------------
(* A notice passes its last check only for someone who is not forgotten by   *)
(* then, whatever id a mandate of theirs has come to have, though the notice *)
(* looks up the id that it read before the forgetting, and whatever a late   *)
(* update has brought back; and nothing is sent that did not pass.  (A       *)
(* forgetting after the check no longer stops that one notice.)              *)
Cleared == {m \in Mandates : noticing[m] # Null /\ noticing[m].stage = "cleared"}

ForgottenNeverMessaged ==
    [][/\ \A m \in Cleared' \ Cleared : owner[m] \notin forgotten
       /\ pdn_sent' \ pdn_sent \subseteq Cleared]_cvars

(* The human queue never shows a reply whose words an erasure has taken,     *)
(* whether it was parsed, rejected or forgotten first.                       *)
QueueIsLegible == \A r \in human_queue : inbound_replies[r].words

(* The evidence in a row grows with the successes that went into it, whose   *)
(* count is not kept with it, so that neither one outlier (ADR-077) nor what *)
(* the customer said outweighs them, whichever update was lost: a hint has   *)
(* less than half of the say once there are more than DEFAULT_KAPPA          *)
(* observations, none when it is DECLARED_TTL_DAYS old, and the chances of   *)
(* the days still sum to one.                                                *)
Ages == {0, DECLARED_TTL_DAYS \div 2, DECLARED_TTL_DAYS - 1, DECLARED_TTL_DAYS}

EvidenceCompounds ==
    \A ref \in DOMAIN customer_profiles : LET p == from_row(customer_profiles[ref]) IN
        /\ folded[ref] > 0 => observations(p) >= ONE + ((folded[ref] - 1) * ONE) \div 2
        /\ p.declared_funding_day # Null => \A age \in Ages : LET h == hint_share(p, age) IN
              /\ h.num \in 0 .. h.den
              /\ observations(p) > DEFAULT_KAPPA * ONE => 2 * h.num < h.den
              /\ age = DECLARED_TTL_DAYS => h.num = 0
        /\ p.declared_funding_day # Null /\ observations(p) > 0 =>
              LET q == [d \in Month |-> payday_probability(p, d, 1)]
              IN  \A d \in Month : OverMonth([e \in Month |-> q[e].num]) = q[d].den

-----------------------------------------------------------------------------
(* The types of what the proofs are about, and the inductive invariant of    *)
(* erasure: a mandate names its holder, raw or hashed; a hashed name is      *)
(* suppressed, and so is the first hash of all who were forgotten; a notice  *)
(* under way has read one of these names.                                    *)
Names == Customers \X Nat
Notices == [ref : Names, stage : {"read", "gated", "cleared"}]
ReplyRows == [ref : Names, words : BOOLEAN, rejected : BOOLEAN, needs_human : BOOLEAN,
              resolved : BOOLEAN]

ConsentTypeOK ==
    /\ mandates \in [Mandates -> Names \cup {Null}]
    /\ owner \in [Mandates -> Customers \cup {Null}]
    /\ contact_suppressions \subseteq Names
    /\ DOMAIN inbound_replies \subseteq Replies
    /\ inbound_replies \in [DOMAIN inbound_replies -> ReplyRows]
    /\ pdn_sent \subseteq Mandates
    /\ DOMAIN updating = Updates
    /\ \A u \in Updates : updating[u] # Null => updating[u].ref \in Names
    /\ DOMAIN noticing = Mandates
    /\ \A m \in Mandates : noticing[m] # Null => noticing[m] \in Notices
    /\ forgotten \subseteq Customers /\ withdrew \subseteq Customers

Remembered ==
    /\ \A c \in forgotten : <<c, 1>> \in contact_suppressions
    /\ \A m \in Mandates : mandates[m] # Null =>
          /\ mandates[m][1] = owner[m]
          /\ is_pseudonym(mandates[m]) =>
                mandates[m] \in contact_suppressions /\ owner[m] \in forgotten
    /\ \A m \in Mandates : noticing[m] # Null =>
          /\ mandates[m] # Null /\ noticing[m].ref[1] = owner[m]
          /\ is_pseudonym(noticing[m].ref) => noticing[m].ref \in contact_suppressions

ConsentInv == ConsentTypeOK /\ Remembered /\ QueueIsLegible
=============================================================================
