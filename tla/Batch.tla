------------------------------- MODULE Batch -------------------------------
(***************************************************************************)
(* move/sources/batch.move: the auction registry, the batches it opens and *)
(* the Seal time-lock policy.  A batch goes OPEN -> SEALED -> CLEARING ->  *)
(* SETTLED; every entry point is permissionless except the setters, which  *)
(* need the vault's AdminCap (caps.move; here the administrator acts at    *)
(* any time).  An entry point whose assertion fails aborts the transaction *)
(* and changes nothing, so an assertion is a conjunct of the action.       *)
(*                                                                         *)
(* A plaintext order is a record; a digest is an injective image of it     *)
(* (blake2b256 is taken to have no collisions).  Lengths of byte vectors   *)
(* and the events are left out.                                            *)
(***************************************************************************)
EXTENDS Integers, Sequences

CONSTANTS
    Addresses,        \* the Sui addresses that may submit
    ZeroAddress,      \* @0x0
    Orders,           \* the plaintext orders somebody may commit to
    MaxU64,           \* the largest u64
    HardMaxBatchSize, \* HARD_MAX_BATCH_SIZE
    MinCadence,       \* MIN_CADENCE_MS
    Defaults,         \* the registry as create_registry makes it
    Cadences, Offsets, Cutoffs, Graces, Sizes, Versions, \* setter inputs
    MaxTime,          \* bound: batches are opened up to this instant
    MaxBatches        \* bound: number of batches opened

VARIABLES
    now,       \* Clock.timestamp_ms
    registry,  \* the shared BatchRegistry
    batches    \* every Batch ever opened; batch_id n is batches[n + 1]

vars == <<now, registry, batches>>

STATE_OPEN == 0
STATE_SEALED == 1
STATE_CLEARING == 2
STATE_SETTLED == 3

-----------------------------------------------------------------------------
(* Types. *)

BatchRegistryType ==
    [cadence_ms : Nat, offset_ms : Nat, policy_version : Nat,
     max_batch_size : Nat, submit_cutoff_ms : Nat, reveal_grace_ms : Nat,
     next_batch_id : Nat, live_batches : Nat]

order_commitment(o) == <<"blake2b256", o>>

Commitments == {order_commitment(o) : o \in Orders}

SealedOrder == [submitter : Addresses, commitment : Commitments, submitted_at_ms : Nat]

empty_order ==
    [submitter |-> ZeroAddress, is_bid |-> FALSE, limit_price |-> 0, qty_sats |-> 0]

BatchType ==
    [state : STATE_OPEN..STATE_SETTLED, policy_version : Nat,
     opened_at_ms : Nat, close_ms : Nat, closed_at_ms : Nat, max_orders : Nat,
     submit_cutoff_ms : Nat, reveal_grace_ms : Nat,
     orders : Seq(SealedOrder), revealed : Seq(Orders \cup {empty_order}),
     is_revealed : Seq(BOOLEAN), revealed_count : Nat]

(* The clock is far from the end of u64; the defaults are those of           *)
(* create_registry, and the setters take any u64.                            *)
ASSUME BatchAssumption ==
    /\ MaxU64 \in Nat /\ MaxTime \in Nat /\ MaxTime < MaxU64 /\ MaxBatches \in Nat
    /\ {empty_order} \cup Orders \subseteq
          [submitter : {ZeroAddress} \cup Addresses, is_bid : BOOLEAN,
           limit_price : Nat, qty_sats : Nat]
    /\ MinCadence \in Nat \ {0} /\ HardMaxBatchSize \in Nat
    /\ Cadences \subseteq 0..MaxU64 /\ Offsets \subseteq 0..MaxU64
    /\ Cutoffs \subseteq 0..MaxU64 /\ Graces \subseteq 0..MaxU64
    /\ Sizes \subseteq 0..MaxU64 /\ Versions \subseteq 0..MaxU64
    /\ Defaults \in BatchRegistryType
    /\ Defaults.cadence_ms > 0 /\ Defaults.offset_ms < Defaults.cadence_ms
    /\ Defaults.cadence_ms <= MaxU64
    /\ Defaults.next_batch_id = 0 /\ Defaults.live_batches = 0

-----------------------------------------------------------------------------
(* Mechanical timing. *)

saturate(x) == IF x > MaxU64 THEN MaxU64 ELSE x

next_boundary(now_ms, cadence_ms, offset_ms) ==
    IF now_ms < offset_ms THEN offset_ms
    ELSE LET periods == (now_ms - offset_ms) \div cadence_ms
         IN  saturate(offset_ms + saturate((periods + 1) * cadence_ms))

-----------------------------------------------------------------------------
(* Governance: the registry's setters. *)

set_cadence(cadence_ms, offset_ms) ==
    /\ cadence_ms >= MinCadence
    /\ offset_ms < cadence_ms
    /\ registry.live_batches = 0
    /\ registry' = [registry EXCEPT !.cadence_ms = cadence_ms, !.offset_ms = offset_ms]
    /\ UNCHANGED <<now, batches>>

set_max_batch_size(n) ==
    /\ n > 0 /\ n <= HardMaxBatchSize
    /\ registry' = [registry EXCEPT !.max_batch_size = n]
    /\ UNCHANGED <<now, batches>>

\* Mutant: so may the policy version.
set_policy_version_anytime(version) ==
    /\ version > registry.policy_version
    /\ registry' = [registry EXCEPT !.policy_version = version]
    /\ UNCHANGED <<now, batches>>

set_policy_version(version) ==
    /\ registry.live_batches = 0
    /\ version > registry.policy_version
    /\ registry' = [registry EXCEPT !.policy_version = version]
    /\ UNCHANGED <<now, batches>>

set_submit_cutoff_ms(ms) ==
    /\ ms < registry.cadence_ms
    /\ registry' = [registry EXCEPT !.submit_cutoff_ms = ms]
    /\ UNCHANGED <<now, batches>>

set_reveal_grace_ms(ms) ==
    /\ ms > 0
    /\ registry' = [registry EXCEPT !.reveal_grace_ms = ms]
    /\ UNCHANGED <<now, batches>>

-----------------------------------------------------------------------------
(* The lifecycle of a batch. *)

(* The one writer of state: strictly increasing. *)
set_state_allowed(b, next) == next > b.state /\ next <= STATE_SETTLED

(* The boundary and the parameters of a batch are those of its opening.     *)
new_batch ==
    [state |-> STATE_OPEN,
     policy_version |-> registry.policy_version,
     opened_at_ms |-> now,
     close_ms |-> next_boundary(now, registry.cadence_ms, registry.offset_ms),
     closed_at_ms |-> 0,
     max_orders |-> registry.max_batch_size,
     submit_cutoff_ms |-> registry.submit_cutoff_ms,
     reveal_grace_ms |-> registry.reveal_grace_ms,
     orders |-> <<>>, revealed |-> <<>>, is_revealed |-> <<>>,
     revealed_count |-> 0]

open_batch ==
    /\ registry.live_batches = 0
    /\ batches' = Append(batches, new_batch)
    /\ registry' = [registry EXCEPT !.next_batch_id = @ + 1, !.live_batches = 1]
    /\ UNCHANGED now

\* Mutant: orders are taken as long as there is room.
accepts_submits_while_room(b) == Len(b.orders) < b.max_orders

accepts_submits(b) ==
    /\ b.state = STATE_OPEN
    /\ now + b.submit_cutoff_ms <= b.close_ms
    /\ Len(b.orders) < b.max_orders

(* who seals the plaintext o: only its digest reaches the chain, so o may   *)
(* name another submitter, or be an order reveal_order will refuse.         *)
submit_order(i, who, o) ==
    LET b == batches[i] IN
    /\ accepts_submits(b)
    /\ batches' = [batches EXCEPT ![i] = [b EXCEPT
         !.orders = Append(b.orders, [submitter |-> who,
                                      commitment |-> order_commitment(o),
                                      submitted_at_ms |-> now]),
         !.revealed = Append(b.revealed, empty_order),
         !.is_revealed = Append(b.is_revealed, FALSE)]]
    /\ UNCHANGED <<now, registry>>

\* Mutant: a batch may be closed before its boundary.
close_batch_early(i) ==
    LET b == batches[i] IN
    /\ b.state = STATE_OPEN
    /\ batches' = [batches EXCEPT ![i] =
                     [b EXCEPT !.closed_at_ms = now, !.state = STATE_SEALED]]
    /\ UNCHANGED <<now, registry>>

close_batch(i) ==
    LET b == batches[i] IN
    /\ b.state = STATE_OPEN
    /\ now >= b.close_ms
    /\ set_state_allowed(b, STATE_SEALED)
    /\ batches' = [batches EXCEPT ![i] =
                     [b EXCEPT !.closed_at_ms = now, !.state = STATE_SEALED]]
    /\ UNCHANGED <<now, registry>>

(* closed_at_ms + reveal_grace_ms is a checked u64 addition: when it does   *)
(* not fit, the transaction that evaluates it aborts.                       *)
grace_deadline(b) == b.closed_at_ms + b.reveal_grace_ms

reveal_order(i, index, order) ==
    LET b == batches[i] IN
    /\ b.state = STATE_SEALED
    /\ index \in DOMAIN b.orders
    /\ ~b.is_revealed[index]
    /\ grace_deadline(b) <= MaxU64 /\ now <= grace_deadline(b)
    /\ order.submitter = b.orders[index].submitter
    /\ order_commitment(order) = b.orders[index].commitment
    /\ order.qty_sats > 0 /\ order.limit_price > 0
    /\ batches' = [batches EXCEPT ![i] =
         [b EXCEPT !.revealed = [b.revealed EXCEPT ![index] = order],
                   !.is_revealed = [b.is_revealed EXCEPT ![index] = TRUE],
                   !.revealed_count = b.revealed_count + 1]]
    /\ UNCHANGED <<now, registry>>

\* Mutant: the book is taken while reveals are still accepted.
book_decided_at_deadline(b) ==
    b.revealed_count = Len(b.orders) \/ now >= grace_deadline(b)

book_decided(b) ==
    \/ b.revealed_count = Len(b.orders)
    \/ grace_deadline(b) <= MaxU64 /\ now > grace_deadline(b)

(* Called by clearing::begin. *)
to_clearing(i) ==
    LET b == batches[i] IN
    /\ b.state = STATE_SEALED
    /\ book_decided(b)
    /\ set_state_allowed(b, STATE_CLEARING)
    /\ batches' = [batches EXCEPT ![i] = [b EXCEPT !.state = STATE_CLEARING]]
    /\ UNCHANGED <<now, registry>>

(* Called by the last step of a clearing. *)
to_settled(i) ==
    LET b == batches[i] IN
    /\ b.state = STATE_CLEARING
    /\ registry.live_batches > 0
    /\ set_state_allowed(b, STATE_SETTLED)
    /\ batches' = [batches EXCEPT ![i] = [b EXCEPT !.state = STATE_SETTLED]]
    /\ registry' = [registry EXCEPT !.live_batches = @ - 1]
    /\ UNCHANGED now

-----------------------------------------------------------------------------
(* The Seal policy: a pure predicate a key server evaluates in a dry run.   *)
(* An identity is its decoded fields and the number of bytes left over.     *)

seal_identity(close_ms, policy_version, batch) ==
    [t |-> close_ms, ver |-> policy_version, batch |-> batch, leftovers |-> 0]

check_policy(id, r, clock) ==
    /\ id.leftovers = 0
    /\ id.ver = r.policy_version
    /\ clock >= id.t

identity_of(i) == seal_identity(batches[i].close_ms, batches[i].policy_version, i)

-----------------------------------------------------------------------------
(* The specification. *)

Init ==
    /\ now = 0
    /\ registry = Defaults
    /\ batches = <<>>

is_live(b) == b.state # STATE_SETTLED

(* Time passes freely up to MaxTime, and beyond it only while a deadline of *)
(* a live batch is still ahead, so that no batch is stuck for lack of time. *)
Tick ==
    /\ \/ now < MaxTime
       \/ \E i \in DOMAIN batches :
             \/ batches[i].state = STATE_OPEN /\ now < batches[i].close_ms
             \/ batches[i].state = STATE_SEALED /\ now <= grace_deadline(batches[i])
    /\ now < MaxU64
    /\ now' = now + 1
    /\ UNCHANGED <<registry, batches>>

Govern ==
    \/ \E c \in Cadences, o \in Offsets : set_cadence(c, o)
    \/ \E n \in Sizes : set_max_batch_size(n)
    \/ \E v \in Versions : set_policy_version(v)
    \/ \E ms \in Cutoffs : set_submit_cutoff_ms(ms)
    \/ \E ms \in Graces : set_reveal_grace_ms(ms)

Open == now <= MaxTime /\ Len(batches) < MaxBatches /\ open_batch

Submit == \E i \in DOMAIN batches, who \in Addresses, o \in Orders : submit_order(i, who, o)

Close == \E i \in DOMAIN batches : close_batch(i)

Reveal ==
    \E i \in DOMAIN batches : \E index \in DOMAIN batches[i].orders, o \in Orders :
        reveal_order(i, index, o)

StartClearing == \E i \in DOMAIN batches : to_clearing(i)

FinishClearing == \E i \in DOMAIN batches : to_settled(i)

Next ==
    \/ Tick \/ Govern \/ Open \/ Submit \/ Close \/ Reveal
    \/ StartClearing \/ FinishClearing

Spec == Init /\ [][Next]_vars

-----------------------------------------------------------------------------
(* Properties. *)

(* The shapes of the registry and of every batch, whose three vectors run   *)
(* in parallel: one slot of each per order.                                 *)
TypeOK ==
    /\ now \in 0..MaxU64
    /\ registry \in BatchRegistryType
    /\ batches \in Seq(BatchType)
    /\ \A i \in DOMAIN batches :
          /\ Len(batches[i].revealed) = Len(batches[i].orders)
          /\ Len(batches[i].is_revealed) = Len(batches[i].orders)

(* At most one batch is live, it is the last one opened, and live_batches   *)
(* says whether there is one: the counter that gates open_batch, the        *)
(* cadence and the policy version never drifts from the batches themselves. *)
OneLiveBatch ==
    /\ \A i \in DOMAIN batches : is_live(batches[i]) => i = Len(batches)
    /\ registry.live_batches =
          IF Len(batches) > 0 /\ is_live(batches[Len(batches)]) THEN 1 ELSE 0
    /\ registry.next_batch_id = Len(batches)

(* Passes never overlap or repeat: a batch is opened only after the one     *)
(* before it closed, no batch closes before its boundary, and successive    *)
(* boundaries increase whatever cadence governance sets between two passes. *)
PassesInOrder ==
    \A i \in DOMAIN batches :
        /\ batches[i].opened_at_ms < batches[i].close_ms
        /\ batches[i].state # STATE_OPEN =>
              batches[i].close_ms <= batches[i].closed_at_ms /\ batches[i].closed_at_ms <= now
        /\ \A j \in DOMAIN batches : i < j =>
              /\ batches[i].closed_at_ms <= batches[j].opened_at_ms
              /\ batches[i].close_ms < batches[j].close_ms

(* The key servers release a live batch's keys from its boundary on, and    *)
(* not before: a policy bump can neither orphan the orders of a live batch  *)
(* nor open them early.                                                     *)
KeysFollowTheBoundary ==
    \A i \in DOMAIN batches : is_live(batches[i]) =>
        (check_policy(identity_of(i), registry, now) <=> now >= batches[i].close_ms)

(* Once its keys can be had, a batch that was opened with a positive cutoff *)
(* takes no more orders, even if nobody has called close_batch yet.         *)
NoSubmitAfterKeys ==
    \A i \in DOMAIN batches :
        check_policy(identity_of(i), registry, now) /\ batches[i].submit_cutoff_ms > 0
            => ~accepts_submits(batches[i])

(* A clearing never starts on a half-revealed book: a batch past SEALED has *)
(* every order revealed or its reveal window over, and what is revealed is  *)
(* exactly what was committed, by the one who committed it.                 *)
ClearsADecidedBook ==
    \A i \in DOMAIN batches :
        LET b == batches[i]
            shown == {k \in DOMAIN b.orders : b.is_revealed[k]}
        IN  /\ b.state \in {STATE_CLEARING, STATE_SETTLED} =>
                  shown = DOMAIN b.orders \/ now > grace_deadline(b)
            /\ \A k \in shown :
                  /\ order_commitment(b.revealed[k]) = b.orders[k].commitment
                  /\ b.revealed[k].submitter = b.orders[k].submitter

(* A batch never needs its submitters: once open it is settled, revealed or *)
(* not, as long as somebody cranks.                                         *)
EveryBatchSettles ==
    \A i \in 1..MaxBatches :
        (i \in DOMAIN batches) ~> (i \in DOMAIN batches /\ batches[i].state = STATE_SETTLED)
=============================================================================
