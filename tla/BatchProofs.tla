---------------------------- MODULE BatchProofs ----------------------------
(***************************************************************************)
(* What holds of Batch for every value of its constants: types, one live   *)
(* batch at a time, passes that follow one another, and Seal keys that are *)
(* released for a live batch exactly from its boundary on; and that every  *)
(* clearing starts on a decided book, whoever reveals and whoever cranks:  *)
(* the counter revealed_count, which is all that to_clearing reads, is the *)
(* number of slots that are revealed.                                      *)
(*                                                                         *)
(* The last part is about KeeperCrank: each transaction a keeper sends is  *)
(* a step of Batch, and what a command read before it keeps until it lands.*)
(***************************************************************************)
EXTENDS KeeperCrank, FiniteSetTheorems, TLAPS

(* The schedule next_boundary divides by is always well defined.            *)
ScheduleDefined ==
    registry.cadence_ms > 0 /\ registry.offset_ms < registry.cadence_ms

(* A live batch's identity carries the registry's current policy version.   *)
LivePolicyVersion ==
    \A i \in DOMAIN batches :
        is_live(batches[i]) => batches[i].policy_version = registry.policy_version

(* The inductive invariant: OneLiveBatch says which batch a step can touch, *)
(* ScheduleDefined that the next boundary lies ahead of the clock.          *)
IInv ==
    /\ TypeOK
    /\ ScheduleDefined
    /\ OneLiveBatch
    /\ PassesInOrder
    /\ LivePolicyVersion

-----------------------------------------------------------------------------
(* next_boundary: Euclidean division, and the boundary it gives. *)

(* The number of whole cadences elapsed, plus one, is more than elapsed.    *)
LEMMA NextMultiple ==
    ASSUME NEW x \in Nat, NEW c \in Nat, c > 0
    PROVE  (x \div c) \in Nat /\ ((x \div c) + 1) * c > x
  BY SMT

(* next_boundary is a time strictly after now: the pass it closes has not   *)
(* begun to close when it is opened.                                        *)
LEMMA BoundaryAhead ==
    ASSUME MaxU64 \in Nat, NEW t \in Nat, t < MaxU64,
           NEW c \in Nat, c > 0, NEW o \in Nat, o < c
    PROVE  next_boundary(t, c, o) \in Nat /\ next_boundary(t, c, o) > t
<1>1. CASE t < o
  BY <1>1 DEF next_boundary
<1>2. CASE t >= o
  <2> DEFINE m == (((t - o) \div c) + 1) * c
  <2>1. t - o \in Nat
    BY <1>2
  <2>2. ((t - o) \div c) \in Nat /\ m > t - o
    BY <2>1, NextMultiple
  <2>3. m \in Nat
    BY <2>2
  <2>4. next_boundary(t, c, o) = saturate(o + saturate(m))
    BY <1>2 DEF next_boundary
  <2> HIDE DEF m
  <2>5. QED
    BY <1>2, <2>2, <2>3, <2>4 DEF saturate
<1>3. QED
  BY <1>1, <1>2

-----------------------------------------------------------------------------
(* The two ways batches changes. *)

(* Replacing one element of a sequence keeps its type and its length.       *)
LEMMA ReplaceElement ==
    ASSUME NEW S, NEW s \in Seq(S), NEW k \in DOMAIN s, NEW x \in S
    PROVE  [s EXCEPT ![k] = x] \in Seq(S) /\ Len([s EXCEPT ![k] = x]) = Len(s)
  OBVIOUS

(* Replacing one batch leaves the others, and how many there are, alone.    *)
LEMMA ReplaceBatch ==
    ASSUME batches \in Seq(BatchType), NEW i \in DOMAIN batches, NEW b \in BatchType,
           batches' = [batches EXCEPT ![i] = b]
    PROVE  /\ batches' \in Seq(BatchType)
           /\ DOMAIN batches' = DOMAIN batches
           /\ Len(batches') = Len(batches)
           /\ batches'[i] = b
           /\ \A j \in DOMAIN batches : j # i => batches'[j] = batches[j]
  OBVIOUS

(* Opening one appends it.                                                  *)
LEMMA AppendBatch ==
    ASSUME batches \in Seq(BatchType), NEW b \in BatchType, batches' = Append(batches, b)
    PROVE  /\ batches' \in Seq(BatchType)
           /\ Len(batches') = Len(batches) + 1
           /\ DOMAIN batches' = DOMAIN batches \cup {Len(batches')}
           /\ batches'[Len(batches')] = b
           /\ \A j \in DOMAIN batches : batches'[j] = batches[j] /\ j < Len(batches')
  OBVIOUS

(* A live batch that changes state, is filled or is revealed keeps what the *)
(* invariant says of it, and only a step to SETTLED ends its life.          *)
LEMMA LiveBatchStep ==
    ASSUME IInv, BatchAssumption, now' = now,
           NEW i \in DOMAIN batches, is_live(batches[i]), NEW b \in BatchType,
           batches' = [batches EXCEPT ![i] = b],
           Len(b.revealed) = Len(b.orders), Len(b.is_revealed) = Len(b.orders),
           b.policy_version = batches[i].policy_version,
           b.opened_at_ms = batches[i].opened_at_ms,
           b.close_ms = batches[i].close_ms,
           \/ b.state = batches[i].state /\ b.closed_at_ms = batches[i].closed_at_ms
           \/ b.state = STATE_SEALED /\ b.closed_at_ms = now /\ now >= b.close_ms
           \/ batches[i].state # STATE_OPEN /\ b.closed_at_ms = batches[i].closed_at_ms,
           registry' \in BatchRegistryType,
           registry'.cadence_ms = registry.cadence_ms,
           registry'.offset_ms = registry.offset_ms,
           registry'.policy_version = registry.policy_version,
           registry'.next_batch_id = registry.next_batch_id,
           registry'.live_batches = IF b.state = STATE_SETTLED THEN 0 ELSE 1
    PROVE  IInv'
<1>1. /\ batches' \in Seq(BatchType)
      /\ DOMAIN batches' = DOMAIN batches
      /\ Len(batches') = Len(batches)
      /\ batches'[i] = b
      /\ \A j \in DOMAIN batches : j # i => batches'[j] = batches[j]
  BY ReplaceBatch DEF IInv, TypeOK
<1>2. i = Len(batches) /\ \A j \in DOMAIN batches : j # i => ~is_live(batches[j])
  BY DEF IInv, OneLiveBatch
<1>3. TypeOK'
  BY <1>1 DEF IInv, TypeOK
<1>4. ScheduleDefined'
  BY DEF IInv, ScheduleDefined
<1>5. OneLiveBatch'
  BY <1>1, <1>2 DEF IInv, OneLiveBatch, is_live
<1>6. PassesInOrder'
  <2>1. b.opened_at_ms < b.close_ms
    BY DEF IInv, PassesInOrder
  <2>2. b.state # STATE_OPEN => b.close_ms <= b.closed_at_ms /\ b.closed_at_ms <= now
    BY DEF IInv, PassesInOrder, TypeOK
  <2>3. \A j \in DOMAIN batches : j < i =>
           batches[j].closed_at_ms <= b.opened_at_ms /\ batches[j].close_ms < b.close_ms
    BY DEF IInv, PassesInOrder
  <2>4. \A j \in DOMAIN batches : ~(i < j)
    BY <1>2 DEF IInv, TypeOK
  <2>5. QED
    BY <1>1, <2>1, <2>2, <2>3, <2>4 DEF IInv, PassesInOrder
<1>7. LivePolicyVersion'
  BY <1>1 DEF IInv, LivePolicyVersion, is_live
<1>8. QED
  BY <1>3, <1>4, <1>5, <1>6, <1>7 DEF IInv

-----------------------------------------------------------------------------
(* Each operation of the lifecycle preserves the invariant. *)

(* Init establishes the invariant.                                          *)
LEMMA InitIInv ==
    ASSUME BatchAssumption, Init PROVE IInv
  BY DEF BatchAssumption, Init, IInv, TypeOK, ScheduleDefined, OneLiveBatch,
         PassesInOrder, LivePolicyVersion, BatchRegistryType

(* Every setter preserves it: those the invariant depends on are refused    *)
(* while a batch is live.                                                   *)
LEMMA GovernIInv ==
    ASSUME BatchAssumption, IInv, Govern PROVE IInv'
<1>1. UNCHANGED <<now, batches>>
  BY DEF Govern, set_cadence, set_max_batch_size, set_policy_version,
         set_submit_cutoff_ms, set_reveal_grace_ms
<1>2. registry \in BatchRegistryType /\ registry.cadence_ms > 0
      /\ registry.offset_ms < registry.cadence_ms
  BY DEF IInv, TypeOK, ScheduleDefined
<1>3. /\ Cadences \subseteq Nat /\ Offsets \subseteq Nat /\ Cutoffs \subseteq Nat
      /\ Graces \subseteq Nat /\ Sizes \subseteq Nat /\ Versions \subseteq Nat
      /\ MinCadence \in Nat /\ MinCadence > 0
  BY DEF BatchAssumption
<1>4. /\ registry' \in BatchRegistryType
      /\ registry'.cadence_ms > 0 /\ registry'.offset_ms < registry'.cadence_ms
      /\ registry'.live_batches = registry.live_batches
      /\ registry'.next_batch_id = registry.next_batch_id
      /\ registry.live_batches = 0 \/ registry'.policy_version = registry.policy_version
  <2>1. CASE \E c \in Cadences, o \in Offsets : set_cadence(c, o)
    <3>1. PICK c \in Nat, o \in Nat :
             /\ c >= MinCadence /\ o < c
             /\ registry' = [registry EXCEPT !.cadence_ms = c, !.offset_ms = o]
      BY <1>3, <2>1 DEF set_cadence
    <3>2. registry' \in BatchRegistryType
      BY <1>2, <3>1 DEF BatchRegistryType
    <3>3. registry'.cadence_ms = c /\ registry'.offset_ms = o
      BY <1>2, <3>1 DEF BatchRegistryType
    <3>4. /\ registry'.live_batches = registry.live_batches
          /\ registry'.next_batch_id = registry.next_batch_id
      BY <1>2, <3>1 DEF BatchRegistryType
    <3>5. registry.live_batches = 0
      BY <2>1 DEF set_cadence
    <3>6. QED
      BY <1>3, <3>1, <3>2, <3>3, <3>4, <3>5
  <2>2. CASE \E n \in Sizes : set_max_batch_size(n)
    BY <1>2, <1>3, <2>2 DEF set_max_batch_size, BatchRegistryType
  <2>3. CASE \E v \in Versions : set_policy_version(v)
    BY <1>2, <1>3, <2>3 DEF set_policy_version, BatchRegistryType
  <2>4. CASE \E ms \in Cutoffs : set_submit_cutoff_ms(ms)
    BY <1>2, <1>3, <2>4 DEF set_submit_cutoff_ms, BatchRegistryType
  <2>5. CASE \E ms \in Graces : set_reveal_grace_ms(ms)
    BY <1>2, <1>3, <2>5 DEF set_reveal_grace_ms, BatchRegistryType
  <2>6. QED
    BY <2>1, <2>2, <2>3, <2>4, <2>5 DEF Govern
<1>5. TypeOK' /\ ScheduleDefined'
  BY <1>1, <1>4 DEF IInv, TypeOK, ScheduleDefined
<1>6. OneLiveBatch' /\ PassesInOrder'
  BY <1>1, <1>4 DEF IInv, OneLiveBatch, PassesInOrder, is_live
<1>7. LivePolicyVersion'
  <2>1. CASE registry.live_batches = 0
    BY <1>1, <2>1 DEF IInv, TypeOK, OneLiveBatch, LivePolicyVersion, is_live
  <2>2. CASE registry'.policy_version = registry.policy_version
    BY <1>1, <2>2 DEF IInv, LivePolicyVersion, is_live
  <2>3. QED
    BY <1>4, <2>1, <2>2
<1>8. QED
  BY <1>5, <1>6, <1>7 DEF IInv

(* So does the clock.                                                       *)
LEMMA TickIInv ==
    ASSUME BatchAssumption, IInv, Tick PROVE IInv'
<1>1. UNCHANGED <<registry, batches>> /\ now' = now + 1 /\ now' \in 0..MaxU64 /\ now \in Nat
  BY DEF BatchAssumption, Tick, IInv, TypeOK
<1>2. TypeOK' /\ ScheduleDefined' /\ OneLiveBatch' /\ LivePolicyVersion'
  BY <1>1 DEF IInv, TypeOK, ScheduleDefined, OneLiveBatch, LivePolicyVersion, is_live
<1>3. PassesInOrder'
  <2>1. \A i \in DOMAIN batches : batches[i].closed_at_ms \in Nat
    <3>1. TAKE i \in DOMAIN batches
    <3>2. batches[i] \in BatchType
      BY DEF IInv, TypeOK
    <3>3. QED
      BY <3>2 DEF BatchType
  <2>2. QED
    BY <1>1, <2>1 DEF IInv, PassesInOrder
<1>4. QED
  BY <1>2, <1>3 DEF IInv

(* Opening a batch needs next_boundary to lie ahead, and no other to live.  *)
LEMMA OpenIInv ==
    ASSUME BatchAssumption, IInv, now < MaxU64, open_batch PROVE IInv'
<1> DEFINE b == [state |-> STATE_OPEN,
                 policy_version |-> registry.policy_version,
                 opened_at_ms |-> now,
                 close_ms |-> next_boundary(now, registry.cadence_ms, registry.offset_ms),
                 closed_at_ms |-> 0,
                 max_orders |-> registry.max_batch_size,
                 submit_cutoff_ms |-> registry.submit_cutoff_ms,
                 reveal_grace_ms |-> registry.reveal_grace_ms,
                 orders |-> <<>>, revealed |-> <<>>, is_revealed |-> <<>>,
                 revealed_count |-> 0]
<1>1. b.close_ms \in Nat /\ b.close_ms > now
  <2>1. now \in Nat /\ now < MaxU64 /\ MaxU64 \in Nat
    BY DEF BatchAssumption, IInv, TypeOK
  <2>2. registry.cadence_ms \in Nat /\ registry.offset_ms \in Nat
    BY DEF IInv, TypeOK, BatchRegistryType
  <2>3. QED
    BY <2>1, <2>2, BoundaryAhead DEF IInv, ScheduleDefined
<1>2. b \in BatchType
  <2>1. STATE_OPEN \in STATE_OPEN..STATE_SETTLED
    BY DEF STATE_OPEN, STATE_SETTLED
  <2>2. /\ now \in Nat /\ registry.policy_version \in Nat /\ registry.max_batch_size \in Nat
        /\ registry.submit_cutoff_ms \in Nat /\ registry.reveal_grace_ms \in Nat
    BY DEF IInv, TypeOK, BatchRegistryType
  <2>3. /\ <<>> \in Seq(SealedOrder) /\ <<>> \in Seq(Orders \cup {empty_order})
        /\ <<>> \in Seq(BOOLEAN)
    OBVIOUS
  <2>4. QED
    BY <1>1, <2>1, <2>2, <2>3 DEF BatchType
<1>3. batches' = Append(batches, b) /\ now' = now /\ registry.live_batches = 0
      /\ registry' = [registry EXCEPT !.next_batch_id = @ + 1, !.live_batches = 1]
  BY DEF open_batch, new_batch
<1>4. b.state = STATE_OPEN /\ b.policy_version = registry.policy_version
      /\ b.opened_at_ms = now /\ b.orders = <<>> /\ b.revealed = <<>> /\ b.is_revealed = <<>>
  OBVIOUS
<1> HIDE DEF b
<1>5. /\ batches' \in Seq(BatchType)
      /\ Len(batches') = Len(batches) + 1
      /\ DOMAIN batches' = DOMAIN batches \cup {Len(batches')}
      /\ batches'[Len(batches')] = b
      /\ \A j \in DOMAIN batches : batches'[j] = batches[j] /\ j < Len(batches')
  BY <1>2, <1>3, AppendBatch DEF IInv, TypeOK
<1>6. registry' \in BatchRegistryType /\ registry'.live_batches = 1
      /\ registry'.cadence_ms = registry.cadence_ms /\ registry'.offset_ms = registry.offset_ms
      /\ registry'.policy_version = registry.policy_version
      /\ registry'.next_batch_id = registry.next_batch_id + 1
  <2>1. registry \in BatchRegistryType
    BY DEF IInv, TypeOK
  <2>2. registry.next_batch_id + 1 \in Nat
    BY <2>1 DEF BatchRegistryType
  <2>3. [registry EXCEPT !.next_batch_id = registry.next_batch_id + 1] \in BatchRegistryType
    BY <2>1, <2>2 DEF BatchRegistryType
  <2>4. registry' \in BatchRegistryType
    BY <1>3, <2>3 DEF BatchRegistryType
  <2>5. QED
    BY <1>3, <2>1, <2>4 DEF BatchRegistryType
<1>7. \A j \in DOMAIN batches : batches[j].state = STATE_SETTLED
  BY <1>3 DEF IInv, TypeOK, OneLiveBatch, is_live
<1>8. TypeOK' /\ ScheduleDefined'
  BY <1>3, <1>4, <1>5, <1>6 DEF IInv, TypeOK, ScheduleDefined
<1>9. OneLiveBatch'
  <2>1. Len(batches) \in Nat /\ registry.next_batch_id = Len(batches)
    BY DEF IInv, TypeOK, OneLiveBatch
  <2>2. \A j \in DOMAIN batches' : is_live(batches'[j]) => j = Len(batches')
    BY <1>5, <1>7 DEF is_live
  <2>3. is_live(batches'[Len(batches')])
    BY <1>4, <1>5 DEF is_live, STATE_OPEN, STATE_SETTLED
  <2>4. QED
    BY <1>5, <1>6, <2>1, <2>2, <2>3 DEF OneLiveBatch, is_live
<1>10. PassesInOrder'
  <2>1. \A j \in DOMAIN batches :
           batches[j].close_ms <= batches[j].closed_at_ms /\ batches[j].closed_at_ms <= now
    BY <1>7 DEF IInv, PassesInOrder, STATE_OPEN, STATE_SETTLED
  <2>2. \A j \in DOMAIN batches :
           batches[j].closed_at_ms <= b.opened_at_ms /\ batches[j].close_ms < b.close_ms
    <3>1. TAKE j \in DOMAIN batches
    <3>2. batches[j] \in BatchType
      BY DEF IInv, TypeOK
    <3>3. batches[j].close_ms \in Nat /\ batches[j].closed_at_ms \in Nat
      BY <3>2 DEF BatchType
    <3>4. now \in Nat
      BY DEF IInv, TypeOK
    <3>5. QED
      BY <1>1, <1>4, <2>1, <3>3, <3>4
  <2>3. b.opened_at_ms < b.close_ms
    BY <1>1, <1>4 DEF IInv, TypeOK
  <2>4. QED
    BY <1>3, <1>4, <1>5, <2>1, <2>2, <2>3 DEF IInv, PassesInOrder
<1>11. LivePolicyVersion'
  BY <1>4, <1>5, <1>6 DEF IInv, LivePolicyVersion, is_live
<1>12. QED
  BY <1>8, <1>9, <1>10, <1>11 DEF IInv

(* What the invariant says of the batch a step touches.                     *)
LEMMA TouchedBatch ==
    ASSUME IInv, NEW i \in DOMAIN batches
    PROVE  /\ batches[i] \in BatchType
           /\ Len(batches[i].revealed) = Len(batches[i].orders)
           /\ Len(batches[i].is_revealed) = Len(batches[i].orders)
           /\ is_live(batches[i]) => registry.live_batches = 1
           /\ registry \in BatchRegistryType /\ now \in Nat
<1>1. batches[i] \in BatchType /\ registry \in BatchRegistryType /\ now \in Nat
  BY DEF IInv, TypeOK
<1>2. is_live(batches[i]) => registry.live_batches = 1
  BY DEF IInv, TypeOK, OneLiveBatch
<1>3. QED
  BY <1>1, <1>2 DEF IInv, TypeOK

(* A submit adds one slot to each of the three vectors.                     *)
LEMMA SubmitIInv ==
    ASSUME BatchAssumption, IInv, Submit PROVE IInv'
<1>1. PICK i \in DOMAIN batches, who \in Addresses, o \in Orders : submit_order(i, who, o)
  BY DEF Submit
<1> DEFINE old == batches[i]
           sealed == [submitter |-> who, commitment |-> order_commitment(o),
                      submitted_at_ms |-> now]
           os == Append(old.orders, sealed)
           rs == Append(old.revealed, empty_order)
           ts == Append(old.is_revealed, FALSE)
           b == [old EXCEPT !.orders = os, !.revealed = rs, !.is_revealed = ts]
<1>2. old \in BatchType /\ registry.live_batches = 1 /\ registry \in BatchRegistryType
      /\ Len(old.revealed) = Len(old.orders) /\ Len(old.is_revealed) = Len(old.orders)
      /\ now \in Nat /\ old.state = STATE_OPEN /\ is_live(old)
  BY <1>1, TouchedBatch DEF submit_order, accepts_submits, is_live, STATE_OPEN, STATE_SETTLED
<1>3. old.orders \in Seq(SealedOrder) /\ old.revealed \in Seq(Orders \cup {empty_order})
      /\ old.is_revealed \in Seq(BOOLEAN)
  BY <1>2 DEF BatchType
<1>4. sealed \in SealedOrder
  BY <1>2 DEF SealedOrder, Commitments
<1>5. UNCHANGED <<now, registry>> /\ batches' = [batches EXCEPT ![i] = b]
  BY <1>1 DEF submit_order
<1> HIDE DEF sealed
<1>6. /\ os \in Seq(SealedOrder) /\ Len(os) = Len(old.orders) + 1
      /\ rs \in Seq(Orders \cup {empty_order}) /\ Len(rs) = Len(old.revealed) + 1
      /\ ts \in Seq(BOOLEAN) /\ Len(ts) = Len(old.is_revealed) + 1
  BY <1>3, <1>4
<1> HIDE DEF os, rs, ts, old
<1>7. /\ b \in BatchType
      /\ b.state = old.state /\ b.closed_at_ms = old.closed_at_ms
      /\ b.policy_version = old.policy_version /\ b.close_ms = old.close_ms
      /\ b.opened_at_ms = old.opened_at_ms
      /\ b.orders = os /\ b.revealed = rs /\ b.is_revealed = ts
  <2>1. [old EXCEPT !.orders = os] \in BatchType
    BY <1>2, <1>6 DEF BatchType
  <2>2. [old EXCEPT !.orders = os, !.revealed = rs] \in BatchType
    BY <1>6, <2>1 DEF BatchType
  <2>3. b \in BatchType
    BY <1>6, <2>2 DEF BatchType
  <2>4. QED
    BY <1>2, <2>3 DEF BatchType
<1> HIDE DEF b
<1>8. Len(b.revealed) = Len(b.orders) /\ Len(b.is_revealed) = Len(b.orders)
  BY <1>2, <1>6, <1>7
<1>9. b.state # STATE_SETTLED
  BY <1>2, <1>7 DEF STATE_OPEN, STATE_SETTLED
<1>10. /\ is_live(batches[i]) /\ b.state = batches[i].state
       /\ b.closed_at_ms = batches[i].closed_at_ms
       /\ b.policy_version = batches[i].policy_version
       /\ b.close_ms = batches[i].close_ms /\ b.opened_at_ms = batches[i].opened_at_ms
  BY <1>2, <1>7 DEF old
<1>11. /\ registry' \in BatchRegistryType /\ registry' = registry
       /\ registry.live_batches = IF b.state = STATE_SETTLED THEN 0 ELSE 1
  BY <1>2, <1>5, <1>9
<1>12. QED
  BY <1>5, <1>7, <1>8, <1>10, <1>11, LiveBatchStep

(* Closing needs the boundary to have come, which keeps closed_at_ms past   *)
(* close_ms.                                                                *)
LEMMA CloseIInv ==
    ASSUME BatchAssumption, IInv, Close PROVE IInv'
<1>1. PICK i \in DOMAIN batches : close_batch(i)
  BY DEF Close
<1> DEFINE b == [batches[i] EXCEPT !.closed_at_ms = now, !.state = STATE_SEALED]
<1>2. batches[i] \in BatchType /\ registry.live_batches = 1 /\ registry \in BatchRegistryType
      /\ Len(batches[i].revealed) = Len(batches[i].orders)
      /\ Len(batches[i].is_revealed) = Len(batches[i].orders)
      /\ now \in Nat /\ is_live(batches[i])
  BY <1>1, TouchedBatch DEF close_batch, is_live, STATE_OPEN, STATE_SETTLED
<1>3. UNCHANGED <<now, registry>> /\ batches' = [batches EXCEPT ![i] = b]
      /\ now >= batches[i].close_ms
  BY <1>1 DEF close_batch
<1>4. STATE_SEALED \in STATE_OPEN..STATE_SETTLED /\ STATE_SEALED # STATE_SETTLED
  BY DEF STATE_OPEN, STATE_SEALED, STATE_SETTLED
<1>5. [batches[i] EXCEPT !.closed_at_ms = now] \in BatchType
  BY <1>2 DEF BatchType
<1>6. b \in BatchType
  BY <1>4, <1>5 DEF BatchType
<1>7. /\ b.state = STATE_SEALED /\ b.closed_at_ms = now
      /\ b.policy_version = batches[i].policy_version
      /\ b.close_ms = batches[i].close_ms /\ b.opened_at_ms = batches[i].opened_at_ms
      /\ b.orders = batches[i].orders /\ b.revealed = batches[i].revealed
      /\ b.is_revealed = batches[i].is_revealed
  BY <1>2, <1>6 DEF BatchType
<1> HIDE DEF b
<1>8. QED
  BY <1>2, <1>3, <1>4, <1>6, <1>7, LiveBatchStep

(* A reveal fills one slot of the vectors that hold the plaintexts.         *)
LEMMA RevealIInv ==
    ASSUME BatchAssumption, IInv, Reveal PROVE IInv'
<1>0. PICK i \in DOMAIN batches :
         \E index \in DOMAIN batches[i].orders, o \in Orders : reveal_order(i, index, o)
  BY DEF Reveal
<1>1. PICK index \in DOMAIN batches[i].orders, o \in Orders : reveal_order(i, index, o)
  BY <1>0
<1> DEFINE old == batches[i]
           rs == [old.revealed EXCEPT ![index] = o]
           ts == [old.is_revealed EXCEPT ![index] = TRUE]
           n == old.revealed_count + 1
           b == [old EXCEPT !.revealed = rs, !.is_revealed = ts, !.revealed_count = n]
<1>2. old \in BatchType /\ registry.live_batches = 1 /\ registry \in BatchRegistryType
      /\ Len(old.revealed) = Len(old.orders) /\ Len(old.is_revealed) = Len(old.orders)
      /\ old.state = STATE_SEALED /\ is_live(old)
  BY <1>1, TouchedBatch DEF reveal_order, is_live, STATE_SEALED, STATE_SETTLED
<1>3. old.revealed \in Seq(Orders \cup {empty_order}) /\ old.is_revealed \in Seq(BOOLEAN)
      /\ n \in Nat
  BY <1>2 DEF BatchType
<1>4. UNCHANGED <<now, registry>> /\ batches' = [batches EXCEPT ![i] = b]
  BY <1>1 DEF reveal_order
<1>5. /\ rs \in Seq(Orders \cup {empty_order}) /\ Len(rs) = Len(old.revealed)
      /\ ts \in Seq(BOOLEAN) /\ Len(ts) = Len(old.is_revealed)
  <2>1. old.orders \in Seq(SealedOrder)
    BY <1>2 DEF BatchType
  <2>2. index \in DOMAIN old.revealed /\ index \in DOMAIN old.is_revealed
    BY <1>2, <1>3, <2>1
  <2>3. QED
    BY <1>3, <2>2, ReplaceElement
<1> HIDE DEF rs, ts, n, old
<1>6. b \in BatchType
  <2>1. [old EXCEPT !.revealed = rs] \in BatchType
    BY <1>2, <1>5 DEF BatchType
  <2>2. [old EXCEPT !.revealed = rs, !.is_revealed = ts] \in BatchType
    BY <1>5, <2>1 DEF BatchType
  <2>3. QED
    BY <1>3, <2>2 DEF BatchType
<1>7. /\ b.state = old.state /\ b.closed_at_ms = old.closed_at_ms
      /\ b.policy_version = old.policy_version /\ b.close_ms = old.close_ms
      /\ b.opened_at_ms = old.opened_at_ms
      /\ b.orders = old.orders /\ b.revealed = rs /\ b.is_revealed = ts
  BY <1>2, <1>6 DEF BatchType
<1> HIDE DEF b
<1>8. Len(b.revealed) = Len(b.orders) /\ Len(b.is_revealed) = Len(b.orders)
  BY <1>2, <1>5, <1>7
<1>9. /\ is_live(batches[i]) /\ b.state = batches[i].state
      /\ b.closed_at_ms = batches[i].closed_at_ms
      /\ b.policy_version = batches[i].policy_version
      /\ b.close_ms = batches[i].close_ms /\ b.opened_at_ms = batches[i].opened_at_ms
  BY <1>2, <1>7 DEF old
<1>10. b.state # STATE_SETTLED
  BY <1>2, <1>7 DEF STATE_SEALED, STATE_SETTLED
<1>11. QED
  BY <1>2, <1>4, <1>6, <1>8, <1>9, <1>10, LiveBatchStep

(* Starting a clearing moves the state and nothing else.                    *)
LEMMA StartClearingIInv ==
    ASSUME BatchAssumption, IInv, StartClearing PROVE IInv'
<1>1. PICK i \in DOMAIN batches : to_clearing(i)
  BY DEF StartClearing
<1> DEFINE b == [batches[i] EXCEPT !.state = STATE_CLEARING]
<1>2. batches[i] \in BatchType /\ registry.live_batches = 1 /\ registry \in BatchRegistryType
      /\ Len(batches[i].revealed) = Len(batches[i].orders)
      /\ Len(batches[i].is_revealed) = Len(batches[i].orders)
      /\ is_live(batches[i]) /\ batches[i].state # STATE_OPEN
  BY <1>1, TouchedBatch DEF to_clearing, is_live, STATE_OPEN, STATE_SEALED, STATE_SETTLED
<1>3. UNCHANGED <<now, registry>> /\ batches' = [batches EXCEPT ![i] = b]
  BY <1>1 DEF to_clearing
<1>4. STATE_CLEARING \in STATE_OPEN..STATE_SETTLED /\ STATE_CLEARING # STATE_SETTLED
  BY DEF STATE_OPEN, STATE_CLEARING, STATE_SETTLED
<1>5. b \in BatchType
  BY <1>2, <1>4 DEF BatchType
<1>6. /\ b.state = STATE_CLEARING /\ b.closed_at_ms = batches[i].closed_at_ms
      /\ b.policy_version = batches[i].policy_version
      /\ b.close_ms = batches[i].close_ms /\ b.opened_at_ms = batches[i].opened_at_ms
      /\ b.orders = batches[i].orders /\ b.revealed = batches[i].revealed
      /\ b.is_revealed = batches[i].is_revealed
  BY <1>2, <1>5 DEF BatchType
<1> HIDE DEF b
<1>7. QED
  BY <1>2, <1>3, <1>4, <1>5, <1>6, LiveBatchStep

(* Settling ends the one live batch, and live_batches returns to zero.      *)
LEMMA FinishClearingIInv ==
    ASSUME BatchAssumption, IInv, FinishClearing PROVE IInv'
<1>1. PICK i \in DOMAIN batches : to_settled(i)
  BY DEF FinishClearing
<1> DEFINE b == [batches[i] EXCEPT !.state = STATE_SETTLED]
<1>2. batches[i] \in BatchType /\ registry.live_batches = 1 /\ registry \in BatchRegistryType
      /\ Len(batches[i].revealed) = Len(batches[i].orders)
      /\ Len(batches[i].is_revealed) = Len(batches[i].orders)
      /\ is_live(batches[i]) /\ batches[i].state # STATE_OPEN
  BY <1>1, TouchedBatch DEF to_settled, is_live, STATE_OPEN, STATE_CLEARING, STATE_SETTLED
<1>3. now' = now /\ batches' = [batches EXCEPT ![i] = b]
      /\ registry' = [registry EXCEPT !.live_batches = registry.live_batches - 1]
  BY <1>1 DEF to_settled
<1>4. registry' = [registry EXCEPT !.live_batches = 0]
  BY <1>2, <1>3
<1>5. registry' \in BatchRegistryType
  BY <1>2, <1>4 DEF BatchRegistryType
<1>6. /\ registry'.cadence_ms = registry.cadence_ms /\ registry'.offset_ms = registry.offset_ms
      /\ registry'.policy_version = registry.policy_version
      /\ registry'.next_batch_id = registry.next_batch_id /\ registry'.live_batches = 0
  BY <1>2, <1>4 DEF BatchRegistryType
<1>7. STATE_SETTLED \in STATE_OPEN..STATE_SETTLED
  BY DEF STATE_OPEN, STATE_SETTLED
<1>8. b \in BatchType
  BY <1>2, <1>7 DEF BatchType
<1>9. /\ b.state = STATE_SETTLED /\ b.closed_at_ms = batches[i].closed_at_ms
      /\ b.policy_version = batches[i].policy_version
      /\ b.close_ms = batches[i].close_ms /\ b.opened_at_ms = batches[i].opened_at_ms
      /\ b.orders = batches[i].orders /\ b.revealed = batches[i].revealed
      /\ b.is_revealed = batches[i].is_revealed
  BY <1>2, <1>8 DEF BatchType
<1> HIDE DEF b
<1>10. QED
  BY <1>2, <1>3, <1>5, <1>6, <1>8, <1>9, LiveBatchStep

-----------------------------------------------------------------------------
(* The theorems. *)

(* IInv is an invariant of the specification.                               *)
THEOREM Invariance == Spec => []IInv
<1>1. Init => IInv
  BY BatchAssumption, InitIInv
<1>2. IInv /\ [Next]_vars => IInv'
  <2> SUFFICES ASSUME IInv, [Next]_vars PROVE IInv'
    OBVIOUS
  <2>1. CASE Tick
    BY <2>1, BatchAssumption, TickIInv
  <2>2. CASE Govern
    BY <2>2, BatchAssumption, GovernIInv
  <2>3. CASE Open
    BY <2>3, BatchAssumption, OpenIInv DEF Open, BatchAssumption, IInv, TypeOK
  <2>4. CASE Submit
    BY <2>4, BatchAssumption, SubmitIInv
  <2>5. CASE Close
    BY <2>5, BatchAssumption, CloseIInv
  <2>6. CASE Reveal
    BY <2>6, BatchAssumption, RevealIInv
  <2>7. CASE StartClearing
    BY <2>7, BatchAssumption, StartClearingIInv
  <2>8. CASE FinishClearing
    BY <2>8, BatchAssumption, FinishClearingIInv
  <2>9. CASE UNCHANGED vars
    BY <2>9 DEF vars, IInv, TypeOK, ScheduleDefined, OneLiveBatch, PassesInOrder,
                LivePolicyVersion, is_live
  <2>10. QED
    BY <2>1, <2>2, <2>3, <2>4, <2>5, <2>6, <2>7, <2>8, <2>9 DEF Next
<1>3. QED
  BY <1>1, <1>2, PTL DEF Spec

(* Every reachable state is well typed, the three vectors of every batch in *)
(* parallel.                                                                *)
THEOREM TypeCorrect == Spec => []TypeOK
  BY Invariance, PTL DEF IInv

(* At most one batch is live and live_batches counts it, for any schedule   *)
(* and any governance.                                                      *)
THEOREM OneBatchAtATime == Spec => []OneLiveBatch
  BY Invariance, PTL DEF IInv

(* Passes follow one another: no batch closes before its boundary, none is  *)
(* opened before the one before it closed, and boundaries increase.         *)
THEOREM PassesNeverOverlap == Spec => []PassesInOrder
  BY Invariance, PTL DEF IInv

(* The keys of a live batch are released exactly from its boundary on: no   *)
(* policy bump and no re-scheduling can orphan it or open it early.         *)
THEOREM KeysReleasedOnTime == Spec => []KeysFollowTheBoundary
<1>1. IInv => KeysFollowTheBoundary
  BY DEF IInv, LivePolicyVersion, KeysFollowTheBoundary, check_policy, identity_of, seal_identity
<1>2. QED
  BY <1>1, Invariance, PTL

(* No order is taken into a batch whose keys can be had, provided it was    *)
(* opened with a positive cutoff: an order sealed for a batch cannot be     *)
(* placed by somebody who has read the others.                              *)
THEOREM SubmitsStopBeforeKeys == Spec => []NoSubmitAfterKeys
<1>1. ASSUME IInv PROVE NoSubmitAfterKeys
  <2> SUFFICES ASSUME NEW i \in DOMAIN batches,
                      check_policy(identity_of(i), registry, now),
                      batches[i].submit_cutoff_ms > 0, accepts_submits(batches[i])
               PROVE  FALSE
    BY DEF NoSubmitAfterKeys
  <2>1. batches[i] \in BatchType /\ now \in Int
    BY <1>1, BatchAssumption DEF IInv, TypeOK
  <2>2. batches[i].close_ms \in Nat /\ batches[i].submit_cutoff_ms \in Nat
    BY <2>1 DEF BatchType
  <2>3. now >= batches[i].close_ms
    BY DEF check_policy, identity_of, seal_identity
  <2>4. now + batches[i].submit_cutoff_ms <= batches[i].close_ms
    BY DEF accepts_submits
  <2>5. QED
    BY <2>1, <2>2, <2>3, <2>4
<1>2. QED
  BY <1>1, Invariance, PTL

-----------------------------------------------------------------------------
(* The book: the slots, what they hold, and the counter that stands for them. *)

\* The slots of a batch whose plaintext has been shown.
shown(b) == {k \in DOMAIN b.orders : b.is_revealed[k]}

\* What a slot holds is what was committed to it.
Honest(b, k) ==
    /\ order_commitment(b.revealed[k]) = b.orders[k].commitment
    /\ b.revealed[k].submitter = b.orders[k].submitter

Decided(b) ==
    b.state \in {STATE_CLEARING, STATE_SETTLED} =>
        shown(b) = DOMAIN b.orders \/ now > grace_deadline(b)

\* Inductive with IInv: the counter counts, so that it can stand for the slots.
BookKept(b) ==
    /\ b.revealed_count = Cardinality(shown(b))
    /\ \A k \in shown(b) : Honest(b, k)
    /\ Decided(b)

BooksKept == \A i \in DOMAIN batches : BookKept(batches[i])

-----------------------------------------------------------------------------
(* Slots of a batch. *)

(* A batch's slots are finite in number, and all shown when as many are as  *)
(* there are.                                                               *)
LEMMA SlotsCount ==
    ASSUME NEW b \in BatchType
    PROVE  /\ IsFiniteSet(shown(b)) /\ Cardinality(shown(b)) \in Nat
           /\ Cardinality(shown(b)) <= Len(b.orders)
           /\ Cardinality(shown(b)) = Len(b.orders) => shown(b) = DOMAIN b.orders
<1> DEFINE n == Len(b.orders)
<1>1. n \in Nat /\ DOMAIN b.orders = 1..n
  BY DEF BatchType
<1>2. IsFiniteSet(1..n) /\ Cardinality(1..n) = n
  BY <1>1, FS_Interval
<1>3. shown(b) \in SUBSET (1..n)
  BY <1>1 DEF shown
<1>4. QED
  BY <1>1, <1>2, <1>3, FS_Subset, FS_CardinalityType

(* One slot more.                                                           *)
LEMMA OneMore ==
    ASSUME NEW S, NEW s \in Seq(S), NEW x \in S
    PROVE  /\ DOMAIN Append(s, x) = 1..(Len(s) + 1) /\ Append(s, x)[Len(s) + 1] = x
           /\ \A k \in 1..Len(s) : Append(s, x)[k] = s[k]
  OBVIOUS

(* A batch whose book is not touched keeps it, when it is not taken either. *)
LEMMA SameBook ==
    ASSUME NEW b, NEW c, BookKept(b), c.revealed_count = b.revealed_count,
           c.orders = b.orders, c.revealed = b.revealed, c.is_revealed = b.is_revealed,
           Decided(c)
    PROVE  BookKept(c)
  BY DEF BookKept, shown, Honest

(* Replacing one batch by another whose book is kept keeps all of them.     *)
LEMMA OneBookMoves ==
    ASSUME IInv, BooksKept, now' = now, NEW i \in DOMAIN batches, NEW b,
           batches' = [batches EXCEPT ![i] = b], BookKept(b)
    PROVE  BooksKept'
<1>1. DOMAIN batches' = DOMAIN batches /\ batches'[i] = b
      /\ \A j \in DOMAIN batches : j # i => batches'[j] = batches[j]
  BY DEF IInv, TypeOK
<1>2. \A j \in DOMAIN batches : BookKept(batches'[j])
  BY <1>1 DEF BooksKept
<1>3. QED
  BY <1>1, <1>2 DEF BooksKept, BookKept, Decided, grace_deadline

-----------------------------------------------------------------------------
(* One lemma for each step. *)

(* Time only makes a deadline more past.                                    *)
LEMMA TickBooks ==
    ASSUME IInv, BooksKept, Tick PROVE BooksKept'
<1>1. now' = now + 1 /\ batches' = batches /\ now \in Nat
  BY BatchAssumption DEF Tick, IInv, TypeOK
<1>2. ASSUME NEW i \in DOMAIN batches PROVE BookKept(batches[i])'
  <2>1. batches[i] \in BatchType /\ BookKept(batches[i])
    BY DEF IInv, TypeOK, BooksKept
  <2>2. grace_deadline(batches[i]) \in Nat
    BY <2>1 DEF BatchType, grace_deadline
  <2>3. now > grace_deadline(batches[i]) => now' > grace_deadline(batches[i])
    BY <1>1, <2>2
  <2>4. Decided(batches[i])'
    BY <1>1, <2>1, <2>3 DEF BookKept, Decided, grace_deadline
  <2>5. QED
    BY <1>1, <2>1, <2>4 DEF BookKept
<1>3. QED
  BY <1>1, <1>2 DEF BooksKept

(* A batch opens with an empty book.                                        *)
LEMMA OpenBooks ==
    ASSUME IInv, BooksKept, open_batch PROVE BooksKept'
<1> DEFINE b == new_batch
           n == Len(batches) + 1
<1>1. batches' = Append(batches, b) /\ now' = now
  BY DEF open_batch
<1>2. b.orders = <<>> /\ b.revealed_count = 0 /\ b.state = STATE_OPEN
  BY DEF new_batch
<1> HIDE DEF b
<1>3. DOMAIN batches' = DOMAIN batches \cup {n} /\ batches'[n] = b
      /\ \A j \in DOMAIN batches : batches'[j] = batches[j]
  BY <1>1 DEF IInv, TypeOK
<1>4. shown(b) = {}
  BY <1>2 DEF shown
<1>5. BookKept(b)
  BY <1>2, <1>4, FS_EmptySet DEF BookKept, Decided, STATE_OPEN, STATE_CLEARING, STATE_SETTLED
<1>6. \A j \in DOMAIN batches' : BookKept(batches'[j])
  BY <1>3, <1>5 DEF BooksKept
<1>7. QED
  BY <1>1, <1>6 DEF BooksKept, BookKept, Decided, grace_deadline

(* A submit adds a slot nobody has shown.                                   *)
LEMMA SubmitBooks ==
    ASSUME IInv, BooksKept, Submit PROVE BooksKept'
<1>1. PICK i \in DOMAIN batches, who \in Addresses, o \in Orders : submit_order(i, who, o)
  BY DEF Submit
<1> DEFINE old == batches[i]
           n == Len(old.orders)
           sealed == [submitter |-> who, commitment |-> order_commitment(o),
                      submitted_at_ms |-> now]
           os == Append(old.orders, sealed)
           rs == Append(old.revealed, empty_order)
           ts == Append(old.is_revealed, FALSE)
           b == [old EXCEPT !.orders = os, !.revealed = rs, !.is_revealed = ts]
<1>2. old \in BatchType /\ Len(old.revealed) = n /\ Len(old.is_revealed) = n
      /\ BookKept(old) /\ old.state = STATE_OPEN
  BY <1>1 DEF IInv, TypeOK, BooksKept, submit_order, accepts_submits
<1>3. now' = now /\ batches' = [batches EXCEPT ![i] = b]
  BY <1>1 DEF submit_order
<1>4. old.orders \in Seq(SealedOrder) /\ old.revealed \in Seq(Orders \cup {empty_order})
      /\ old.is_revealed \in Seq(BOOLEAN) /\ n \in Nat
  BY <1>2 DEF BatchType
<1>5. b.orders = os /\ b.revealed = rs /\ b.is_revealed = ts
      /\ b.state = STATE_OPEN /\ b.revealed_count = old.revealed_count
  BY <1>2 DEF BatchType
<1> HIDE DEF sealed
<1>6. DOMAIN os = 1..(n + 1) /\ ts[n + 1] = FALSE /\ DOMAIN old.orders = 1..n
      /\ \A k \in 1..n : os[k] = old.orders[k] /\ rs[k] = old.revealed[k]
                           /\ ts[k] = old.is_revealed[k]
  <2>1. DOMAIN os = 1..(n + 1) /\ \A k \in 1..n : os[k] = old.orders[k]
    BY <1>4
  <2>2. ts[n + 1] = FALSE /\ \A k \in 1..n : ts[k] = old.is_revealed[k]
    <3> DEFINE unshown == FALSE
    <3>1. Len(old.is_revealed) = n /\ old.is_revealed \in Seq(BOOLEAN) /\ unshown \in BOOLEAN
      BY <1>2, <1>4
    <3>2. ts = Append(old.is_revealed, unshown)
      OBVIOUS
    <3> HIDE DEF unshown, ts
    <3>3. ts[n + 1] = unshown /\ \A k \in 1..n : ts[k] = old.is_revealed[k]
      BY <3>1, <3>2, OneMore
    <3>4. QED
      BY <3>3 DEF unshown
  <2>3. DOMAIN old.orders = 1..n /\ \A k \in 1..n : rs[k] = old.revealed[k]
    BY <1>2, <1>4
  <2>4. QED
    BY <2>1, <2>2, <2>3
<1> HIDE DEF os, rs, ts, b, n
<1>7. shown(b) = shown(old)
  BY <1>4, <1>5, <1>6 DEF shown
<1>8. \A k \in shown(old) : b.orders[k] = old.orders[k] /\ b.revealed[k] = old.revealed[k]
  BY <1>5, <1>6 DEF shown
<1>9. BookKept(b)
  BY <1>2, <1>5, <1>7, <1>8
     DEF BookKept, Honest, Decided, STATE_OPEN, STATE_CLEARING, STATE_SETTLED
<1>10. QED
  BY <1>3, <1>9, OneBookMoves

(* Closing leaves the book alone.                                           *)
LEMMA CloseBooks ==
    ASSUME IInv, BooksKept, Close PROVE BooksKept'
<1>1. PICK i \in DOMAIN batches : close_batch(i)
  BY DEF Close
<1> DEFINE old == batches[i]
           b == [old EXCEPT !.closed_at_ms = now, !.state = STATE_SEALED]
<1>2. old \in BatchType /\ BookKept(old) /\ now' = now /\ batches' = [batches EXCEPT ![i] = b]
  BY <1>1 DEF IInv, TypeOK, BooksKept, close_batch
<1>3. b.revealed_count = old.revealed_count /\ b.orders = old.orders
      /\ b.revealed = old.revealed /\ b.is_revealed = old.is_revealed /\ b.state = STATE_SEALED
  BY <1>2 DEF BatchType
<1> HIDE DEF b
<1>4. BookKept(b)
  BY <1>2, <1>3, SameBook DEF Decided, STATE_SEALED, STATE_CLEARING, STATE_SETTLED
<1>5. QED
  BY <1>2, <1>4, OneBookMoves

(* A reveal shows one slot more, and what was committed to it.              *)
LEMMA RevealBooks ==
    ASSUME IInv, BooksKept, Reveal PROVE BooksKept'
<1>1. PICK i \in DOMAIN batches :
         \E index \in DOMAIN batches[i].orders, o \in Orders : reveal_order(i, index, o)
  BY DEF Reveal
<1>2. PICK index \in DOMAIN batches[i].orders, o \in Orders : reveal_order(i, index, o)
  BY <1>1
<1> DEFINE old == batches[i]
           rs == [old.revealed EXCEPT ![index] = o]
           ts == [old.is_revealed EXCEPT ![index] = TRUE]
           b == [old EXCEPT !.revealed = rs, !.is_revealed = ts,
                            !.revealed_count = old.revealed_count + 1]
<1>3. old \in BatchType /\ Len(old.revealed) = Len(old.orders)
      /\ Len(old.is_revealed) = Len(old.orders) /\ BookKept(old)
  BY DEF IInv, TypeOK, BooksKept
<1>4. /\ now' = now /\ batches' = [batches EXCEPT ![i] = b]
      /\ ~old.is_revealed[index] /\ old.state = STATE_SEALED
      /\ o.submitter = old.orders[index].submitter
      /\ order_commitment(o) = old.orders[index].commitment
  BY <1>2 DEF reveal_order
<1>5. /\ DOMAIN old.revealed = DOMAIN old.orders /\ DOMAIN old.is_revealed = DOMAIN old.orders
      /\ old.revealed_count \in Nat
  BY <1>3 DEF BatchType
<1>6. b.orders = old.orders /\ b.revealed = rs /\ b.is_revealed = ts
      /\ b.state = STATE_SEALED /\ b.revealed_count = old.revealed_count + 1
  BY <1>3, <1>4 DEF BatchType
<1>7. rs[index] = o /\ ts[index] = TRUE
      /\ \A k \in DOMAIN old.orders : k # index => rs[k] = old.revealed[k]
                                                    /\ ts[k] = old.is_revealed[k]
  BY <1>5
<1> HIDE DEF rs, ts, b, old
<1>8. index \in DOMAIN old.orders
  BY <1>2 DEF old
<1>9. shown(b) = shown(old) \cup {index} /\ index \notin shown(old)
  BY <1>4, <1>6, <1>7, <1>8 DEF shown
<1>10. b.revealed_count = Cardinality(shown(b))
  <2>1. IsFiniteSet(shown(old)) /\ old.revealed_count = Cardinality(shown(old))
    BY <1>3, SlotsCount DEF BookKept
  <2>2. Cardinality(shown(b)) = Cardinality(shown(old)) + 1
    BY <1>9, <2>1, FS_AddElement
  <2>3. QED
    BY <1>6, <2>1, <2>2
<1>11. \A k \in shown(b) : Honest(b, k)
  <2>1. Honest(b, index)
    BY <1>4, <1>6, <1>7 DEF Honest
  <2>2. \A k \in shown(old) : Honest(old, k) /\ k # index /\ k \in DOMAIN old.orders
    BY <1>3, <1>9 DEF BookKept, shown
  <2>3. \A k \in shown(old) : Honest(b, k)
    BY <1>6, <1>7, <2>2 DEF Honest
  <2>4. QED
    BY <1>9, <2>1, <2>3
<1>12. Decided(b)
  BY <1>6 DEF Decided, STATE_SEALED, STATE_CLEARING, STATE_SETTLED
<1>13. BookKept(b)
  BY <1>10, <1>11, <1>12 DEF BookKept
<1>14. QED
  BY <1>4, <1>13, OneBookMoves

(* A clearing takes the book when the counter or the clock says it may.     *)
LEMMA StartClearingBooks ==
    ASSUME IInv, BooksKept, StartClearing PROVE BooksKept'
<1>1. PICK i \in DOMAIN batches : to_clearing(i)
  BY DEF StartClearing
<1> DEFINE old == batches[i]
           b == [old EXCEPT !.state = STATE_CLEARING]
<1>2. old \in BatchType /\ BookKept(old) /\ now' = now /\ batches' = [batches EXCEPT ![i] = b]
      /\ book_decided(old)
  BY <1>1 DEF IInv, TypeOK, BooksKept, to_clearing
<1>3. b.revealed_count = old.revealed_count /\ b.orders = old.orders
      /\ b.revealed = old.revealed /\ b.is_revealed = old.is_revealed
      /\ b.closed_at_ms = old.closed_at_ms /\ b.reveal_grace_ms = old.reveal_grace_ms
  BY <1>2 DEF BatchType
<1> HIDE DEF b
<1>4. shown(old) = DOMAIN old.orders \/ now > grace_deadline(old)
  BY <1>2, SlotsCount DEF BookKept, book_decided
<1>5. Decided(b)
  BY <1>3, <1>4 DEF Decided, shown, grace_deadline
<1>6. QED
  BY <1>2, <1>3, <1>5, SameBook, OneBookMoves

(* What was decided stays decided.                                          *)
LEMMA FinishClearingBooks ==
    ASSUME IInv, BooksKept, FinishClearing PROVE BooksKept'
<1>1. PICK i \in DOMAIN batches : to_settled(i)
  BY DEF FinishClearing
<1> DEFINE old == batches[i]
           b == [old EXCEPT !.state = STATE_SETTLED]
<1>2. old \in BatchType /\ BookKept(old) /\ now' = now /\ batches' = [batches EXCEPT ![i] = b]
      /\ old.state = STATE_CLEARING
  BY <1>1 DEF IInv, TypeOK, BooksKept, to_settled
<1>3. b.revealed_count = old.revealed_count /\ b.orders = old.orders
      /\ b.revealed = old.revealed /\ b.is_revealed = old.is_revealed
      /\ b.closed_at_ms = old.closed_at_ms /\ b.reveal_grace_ms = old.reveal_grace_ms
  BY <1>2 DEF BatchType
<1> HIDE DEF b
<1>4. Decided(b)
  BY <1>2, <1>3 DEF BookKept, Decided, shown, grace_deadline
<1>5. QED
  BY <1>2, <1>3, <1>4, SameBook, OneBookMoves

(* The setters touch no batch.                                              *)
LEMMA GovernBooks ==
    ASSUME BooksKept, Govern PROVE BooksKept'
<1>1. UNCHANGED <<now, batches>>
  BY DEF Govern, set_cadence, set_max_batch_size, set_policy_version,
         set_submit_cutoff_ms, set_reveal_grace_ms
<1>2. QED
  BY <1>1 DEF BooksKept, BookKept, Decided, grace_deadline

-----------------------------------------------------------------------------
(* The theorem. *)

(* No clearing of batch.move starts on a half-revealed book, and what is    *)
(* revealed is what was committed, by whoever committed it.                 *)
THEOREM ClearingsOnDecidedBooks == Spec => []ClearsADecidedBook
<1>1. Init => BooksKept
  BY DEF Init, BooksKept
<1>2. IInv /\ BooksKept /\ [Next]_vars => BooksKept'
  <2> SUFFICES ASSUME IInv, BooksKept, [Next]_vars PROVE BooksKept'
    OBVIOUS
  <2>1. CASE UNCHANGED vars
    BY <2>1 DEF vars, BooksKept, BookKept, Decided, grace_deadline
  <2>2. QED
    BY <2>1, TickBooks, GovernBooks, OpenBooks, SubmitBooks, CloseBooks, RevealBooks,
       StartClearingBooks, FinishClearingBooks DEF Next, Open
<1>3. BooksKept => ClearsADecidedBook
  BY DEF BooksKept, BookKept, Decided, Honest, shown, ClearsADecidedBook
<1>4. QED
  BY <1>1, <1>2, <1>3, Invariance, PTL DEF Spec
-----------------------------------------------------------------------------
(* The keepers: what holds of the chain and of every command while any      *)
(* number of them crank it, with clocks as far off as one likes.            *)

(* A batch is being cleared as long as its clearing has work left.          *)
WorkKept ==
    /\ work \in [DOMAIN work -> 0..Work] /\ DOMAIN work \subseteq DOMAIN batches
    /\ \A i \in DOMAIN batches :
          batches[i].state = STATE_CLEARING <=> i \in DOMAIN work /\ work[i] > 0

(* A row of a batch that somebody can reveal.                               *)
Verified(i, x) == x \in DOMAIN batches[i].orders /\ verifyPlaintext(i, x)

(* What a command has in hand is of a batch that was opened; a reveal's     *)
(* batch takes no more orders, and its rows keep the plaintexts they had    *)
(* when they were read.                                                     *)
CommandKept(c) ==
    /\ c.run = "none" => c.phase = "idle"
    /\ c.run \in {"close", "reveal", "begin", "step"} => c.batch \in DOMAIN batches
    /\ c.run = "step" => c.batch \in DOMAIN work
    /\ c.phase \in {"rows", "decrypt"} => c.run = "reveal"
    /\ c.phase = "readClearing" => c.run = "step"
    /\ c.phase \in {"simulate", "broadcast"} => c.steps < MaxSteps \/ c.run # "step"
    /\ c.run = "begin" => c.steps = 0
    /\ c.run = "reveal" =>
          /\ batches[c.batch].state # STATE_OPEN
          /\ c.rows \subseteq DOMAIN batches[c.batch].orders
          /\ \A n \in DOMAIN c.todo : Verified(c.batch, c.todo[n])
          /\ c.phase \in {"simulate", "broadcast"} => c.todo # <<>>

CommandsKept ==
    /\ cmd \in [Keepers -> CommandType]
    /\ \A k \in Keepers : CommandKept(cmd[k])

(* Inductive for the keepers; what they leave of a batch is Batch's own     *)
(* invariant.                                                               *)
CrankInv ==
    /\ IInv
    /\ BooksKept
    /\ WorkKept
    /\ CommandsKept

-----------------------------------------------------------------------------
(* The rows a reveal goes through, in index order. *)

(* A strictly larger initial segment has more elements.                     *)
LEMMA RanksDiffer ==
    ASSUME NEW m \in Nat, NEW S \in SUBSET (1..m), NEW x \in S, NEW y \in S, x < y
    PROVE  Cardinality({z \in S : z <= x}) # Cardinality({z \in S : z <= y})
<1>0. IsFiniteSet(1..m) /\ S \subseteq Nat
  <2>1. 1 \in Int /\ m \in Int /\ S \subseteq Nat
    OBVIOUS
  <2>2. IsFiniteSet(1..m)
    BY <2>1, FS_Interval
  <2>3. QED
    BY <2>1, <2>2
<1> DEFINE low == {z \in S : z <= x}
           high == {z \in S : z <= y}
<1>1. IsFiniteSet(S)
  BY <1>0, FS_Subset
<1>2. high \in SUBSET S /\ low \in SUBSET high /\ y \in high /\ y \notin low
  <2>1. \A z \in S : z <= x => z <= y
    BY <1>0
  <2>2. y <= y /\ ~(y <= x)
    BY <1>0
  <2>3. QED
    BY <2>1, <2>2
<1> HIDE DEF low, high
<1>3. IsFiniteSet(high)
  BY <1>1, <1>2, FS_Subset
<1>4. Cardinality(low) # Cardinality(high)
  BY <1>2, <1>3, FS_Subset
<1>5. QED
  BY <1>4 DEF low, high

(* ascending lists the rows it is given.                                    *)
LEMMA AscendingLists ==
    ASSUME NEW m \in Nat, NEW S \in SUBSET (1..m)
    PROVE  /\ ascending(S) \in Seq(Nat)
           /\ \A n \in DOMAIN ascending(S) : ascending(S)[n] \in S
<1> DEFINE N == Cardinality(S)
           Rank(x) == Cardinality({z \in S : z <= x})
           rank == [x \in S |-> Rank(x)]
<1>0. IsFiniteSet(1..m) /\ S \subseteq Nat
  <2>1. 1 \in Int /\ m \in Int /\ S \subseteq Nat
    OBVIOUS
  <2>2. IsFiniteSet(1..m)
    BY <2>1, FS_Interval
  <2>3. QED
    BY <2>1, <2>2
<1>1. IsFiniteSet(S) /\ N \in Nat
  BY <1>0, FS_Subset, FS_CardinalityType
<1>2. \A x \in S : Rank(x) \in 1..N
  <2>1. TAKE x \in S
  <2> DEFINE low == {z \in S : z <= x}
  <2>2. low \in SUBSET S /\ x \in low
    OBVIOUS
  <2> HIDE DEF low
  <2>3. IsFiniteSet(low) /\ Cardinality(low) <= N /\ Cardinality(low) \in Nat /\ Cardinality(low) # 0
    BY <1>1, <2>2, FS_Subset, FS_CardinalityType, FS_EmptySet
  <2>4. QED
    BY <1>1, <2>3 DEF low
<1>3. rank \in Injection(S, 1..N)
  <2>1. \A x, y \in S : Rank(x) = Rank(y) => x = y
    <3>1. SUFFICES ASSUME NEW x \in S, NEW y \in S, x # y PROVE Rank(x) # Rank(y)
      OBVIOUS
    <3>2. x < y \/ y < x
      BY <3>1
    <3>3. QED
      BY <3>2, RanksDiffer
  <2> HIDE DEF Rank
  <2>2. QED
    BY <1>2, <2>1 DEF Injection, IsInjective
<1>4. IsFiniteSet(1..N) /\ Cardinality(1..N) = N
  BY <1>1, FS_Interval
<1>5. rank \in Surjection(S, 1..N)
  BY <1>3, <1>4, FS_Injection
<1>6. \A n \in 1..N : \E x \in S : Rank(x) = n
  <2> HIDE DEF Rank
  <2>1. QED
    BY <1>5 DEF Surjection
<1>7. ascending(S) = [n \in 1..N |-> CHOOSE x \in S : Rank(x) = n]
  BY DEF ascending
<1>8. \A n \in 1..N : (CHOOSE x \in S : Rank(x) = n) \in S
  BY <1>6
<1> HIDE DEF Rank, N, rank
<1>9. ascending(S) \in [1..N -> S]
  BY <1>7, <1>8
<1>10. ascending(S) \in [1..N -> Nat]
  BY <1>0, <1>9
<1>11. QED
  BY <1>1, <1>9, <1>10

(* The next chunk is of what is left to do, and so is the rest of it.       *)
LEMMA ChunkAndRest ==
    ASSUME NEW c \in CommandType
    PROVE  /\ chunk(c) \in Seq(Nat) /\ rest(c) \in Seq(Nat)
           /\ c.todo # <<>> => chunk(c) # <<>>
           /\ \A n \in DOMAIN chunk(c) : \E p \in DOMAIN c.todo : chunk(c)[n] = c.todo[p]
           /\ \A n \in DOMAIN rest(c) : \E p \in DOMAIN c.todo : rest(c)[n] = c.todo[p]
<1> DEFINE s == c.todo
           h == Min2(ChunkSize, Len(s))
<1>1. s \in Seq(Nat) /\ ChunkSize \in Nat /\ ChunkSize > 0
  BY KeeperAssumption DEF CommandType
<1>2. h \in 0..Len(s) /\ (s # <<>> => h > 0)
  BY <1>1 DEF Min2
<1>3. chunk(c) = SubSeq(s, 1, h) /\ rest(c) = SubSeq(s, h + 1, Len(s))
  BY DEF chunk, rest
<1> HIDE DEF s, h
<1>4. /\ SubSeq(s, 1, h) \in Seq(Nat) /\ Len(SubSeq(s, 1, h)) = h
      /\ \A n \in 1..h : SubSeq(s, 1, h)[n] = s[n]
  BY <1>1, <1>2
<1>5. /\ SubSeq(s, h + 1, Len(s)) \in Seq(Nat)
      /\ \A n \in DOMAIN SubSeq(s, h + 1, Len(s)) :
            h + n \in DOMAIN s /\ SubSeq(s, h + 1, Len(s))[n] = s[h + n]
  BY <1>1, <1>2
<1>6. QED
  <2>1. chunk(c) \in Seq(Nat) /\ DOMAIN chunk(c) = 1..h /\ rest(c) \in Seq(Nat)
    BY <1>2, <1>3, <1>4, <1>5
  <2>2. s # <<>> => chunk(c) # <<>>
    BY <1>2, <2>1
  <2>3. \A n \in DOMAIN chunk(c) : n \in DOMAIN s /\ chunk(c)[n] = s[n]
    BY <1>1, <1>2, <1>3, <1>4, <2>1
  <2>4. \A n \in DOMAIN rest(c) : h + n \in DOMAIN s /\ rest(c)[n] = s[h + n]
    BY <1>3, <1>5
  <2>5. QED
    BY <2>1, <2>2, <2>3, <2>4 DEF s

-----------------------------------------------------------------------------
(* What a step of the chain leaves true for a command that looks on. *)

(* Batches are opened and not forgotten; a closed one takes no more orders, *)
(* and no identity changes.                                                 *)
ChainMoves ==
    /\ now \in Nat /\ now' \in Nat /\ now <= now'
    /\ registry'.policy_version = registry.policy_version
    /\ DOMAIN batches \subseteq DOMAIN batches' /\ DOMAIN work \subseteq DOMAIN work'
    /\ \A i \in DOMAIN batches :
          /\ batches[i].close_ms \in Nat
          /\ batches'[i].close_ms = batches[i].close_ms
          /\ batches'[i].policy_version = batches[i].policy_version
          /\ batches[i].state # STATE_OPEN =>
                /\ batches'[i].state # STATE_OPEN
                /\ batches'[i].orders = batches[i].orders

(* A row that could be revealed can still be.                               *)
LEMMA StillVerified ==
    ASSUME ChainMoves, NEW i \in DOMAIN batches, batches[i].state # STATE_OPEN,
           NEW x, Verified(i, x)
    PROVE  Verified(i, x)'
<1>1. check_policy(identity_of(i), registry, now)
  BY DEF Verified, verifyPlaintext, plaintextOf, decodeOrder
<1>2. check_policy(identity_of(i), registry, now)'
  BY <1>1 DEF ChainMoves, check_policy, identity_of, seal_identity
<1>3. batches'[i].orders = batches[i].orders
  BY DEF ChainMoves
<1>4. plaintextOf(i, x)' = plaintextOf(i, x)
  BY <1>1, <1>2, <1>3 DEF plaintextOf
<1>5. QED
  BY <1>3, <1>4 DEF Verified, verifyPlaintext

(* So a command keeps what it has, whatever the others do.                  *)
LEMMA CommandStaysKept ==
    ASSUME ChainMoves, NEW c \in CommandType, CommandKept(c)
    PROVE  CommandKept(c)'
<1>1. ASSUME c.run = "reveal"
      PROVE  /\ batches'[c.batch].state # STATE_OPEN
             /\ c.rows \subseteq DOMAIN batches'[c.batch].orders
             /\ \A n \in DOMAIN c.todo : Verified(c.batch, c.todo[n])'
  <2>1. c.batch \in DOMAIN batches /\ batches[c.batch].state # STATE_OPEN
    BY <1>1 DEF CommandKept
  <2>2. \A n \in DOMAIN c.todo : Verified(c.batch, c.todo[n])'
    BY <1>1, <2>1, StillVerified DEF CommandKept
  <2>3. QED
    BY <1>1, <2>1, <2>2 DEF CommandKept, ChainMoves
<1>2. /\ DOMAIN batches \subseteq DOMAIN batches' /\ DOMAIN work \subseteq DOMAIN work'
  BY DEF ChainMoves
<1>3. QED
  BY <1>1, <1>2 DEF CommandKept

(* One command moves on while the chain does.                               *)
LEMMA OneCommandMoves ==
    ASSUME ChainMoves, CommandsKept, NEW k \in Keepers, NEW d \in CommandType,
           CommandKept(d)', cmd' = [cmd EXCEPT ![k] = d]
    PROVE  CommandsKept'
<1>1. cmd \in [Keepers -> CommandType]
  BY DEF CommandsKept
<1>2. cmd' \in [Keepers -> CommandType] /\ cmd'[k] = d
      /\ \A j \in Keepers : j # k => cmd'[j] = cmd[j]
  BY <1>1
<1>3. ASSUME NEW j \in Keepers PROVE CommandKept(cmd[j])'
  <2>1. CASE j = k
    BY <1>2, <2>1 DEF CommandKept
  <2>2. CASE j # k
    <3>1. PICK c \in CommandType : c = cmd[j]
      BY <1>1
    <3>2. CommandKept(c)
      BY <3>1 DEF CommandsKept
    <3>3. CommandKept(c)'
      BY <3>2, CommandStaysKept
    <3>4. cmd'[j] = c
      BY <1>2, <2>2, <3>1
    <3>5. QED
      BY <3>3, <3>4 DEF CommandKept
  <2>3. QED
    BY <2>1, <2>2
<1>4. QED
  BY <1>2, <1>3 DEF CommandsKept

(* None moves while the chain does.                                         *)
LEMMA NoCommandMoves ==
    ASSUME ChainMoves, CommandsKept, cmd' = cmd
    PROVE  CommandsKept'
<1>1. cmd \in [Keepers -> CommandType]
  BY DEF CommandsKept
<1>2. ASSUME NEW j \in Keepers PROVE CommandKept(cmd[j])'
  <2>1. PICK c \in CommandType : c = cmd[j]
    BY <1>1
  <2>2. CommandKept(c)
    BY <2>1 DEF CommandsKept
  <2>3. CommandKept(c)'
    BY <2>2, CommandStaysKept
  <2>4. QED
    BY <2>1, <2>3 DEF CommandKept
<1>3. QED
  BY <1>1, <1>2 DEF CommandsKept

-----------------------------------------------------------------------------
(* What each step of the chain does to all of this. *)

(* A step that replaces one batch, and keeps of it what must be kept.       *)
LEMMA OneBatchMoves ==
    ASSUME IInv, now' = now, registry'.policy_version = registry.policy_version,
           DOMAIN work \subseteq DOMAIN work', NEW i \in DOMAIN batches, NEW b,
           batches' = [batches EXCEPT ![i] = b],
           b.close_ms = batches[i].close_ms,
           b.policy_version = batches[i].policy_version,
           batches[i].state # STATE_OPEN =>
              b.state # STATE_OPEN /\ b.orders = batches[i].orders
    PROVE  ChainMoves
<1>1. DOMAIN batches' = DOMAIN batches /\ batches'[i] = b
      /\ \A j \in DOMAIN batches : j # i => batches'[j] = batches[j]
  BY DEF IInv, TypeOK
<1>2. now \in Nat /\ \A j \in DOMAIN batches : batches[j].close_ms \in Nat
  <2>1. now \in Nat /\ \A j \in DOMAIN batches : batches[j] \in BatchType
    BY DEF IInv, TypeOK
  <2>2. QED
    BY <2>1 DEF BatchType
<1>3. QED
  BY <1>1, <1>2 DEF ChainMoves

(* The work of a clearing is not touched by a step that neither begins nor  *)
(* ends one.                                                                *)
LEMMA SameWork ==
    ASSUME IInv, WorkKept, work' = work, NEW i \in DOMAIN batches, NEW b,
           batches' = [batches EXCEPT ![i] = b],
           b.state # STATE_CLEARING, batches[i].state # STATE_CLEARING
    PROVE  WorkKept'
<1>1. DOMAIN batches' = DOMAIN batches /\ batches'[i] = b
      /\ \A j \in DOMAIN batches : j # i => batches'[j] = batches[j]
  BY DEF IInv, TypeOK
<1>2. QED
  BY <1>1 DEF WorkKept

(* A step that touches neither the batches nor the clearings.               *)
LEMMA NothingMoves ==
    ASSUME IInv, BooksKept, WorkKept, UNCHANGED <<vars, work>>
    PROVE  IInv' /\ BooksKept' /\ WorkKept' /\ ChainMoves
<1>1. now' = now /\ registry' = registry /\ batches' = batches /\ work' = work
  BY DEF vars
<1>2. IInv' /\ BooksKept' /\ WorkKept'
  BY <1>1 DEF IInv, TypeOK, ScheduleDefined, OneLiveBatch, PassesInOrder,
              LivePolicyVersion, is_live, BooksKept, BookKept, Decided, grace_deadline, WorkKept
<1>3. now \in Nat /\ \A j \in DOMAIN batches : batches[j].close_ms \in Nat
  <2>1. now \in Nat /\ \A j \in DOMAIN batches : batches[j] \in BatchType
    BY DEF IInv, TypeOK
  <2>2. QED
    BY <2>1 DEF BatchType
<1>4. QED
  BY <1>1, <1>2, <1>3 DEF ChainMoves

(* Time passes.                                                             *)
LEMMA TickMoves ==
    ASSUME IInv, WorkKept, Tick, work' = work
    PROVE  ChainMoves /\ WorkKept'
<1>1. now' = now + 1 /\ registry' = registry /\ batches' = batches
  BY DEF Tick
<1>2. now \in Nat /\ \A j \in DOMAIN batches : batches[j].close_ms \in Nat
  <2>1. now \in Nat /\ \A j \in DOMAIN batches : batches[j] \in BatchType
    BY DEF IInv, TypeOK
  <2>2. QED
    BY <2>1 DEF BatchType
<1>3. QED
  BY <1>1, <1>2 DEF ChainMoves, WorkKept

(* Orders come in.                                                          *)
LEMMA SubmitMoves ==
    ASSUME IInv, WorkKept, Submit, work' = work
    PROVE  ChainMoves /\ WorkKept'
<1>1. PICK i \in DOMAIN batches, who \in Addresses, o \in Orders : submit_order(i, who, o)
  BY DEF Submit
<1> DEFINE old == batches[i]
           sealed == [submitter |-> who, commitment |-> order_commitment(o),
                      submitted_at_ms |-> now]
           b == [old EXCEPT !.orders = Append(old.orders, sealed),
                            !.revealed = Append(old.revealed, empty_order),
                            !.is_revealed = Append(old.is_revealed, FALSE)]
<1>2. old \in BatchType /\ old.state = STATE_OPEN
  BY <1>1 DEF IInv, TypeOK, submit_order, accepts_submits
<1>3. now' = now /\ registry' = registry /\ batches' = [batches EXCEPT ![i] = b]
  BY <1>1 DEF submit_order
<1>4. b.close_ms = old.close_ms /\ b.policy_version = old.policy_version /\ b.state = STATE_OPEN
  BY <1>2 DEF BatchType
<1> HIDE DEF b
<1>5. ChainMoves
  BY <1>2, <1>3, <1>4, OneBatchMoves
<1>6. b.state # STATE_CLEARING /\ old.state # STATE_CLEARING
  BY <1>2, <1>4 DEF STATE_OPEN, STATE_CLEARING
<1>7. WorkKept'
  BY <1>3, <1>6, SameWork
<1>8. QED
  BY <1>5, <1>7

(* A batch is opened.                                                       *)
LEMMA OpenMoves ==
    ASSUME IInv, WorkKept, open_batch, work' = work
    PROVE  ChainMoves /\ WorkKept'
<1> DEFINE n == Len(batches) + 1
           b == new_batch
<1>1. /\ now' = now /\ batches' = Append(batches, b)
      /\ registry' = [registry EXCEPT !.next_batch_id = @ + 1, !.live_batches = 1]
  BY DEF open_batch
<1>2. b.state = STATE_OPEN
  BY DEF new_batch
<1> HIDE DEF b
<1>3. DOMAIN batches' = DOMAIN batches \cup {n} /\ n \notin DOMAIN batches
      /\ batches'[n] = b /\ \A j \in DOMAIN batches : batches'[j] = batches[j]
  BY <1>1 DEF IInv, TypeOK
<1>4. registry'.policy_version = registry.policy_version
  BY <1>1 DEF IInv, TypeOK, BatchRegistryType
<1>5. now \in Nat /\ \A j \in DOMAIN batches : batches[j].close_ms \in Nat
  <2>1. now \in Nat /\ \A j \in DOMAIN batches : batches[j] \in BatchType
    BY DEF IInv, TypeOK
  <2>2. QED
    BY <2>1 DEF BatchType
<1>6. ChainMoves
  BY <1>1, <1>3, <1>4, <1>5 DEF ChainMoves
<1>7. WorkKept'
  BY <1>2, <1>3 DEF WorkKept, STATE_OPEN, STATE_CLEARING
<1>8. QED
  BY <1>6, <1>7

(* A batch is closed.                                                       *)
LEMMA CloseMoves ==
    ASSUME IInv, WorkKept, NEW i \in DOMAIN batches, close_batch(i), work' = work
    PROVE  ChainMoves /\ WorkKept'
<1> DEFINE old == batches[i]
           b == [old EXCEPT !.closed_at_ms = now, !.state = STATE_SEALED]
<1>1. old \in BatchType /\ old.state = STATE_OPEN
      /\ now' = now /\ registry' = registry /\ batches' = [batches EXCEPT ![i] = b]
  BY DEF IInv, TypeOK, close_batch
<1>2. b.close_ms = old.close_ms /\ b.policy_version = old.policy_version
      /\ b.state = STATE_SEALED /\ b.orders = old.orders
  BY <1>1 DEF BatchType
<1> HIDE DEF b
<1>3. ChainMoves
  BY <1>1, <1>2, OneBatchMoves
<1>4. b.state # STATE_CLEARING /\ old.state # STATE_CLEARING
  BY <1>1, <1>2 DEF STATE_OPEN, STATE_SEALED, STATE_CLEARING
<1>5. WorkKept'
  BY <1>1, <1>4, SameWork
<1>6. QED
  BY <1>3, <1>5

(* A clearing begins, with all its work ahead.                              *)
LEMMA BeginMoves ==
    ASSUME IInv, WorkKept, NEW i \in DOMAIN batches, to_clearing(i),
           work' = [j \in DOMAIN work \cup {i} |-> IF j = i THEN Work ELSE work[j]]
    PROVE  ChainMoves /\ WorkKept' /\ i \in DOMAIN work'
<1> DEFINE old == batches[i]
           b == [old EXCEPT !.state = STATE_CLEARING]
<1>1. old \in BatchType /\ old.state = STATE_SEALED
      /\ now' = now /\ registry' = registry /\ batches' = [batches EXCEPT ![i] = b]
  BY DEF IInv, TypeOK, to_clearing
<1>2. b.close_ms = old.close_ms /\ b.policy_version = old.policy_version
      /\ b.state = STATE_CLEARING /\ b.orders = old.orders
  BY <1>1 DEF BatchType
<1> HIDE DEF b
<1>3. ChainMoves
  <2>1. b.state # STATE_OPEN /\ DOMAIN work \subseteq DOMAIN work'
    BY <1>2 DEF STATE_OPEN, STATE_CLEARING
  <2>2. QED
    BY <1>1, <1>2, <2>1, OneBatchMoves
<1>4. WorkKept'
  <2>1. DOMAIN batches' = DOMAIN batches /\ batches'[i] = b
        /\ \A j \in DOMAIN batches : j # i => batches'[j] = batches[j]
    BY <1>1 DEF IInv, TypeOK
  <2>2. DOMAIN work' = DOMAIN work \cup {i} /\ work'[i] = Work
        /\ \A j \in DOMAIN work : j # i => work'[j] = work[j]
    OBVIOUS
  <2>3. work' \in [DOMAIN work' -> 0..Work]
    <3>1. Work \in 0..Work /\ \A j \in DOMAIN work : work[j] \in 0..Work
      BY KeeperAssumption DEF WorkKept
    <3>2. QED
      BY <3>1
  <2>4. Work > 0
    BY KeeperAssumption
  <2>5. \A j \in DOMAIN batches' :
           batches'[j].state = STATE_CLEARING <=> j \in DOMAIN work' /\ work'[j] > 0
    BY <1>2, <2>1, <2>2, <2>4 DEF WorkKept
  <2>6. QED
    BY <2>1, <2>2, <2>3, <2>5 DEF WorkKept
<1>5. QED
  BY <1>3, <1>4

(* A clearing takes a step, and with its last one ends.                     *)
LEMMA StepMoves ==
    ASSUME BatchAssumption, IInv, BooksKept, WorkKept, NEW i \in DOMAIN work, clearingStep(i)
    PROVE  IInv' /\ BooksKept' /\ WorkKept' /\ ChainMoves
<1> DEFINE left == IF work[i] > Budget THEN work[i] - Budget ELSE 0
<1>1. /\ i \in DOMAIN batches /\ Budget \in Nat /\ Budget > 0 /\ Work \in Nat
      /\ work[i] \in 0..Work /\ work' = [work EXCEPT ![i] = left]
  BY KeeperAssumption DEF WorkKept, clearingStep
<1>2. left \in 0..Work /\ (left > 0 => work[i] > 0) /\ (left = 0 <=> work[i] <= Budget)
  BY <1>1
<1> HIDE DEF left
<1>3. /\ DOMAIN work' = DOMAIN work /\ work'[i] = left
      /\ \A j \in DOMAIN work : j # i => work'[j] = work[j]
      /\ work' \in [DOMAIN work' -> 0..Work]
  BY <1>1, <1>2 DEF WorkKept
<1>4. CASE work[i] > 0 /\ work[i] <= Budget
  <2> DEFINE old == batches[i]
             b == [old EXCEPT !.state = STATE_SETTLED]
  <2>1. to_settled(i)
    BY <1>4 DEF clearingStep
  <2>2. IInv' /\ BooksKept'
    BY <1>1, <2>1, FinishClearingIInv, FinishClearingBooks DEF FinishClearing
  <2>3. old \in BatchType /\ now' = now /\ batches' = [batches EXCEPT ![i] = b]
        /\ registry' = [registry EXCEPT !.live_batches = @ - 1]
    BY <1>1, <2>1 DEF IInv, TypeOK, to_settled
  <2>4. b.close_ms = old.close_ms /\ b.policy_version = old.policy_version
        /\ b.state = STATE_SETTLED /\ b.orders = old.orders
    BY <2>3 DEF BatchType
  <2>5. registry'.policy_version = registry.policy_version
    BY <2>3 DEF IInv, TypeOK, BatchRegistryType
  <2> HIDE DEF b
  <2>6. ChainMoves
    <3>1. b.state # STATE_OPEN /\ DOMAIN work \subseteq DOMAIN work'
      BY <1>3, <2>4 DEF STATE_OPEN, STATE_SETTLED
    <3>2. QED
      BY <1>1, <2>3, <2>4, <2>5, <3>1, OneBatchMoves
  <2>7. DOMAIN batches' = DOMAIN batches /\ batches'[i] = b
        /\ \A j \in DOMAIN batches : j # i => batches'[j] = batches[j]
    BY <1>1, <2>3 DEF IInv, TypeOK
  <2>8. WorkKept'
    BY <1>2, <1>3, <1>4, <2>4, <2>7 DEF WorkKept, STATE_SETTLED, STATE_CLEARING
  <2>9. QED
    BY <2>2, <2>6, <2>8
<1>5. CASE ~(work[i] > 0 /\ work[i] <= Budget)
  <2>1. now' = now /\ registry' = registry /\ batches' = batches
    BY <1>5 DEF clearingStep, vars
  <2>2. IInv' /\ BooksKept'
    BY <2>1 DEF IInv, TypeOK, ScheduleDefined, OneLiveBatch, PassesInOrder,
                LivePolicyVersion, is_live, BooksKept, BookKept, Decided, grace_deadline
  <2>3. now \in Nat /\ \A j \in DOMAIN batches : batches[j].close_ms \in Nat
    <3>1. now \in Nat /\ \A j \in DOMAIN batches : batches[j] \in BatchType
      BY DEF IInv, TypeOK
    <3>2. QED
      BY <3>1 DEF BatchType
  <2>4. ChainMoves
    BY <1>3, <2>1, <2>3 DEF ChainMoves
  <2>5. work[i] > 0 <=> left > 0
    BY <1>1, <1>2, <1>5
  <2>6. WorkKept'
    BY <1>3, <2>1, <2>5 DEF WorkKept
  <2>7. QED
    BY <2>2, <2>4, <2>6
<1>6. QED
  BY <1>4, <1>5

(* A chunk of reveals lands: all of its slots are filled, and the counter   *)
(* still counts them.                                                       *)
LEMMA RevealMoves ==
    ASSUME BatchAssumption, IInv, BooksKept, WorkKept, NEW c \in CommandType, CommandKept(c),
           c.run = "reveal", c.phase = "broadcast", succeeds(c), revealChunk(c)
    PROVE  IInv' /\ BooksKept' /\ WorkKept' /\ ChainMoves
<1> DEFINE i == c.batch
           old == batches[i]
           mine == {chunk(c)[n] : n \in DOMAIN chunk(c)}
           rs == [x \in DOMAIN old.revealed |->
                    IF x \in mine THEN plaintextOf(i, x) ELSE old.revealed[x]]
           ts == [x \in DOMAIN old.is_revealed |-> x \in mine \/ old.is_revealed[x]]
           m == old.revealed_count + Cardinality(mine)
           b == [old EXCEPT !.revealed = rs, !.is_revealed = ts, !.revealed_count = m]
<1>1. i \in DOMAIN batches /\ chunk(c) # <<>> /\ chunk(c) \in Seq(Nat)
  BY ChunkAndRest DEF CommandKept
<1>2. \A x \in mine : x \in DOMAIN old.orders /\ revealFits(i, x)
  <2>1. \A n \in DOMAIN chunk(c) : revealFits(i, chunk(c)[n])
    BY DEF succeeds
  <2>2. \A n \in DOMAIN chunk(c) : chunk(c)[n] \in DOMAIN old.orders
    BY ChunkAndRest DEF CommandKept, Verified
  <2>3. QED
    BY <2>1, <2>2
<1>3. old.state = STATE_SEALED
  <2>1. 1 \in DOMAIN chunk(c)
    BY <1>1
  <2>2. QED
    BY <1>2, <2>1 DEF revealFits
<1>4. /\ old \in BatchType /\ BookKept(old) /\ is_live(old)
      /\ Len(old.revealed) = Len(old.orders) /\ Len(old.is_revealed) = Len(old.orders)
      /\ registry.live_batches = 1 /\ registry \in BatchRegistryType
  BY <1>1, <1>3, TouchedBatch DEF BooksKept, is_live, STATE_SEALED, STATE_SETTLED
<1>5. /\ old.revealed \in Seq(Orders \cup {empty_order}) /\ old.is_revealed \in Seq(BOOLEAN)
      /\ old.orders \in Seq(SealedOrder) /\ old.revealed_count \in Nat
  BY <1>4 DEF BatchType
<1>6. /\ DOMAIN old.orders = 1..Len(old.orders) /\ Len(old.orders) \in Nat
      /\ DOMAIN old.revealed = DOMAIN old.orders /\ DOMAIN old.is_revealed = DOMAIN old.orders
  BY <1>4, <1>5
<1>7. IsFiniteSet(mine) /\ Cardinality(mine) \in Nat
  <2>1. IsFiniteSet(DOMAIN old.orders)
    <3>1. 1 \in Int /\ Len(old.orders) \in Int
      BY <1>6
    <3>2. QED
      BY <1>6, <3>1, FS_Interval
  <2>2. mine \in SUBSET DOMAIN old.orders
    BY <1>2
  <2> HIDE DEF mine, old
  <2>3. QED
    BY <2>1, <2>2, FS_Subset, FS_CardinalityType
<1>8. UNCHANGED <<now, registry, work>> /\ batches' = [batches EXCEPT ![i] = b]
  BY DEF revealChunk
<1>9. /\ \A x \in mine : /\ ~old.is_revealed[x] /\ plaintextOf(i, x) \in Orders
                         /\ plaintextOf(i, x).submitter = old.orders[x].submitter
                         /\ order_commitment(plaintextOf(i, x)) = old.orders[x].commitment
  BY <1>2 DEF revealFits
<1> HIDE DEF mine
<1>10. /\ rs \in Seq(Orders \cup {empty_order}) /\ Len(rs) = Len(old.orders)
       /\ \A x \in DOMAIN old.orders :
             rs[x] = IF x \in mine THEN plaintextOf(i, x) ELSE old.revealed[x]
  <2>1. \A x \in DOMAIN old.orders :
           (IF x \in mine THEN plaintextOf(i, x) ELSE old.revealed[x]) \in Orders \cup {empty_order}
    BY <1>5, <1>6, <1>9
  <2>2. rs \in [1..Len(old.orders) -> Orders \cup {empty_order}]
    BY <1>6, <2>1
  <2>3. QED
    BY <1>6, <2>2
<1>11. /\ ts \in Seq(BOOLEAN) /\ Len(ts) = Len(old.orders)
       /\ \A x \in DOMAIN old.orders : ts[x] = (x \in mine \/ old.is_revealed[x])
  <2>1. ts \in [1..Len(old.orders) -> BOOLEAN]
    BY <1>6
  <2>2. QED
    BY <1>6, <2>1
<1>12. m \in Nat
  BY <1>5, <1>7
<1> HIDE DEF rs, ts, m, old
<1>13. b \in BatchType
  <2>1. [old EXCEPT !.revealed = rs] \in BatchType
    BY <1>4, <1>10 DEF BatchType
  <2>2. [old EXCEPT !.revealed = rs, !.is_revealed = ts] \in BatchType
    BY <1>11, <2>1 DEF BatchType
  <2>3. QED
    BY <1>12, <2>2 DEF BatchType
<1>14. /\ b.state = old.state /\ b.closed_at_ms = old.closed_at_ms
       /\ b.policy_version = old.policy_version /\ b.close_ms = old.close_ms
       /\ b.opened_at_ms = old.opened_at_ms /\ b.revealed_count = m
       /\ b.orders = old.orders /\ b.revealed = rs /\ b.is_revealed = ts
  BY <1>4, <1>13 DEF BatchType
<1> HIDE DEF b
<1>15. IInv'
  <2>1. Len(b.revealed) = Len(b.orders) /\ Len(b.is_revealed) = Len(b.orders)
    BY <1>10, <1>11, <1>14
  <2>2. b.state # STATE_SETTLED
    BY <1>3, <1>14 DEF old, STATE_SEALED, STATE_SETTLED
  <2>3. /\ is_live(batches[i]) /\ b.state = batches[i].state
        /\ b.closed_at_ms = batches[i].closed_at_ms
        /\ b.policy_version = batches[i].policy_version
        /\ b.close_ms = batches[i].close_ms /\ b.opened_at_ms = batches[i].opened_at_ms
    BY <1>4, <1>14 DEF old
  <2> HIDE DEF i
  <2>4. QED
    BY <1>1, <1>4, <1>8, <1>13, <2>1, <2>2, <2>3, LiveBatchStep
<1>16. BookKept(b)
  <2>1. shown(b) = shown(old) \cup mine /\ shown(old) \cap mine = {}
    BY <1>2, <1>9, <1>11, <1>14 DEF shown, old
  <2>2. b.revealed_count = Cardinality(shown(b))
    <3>1. IsFiniteSet(shown(old)) /\ old.revealed_count = Cardinality(shown(old))
          /\ Cardinality(shown(old)) \in Nat
      BY <1>4, SlotsCount DEF BookKept
    <3>2. Cardinality(shown(b)) = Cardinality(shown(old)) + Cardinality(mine)
      <4>1. Cardinality(shown(old) \cup mine) =
               Cardinality(shown(old)) + Cardinality(mine) - Cardinality(shown(old) \cap mine)
        BY <1>7, <3>1, FS_Union
      <4>2. Cardinality(shown(old) \cap mine) = 0
        BY <2>1, FS_EmptySet
      <4>3. QED
        BY <1>7, <2>1, <3>1, <4>1, <4>2
    <3>3. QED
      BY <1>7, <1>14, <3>1, <3>2 DEF m
  <2>3. ASSUME NEW x \in shown(b) PROVE Honest(b, x)
    <3>1. x \in DOMAIN old.orders
      BY <2>3, <1>14 DEF shown
    <3>2. CASE x \in mine
      BY <1>9, <1>10, <1>14, <3>1, <3>2 DEF Honest
    <3>3. CASE x \notin mine
      <4>1. Honest(old, x)
        BY <1>4, <2>1, <2>3, <3>3 DEF BookKept
      <4>2. QED
        BY <1>10, <1>14, <3>1, <3>3, <4>1 DEF Honest
    <3>4. QED
      BY <3>2, <3>3
  <2>4. Decided(b)
    BY <1>3, <1>14 DEF Decided, old, STATE_SEALED, STATE_CLEARING, STATE_SETTLED
  <2>5. QED
    BY <2>2, <2>3, <2>4 DEF BookKept
<1> HIDE DEF i
<1>17. BooksKept'
  BY <1>1, <1>8, <1>16, OneBookMoves
<1>18. ChainMoves
  BY <1>1, <1>8, <1>14, OneBatchMoves DEF old
<1>19. WorkKept'
  <2>1. b.state # STATE_CLEARING /\ batches[i].state # STATE_CLEARING
    BY <1>3, <1>14 DEF old, STATE_SEALED, STATE_CLEARING
  <2>2. QED
    BY <1>1, <1>8, <2>1, SameWork
<1>20. QED
  BY <1>15, <1>17, <1>18, <1>19

(* So does any transaction the chain takes.                                 *)
LEMMA LandMoves ==
    ASSUME BatchAssumption, IInv, BooksKept, WorkKept, NEW c \in CommandType, CommandKept(c),
           c.phase = "broadcast", succeeds(c), land(c)
    PROVE  /\ IInv' /\ BooksKept' /\ WorkKept' /\ ChainMoves
           /\ c.run = "begin" => c.batch \in DOMAIN work'
<1>1. CASE c.run = "open"
  <2>1. open_batch /\ work' = work /\ now < MaxU64
    BY <1>1 DEF land, succeeds
  <2>2. QED
    BY <1>1, <2>1, OpenIInv, OpenBooks, OpenMoves
<1>2. CASE c.run = "close"
  <2>1. close_batch(c.batch) /\ work' = work /\ c.batch \in DOMAIN batches
    BY <1>2 DEF land, CommandKept
  <2>2. Close
    BY <2>1 DEF Close
  <2>3. QED
    BY <1>2, <2>1, <2>2, CloseIInv, CloseBooks, CloseMoves
<1>3. CASE c.run = "reveal"
  BY <1>3, RevealMoves DEF land
<1>4. CASE c.run = "begin"
  <2>1. /\ to_clearing(c.batch) /\ c.batch \in DOMAIN batches
        /\ work' = [j \in DOMAIN work \cup {c.batch} |-> IF j = c.batch THEN Work ELSE work[j]]
    BY <1>4 DEF land, CommandKept
  <2>2. StartClearing
    BY <2>1 DEF StartClearing
  <2>3. QED
    BY <2>1, <2>2, StartClearingIInv, StartClearingBooks, BeginMoves
<1>5. CASE c.run = "step"
  <2>1. clearingStep(c.batch) /\ c.batch \in DOMAIN work
    BY <1>5 DEF land, CommandKept
  <2>2. QED
    BY <1>5, <2>1, StepMoves
<1>6. c.run # "none"
  BY DEF CommandKept
<1>7. QED
  BY <1>1, <1>2, <1>3, <1>4, <1>5, <1>6 DEF CommandType

-----------------------------------------------------------------------------
(* What each step of a keeper does. *)

(* A keeper with nothing to do has nothing in hand.                         *)
LEMMA IdleKept == idle \in CommandType /\ CommandKept(idle)
<1>1. idle \in CommandType
  BY KeeperAssumption DEF idle, CommandType, Phases
<1>2. QED
  BY <1>1 DEF idle, CommandKept

(* A command that only looks moves on.                                      *)
LEMMA LookOn ==
    ASSUME CrankInv, UNCHANGED <<vars, work>>, NEW k \in Keepers,
           NEW d \in CommandType, CommandKept(d), cmd' = [cmd EXCEPT ![k] = d]
    PROVE  CrankInv'
<1>1. IInv' /\ BooksKept' /\ WorkKept' /\ ChainMoves
  BY NothingMoves DEF CrankInv
<1>2. CommandKept(d)'
  BY <1>1, CommandStaysKept
<1>3. CommandsKept'
  BY <1>1, <1>2, OneCommandMoves DEF CrankInv
<1>4. QED
  BY <1>1, <1>3 DEF CrankInv

(* A command starts with a batch and no more.                               *)
LEMMA StartKept ==
    ASSUME CrankInv, UNCHANGED <<vars, work>>, NEW k \in Keepers,
           NEW run \in {"open", "close", "reveal", "begin", "step"},
           NEW phase \in {"rows", "simulate", "readClearing"}, NEW i \in Nat,
           cmd' = [cmd EXCEPT ![k] = [idle EXCEPT !.run = run, !.phase = phase, !.batch = i]],
           run # "open" => i \in DOMAIN batches,
           run = "reveal" => batches[i].state # STATE_OPEN,
           run = "step" => i \in DOMAIN work,
           phase = "rows" <=> run = "reveal", phase = "readClearing" <=> run = "step"
    PROVE  CrankInv'
<1> DEFINE d == [idle EXCEPT !.run = run, !.phase = phase, !.batch = i]
<1>1. /\ d.run = run /\ d.phase = phase /\ d.batch = i
      /\ d.rows = {} /\ d.todo = <<>> /\ d.steps = 0
  BY DEF idle
<1>2. d \in CommandType
  BY IdleKept DEF CommandType, Phases
<1>3. cmd' = [cmd EXCEPT ![k] = d]
  OBVIOUS
<1> HIDE DEF d
<1>4. CommandKept(d)
  BY <1>1 DEF CommandKept
<1>5. QED
  BY <1>2, <1>3, <1>4, LookOn

(* Each is started on a batch in the state it looks for.                    *)
LEMMA RunsKept ==
    ASSUME CrankInv, NEW k \in Keepers,
           RunAny(k) \/ \E skew \in Skews : RunDue(k, now + skew)
    PROVE  CrankInv'
<1>1. Len(batches) + 1 \in Nat /\ \A i \in DOMAIN batches : i \in Nat
  BY DEF CrankInv, IInv, TypeOK
<1>2. ASSUME runOpen(k) PROVE CrankInv'
  <2>1. /\ UNCHANGED <<vars, work>>
        /\ cmd' = [cmd EXCEPT ![k] =
              [idle EXCEPT !.run = "open", !.phase = "simulate", !.batch = Len(batches) + 1]]
    BY <1>2 DEF runOpen
  <2>2. QED
    BY <1>1, <2>1, StartKept
<1>3. ASSUME NEW i \in DOMAIN batches, NEW at, NEW force, runClose(k, i, at, force)
      PROVE  CrankInv'
  <2>1. /\ UNCHANGED <<vars, work>>
        /\ cmd' = [cmd EXCEPT ![k] =
              [idle EXCEPT !.run = "close", !.phase = "simulate", !.batch = i]]
    BY <1>3 DEF runClose
  <2>2. QED
    BY <1>1, <2>1, StartKept
<1>4. ASSUME NEW i \in DOMAIN batches, NEW at, runReveal(k, i, at) PROVE CrankInv'
  <2>1. /\ UNCHANGED <<vars, work>>
        /\ cmd' = [cmd EXCEPT ![k] =
              [idle EXCEPT !.run = "reveal", !.phase = "rows", !.batch = i]]
        /\ batches[i].state # STATE_OPEN
    BY <1>4 DEF runReveal, STATE_OPEN, STATE_SEALED
  <2>2. QED
    BY <1>1, <2>1, StartKept
<1>5. ASSUME NEW i \in DOMAIN batches, runDrive(k, i, FALSE) PROVE CrankInv'
  <2>1. /\ UNCHANGED <<vars, work>>
        /\ cmd' = [cmd EXCEPT ![k] =
              [idle EXCEPT !.run = "begin", !.phase = "simulate", !.batch = i]]
    BY <1>5 DEF runDrive
  <2>2. QED
    BY <1>1, <2>1, StartKept
<1>6. ASSUME NEW i \in DOMAIN batches, runDrive(k, i, TRUE) PROVE CrankInv'
  <2>1. /\ UNCHANGED <<vars, work>> /\ i \in DOMAIN work
        /\ cmd' = [cmd EXCEPT ![k] =
              [idle EXCEPT !.run = "step", !.phase = "readClearing", !.batch = i]]
    BY <1>6 DEF runDrive
  <2>2. QED
    BY <1>1, <2>1, StartKept
<1>7. QED
  BY <1>2, <1>3, <1>4, <1>5, <1>6 DEF RunAny, RunDue

(* The rows of a sealed batch are read, and those that pass are kept.       *)
LEMMA RowsKept ==
    ASSUME CrankInv, NEW k \in Keepers, readSealedOrders(k) \/ verifyRows(k)
    PROVE  CrankInv'
<1>1. PICK c \in CommandType : c = cmd[k]
  BY DEF CrankInv, CommandsKept
<1>2. CommandKept(c) /\ UNCHANGED <<vars, work>> /\ c.run = "reveal"
      /\ c.phase \in {"rows", "decrypt"} /\ c.batch \in DOMAIN batches
  BY <1>1 DEF CrankInv, CommandsKept, CommandKept, readSealedOrders, verifyRows
<1> DEFINE orders == batches[c.batch].orders
<1>3. DOMAIN orders = 1..Len(orders) /\ Len(orders) \in Nat
  <2>1. batches[c.batch] \in BatchType
    BY <1>2 DEF CrankInv, IInv, TypeOK
  <2>2. orders \in Seq(SealedOrder)
    BY <2>1 DEF BatchType
  <2>3. QED
    BY <2>2
<1>4. CASE readSealedOrders(k)
  <2> DEFINE rows == unrevealedRows(batches[c.batch])
             d == [c EXCEPT !.phase = "decrypt", !.rows = rows]
  <2>1. rows \subseteq DOMAIN orders
    BY DEF unrevealedRows
  <2>2. cmd' = [cmd EXCEPT ![k] = d]
    BY <1>1, <1>4 DEF readSealedOrders
  <2>3. rows \in SUBSET Nat
    BY <1>3, <2>1
  <2> HIDE DEF rows
  <2>4. d \in CommandType
    BY <2>3 DEF CommandType, Phases
  <2>5. /\ d.run = c.run /\ d.phase = "decrypt" /\ d.batch = c.batch
        /\ d.rows = rows /\ d.todo = c.todo /\ d.steps = c.steps
    BY DEF CommandType
  <2> HIDE DEF d
  <2>6. CommandKept(d)
    BY <1>2, <2>1, <2>5 DEF CommandKept
  <2>7. QED
    BY <1>2, <2>2, <2>4, <2>6, LookOn
<1>5. CASE verifyRows(k)
  <2> DEFINE good == {x \in c.rows : verifyPlaintext(c.batch, x)}
             fit == ascending(good)
             d == [c EXCEPT !.phase = "simulate", !.rows = {}, !.todo = fit]
  <2>1. cmd' = [cmd EXCEPT ![k] = IF fit = <<>> THEN idle ELSE d]
    BY <1>1, <1>5 DEF verifyRows
  <2>2. good \in SUBSET (1..Len(orders)) /\ \A x \in good : Verified(c.batch, x)
    BY <1>2, <1>3 DEF CommandKept, Verified
  <2> HIDE DEF good
  <2>3. fit \in Seq(Nat) /\ \A n \in DOMAIN fit : fit[n] \in good
    BY <1>3, <2>2, AscendingLists
  <2> HIDE DEF fit
  <2>4. CASE fit = <<>>
    BY <1>2, <2>1, <2>4, IdleKept, LookOn
  <2>5. CASE fit # <<>>
    <3>1. d \in CommandType
      <4>1. [c EXCEPT !.phase = "simulate"] \in CommandType
        BY DEF CommandType, Phases
      <4>2. [c EXCEPT !.phase = "simulate", !.rows = {}] \in CommandType
        BY <4>1 DEF CommandType
      <4>3. QED
        BY <2>3, <4>2 DEF CommandType
    <3>2. /\ d.run = c.run /\ d.phase = "simulate" /\ d.batch = c.batch
          /\ d.rows = {} /\ d.todo = fit /\ d.steps = c.steps
      BY DEF CommandType
    <3>3. cmd' = [cmd EXCEPT ![k] = d]
      BY <2>1, <2>5
    <3> HIDE DEF d
    <3>4. \A n \in DOMAIN d.todo : Verified(d.batch, d.todo[n])
      BY <2>2, <2>3, <3>2
    <3>5. CommandKept(d)
      BY <1>2, <2>5, <3>2, <3>4 DEF CommandKept
    <3>6. QED
      BY <1>2, <3>1, <3>3, <3>5, LookOn
  <2>6. QED
    BY <2>4, <2>5
<1>6. QED
  BY <1>4, <1>5

(* A command that gives up, or dies, has nothing in hand any more.          *)
LEMMA GivesUp ==
    ASSUME CrankInv, NEW k \in Keepers, executionFailed(k) \/ lost(k)
    PROVE  CrankInv'
<1>1. UNCHANGED <<vars, work>> /\ cmd' = [cmd EXCEPT ![k] = idle]
  BY DEF executionFailed, lost, finish
<1>2. QED
  BY <1>1, IdleKept, LookOn

(* A simulation changes what a command will do, and nothing else.           *)
LEMMA PreflightKept ==
    ASSUME CrankInv, NEW k \in Keepers, preflight(k)
    PROVE  CrankInv'
<1>1. PICK c \in CommandType : c = cmd[k]
  BY DEF CrankInv, CommandsKept
<1> DEFINE d == [c EXCEPT !.phase = "broadcast"]
<1>2. CommandKept(c) /\ UNCHANGED <<vars, work>> /\ c.phase = "simulate"
      /\ cmd' = [cmd EXCEPT ![k] = IF succeeds(c) THEN d ELSE idle]
  BY <1>1 DEF CrankInv, CommandsKept, preflight
<1>3. d \in CommandType
  BY DEF CommandType, Phases
<1>4. /\ d.run = c.run /\ d.phase = "broadcast" /\ d.batch = c.batch
      /\ d.rows = c.rows /\ d.todo = c.todo /\ d.steps = c.steps
  BY DEF CommandType
<1> HIDE DEF d
<1>5. CommandKept(d)
  BY <1>2, <1>4 DEF CommandKept
<1>6. CASE succeeds(c)
  BY <1>2, <1>3, <1>5, <1>6, LookOn
<1>7. CASE ~succeeds(c)
  BY <1>2, <1>7, IdleKept, LookOn
<1>8. QED
  BY <1>6, <1>7

(* A drive reads its clearing, and ends or takes another step.              *)
LEMMA ReadClearingKept ==
    ASSUME CrankInv, NEW k \in Keepers, readClearing(k)
    PROVE  CrankInv'
<1>1. PICK c \in CommandType : c = cmd[k]
  BY DEF CrankInv, CommandsKept
<1> DEFINE d == [c EXCEPT !.phase = "simulate"]
<1>2. CommandKept(c) /\ UNCHANGED <<vars, work>> /\ c.phase = "readClearing"
      /\ cmd' = [cmd EXCEPT ![k] = IF driveReport(c) # "none" THEN idle ELSE d]
  BY <1>1 DEF CrankInv, CommandsKept, readClearing
<1>3. d \in CommandType
  BY DEF CommandType, Phases
<1>4. /\ d.run = c.run /\ d.phase = "simulate" /\ d.batch = c.batch
      /\ d.rows = c.rows /\ d.todo = c.todo /\ d.steps = c.steps
  BY DEF CommandType
<1> HIDE DEF d
<1>5. CASE driveReport(c) = "none"
  <2>1. c.steps < MaxSteps
    BY <1>5, KeeperAssumption DEF driveReport, CommandType
  <2>2. CommandKept(d)
    BY <1>2, <1>4, <2>1 DEF CommandKept
  <2>3. QED
    BY <1>2, <1>3, <1>5, <2>2, LookOn
<1>6. CASE driveReport(c) # "none"
  BY <1>2, <1>6, IdleKept, LookOn
<1>7. QED
  BY <1>5, <1>6

(* What is left of a command whose transaction has landed.                  *)
LEMMA AfterLandingKept ==
    ASSUME NEW c \in CommandType, CommandKept(c), CommandKept(c)', c.phase = "broadcast",
           c.run = "begin" => c.batch \in DOMAIN work'
    PROVE  afterLanding(c) \in CommandType /\ CommandKept(afterLanding(c))'
<1>1. c.run # "none" /\ MaxSteps \in Nat /\ idle \in CommandType
  BY KeeperAssumption, IdleKept DEF CommandKept
<1>2. CASE c.run = "reveal" /\ rest(c) # <<>>
  <2> DEFINE d == [c EXCEPT !.phase = "simulate", !.todo = rest(c)]
  <2>1. afterLanding(c) = d
    BY <1>2 DEF afterLanding
  <2>2. d \in CommandType
    <3>1. [c EXCEPT !.phase = "simulate"] \in CommandType
      BY DEF CommandType, Phases
    <3>2. QED
      BY <3>1, ChunkAndRest DEF CommandType
  <2>3. /\ d.run = c.run /\ d.phase = "simulate" /\ d.batch = c.batch
        /\ d.rows = c.rows /\ d.todo = rest(c) /\ d.steps = c.steps
    BY DEF CommandType
  <2> HIDE DEF d
  <2>4. \A n \in DOMAIN d.todo : Verified(d.batch, d.todo[n])'
    BY <1>2, <2>3, ChunkAndRest DEF CommandKept
  <2>5. CommandKept(d)'
    BY <1>2, <2>3, <2>4 DEF CommandKept
  <2>6. QED
    BY <2>1, <2>2, <2>5
<1>3. CASE c.run = "begin"
  <2> DEFINE d == [c EXCEPT !.run = "step", !.phase = "readClearing"]
  <2>1. afterLanding(c) = d
    BY <1>3 DEF afterLanding
  <2>2. d \in CommandType
    BY DEF CommandType, Phases
  <2>3. d.run = "step" /\ d.phase = "readClearing" /\ d.batch = c.batch
    BY DEF CommandType
  <2> HIDE DEF d
  <2>4. CommandKept(d)'
    BY <1>3, <2>3 DEF CommandKept
  <2>5. QED
    BY <2>1, <2>2, <2>4
<1>4. CASE c.run = "step"
  <2> DEFINE n == c.steps + 1
             d == [c EXCEPT !.phase = "readClearing", !.steps = n]
  <2>1. afterLanding(c) = d
    BY <1>4 DEF afterLanding
  <2>2. n \in 0..MaxSteps
    BY <1>1, <1>4 DEF CommandType, CommandKept
  <2> HIDE DEF n
  <2>3. d \in CommandType
    BY <2>2 DEF CommandType, Phases
  <2>4. d.run = "step" /\ d.phase = "readClearing" /\ d.batch = c.batch
    BY <1>4 DEF CommandType
  <2> HIDE DEF d
  <2>5. CommandKept(d)'
    BY <1>4, <2>4 DEF CommandKept
  <2>6. QED
    BY <2>1, <2>3, <2>5
<1>5. CASE c.run \in {"open", "close"} \/ (c.run = "reveal" /\ rest(c) = <<>>)
  <2>1. afterLanding(c) = idle
    BY <1>5 DEF afterLanding
  <2>2. CommandKept(idle)'
    BY DEF idle, CommandKept
  <2>3. QED
    BY <1>1, <2>1, <2>2 DEF CommandKept
<1>6. c.run \in {"open", "close", "reveal", "begin", "step"}
  BY <1>1 DEF CommandType
<1>7. CASE c.run = "reveal"
  BY <1>2, <1>5, <1>7
<1>8. CASE c.run \in {"open", "close"}
  BY <1>5, <1>8
<1>9. QED
  BY <1>3, <1>4, <1>6, <1>7, <1>8

(* A transaction lands, and its sender learns of it or not.                 *)
LEMMA SendKept ==
    ASSUME BatchAssumption, CrankInv, NEW k \in Keepers, sendChecked(k) \/ answerLost(k)
    PROVE  CrankInv'
<1>1. PICK c \in CommandType : c = cmd[k]
  BY DEF CrankInv, CommandsKept
<1>2. /\ CommandKept(c) /\ c.phase = "broadcast" /\ succeeds(c) /\ land(c)
      /\ \/ cmd' = [cmd EXCEPT ![k] = afterLanding(c)]
         \/ cmd' = [cmd EXCEPT ![k] = idle]
  BY <1>1 DEF CrankInv, CommandsKept, sendChecked, answerLost, finish
<1>3. /\ IInv' /\ BooksKept' /\ WorkKept' /\ ChainMoves
      /\ c.run = "begin" => c.batch \in DOMAIN work'
  BY <1>2, LandMoves DEF CrankInv
<1>4. CommandKept(c)'
  BY <1>2, <1>3, CommandStaysKept
<1>5. PICK d \in CommandType : d = afterLanding(c) /\ CommandKept(d)'
  <2>1. afterLanding(c) \in CommandType /\ CommandKept(afterLanding(c))'
    BY <1>2, <1>3, <1>4, AfterLandingKept
  <2>2. QED
    BY <2>1 DEF CommandKept
<1>6. CommandKept(idle)' /\ idle \in CommandType
  BY <1>3, IdleKept, CommandStaysKept
<1>7. CommandsKept'
  BY <1>2, <1>3, <1>5, <1>6, OneCommandMoves DEF CrankInv
<1>8. QED
  BY <1>3, <1>7 DEF CrankInv

-----------------------------------------------------------------------------
(* The theorems about the keepers. *)

(* Whatever the keepers do, and whatever becomes of them, every batch keeps *)
(* what Batch promises of it, its clearing has work left exactly while it   *)
(* is being cleared, and every command knows what it is about.              *)
THEOREM CrankInvariance == CrankSpec => []CrankInv
<1>1. CrankInit => CrankInv
  <2> SUFFICES ASSUME CrankInit PROVE CrankInv
    OBVIOUS
  <2>1. Init /\ work = [i \in {} |-> 0] /\ cmd = [k \in Keepers |-> idle]
    BY DEF CrankInit
  <2>2. IInv /\ BooksKept
    BY <2>1, BatchAssumption, InitIInv DEF Init, BooksKept
  <2>3. WorkKept
    BY <2>1 DEF Init, WorkKept
  <2>4. CommandsKept
    BY <2>1, IdleKept DEF CommandsKept
  <2>5. QED
    BY <2>2, <2>3, <2>4 DEF CrankInv
<1>2. CrankInv /\ [CrankNext]_allVars => CrankInv'
  <2> SUFFICES ASSUME CrankInv, [CrankNext]_allVars PROVE CrankInv'
    OBVIOUS
  <2>1. CASE CrankTick
    <3>1. Tick /\ work' = work /\ cmd' = cmd
      BY <2>1 DEF CrankTick, crankVars
    <3>2. IInv' /\ BooksKept' /\ WorkKept' /\ ChainMoves
      BY <3>1, BatchAssumption, TickIInv, TickBooks, TickMoves DEF CrankInv
    <3>3. QED
      BY <3>1, <3>2, NoCommandMoves DEF CrankInv
  <2>2. CASE Submit /\ UNCHANGED crankVars
    <3>1. Submit /\ work' = work /\ cmd' = cmd
      BY <2>2 DEF crankVars
    <3>2. IInv' /\ BooksKept' /\ WorkKept' /\ ChainMoves
      BY <3>1, BatchAssumption, SubmitIInv, SubmitBooks, SubmitMoves DEF CrankInv
    <3>3. QED
      BY <3>1, <3>2, NoCommandMoves DEF CrankInv
  <2>3. ASSUME NEW k \in Keepers, RunAny(k) \/ \E skew \in Skews : RunDue(k, now + skew)
        PROVE  CrankInv'
    BY <2>3, RunsKept
  <2>4. ASSUME NEW k \in Keepers, Continue(k) PROVE CrankInv'
    BY <2>4, BatchAssumption, RowsKept, PreflightKept, GivesUp, SendKept, ReadClearingKept
       DEF Continue
  <2>5. ASSUME NEW k \in Keepers, lost(k) \/ answerLost(k) PROVE CrankInv'
    BY <2>5, BatchAssumption, GivesUp, SendKept
  <2>6. CASE UNCHANGED allVars
    <3>1. UNCHANGED <<vars, work>> /\ cmd' = cmd
      BY <2>6 DEF allVars, crankVars
    <3>2. IInv' /\ BooksKept' /\ WorkKept' /\ ChainMoves
      BY <3>1, NothingMoves DEF CrankInv
    <3>3. QED
      BY <3>1, <3>2, NoCommandMoves DEF CrankInv
  <2>7. QED
    BY <2>1, <2>2, <2>3, <2>4, <2>5, <2>6 DEF CrankNext
<1>3. QED
  BY <1>1, <1>2, PTL DEF CrankSpec

(* The commands and the clearings are well typed.                           *)
THEOREM CrankTypeCorrect == CrankSpec => []CrankTypeOK
<1>1. CrankInv => CrankTypeOK
  BY DEF CrankInv, CommandsKept, WorkKept, CrankTypeOK
<1>2. QED
  BY <1>1, CrankInvariance, PTL

(* What the scheduler calls due on a batch is what the chain accepts of it, *)
(* at every deadline and for any grace: no keeper waits for ever, or sends  *)
(* what reverts, because it compares with < where batch.move has <=.        *)
THEOREM ScheduleAgreesWithChain == CrankSpec => []DueIsWhatTheChainAccepts
<1>1. ASSUME CrankInv PROVE DueIsWhatTheChainAccepts
  <2> SUFFICES ASSUME NEW i \in DOMAIN batches
               PROVE  LET b == batches[i]
                          due == dueActions(b, now)
                      IN /\ due = "close" <=> (b.state = STATE_OPEN /\ now >= b.close_ms)
                         /\ due = "begin" <=> (b.state = STATE_SEALED /\ book_decided(b))
                         /\ due = "open" /\ i = Len(batches) => registry.live_batches = 0
                         /\ due = "step" <=> (b.state = STATE_CLEARING
                                               /\ i \in DOMAIN work /\ work[i] > 0)
    BY DEF DueIsWhatTheChainAccepts
  <2> DEFINE b == batches[i]
             due == dueActions(b, now)
  <2>1. b \in BatchType /\ now \in 0..MaxU64 /\ MaxU64 \in Nat /\ BookKept(b)
    BY <1>1, BatchAssumption DEF CrankInv, IInv, TypeOK, BooksKept
  <2>2. /\ b.state \in 0..3 /\ grace_deadline(b) \in Nat /\ Len(b.orders) \in Nat
        /\ b.orders \in Seq(SealedOrder)
    BY <2>1 DEF BatchType, STATE_OPEN, STATE_SETTLED, grace_deadline
  <2>3. b.revealed_count \in Nat /\ b.revealed_count <= Len(b.orders)
    BY <2>1, SlotsCount DEF BookKept
  <2>4. b.state = STATE_SETTLED /\ i = Len(batches) => registry.live_batches = 0
    BY <1>1 DEF CrankInv, IInv, OneLiveBatch, is_live
  <2>5. b.state = STATE_CLEARING <=> i \in DOMAIN work /\ work[i] > 0
    BY <1>1 DEF CrankInv, WorkKept
  <2> HIDE DEF b
  <2>6. grace_deadline(b) = b.closed_at_ms + b.reveal_grace_ms
    BY DEF grace_deadline
  <2>7. CASE b.state = STATE_OPEN
    <3>1. due = IF now >= b.close_ms THEN "close" ELSE "none"
      BY <2>7 DEF dueActions, STATE_OPEN, STATE_SEALED, STATE_CLEARING, STATE_SETTLED
    <3>2. QED
      BY <2>5, <2>7, <3>1
         DEF b, STATE_OPEN, STATE_SEALED, STATE_CLEARING, STATE_SETTLED
  <2>8. CASE b.state = STATE_SEALED
    <3>1. due = IF b.revealed_count < Len(b.orders) /\ now <= grace_deadline(b)
                THEN "reveal" ELSE "begin"
      BY <2>6, <2>8 DEF dueActions, STATE_OPEN, STATE_SEALED, STATE_CLEARING, STATE_SETTLED
    <3>2. due = "begin" <=> book_decided(b)
      BY <2>1, <2>2, <2>3, <3>1 DEF book_decided
    <3>3. due \in {"reveal", "begin"}
      BY <3>1
    <3>4. QED
      BY <2>5, <2>8, <3>2, <3>3
         DEF b, STATE_OPEN, STATE_SEALED, STATE_CLEARING, STATE_SETTLED
  <2>9. CASE b.state = STATE_CLEARING
    <3>1. due = "step"
      BY <2>9 DEF dueActions, STATE_OPEN, STATE_SEALED, STATE_CLEARING, STATE_SETTLED
    <3>2. QED
      BY <2>5, <2>9, <3>1
         DEF b, STATE_OPEN, STATE_SEALED, STATE_CLEARING, STATE_SETTLED
  <2>10. CASE b.state = STATE_SETTLED
    <3>1. due = "open"
      BY <2>10 DEF dueActions, STATE_OPEN, STATE_SEALED, STATE_CLEARING, STATE_SETTLED
    <3>2. QED
      BY <2>4, <2>5, <2>10, <3>1
         DEF b, STATE_OPEN, STATE_SEALED, STATE_CLEARING, STATE_SETTLED
  <2>11. QED
    BY <2>2, <2>7, <2>8, <2>9, <2>10 DEF STATE_OPEN, STATE_SEALED, STATE_CLEARING, STATE_SETTLED
<1>2. QED
  BY <1>1, CrankInvariance, PTL

(* A chunk of reveals the chain refuses has lost a race, with another       *)
(* keeper, the clearing or the deadline: never because one of its orders is *)
(* bad, however many bad ones the batch holds.                              *)
THEOREM OnlyRacesFailChunks == CrankSpec => []OnlyARaceFailsAChunk
<1>1. ASSUME CrankInv PROVE OnlyARaceFailsAChunk
  <2> SUFFICES ASSUME NEW k \in Keepers, cmd[k].run = "reveal",
                      cmd[k].phase \in {"simulate", "broadcast"},
                      batches[cmd[k].batch].state = STATE_SEALED,
                      ~(now > grace_deadline(batches[cmd[k].batch])),
                      ~(grace_deadline(batches[cmd[k].batch]) > MaxU64),
                      \A n \in DOMAIN chunk(cmd[k]) :
                         ~batches[cmd[k].batch].is_revealed[chunk(cmd[k])[n]]
               PROVE  succeeds(cmd[k])
    BY DEF OnlyARaceFailsAChunk
  <2>1. PICK c \in CommandType : c = cmd[k]
    BY <1>1 DEF CrankInv, CommandsKept
  <2> DEFINE b == batches[c.batch]
  <2>2. CommandKept(c) /\ c.run = "reveal" /\ c.batch \in DOMAIN batches
    BY <1>1, <2>1 DEF CrankInv, CommandsKept, CommandKept
  <2>3. b \in BatchType /\ now \in Nat /\ MaxU64 \in Nat
    BY <1>1, <2>2, BatchAssumption DEF CrankInv, IInv, TypeOK
  <2>4. grace_deadline(b) <= MaxU64 /\ now <= grace_deadline(b)
    <3>1. b.closed_at_ms \in Nat /\ b.reveal_grace_ms \in Nat
      BY <2>3 DEF BatchType
    <3> HIDE DEF b
    <3>2. grace_deadline(b) \in Nat
      BY <3>1 DEF grace_deadline
    <3>3. ~(now > grace_deadline(b)) /\ ~(grace_deadline(b) > MaxU64)
      BY <2>1 DEF b
    <3>4. QED
      BY <2>3, <3>2, <3>3
  <2>5. ASSUME NEW n \in DOMAIN chunk(c) PROVE revealFits(c.batch, chunk(c)[n])
    <3> DEFINE x == chunk(c)[n]
               o == plaintextOf(c.batch, x)
    <3>1. Verified(c.batch, x) /\ ~b.is_revealed[x]
      BY <2>1, <2>2, <2>5, ChunkAndRest DEF CommandKept
    <3>2. /\ o # Unreadable /\ o.qty_sats > 0 /\ o.limit_price > 0
          /\ o.submitter = b.orders[x].submitter
          /\ order_commitment(o) = b.orders[x].commitment /\ x \in DOMAIN b.orders
      BY <3>1 DEF Verified, verifyPlaintext, decodeOrder
    <3>3. o \in Orders
      <4>0. b.orders \in Seq(SealedOrder)
        BY <2>3 DEF BatchType
      <4>1. b.orders[x] \in SealedOrder
        BY <3>2, <4>0
      <4>2. PICK p \in Orders : order_commitment(p) = b.orders[x].commitment
        BY <4>1 DEF SealedOrder, Commitments
      <4>3. (CHOOSE p_1 \in Orders : order_commitment(p_1) = b.orders[x].commitment) \in Orders
        BY <4>2
      <4>4. QED
        BY <3>2, <4>3, KeeperAssumption DEF plaintextOf
    <3>4. QED
      BY <2>1, <2>4, <3>1, <3>2, <3>3 DEF revealFits
  <2>6. QED
    BY <2>1, <2>2, <2>5 DEF succeeds
<1>2. QED
  BY <1>1, CrankInvariance, PTL

(* However many keepers race, none begins a clearing on a half-revealed     *)
(* book.                                                                    *)
THEOREM KeepersClearDecidedBooks == CrankSpec => []ClearsADecidedBook
<1>1. CrankInv => ClearsADecidedBook
  BY DEF CrankInv, BooksKept, BookKept, Decided, Honest, shown, ClearsADecidedBook
<1>2. QED
  BY <1>1, CrankInvariance, PTL
==============================================================================
