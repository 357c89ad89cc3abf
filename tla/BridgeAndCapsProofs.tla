---------------------- MODULE BridgeAndCapsProofs ----------------------
(***************************************************************************)
(* What holds of the two bridges, and of the capability registry, for      *)
(* every value of their constants.  Of the simulated bridge: the bucket    *)
(* bounds what leaves, no withdrawal is both paid out and refunded, the    *)
(* log replays to what the bridge holds, and a watcher that has caught up  *)
(* with the log states what waits in the bridge.                           *)
(* Of the live adapter's log: older events come first whatever the pages,  *)
(* none comes twice unless calls overlap, and what is not found is new.    *)
(* Of the registry: one live capability of each kind, in the right hands,  *)
(* and none that comes back to life.                                       *)
(* The three share no state.                                               *)
(***************************************************************************)
EXTENDS BridgeReplay, Watcher, EventMerge, Caps, SumProofs

EventKinds ==
  {"DepositRequested", "DepositApproved", "DepositConfirmed", "Minted",
   "WithdrawalRequested", "WithdrawalApproved", "WithdrawalPickedForProcessing",
   "WithdrawalInputsSigned", "WithdrawalSigned", "Burned", "WithdrawalConfirmed",
   "WithdrawalCancelled"}

EventRecord == [kind : EventKinds, id : Nat, sats : Nat, atMs : Nat]

WithdrawalRecord ==
  [requester : Users, sats : Nat, requestedAt : Nat, pickJitter : Nat,
   status : InQueue \cup {"Signed", "Confirmed", "Cancelled"},
   approvedAt : Nat, pickedAt : Nat, signedAt : Nat,
   nextSignAttempt : Nat, signAttempts : Nat, signAbandoned : BOOLEAN]

DepositRecord ==
  [recipient : Users, sats : Nat, requestedAt : Nat,
   status : {"Requested", "Approved", "Confirmed"}, approvedAt : Nat]

Shape ==
  /\ nowMs \in Nat /\ limiter \in LimiterState /\ burned \in Nat
  /\ events \in Seq(EventRecord)
  /\ deposits \in Seq(DepositRecord) /\ withdrawals \in Seq(WithdrawalRecord)

\* What the log says of a withdrawal is what its status says.
Tracked == {"WithdrawalPickedForProcessing", "WithdrawalSigned", "WithdrawalCancelled"}

OccursIn(evs, kind, i) ==
  Cardinality({k \in DOMAIN evs : evs[k].kind = kind /\ evs[k].id = i})

statusOf(ws, i) == IF i \in DOMAIN ws THEN ws[i].status ELSE "none"

said(kind, status) ==
  CASE kind = "WithdrawalPickedForProcessing" ->
         IF status \in {"PickedForProcessing", "Signed", "Confirmed"} THEN 1 ELSE 0
    [] kind = "WithdrawalSigned" -> IF status \in {"Signed", "Confirmed"} THEN 1 ELSE 0
    [] kind = "WithdrawalCancelled" -> IF status = "Cancelled" THEN 1 ELSE 0

History(evs, ws) ==
  \A i \in Nat, kind \in Tracked : OccursIn(evs, kind, i) = said(kind, statusOf(ws, i))

\* The statuses move by what event e says.
Follows(e, ws, ws2) ==
  \A i \in Nat, kind \in Tracked :
    said(kind, statusOf(ws2, i))
      = said(kind, statusOf(ws, i)) + (IF e.kind = kind /\ e.id = i THEN 1 ELSE 0)

\* The inductive invariant.
IInv == Shape /\ OutflowBounded /\ History(events, withdrawals)

------------------------------------------------------------------------
(* The log. *)

\* What the log says at each status.
LEMMA SaidTable ==
  /\ \A kind \in Tracked : /\ said(kind, "none") = 0
                            /\ said(kind, "Requested") = 0 /\ said(kind, "Approved") = 0
                            /\ said(kind, "Signed") = said(kind, "Confirmed")
  /\ \A kind \in Tracked :
       /\ said(kind, "PickedForProcessing")
            = (IF kind = "WithdrawalPickedForProcessing" THEN 1 ELSE 0)
       /\ said(kind, "Signed")
            = said(kind, "PickedForProcessing") + (IF kind = "WithdrawalSigned" THEN 1 ELSE 0)
       /\ said(kind, "Cancelled") = (IF kind = "WithdrawalCancelled" THEN 1 ELSE 0)
  BY DEF said, Tracked

\* An event carries what it was made of.
LEMMA EventSays ==
  ASSUME NEW kind \in EventKinds, NEW id \in Nat, NEW sats \in Nat, NEW at \in Nat
  PROVE  /\ Event(kind, id, sats, at) \in EventRecord
         /\ Event(kind, id, sats, at).kind = kind /\ Event(kind, id, sats, at).id = id
  BY DEF Event, EventRecord

\* One more event is one more occurrence of what it says.
LEMMA AppendCounts ==
  ASSUME NEW evs \in Seq(EventRecord), NEW e \in EventRecord, NEW kind, NEW i
  PROVE  /\ OccursIn(evs, kind, i) \in Nat
         /\ OccursIn(Append(evs, e), kind, i)
              = OccursIn(evs, kind, i) + (IF e.kind = kind /\ e.id = i THEN 1 ELSE 0)
<1> DEFINE n == Len(evs)
           old == {k \in DOMAIN evs : evs[k].kind = kind /\ evs[k].id = i}
           more == Append(evs, e)
           new == {k \in DOMAIN more : more[k].kind = kind /\ more[k].id = i}
<1>1. n \in Nat /\ DOMAIN evs = 1..n /\ DOMAIN more = 1..(n + 1)
      /\ more[n + 1] = e /\ \A k \in 1..n : more[k] = evs[k]
  OBVIOUS
<1>2. IsFiniteSet(1..n)
  <2>1. n \in Int
    BY <1>1
  <2> HIDE DEF n, old, more, new
  <2>2. IsFiniteSet(1..n)
    BY <2>1, FS_Interval
  <2>3. QED
    BY <2>2
<1>8. OccursIn(evs, kind, i) = Cardinality(old) /\ OccursIn(more, kind, i) = Cardinality(new)
  BY DEF OccursIn
<1>3. IsFiniteSet(old) /\ Cardinality(old) \in Nat
  <2>1. old \subseteq 1..n
    BY <1>1
  <2>2. QED
    BY <1>2, <2>1, FS_Subset, FS_CardinalityType
<1>4. n + 1 \notin old
  BY <1>1
<1>5. e.kind = kind /\ e.id = i => new = old \cup {n + 1}
  BY <1>1
<1>6. ~(e.kind = kind /\ e.id = i) => new = old
  BY <1>1
<1> HIDE DEF old, new, n
<1>7. e.kind = kind /\ e.id = i => Cardinality(new) = Cardinality(old) + 1
  BY <1>3, <1>4, <1>5, FS_AddElement
<1>9. QED
  BY <1>3, <1>6, <1>7, <1>8

\* An event keeps the history when the statuses move with it.
LEMMA HistoryGrows ==
  ASSUME NEW evs \in Seq(EventRecord), NEW e \in EventRecord, NEW ws, NEW ws2,
         History(evs, ws), Follows(e, ws, ws2)
  PROVE  History(Append(evs, e), ws2)
  BY AppendCounts DEF History, Follows

\* An event the history does not track.
LEMMA OtherEvent ==
  ASSUME NEW evs \in Seq(EventRecord), NEW e \in EventRecord, NEW ws, NEW ws2,
         History(evs, ws), e.kind \notin Tracked,
         \A i \in Nat, kind \in Tracked :
           said(kind, statusOf(ws2, i)) = said(kind, statusOf(ws, i))
  PROVE  Append(evs, e) \in Seq(EventRecord) /\ History(Append(evs, e), ws2)
<1>1. \A i \in Nat, kind \in Tracked : said(kind, statusOf(ws, i)) \in {0, 1}
  BY DEF said, Tracked
<1>2. \A kind \in Tracked : e.kind # kind
  OBVIOUS
<1>3. Follows(e, ws, ws2)
  BY <1>1, <1>2 DEF Follows
<1>4. QED
  BY <1>3, HistoryGrows

------------------------------------------------------------------------
(* The requests. *)

\* Replacing one withdrawal leaves the others and their statuses alone.
LEMMA MoveWithdrawal ==
  ASSUME Shape, NEW i \in DOMAIN withdrawals, NEW w \in WithdrawalRecord,
         withdrawals' = [withdrawals EXCEPT ![i] = w]
  PROVE  /\ withdrawals' \in Seq(WithdrawalRecord)
         /\ \A j : statusOf(withdrawals', j) = IF j = i THEN w.status ELSE statusOf(withdrawals, j)
<1>1. withdrawals \in Seq(WithdrawalRecord)
  BY DEF Shape
<1>2. withdrawals' \in Seq(WithdrawalRecord) /\ DOMAIN withdrawals' = DOMAIN withdrawals
      /\ withdrawals'[i] = w /\ \A j \in DOMAIN withdrawals : j # i => withdrawals'[j] = withdrawals[j]
  BY <1>1
<1>3. QED
  BY <1>2 DEF statusOf

\* What falls due falls due at a time.
LEMMA DueIsTime ==
  ASSUME NEW w \in WithdrawalRecord, w.status \in InQueue \cup {"Signed"}
  PROVE  withdrawalDue(w) \in Nat
  BY BridgeAssumption DEF WithdrawalRecord, withdrawalDue, InQueue

\* A withdrawal the pump moves is one of the requests, with a due time.
LEMMA FiringWithdrawal ==
  ASSUME Shape, NEW i \in DOMAIN withdrawals, NEW s, NEW t,
         s \in InQueue \cup {"Signed"}, withdrawalFires(i, s, t)
  PROVE  /\ withdrawals[i] \in WithdrawalRecord /\ withdrawals[i].status = s
         /\ withdrawalDue(withdrawals[i]) \in Nat /\ i \in Nat
<1>1. withdrawals[i] \in WithdrawalRecord /\ i \in Nat
  BY DEF Shape
<1>2. withdrawals[i].status = s
  BY DEF withdrawalFires
<1>3. QED
  BY <1>1, <1>2, DueIsTime

\* The bucket and what was burned stand still.
LEMMA BucketStands ==
  ASSUME OutflowBounded, UNCHANGED <<limiter, burned>>
  PROVE  OutflowBounded'
  BY DEF OutflowBounded

\* A request keeps its type when one of its fields moves.
LEMMA Restated ==
  ASSUME NEW w \in WithdrawalRecord,
         NEW s \in InQueue \cup {"Signed", "Confirmed", "Cancelled"}
  PROVE  [w EXCEPT !.status = s] \in WithdrawalRecord /\ [w EXCEPT !.status = s].status = s
         /\ [w EXCEPT !.status = s].sats = w.sats
  BY DEF WithdrawalRecord

\* A request keeps its type and status when one of its other fields moves.
LEMMA Stamped ==
  ASSUME NEW w \in WithdrawalRecord, NEW t \in Nat
  PROVE  /\ [w EXCEPT !.approvedAt = t] \in WithdrawalRecord
         /\ [w EXCEPT !.approvedAt = t].status = w.status
         /\ [w EXCEPT !.pickedAt = t] \in WithdrawalRecord
         /\ [w EXCEPT !.pickedAt = t].status = w.status
         /\ [w EXCEPT !.signedAt = t] \in WithdrawalRecord
         /\ [w EXCEPT !.signedAt = t].status = w.status
         /\ [w EXCEPT !.nextSignAttempt = t] \in WithdrawalRecord
         /\ [w EXCEPT !.nextSignAttempt = t].status = w.status
         /\ [w EXCEPT !.signAttempts = t] \in WithdrawalRecord
         /\ [w EXCEPT !.signAttempts = t].status = w.status
         /\ [w EXCEPT !.signAbandoned = TRUE] \in WithdrawalRecord
         /\ [w EXCEPT !.signAbandoned = TRUE].status = w.status
  BY DEF WithdrawalRecord

\* A transition that says one thing of one withdrawal and lets no sats out.
LEMMA WithdrawalEvent ==
  ASSUME IInv, NEW i \in DOMAIN withdrawals, NEW w \in WithdrawalRecord,
         NEW kind \in EventKinds, NEW sats \in Nat, NEW at \in Nat,
         withdrawals' = [withdrawals EXCEPT ![i] = w],
         events' = Append(events, Event(kind, i, sats, at)),
         \A k \in Tracked : said(k, w.status)
                              = said(k, withdrawals[i].status) + (IF kind = k THEN 1 ELSE 0),
         nowMs' \in Nat, deposits' \in Seq(DepositRecord), UNCHANGED <<limiter, burned>>
  PROVE  IInv'
<1> DEFINE e == Event(kind, i, sats, at)
<1>1. i \in Nat /\ events \in Seq(EventRecord) /\ limiter \in LimiterState /\ burned \in Nat
      /\ Shape /\ OutflowBounded /\ History(events, withdrawals)
  BY DEF IInv, Shape
<1>2. e \in EventRecord /\ e.kind = kind /\ e.id = i
  BY <1>1, EventSays
<1> HIDE DEF e
<1>3. withdrawals' \in Seq(WithdrawalRecord)
      /\ \A j : statusOf(withdrawals', j) = IF j = i THEN w.status ELSE statusOf(withdrawals, j)
  BY <1>1, MoveWithdrawal
<1>4. Follows(e, withdrawals, withdrawals')
  <2> SUFFICES ASSUME NEW j \in Nat, NEW k \in Tracked
               PROVE  said(k, statusOf(withdrawals', j))
                        = said(k, statusOf(withdrawals, j))
                            + (IF e.kind = k /\ e.id = j THEN 1 ELSE 0)
    BY DEF Follows
  <2>1. CASE j = i
    <3>1. statusOf(withdrawals, i) = withdrawals[i].status
      BY DEF statusOf
    <3>2. statusOf(withdrawals', j) = w.status /\ statusOf(withdrawals, j) = withdrawals[i].status
      BY <1>3, <2>1, <3>1
    <3>3. (IF e.kind = k /\ e.id = j THEN 1 ELSE 0) = (IF kind = k THEN 1 ELSE 0)
      BY <1>2, <2>1
    <3>4. QED
      BY <3>2, <3>3
  <2>2. CASE j # i
    <3>1. said(k, statusOf(withdrawals, j)) \in {0, 1}
      BY DEF said, Tracked
    <3>2. statusOf(withdrawals', j) = statusOf(withdrawals, j)
      BY <1>3, <2>2
    <3>3. (IF e.kind = k /\ e.id = j THEN 1 ELSE 0) = 0
      BY <1>2, <2>2
    <3>4. QED
      BY <3>1, <3>2, <3>3
  <2>3. QED
    BY <2>1, <2>2
<1>5. events' = Append(events, e)
  BY DEF e
<1>6. History(events', withdrawals')
  <2>1. History(Append(events, e), withdrawals')
    BY <1>1, <1>2, <1>4, HistoryGrows
  <2>2. QED
    BY <1>5, <2>1
<1>7. events' \in Seq(EventRecord)
  BY <1>1, <1>2, <1>5
<1>8. QED
  BY <1>1, <1>3, <1>6, <1>7, BucketStands DEF IInv, Shape

------------------------------------------------------------------------
(* The transitions. *)

\* Approval: the history does not tell it from the request.
LEMMA ApproveWithdrawalInv ==
  ASSUME IInv, NEW i \in DOMAIN withdrawals, ApproveWithdrawal(i)
  PROVE  IInv'
<1> DEFINE at == withdrawalDue(withdrawals[i])
           v == [withdrawals[i] EXCEPT !.status = "Approved"]
           w == [v EXCEPT !.approvedAt = at]
<1>1. withdrawals[i] \in WithdrawalRecord /\ withdrawals[i].status = "Requested"
      /\ at \in Nat /\ i \in Nat
  BY FiringWithdrawal DEF ApproveWithdrawal, IInv, InQueue
<1>2. withdrawals' = [withdrawals EXCEPT ![i] = w]
  BY DEF ApproveWithdrawal, IInv, Shape
<1>3. events' = Append(events, Event("WithdrawalApproved", i, 0, at))
      /\ UNCHANGED <<nowMs, limiter, deposits, burned>>
  BY DEF ApproveWithdrawal
<1>4. nowMs' \in Nat /\ deposits' \in Seq(DepositRecord)
  BY <1>3 DEF IInv, Shape
<1>5. v \in WithdrawalRecord /\ v.status = "Approved"
  BY <1>1, Restated DEF InQueue
<1> HIDE DEF v, at
<1>6. w \in WithdrawalRecord /\ w.status = "Approved"
  BY <1>1, <1>5, Stamped
<1> HIDE DEF w
<1>7. \A k \in Tracked : said(k, w.status)
        = said(k, withdrawals[i].status) + (IF "WithdrawalApproved" = k THEN 1 ELSE 0)
  BY <1>1, <1>6, SaidTable DEF Tracked
<1>8. "WithdrawalApproved" \in EventKinds /\ 0 \in Nat
  BY DEF EventKinds
<1>9. QED
  BY <1>1, <1>2, <1>3, <1>4, <1>6, <1>7, <1>8, WithdrawalEvent

\* The pick: the leader has it.
LEMMA PickWithdrawalInv ==
  ASSUME IInv, NEW i \in DOMAIN withdrawals, PickWithdrawal(i)
  PROVE  IInv'
<1> DEFINE at == withdrawalDue(withdrawals[i])
           v == [withdrawals[i] EXCEPT !.status = "PickedForProcessing"]
           w == [v EXCEPT !.pickedAt = at]
<1>1. withdrawals[i] \in WithdrawalRecord /\ withdrawals[i].status = "Approved"
      /\ at \in Nat /\ i \in Nat
  BY FiringWithdrawal DEF PickWithdrawal, IInv, InQueue
<1>2. withdrawals' = [withdrawals EXCEPT ![i] = w]
  BY DEF PickWithdrawal, IInv, Shape
<1>3. events' = Append(events, Event("WithdrawalPickedForProcessing", i, withdrawals[i].sats, at))
      /\ UNCHANGED <<nowMs, limiter, deposits, burned>>
  BY DEF PickWithdrawal
<1>4. nowMs' \in Nat /\ deposits' \in Seq(DepositRecord)
  BY <1>3 DEF IInv, Shape
<1>5. v \in WithdrawalRecord /\ v.status = "PickedForProcessing"
  BY <1>1, Restated DEF InQueue
<1> HIDE DEF v, at
<1>6. w \in WithdrawalRecord /\ w.status = "PickedForProcessing"
  BY <1>1, <1>5, Stamped
<1> HIDE DEF w
<1>7. \A k \in Tracked : said(k, w.status)
        = said(k, withdrawals[i].status) + (IF "WithdrawalPickedForProcessing" = k THEN 1 ELSE 0)
  BY <1>1, <1>6, SaidTable DEF Tracked
<1>8. "WithdrawalPickedForProcessing" \in EventKinds /\ withdrawals[i].sats \in Nat
  BY <1>1 DEF EventKinds, WithdrawalRecord
<1>9. QED
  BY <1>1, <1>2, <1>3, <1>4, <1>6, <1>7, <1>8, WithdrawalEvent

\* The confirmation adds nothing to what was signed.
LEMMA ConfirmWithdrawalInv ==
  ASSUME IInv, NEW i \in DOMAIN withdrawals, ConfirmWithdrawal(i)
  PROVE  IInv'
<1> DEFINE at == withdrawalDue(withdrawals[i])
           w == [withdrawals[i] EXCEPT !.status = "Confirmed"]
<1>1. withdrawals[i] \in WithdrawalRecord /\ withdrawals[i].status = "Signed"
      /\ at \in Nat /\ i \in Nat
  BY FiringWithdrawal DEF ConfirmWithdrawal, IInv, InQueue
<1>2. withdrawals' = [withdrawals EXCEPT ![i] = w]
  BY DEF ConfirmWithdrawal, IInv, Shape
<1>3. events' = Append(events, Event("WithdrawalConfirmed", i, 0, at))
      /\ UNCHANGED <<nowMs, limiter, deposits, burned>>
  BY DEF ConfirmWithdrawal
<1>4. nowMs' \in Nat /\ deposits' \in Seq(DepositRecord)
  BY <1>3 DEF IInv, Shape
<1> HIDE DEF at
<1>6. w \in WithdrawalRecord /\ w.status = "Confirmed"
  BY <1>1, Restated DEF InQueue
<1> HIDE DEF w
<1>7. \A k \in Tracked : said(k, w.status)
        = said(k, withdrawals[i].status) + (IF "WithdrawalConfirmed" = k THEN 1 ELSE 0)
  <2> TAKE k \in Tracked
  <2>1. said(k, "Confirmed") = said(k, "Signed") /\ said(k, "Signed") \in Nat
    BY DEF said, Tracked
  <2>2. k # "WithdrawalConfirmed"
    BY DEF Tracked
  <2>3. QED
    BY <1>1, <1>6, <2>1, <2>2
<1>8. "WithdrawalConfirmed" \in EventKinds /\ 0 \in Nat
  BY DEF EventKinds
<1>9. QED
  BY <1>1, <1>2, <1>3, <1>4, <1>6, <1>7, <1>8, WithdrawalEvent

\* Only a request that has not been picked is cancelled.
LEMMA CancelWithdrawalInv ==
  ASSUME IInv, NEW u \in Users, NEW i \in DOMAIN withdrawals, cancelWithdrawal(u, i)
  PROVE  IInv'
<1> DEFINE w == [withdrawals[i] EXCEPT !.status = "Cancelled"]
<1>1. withdrawals[i] \in WithdrawalRecord /\ withdrawals[i].status \in {"Requested", "Approved"}
      /\ i \in Nat /\ nowMs \in Nat
  BY DEF cancelWithdrawal, IInv, Shape
<1>2. withdrawals' = [withdrawals EXCEPT ![i] = w]
  BY DEF cancelWithdrawal, IInv, Shape
<1>3. events' = Append(events, Event("WithdrawalCancelled", i, withdrawals[i].sats, nowMs))
      /\ UNCHANGED <<nowMs, limiter, deposits, burned>>
  BY DEF cancelWithdrawal
<1>4. nowMs' \in Nat /\ deposits' \in Seq(DepositRecord)
  BY <1>3 DEF IInv, Shape
<1>6. w \in WithdrawalRecord /\ w.status = "Cancelled"
  BY <1>1, Restated DEF InQueue
<1> HIDE DEF w
<1>7. \A k \in Tracked : said(k, w.status)
        = said(k, withdrawals[i].status) + (IF "WithdrawalCancelled" = k THEN 1 ELSE 0)
  BY <1>1, <1>6, SaidTable
<1>8. "WithdrawalCancelled" \in EventKinds /\ withdrawals[i].sats \in Nat
  BY <1>1 DEF EventKinds, WithdrawalRecord
<1>9. QED
  BY <1>1, <1>2, <1>3, <1>4, <1>6, <1>7, <1>8, WithdrawalEvent

------------------------------------------------------------------------
(* The signing: the only debit. *)

\* The projected bucket is a full one at most, and the old one and its refill.
LEMMA ProjectedBound ==
  ASSUME NEW s \in LimiterState, NEW ts \in Nat, ts >= s.lastUpdated
  PROVE  /\ projectCapacityAtSecs(s, ts) \in 0..BucketCap
         /\ projectCapacityAtSecs(s, ts) <= s.tokens + (ts - s.lastUpdated) * RefillRate
<1> DEFINE gap == ts - s.lastUpdated
           refill == gap * RefillRate
<1>1. s.tokens \in 0..BucketCap /\ s.lastUpdated \in Nat /\ gap \in Nat
      /\ RefillRate \in Nat /\ BucketCap \in Nat /\ MaxU64 \in Nat /\ BucketCap <= MaxU64
  BY LimiterAssumption DEF LimiterState
<1>2. satSub(ts, s.lastUpdated) = gap
  BY <1>1 DEF satSub
<1> HIDE DEF gap
<1>3. refill \in Nat
  BY <1>1
<1> HIDE DEF refill
<1>4. satMul(gap, RefillRate) \in Nat /\ satMul(gap, RefillRate) <= refill
  BY <1>1, <1>3 DEF satMul, refill
<1>5. satAdd(s.tokens, satMul(gap, RefillRate)) \in Nat
      /\ satAdd(s.tokens, satMul(gap, RefillRate)) <= s.tokens + refill
  BY <1>1, <1>3, <1>4 DEF satAdd
<1>6. projectCapacityAtSecs(s, ts) \in 0..BucketCap
      /\ projectCapacityAtSecs(s, ts) <= s.tokens + refill
  BY <1>1, <1>2, <1>3, <1>5 DEF projectCapacityAtSecs, satMin
<1>7. QED
  BY <1>6 DEF refill, gap

\* A debit leaves a bucket, and takes from it no more than was there.
LEMMA DebitBound ==
  ASSUME NEW s \in LimiterState, NEW ts \in Nat, NEW amount \in Nat,
         consumeError(s, s.nextSeq, ts, amount) = "none"
  PROVE  /\ consume(s, s.nextSeq, ts, amount) \in LimiterState
         /\ consume(s, s.nextSeq, ts, amount).lastUpdated = ts
         /\ ts >= s.lastUpdated
         /\ consume(s, s.nextSeq, ts, amount).tokens + amount
              <= s.tokens + (ts - s.lastUpdated) * RefillRate
         /\ consume(s, s.nextSeq, ts, amount).tokens + amount <= BucketCap
<1> DEFINE p == projectCapacityAtSecs(s, ts)
           x == consume(s, s.nextSeq, ts, amount)
<1>1. s.lastUpdated \in Nat /\ s.nextSeq \in Nat /\ BucketCap \in Nat
  BY LimiterAssumption DEF LimiterState
<1>2. ~(ts < s.lastUpdated) /\ ~(p < amount)
  BY DEF consumeError
<1>3. ts >= s.lastUpdated
  BY <1>1, <1>2
<1>4. p \in 0..BucketCap /\ p <= s.tokens + (ts - s.lastUpdated) * RefillRate
  BY <1>3, ProjectedBound
<1>5. x = [tokens |-> p - amount, lastUpdated |-> ts, nextSeq |-> s.nextSeq + 1]
  BY DEF consume
<1> HIDE DEF p, x
<1>6. p - amount \in 0..BucketCap /\ (p - amount) + amount = p
  BY <1>1, <1>2, <1>4
<1>7. x \in LimiterState /\ x.lastUpdated = ts /\ x.tokens = p - amount
  BY <1>1, <1>5, <1>6 DEF LimiterState
<1>8. QED
  BY <1>3, <1>4, <1>6, <1>7 DEF x

\* Three events more.
LEMMA ThreeMore ==
  ASSUME NEW evs \in Seq(EventRecord), NEW a \in EventRecord, NEW b \in EventRecord,
         NEW c \in EventRecord
  PROVE  evs \o <<a, b, c>> = Append(Append(Append(evs, a), b), c)
  OBVIOUS

\* What has gone and what is left, against what there was and has come.
LEMMA OutflowArithmetic ==
  ASSUME NEW gone \in Nat, NEW left \in Nat, NEW left2 \in Nat, NEW amount \in Nat,
         NEW earlier \in Nat, NEW upTo \in Nat, NEW cap \in Nat,
         gone + left <= cap + earlier, left2 + amount <= left + (upTo - earlier)
  PROVE  (gone + amount) + left2 <= cap + upTo
  OBVIOUS

\* The signing pays the withdrawal out of the bucket.
LEMMA SignWithdrawalInv ==
  ASSUME IInv, NEW i \in DOMAIN withdrawals, SignWithdrawal(i)
  PROVE  IInv'
<1> DEFINE at == withdrawalDue(withdrawals[i])
           ts == msToSecs(at)
           amount == withdrawals[i].sats
           v == [withdrawals[i] EXCEPT !.status = "Signed"]
           w == [v EXCEPT !.signedAt = at]
           a == Event("WithdrawalInputsSigned", i, 0, at)
           b == Event("WithdrawalSigned", i, amount, at)
           c == Event("Burned", i, amount, at)
<1>1. withdrawals[i] \in WithdrawalRecord /\ withdrawals[i].status = "PickedForProcessing"
      /\ at \in Nat /\ i \in Nat
  BY FiringWithdrawal DEF SignWithdrawal, IInv, InQueue
<1>2. amount \in Nat /\ ts \in Nat /\ 0 \in Nat
  BY <1>1, LimiterAssumption DEF WithdrawalRecord, msToSecs
<1>3. withdrawals' = [withdrawals EXCEPT ![i] = w]
  BY DEF SignWithdrawal, IInv, Shape
<1>4. events' = events \o <<a, b, c>> /\ burned' = burned + amount
      /\ UNCHANGED <<nowMs, deposits>>
  BY DEF SignWithdrawal
<1>5. limiter' = consume(limiter, limiter.nextSeq, ts, amount)
      /\ consumeError(limiter, limiter.nextSeq, ts, amount) = "none"
  BY DEF SignWithdrawal, signError
<1>6. v \in WithdrawalRecord /\ v.status = "Signed"
  BY <1>1, Restated DEF InQueue
<1> HIDE DEF v, at, ts, amount
<1>7. w \in WithdrawalRecord /\ w.status = "Signed"
  BY <1>1, <1>6, Stamped
<1> HIDE DEF w
<1>9. a \in EventRecord /\ a.kind = "WithdrawalInputsSigned"
  BY <1>1, <1>2 DEF Event, EventRecord, EventKinds
<1>10. b \in EventRecord /\ b.kind = "WithdrawalSigned" /\ b.id = i
  BY <1>1, <1>2 DEF Event, EventRecord, EventKinds
<1>11. c \in EventRecord /\ c.kind = "Burned"
  BY <1>1, <1>2 DEF Event, EventRecord, EventKinds
<1> HIDE DEF a, b, c
<1>12. Shape /\ OutflowBounded /\ History(events, withdrawals) /\ events \in Seq(EventRecord)
       /\ limiter \in LimiterState /\ burned \in Nat /\ nowMs \in Nat
       /\ deposits \in Seq(DepositRecord)
  BY DEF IInv, Shape
<1>13. withdrawals' \in Seq(WithdrawalRecord)
       /\ \A j : statusOf(withdrawals', j) = IF j = i THEN "Signed" ELSE statusOf(withdrawals, j)
  BY <1>3, <1>7, <1>12, MoveWithdrawal
<1>14. Append(events, a) \in Seq(EventRecord) /\ History(Append(events, a), withdrawals)
  BY <1>9, <1>12, OtherEvent DEF Tracked
<1>15. Follows(b, withdrawals, withdrawals')
  <2> SUFFICES ASSUME NEW j \in Nat, NEW k \in Tracked
               PROVE  said(k, statusOf(withdrawals', j))
                        = said(k, statusOf(withdrawals, j))
                            + (IF b.kind = k /\ b.id = j THEN 1 ELSE 0)
    BY DEF Follows
  <2>1. CASE j = i
    <3>1. statusOf(withdrawals, j) = "PickedForProcessing" /\ statusOf(withdrawals', j) = "Signed"
      BY <1>1, <1>13, <2>1 DEF statusOf
    <3>2. (IF b.kind = k /\ b.id = j THEN 1 ELSE 0) = (IF k = "WithdrawalSigned" THEN 1 ELSE 0)
      BY <1>10, <2>1
    <3>3. said(k, "Signed")
            = said(k, "PickedForProcessing") + (IF k = "WithdrawalSigned" THEN 1 ELSE 0)
      BY SaidTable
    <3>4. QED
      BY <3>1, <3>2, <3>3
  <2>2. CASE j # i
    <3>1. said(k, statusOf(withdrawals, j)) \in {0, 1}
      BY DEF said, Tracked
    <3>2. statusOf(withdrawals', j) = statusOf(withdrawals, j)
      BY <1>13, <2>2
    <3>3. (IF b.kind = k /\ b.id = j THEN 1 ELSE 0) = 0
      BY <1>10, <2>2
    <3>4. QED
      BY <3>1, <3>2, <3>3
  <2>3. QED
    BY <2>1, <2>2
<1> DEFINE e1 == Append(events, a)
           e2 == Append(e1, b)
<1> HIDE DEF e1
<1>16. e2 \in Seq(EventRecord)
  BY <1>10, <1>14 DEF e1
<1>17. History(e2, withdrawals')
  <2>1. e1 \in Seq(EventRecord) /\ History(e1, withdrawals)
    BY <1>14 DEF e1
  <2>2. QED
    BY <1>10, <1>15, <2>1, HistoryGrows
<1> HIDE DEF e2
<1>18. Append(e2, c) \in Seq(EventRecord) /\ History(Append(e2, c), withdrawals')
  BY <1>11, <1>16, <1>17, OtherEvent DEF Tracked
<1>19. events' = Append(e2, c)
  BY <1>4, <1>9, <1>10, <1>11, <1>12, ThreeMore DEF e1, e2
<1>20. limiter' \in LimiterState /\ burned' \in Nat /\ OutflowBounded'
  <2> DEFINE refill == (ts - limiter.lastUpdated) * RefillRate
             upTo == RefillRate * ts
             earlier == RefillRate * limiter.lastUpdated
  <2>1. limiter' \in LimiterState /\ limiter'.lastUpdated = ts /\ ts >= limiter.lastUpdated
        /\ limiter'.tokens + amount <= limiter.tokens + refill
    BY <1>2, <1>5, <1>12, DebitBound
  <2>2. limiter.lastUpdated \in Nat /\ limiter.tokens \in Nat /\ limiter'.tokens \in Nat
        /\ RefillRate \in Nat /\ BucketCap \in Nat
    BY <1>12, <2>1, LimiterAssumption DEF LimiterState
  <2>3. refill = upTo - earlier
    BY <1>2, <2>2
  <2>4. upTo \in Nat /\ earlier \in Nat /\ refill \in Int
    BY <1>2, <2>2
  <2>5. burned + limiter.tokens <= BucketCap + earlier
    BY <1>12 DEF OutflowBounded
  <2> HIDE DEF refill, upTo, earlier
  <2>6. (burned + amount) + limiter'.tokens <= BucketCap + upTo
    <3>1. limiter'.tokens + amount <= limiter.tokens + (upTo - earlier)
      BY <2>1, <2>3
    <3>2. QED
      BY <1>2, <1>12, <2>2, <2>4, <2>5, <3>1, OutflowArithmetic
  <2>7. QED
    BY <1>2, <1>4, <1>12, <2>1, <2>6 DEF OutflowBounded, upTo
<1>21. QED
  BY <1>4, <1>12, <1>13, <1>18, <1>19, <1>20 DEF IInv, Shape

\* A refused signing says nothing: only the attempt moves.
LEMMA NothingSaid ==
  ASSUME IInv, NEW i \in DOMAIN withdrawals, NEW w \in WithdrawalRecord,
         withdrawals' = [withdrawals EXCEPT ![i] = w], w.status = withdrawals[i].status,
         UNCHANGED <<nowMs, limiter, deposits, events, burned>>
  PROVE  IInv'
<1>1. Shape /\ OutflowBounded /\ History(events, withdrawals)
  BY DEF IInv
<1>2. withdrawals' \in Seq(WithdrawalRecord)
      /\ \A j : statusOf(withdrawals', j) = IF j = i THEN w.status ELSE statusOf(withdrawals, j)
  BY <1>1, MoveWithdrawal
<1>3. \A j : statusOf(withdrawals', j) = statusOf(withdrawals, j)
  BY <1>2 DEF statusOf
<1>4. History(events', withdrawals')
  BY <1>1, <1>3 DEF History
<1>5. QED
  BY <1>1, <1>2, <1>4, BucketStands DEF IInv, Shape

\* Refused for lack of room: another attempt is due later.
LEMMA RetryLaterInv ==
  ASSUME IInv, NEW i \in DOMAIN withdrawals, RetryLater(i)
  PROVE  IInv'
<1> DEFINE at == withdrawalDue(withdrawals[i])
           n == withdrawals[i].signAttempts + 1
           t == at + SignRetryInterval
           v == [withdrawals[i] EXCEPT !.signAttempts = n]
           w == [v EXCEPT !.nextSignAttempt = t]
<1>1. withdrawals[i] \in WithdrawalRecord /\ at \in Nat
  BY FiringWithdrawal DEF RetryLater, IInv, InQueue
<1>2. n \in Nat /\ t \in Nat
  BY <1>1, BridgeAssumption DEF WithdrawalRecord
<1>3. withdrawals' = [withdrawals EXCEPT ![i] = w]
      /\ UNCHANGED <<nowMs, limiter, deposits, events, burned>>
  BY DEF RetryLater, IInv, Shape
<1> HIDE DEF n, t
<1>4. v \in WithdrawalRecord /\ v.status = withdrawals[i].status
  BY <1>1, <1>2, Stamped
<1> HIDE DEF v
<1>5. w \in WithdrawalRecord /\ w.status = withdrawals[i].status
  BY <1>2, <1>4, Stamped
<1> HIDE DEF w
<1>6. QED
  BY <1>3, <1>5, NothingSaid

\* Refused for good: the leader drops it.
LEMMA AbandonSignInv ==
  ASSUME IInv, NEW i \in DOMAIN withdrawals, AbandonSign(i)
  PROVE  IInv'
<1> DEFINE n == withdrawals[i].signAttempts + 1
           v == [withdrawals[i] EXCEPT !.signAttempts = n]
           w == [v EXCEPT !.signAbandoned = TRUE]
<1>1. withdrawals[i] \in WithdrawalRecord
  BY DEF IInv, Shape
<1>2. n \in Nat
  BY <1>1 DEF WithdrawalRecord
<1>3. withdrawals' = [withdrawals EXCEPT ![i] = w]
      /\ UNCHANGED <<nowMs, limiter, deposits, events, burned>>
  BY DEF AbandonSign, IInv, Shape
<1> HIDE DEF n
<1>4. v \in WithdrawalRecord /\ v.status = withdrawals[i].status
  BY <1>1, <1>2, Stamped
<1> HIDE DEF v
<1>5. w \in WithdrawalRecord /\ w.status = withdrawals[i].status
  BY <1>4, 0 \in Nat, Stamped
<1> HIDE DEF w
<1>6. QED
  BY <1>3, <1>5, NothingSaid

------------------------------------------------------------------------
(* The calls, and the deposits. *)

\* An event of no withdrawal's fate.
LEMMA UntrackedEvent ==
  ASSUME IInv, NEW e \in EventRecord, e.kind \notin Tracked, events' = Append(events, e),
         deposits' \in Seq(DepositRecord), UNCHANGED <<nowMs, limiter, withdrawals, burned>>
  PROVE  IInv'
<1>1. Shape /\ OutflowBounded /\ History(events, withdrawals) /\ events \in Seq(EventRecord)
  BY DEF IInv, Shape
<1>2. Append(events, e) \in Seq(EventRecord) /\ History(Append(events, e), withdrawals)
  BY <1>1, OtherEvent
<1>3. QED
  BY <1>1, <1>2, BucketStands DEF IInv, Shape

\* A deposit is approved.
LEMMA ApproveDepositInv ==
  ASSUME IInv, NEW i \in DOMAIN deposits, ApproveDeposit(i)
  PROVE  IInv'
<1> DEFINE at == deposits[i].requestedAt + DepositApprovalDelay
           d == [deposits[i] EXCEPT !.status = "Approved", !.approvedAt = at]
           e == Event("DepositApproved", i, deposits[i].sats, at)
<1>1. deposits[i] \in DepositRecord /\ i \in Nat /\ deposits \in Seq(DepositRecord)
  BY DEF IInv, Shape
<1>2. at \in Nat /\ deposits[i].sats \in Nat
  <2>1. deposits[i].requestedAt \in Nat /\ deposits[i].sats \in Nat
    BY <1>1 DEF DepositRecord
  <2>2. DepositApprovalDelay \in Nat
    BY BridgeAssumption
  <2>3. QED
    BY <2>1, <2>2
<1>3. deposits' = [deposits EXCEPT ![i] = d] /\ events' = Append(events, e)
      /\ UNCHANGED <<nowMs, limiter, withdrawals, burned>>
  BY <1>1 DEF ApproveDeposit
<1> HIDE DEF at
<1>4. d \in DepositRecord
  BY <1>1, <1>2 DEF DepositRecord
<1>5. e \in EventRecord /\ e.kind = "DepositApproved"
  BY <1>1, <1>2 DEF Event, EventRecord, EventKinds
<1> HIDE DEF d, e
<1>6. deposits' \in Seq(DepositRecord)
  BY <1>1, <1>3, <1>4
<1>7. QED
  BY <1>3, <1>5, <1>6, UntrackedEvent DEF Tracked

\* The clock moves.
LEMMA AdvanceInv ==
  ASSUME IInv, Advance
  PROVE  IInv'
<1>1. PICK d \in Steps : setNowMs(nowMs + d)
  BY DEF Advance
<1>2. nowMs' \in Nat
  BY <1>1, BridgeAssumption DEF setNowMs, IInv, Shape
<1>3. UNCHANGED <<limiter, deposits, withdrawals, events, burned>>
  BY <1>1 DEF setNowMs
<1>4. QED
  BY <1>2, <1>3, BucketStands DEF IInv, Shape

\* A deposit is requested.
LEMMA DepositInv ==
  ASSUME IInv, NEW u \in Users, NEW s \in Amounts, deposit(u, s)
  PROVE  IInv'
<1> DEFINE d == [recipient |-> u, sats |-> s, requestedAt |-> nowMs,
                 status |-> "Requested", approvedAt |-> 0]
           e == Event("DepositRequested", Len(deposits) + 1, s, nowMs)
<1>1. s \in Nat /\ nowMs \in Nat /\ deposits \in Seq(DepositRecord) /\ Len(deposits) + 1 \in Nat
  BY BridgeAssumption DEF IInv, Shape
<1>2. deposits' = Append(deposits, d) /\ events' = Append(events, e)
      /\ UNCHANGED <<nowMs, limiter, withdrawals, burned>>
  BY DEF deposit
<1>3. d \in DepositRecord
  BY <1>1 DEF DepositRecord
<1>4. e \in EventRecord /\ e.kind = "DepositRequested"
  BY <1>1 DEF Event, EventRecord, EventKinds
<1> HIDE DEF d, e
<1>5. deposits' \in Seq(DepositRecord)
  BY <1>1, <1>2, <1>3
<1>6. QED
  BY <1>2, <1>4, <1>5, UntrackedEvent DEF Tracked

\* A deposit is confirmed, and minted.
LEMMA ConfirmDepositInv ==
  ASSUME IInv, NEW i \in DOMAIN deposits, confirmDeposit(i)
  PROVE  IInv'
<1> DEFINE d == [deposits[i] EXCEPT !.status = "Confirmed"]
           a == Event("DepositConfirmed", i, deposits[i].sats, nowMs)
           b == Event("Minted", i, deposits[i].sats, nowMs)
<1>1. deposits[i] \in DepositRecord /\ i \in Nat /\ deposits \in Seq(DepositRecord)
      /\ nowMs \in Nat /\ events \in Seq(EventRecord)
      /\ Shape /\ OutflowBounded /\ History(events, withdrawals)
  BY DEF IInv, Shape
<1>2. deposits[i].sats \in Nat
  BY <1>1 DEF DepositRecord
<1>3. deposits' = [deposits EXCEPT ![i] = d] /\ events' = events \o <<a, b>>
      /\ UNCHANGED <<nowMs, limiter, withdrawals, burned>>
  BY <1>1 DEF confirmDeposit
<1>4. d \in DepositRecord
  BY <1>1 DEF DepositRecord
<1>5. a \in EventRecord /\ a.kind = "DepositConfirmed"
  BY <1>1, <1>2 DEF Event, EventRecord, EventKinds
<1>6. b \in EventRecord /\ b.kind = "Minted"
  BY <1>1, <1>2 DEF Event, EventRecord, EventKinds
<1> HIDE DEF d, a, b
<1>7. deposits' \in Seq(DepositRecord)
  BY <1>1, <1>3, <1>4
<1>8. Append(events, a) \in Seq(EventRecord) /\ History(Append(events, a), withdrawals)
  BY <1>1, <1>5, OtherEvent DEF Tracked
<1> DEFINE e1 == Append(events, a)
<1>9. events' = Append(e1, b)
  BY <1>1, <1>3, <1>5, <1>6
<1>10. e1 \in Seq(EventRecord) /\ History(e1, withdrawals)
  BY <1>8
<1> HIDE DEF e1
<1>11. Append(e1, b) \in Seq(EventRecord) /\ History(Append(e1, b), withdrawals)
  BY <1>6, <1>10, OtherEvent DEF Tracked
<1>12. QED
  BY <1>1, <1>3, <1>7, <1>9, <1>11, BucketStands DEF IInv, Shape

\* A withdrawal is requested: nothing has been said of it.
LEMMA RequestWithdrawalInv ==
  ASSUME IInv, NEW u \in Users, NEW s \in Amounts, NEW j \in PickJitters,
         requestWithdrawal(u, s, j)
  PROVE  IInv'
<1> DEFINE n == Len(withdrawals) + 1
           w == [requester |-> u, sats |-> s, requestedAt |-> nowMs, pickJitter |-> j,
                 status |-> "Requested", approvedAt |-> 0, pickedAt |-> 0, signedAt |-> 0,
                 nextSignAttempt |-> 0, signAttempts |-> 0, signAbandoned |-> FALSE]
           e == Event("WithdrawalRequested", n, s, nowMs)
<1>1. s \in Nat /\ nowMs \in Nat /\ withdrawals \in Seq(WithdrawalRecord) /\ n \in Nat \ {0}
      /\ events \in Seq(EventRecord) /\ Shape /\ OutflowBounded /\ History(events, withdrawals)
  BY BridgeAssumption DEF IInv, Shape
<1>2. j \in Nat
  BY BridgeAssumption DEF PickJitters
<1>3. withdrawals' = Append(withdrawals, w) /\ events' = Append(events, e)
      /\ UNCHANGED <<nowMs, limiter, deposits, burned>>
  BY DEF requestWithdrawal
<1>4. w \in WithdrawalRecord /\ w.status = "Requested"
  BY <1>1, <1>2 DEF WithdrawalRecord, InQueue
<1>5. e \in EventRecord /\ e.kind = "WithdrawalRequested"
  BY <1>1 DEF Event, EventRecord, EventKinds
<1> HIDE DEF w, e
<1>6. withdrawals' \in Seq(WithdrawalRecord) /\ DOMAIN withdrawals = 1..(n - 1)
      /\ DOMAIN withdrawals' = 1..n /\ withdrawals'[n] = w
      /\ \A i \in 1..(n - 1) : withdrawals'[i] = withdrawals[i]
  BY <1>1, <1>3, <1>4
<1> HIDE DEF n
<1>7. \A i \in Nat, kind \in Tracked :
         said(kind, statusOf(withdrawals', i)) = said(kind, statusOf(withdrawals, i))
  <2> TAKE i \in Nat, kind \in Tracked
  <2>1. CASE i = n
    <3>1. i \in DOMAIN withdrawals' /\ i \notin DOMAIN withdrawals
      BY <1>1, <1>6, <2>1
    <3>2. statusOf(withdrawals', i) = "Requested" /\ statusOf(withdrawals, i) = "none"
      BY <1>4, <1>6, <2>1, <3>1 DEF statusOf
    <3>3. QED
      BY <3>2, SaidTable
  <2>2. CASE i # n
    <3>1. statusOf(withdrawals', i) = statusOf(withdrawals, i)
      BY <1>1, <1>6, <2>2 DEF statusOf
    <3>2. QED
      BY <3>1
  <2>3. QED
    BY <2>1, <2>2
<1>8. Append(events, e) \in Seq(EventRecord) /\ History(Append(events, e), withdrawals')
  BY <1>1, <1>5, <1>7, OtherEvent DEF Tracked
<1>9. QED
  BY <1>1, <1>3, <1>6, <1>8, BucketStands DEF IInv, Shape

------------------------------------------------------------------------
(* Windows of the log. *)

Signed(evs) == {k \in DOMAIN evs : evs[k].kind = "WithdrawalSigned"}
SecsOf(e) == msToSecs(e.atMs)

\* What was signed from the signing at i on, with what the bucket holds.
TailBounded(evs, s) ==
  \A i \in Signed(evs) :
    /\ SecsOf(evs[i]) <= s.lastUpdated
    /\ SumOf(SignedSats(evs), i .. Len(evs)) + s.tokens
         <= BucketCap + RefillRate * (s.lastUpdated - SecsOf(evs[i]))

WindowsBounded(evs) ==
  \A i, j \in Signed(evs) :
    i <= j => SumOf(SignedSats(evs), i .. j)
                <= BucketCap + RefillRate * (SecsOf(evs[j]) - SecsOf(evs[i]))

Windows(evs, s) == TailBounded(evs, s) /\ WindowsBounded(evs)

\* What was signed at each place of a log, and when, are naturals.
LEMMA SignedTypes ==
  ASSUME NEW evs \in Seq(EventRecord)
  PROVE  /\ Len(evs) \in Nat /\ DOMAIN evs = 1..Len(evs)
         /\ \A k \in 1..Len(evs) : SignedSats(evs)[k] \in Nat /\ SecsOf(evs[k]) \in Nat
<1>1. Len(evs) \in Nat /\ DOMAIN evs = 1..Len(evs)
  OBVIOUS
<1>2. ASSUME NEW k \in 1..Len(evs)
      PROVE  SignedSats(evs)[k] \in Nat /\ SecsOf(evs[k]) \in Nat
  <2>1. evs[k] \in EventRecord
    OBVIOUS
  <2>2. evs[k].sats \in Nat /\ evs[k].atMs \in Nat
    BY <2>1 DEF EventRecord
  <2>3. SignedSats(evs)[k] \in Nat
    BY <1>1, <2>2 DEF SignedSats
  <2>4. SecsOf(evs[k]) \in Nat
    BY <2>2, LimiterAssumption DEF SecsOf, msToSecs
  <2>5. QED
    BY <2>3, <2>4
<1>3. QED
  BY <1>1, <1>2

\* One event more leaves the windows of the log before it as they were.
LEMMA OldWindows ==
  ASSUME NEW evs \in Seq(EventRecord), NEW e \in EventRecord
  PROVE  /\ Append(evs, e) \in Seq(EventRecord) /\ Len(Append(evs, e)) = Len(evs) + 1
         /\ Append(evs, e)[Len(evs) + 1] = e
         /\ \A k \in 1..Len(evs) : Append(evs, e)[k] = evs[k]
         /\ \A i, j \in 1..Len(evs) :
              SumOf(SignedSats(Append(evs, e)), i .. j) = SumOf(SignedSats(evs), i .. j)
         /\ \A i \in 1..(Len(evs) + 1) :
              SumOf(SignedSats(Append(evs, e)), i .. (Len(evs) + 1))
                = SumOf(SignedSats(evs), i .. Len(evs)) + SignedSats(Append(evs, e))[Len(evs) + 1]
         /\ \A i \in 1..(Len(evs) + 1) : SumOf(SignedSats(evs), i .. Len(evs)) \in Nat
<1> DEFINE n == Len(evs)
           more == Append(evs, e)
           f == SignedSats(evs)
           g == SignedSats(more)
<1>1. /\ more \in Seq(EventRecord) /\ Len(more) = n + 1 /\ more[n + 1] = e /\ n \in Nat
      /\ DOMAIN more = 1..(n + 1) /\ DOMAIN evs = 1..n
      /\ \A k \in 1..n : more[k] = evs[k]
  OBVIOUS
<1>2. (\A k \in 1..n : f[k] \in Nat) /\ (\A k \in 1..(n + 1) : g[k] \in Nat)
  BY <1>1, SignedTypes
<1>3. \A k \in 1..n : g[k] = f[k]
  BY <1>1 DEF SignedSats
<1> HIDE DEF f, g, more, n
<1>4. ASSUME NEW i \in 1..(n + 1), NEW j \in 1..n
      PROVE  SumOf(g, i .. j) = SumOf(f, i .. j) /\ SumOf(f, i .. j) \in Nat
  <2>1. i \in Int /\ j \in Int /\ i .. j \subseteq 1..n
    BY <1>1
  <2>2. IsFiniteSet(i .. j)
    BY <2>1, FS_Interval
  <2>3. QED
    BY <1>2, <1>3, <2>1, <2>2, SumSame, SumNat
<1>5. ASSUME NEW i \in 1..(n + 1)
      PROVE  /\ SumOf(g, i .. (n + 1)) = SumOf(f, i .. n) + g[n + 1]
             /\ SumOf(f, i .. n) \in Nat
  <2>1. i \in Int /\ n \in Int /\ i <= n + 1 /\ \A k \in i..(n + 1) : g[k] \in Int
    BY <1>1, <1>2
  <2>2. SumOf(g, i .. (n + 1)) = SumOf(g, i .. n) + g[n + 1]
    BY <2>1, SumNext
  <2>3. i .. n \subseteq 1..n
    BY <1>1
  <2>4. IsFiniteSet(i .. n)
    BY <2>1, FS_Interval
  <2>5. SumOf(g, i .. n) = SumOf(f, i .. n) /\ SumOf(f, i .. n) \in Nat
    BY <1>2, <1>3, <2>3, <2>4, SumSame, SumNat
  <2>6. QED
    BY <2>2, <2>5
<1>6. \A i, j \in 1..n : i \in 1..(n + 1)
  BY <1>1
<1>7. QED
  BY <1>1, <1>4, <1>5, <1>6 DEF f, g, more, n

\* An event that is no signing adds nothing to any window.
LEMMA UnsignedKeeps ==
  ASSUME NEW evs \in Seq(EventRecord), NEW e \in EventRecord, NEW s \in LimiterState,
         e.kind # "WithdrawalSigned", Windows(evs, s)
  PROVE  Windows(Append(evs, e), s)
<1> DEFINE n == Len(evs)
           more == Append(evs, e)
<1>1. /\ Len(more) = n + 1 /\ more[n + 1] = e /\ n \in Nat
      /\ more \in Seq(EventRecord)
      /\ \A k \in 1..n : more[k] = evs[k]
      /\ DOMAIN more = 1..(n + 1) /\ DOMAIN evs = 1..n
  BY OldWindows
<1>2. Signed(more) = Signed(evs) /\ Signed(evs) \subseteq 1..n
  BY <1>1 DEF Signed
<1>3. SignedSats(more)[n + 1] = 0
  BY <1>1 DEF SignedSats
<1>4. \A i, j \in 1..n : SumOf(SignedSats(more), i .. j) = SumOf(SignedSats(evs), i .. j)
  BY OldWindows
<1>5. \A i \in 1..n : SumOf(SignedSats(more), i .. (n + 1)) = SumOf(SignedSats(evs), i .. n)
  <2> TAKE i \in 1..n
  <2>1. i \in 1..(n + 1)
    BY <1>1
  <2>2. /\ SumOf(SignedSats(more), i .. (n + 1)) = SumOf(SignedSats(evs), i .. n) + SignedSats(more)[n + 1]
        /\ SumOf(SignedSats(evs), i .. n) \in Nat
    BY <2>1, OldWindows
  <2>3. QED
    BY <1>3, <2>2
<1> HIDE DEF more, n
<1>6. TailBounded(more, s)
  BY <1>1, <1>2, <1>5 DEF Windows, TailBounded, n
<1>7. WindowsBounded(more)
  BY <1>1, <1>2, <1>4 DEF Windows, WindowsBounded
<1>8. QED
  BY <1>6, <1>7 DEF Windows, more

\* From the first signing of a window to its last debit, and from there to this.
LEMMA WindowArithmetic ==
  ASSUME NEW sum \in Nat, NEW left \in Nat, NEW left2 \in Nat, NEW amount \in Nat,
         NEW cap \in Nat, NEW rate \in Nat, NEW from \in Nat, NEW last \in Nat, NEW ts \in Nat,
         sum + left <= cap + rate * (last - from),
         left2 + amount <= left + (ts - last) * rate
  PROVE  (sum + amount) + left2 <= cap + rate * (ts - from)
<1> DEFINE a == rate * (last - from)
           b == (ts - last) * rate
           c == rate * (ts - from)
<1>1. a \in Int /\ b \in Int /\ c \in Int /\ c = a + b
  OBVIOUS
<1> HIDE DEF a, b, c
<1>2. sum + left <= cap + a /\ left2 + amount <= left + b
  BY DEF a, b
<1>3. (sum + amount) + left2 <= cap + c
  BY <1>1, <1>2
<1>4. QED
  BY <1>3 DEF c

\* A signing closes one more window behind every signing before it.
LEMMA SignedKeeps ==
  ASSUME NEW evs \in Seq(EventRecord), NEW e \in EventRecord,
         NEW s \in LimiterState, NEW s2 \in LimiterState,
         e.kind = "WithdrawalSigned", Windows(evs, s),
         s2.lastUpdated = SecsOf(e), SecsOf(e) >= s.lastUpdated,
         s2.tokens + e.sats <= s.tokens + (SecsOf(e) - s.lastUpdated) * RefillRate,
         s2.tokens + e.sats <= BucketCap
  PROVE  Windows(Append(evs, e), s2)
<1> DEFINE n == Len(evs)
           more == Append(evs, e)
           f == SignedSats(evs)
           g == SignedSats(more)
           ts == SecsOf(e)
<1>1. /\ Len(more) = n + 1 /\ more[n + 1] = e /\ n \in Nat
      /\ more \in Seq(EventRecord)
      /\ \A k \in 1..n : more[k] = evs[k]
      /\ DOMAIN more = 1..(n + 1) /\ DOMAIN evs = 1..n
  BY OldWindows
<1>2. Signed(more) = Signed(evs) \cup {n + 1} /\ Signed(evs) \subseteq 1..n
  BY <1>1 DEF Signed
<1>3. g[n + 1] = e.sats /\ e.sats \in Nat
  BY <1>1 DEF SignedSats, EventRecord
<1>4. \A i, j \in 1..n : SumOf(g, i .. j) = SumOf(f, i .. j)
  BY OldWindows
<1>5. \A i \in 1..(n + 1) : SumOf(g, i .. (n + 1)) = SumOf(f, i .. n) + e.sats
                            /\ SumOf(f, i .. n) \in Nat
  BY <1>3, OldWindows
<1>6. /\ s.tokens \in Nat /\ s2.tokens \in Nat /\ s.lastUpdated \in Nat
      /\ RefillRate \in Nat /\ BucketCap \in Nat
  BY LimiterAssumption DEF LimiterState
<1>7. ts \in Nat /\ \A k \in 1..n : SecsOf(evs[k]) \in Nat
  <2>1. e.atMs \in Nat
    BY DEF EventRecord
  <2>2. ts \in Nat
    BY <2>1, LimiterAssumption DEF SecsOf, msToSecs
  <2>3. \A k \in 1..n : SecsOf(evs[k]) \in Nat
    BY SignedTypes
  <2>4. QED
    BY <2>2, <2>3
<1> HIDE DEF f, g, more, n, ts
<1>8. ASSUME NEW i \in Signed(more)
      PROVE  /\ SecsOf(more[i]) <= ts
             /\ SumOf(g, i .. (n + 1)) + s2.tokens <= BucketCap + RefillRate * (ts - SecsOf(more[i]))
  <2>1. CASE i = n + 1
    <3>1. SumOf(f, i .. n) = 0
      <4>1. i .. n = {}
        BY <1>1, <2>1
      <4>2. QED
        BY <4>1, SumEmpty
    <3>2. SecsOf(more[i]) = ts /\ RefillRate * (ts - ts) = 0
      BY <1>1, <1>6, <1>7, <2>1 DEF ts
    <3>3. i \in 1..(n + 1)
      BY <1>1, <2>1
    <3>4. SumOf(g, i .. (n + 1)) = e.sats
      BY <1>3, <1>5, <3>1, <3>3
    <3>5. QED
      BY <1>3, <1>6, <1>7, <3>2, <3>4
  <2>2. CASE i \in Signed(evs)
    <3>1. i \in 1..n /\ i \in 1..(n + 1) /\ more[i] = evs[i]
      BY <1>1, <1>2, <2>2
    <3>2. /\ SecsOf(evs[i]) <= s.lastUpdated
          /\ SumOf(f, i .. n) + s.tokens <= BucketCap + RefillRate * (s.lastUpdated - SecsOf(evs[i]))
      BY <2>2 DEF Windows, TailBounded, f, n
    <3>3. SumOf(f, i .. n) \in Nat /\ SumOf(g, i .. (n + 1)) = SumOf(f, i .. n) + e.sats
      BY <1>5, <3>1
    <3>4. SecsOf(evs[i]) \in Nat /\ s2.tokens + e.sats <= s.tokens + (ts - s.lastUpdated) * RefillRate
          /\ ts >= s.lastUpdated
      BY <1>7, <3>1 DEF ts
    <3> DEFINE from == SecsOf(evs[i])
               sum == SumOf(f, i .. n)
    <3> HIDE DEF from, sum
    <3>5. (sum + e.sats) + s2.tokens <= BucketCap + RefillRate * (ts - from)
      <4>1. sum \in Nat /\ from \in Nat /\ sum + s.tokens <= BucketCap + RefillRate * (s.lastUpdated - from)
        BY <3>2, <3>3, <3>4 DEF from, sum
      <4> DEFINE left == s.tokens
                 left2 == s2.tokens
                 last == s.lastUpdated
                 amount == e.sats
      <4>2. left \in Nat /\ left2 \in Nat /\ last \in Nat /\ amount \in Nat
            /\ sum + left <= BucketCap + RefillRate * (last - from)
            /\ left2 + amount <= left + (ts - last) * RefillRate
        BY <1>3, <1>6, <3>4, <4>1
      <4> HIDE DEF left, left2, last, amount
      <4>3. (sum + amount) + left2 <= BucketCap + RefillRate * (ts - from)
        BY <1>6, <1>7, <4>1, <4>2, WindowArithmetic
      <4>4. QED
        BY <4>3 DEF amount, left2
    <3>6. QED
      BY <1>6, <1>7, <3>1, <3>2, <3>3, <3>4, <3>5 DEF from, sum
  <2>3. QED
    BY <1>2, <2>1, <2>2
<1>9. TailBounded(more, s2)
  BY <1>1, <1>8 DEF TailBounded, g, ts
<1>10. WindowsBounded(more)
  <2> SUFFICES ASSUME NEW i \in Signed(more), NEW j \in Signed(more), i <= j
               PROVE  SumOf(g, i .. j) <= BucketCap + RefillRate * (SecsOf(more[j]) - SecsOf(more[i]))
    BY DEF WindowsBounded, g
  <2>1. CASE j = n + 1
    <3>1. SecsOf(more[j]) = ts
      BY <1>1, <2>1 DEF ts
    <3>2. i \in 1..(n + 1)
      BY <1>1, <1>2
    <3>3. SumOf(g, i .. (n + 1)) \in Nat
      BY <1>3, <1>5, <3>2
    <3>4. SumOf(g, i .. (n + 1)) + s2.tokens <= BucketCap + RefillRate * (ts - SecsOf(more[i]))
      BY <1>8
    <3>5. RefillRate * (ts - SecsOf(more[i])) \in Int
      <4>1. SecsOf(more[i]) \in Nat
        BY <1>1, <3>2, SignedTypes
      <4>2. QED
        BY <1>6, <1>7, <4>1
    <3> DEFINE bound == RefillRate * (ts - SecsOf(more[i]))
               sum == SumOf(g, i .. (n + 1))
    <3> HIDE DEF bound, sum
    <3>6. sum <= BucketCap + bound
      BY <1>6, <3>3, <3>4, <3>5 DEF bound, sum
    <3>7. QED
      BY <2>1, <3>1, <3>6 DEF bound, sum
  <2>2. CASE j \in Signed(evs)
    <3>1. j \in 1..n /\ i \in 1..n
      BY <1>1, <1>2, <2>2
    <3>2. i \in Signed(evs) /\ more[i] = evs[i] /\ more[j] = evs[j]
      BY <1>1, <1>2, <3>1
    <3>3. SumOf(f, i .. j) <= BucketCap + RefillRate * (SecsOf(evs[j]) - SecsOf(evs[i]))
      BY <2>2, <3>2 DEF Windows, WindowsBounded, f
    <3>4. QED
      BY <1>4, <3>1, <3>2, <3>3
  <2>3. QED
    BY <1>2, <2>1, <2>2
<1>11. QED
  BY <1>9, <1>10 DEF Windows, more

------------------------------------------------------------------------
(* The theorems. *)

\* The first state: a full bucket and an empty log.
LEMMA InitInv ==
  ASSUME Init
  PROVE  IInv
<1>1. limiter \in LimiterState /\ limiter.tokens = BucketCap /\ limiter.lastUpdated = 0
      /\ BucketCap \in Nat /\ RefillRate \in Nat
  BY LimiterAssumption DEF Init, genesis, LimiterState
<1>2. Shape
  BY <1>1 DEF Init, Shape
<1>3. OutflowBounded
  BY <1>1 DEF Init, OutflowBounded
<1>4. History(events, withdrawals)
  <2> SUFFICES ASSUME NEW i \in Nat, NEW kind \in Tracked
               PROVE  OccursIn(events, kind, i) = said(kind, statusOf(withdrawals, i))
    BY DEF History
  <2>1. {k \in DOMAIN events : events[k].kind = kind /\ events[k].id = i} = {}
    BY DEF Init
  <2>2. OccursIn(events, kind, i) = 0
    BY <2>1, FS_EmptySet DEF OccursIn
  <2>3. statusOf(withdrawals, i) = "none"
    BY DEF Init, statusOf
  <2>4. QED
    BY <2>2, <2>3, SaidTable
<1>5. QED
  BY <1>2, <1>3, <1>4 DEF IInv

\* Every transition and every call keeps the invariant.
LEMMA StepInv ==
  ASSUME IInv, [BridgeNext]_bridgeVars
  PROVE  IInv'
<1>1. CASE Pump
  BY <1>1, ApproveDepositInv, ApproveWithdrawalInv, PickWithdrawalInv, SignWithdrawalInv,
     RetryLaterInv, AbandonSignInv, ConfirmWithdrawalInv DEF Pump
<1>2. CASE Advance
  BY <1>2, AdvanceInv
<1>3. CASE BridgeCall
  BY <1>3, DepositInv, ConfirmDepositInv, RequestWithdrawalInv, CancelWithdrawalInv DEF BridgeCall
<1>4. CASE UNCHANGED bridgeVars
  BY <1>4 DEF bridgeVars, IInv, Shape, OutflowBounded, History
<1>5. QED
  BY <1>1, <1>2, <1>3, <1>4 DEF BridgeNext

(* The invariant, of every behaviour of the simulated bridge (mock.ts). *)
THEOREM InvariantHolds == Spec => []IInv
<1>1. Init => IInv
  BY InitInv
<1>2. IInv /\ [BridgeNext]_bridgeVars => IInv'
  BY StepInv
<1>3. QED
  BY <1>1, <1>2, PTL DEF Spec

(* What has been burned never outruns a full bucket and its refill up to the last *)
(* debit (limiter.ts consume, as mock.ts attemptSign calls it).                   *)
THEOREM OutflowNeverOutrunsBucket == Spec => []OutflowBounded
<1>1. IInv => OutflowBounded
  BY DEF IInv
<1>2. QED
  BY <1>1, InvariantHolds, PTL

(* No withdrawal is signed twice, or both signed and refunded, or cancelled after *)
(* the leader has picked it (mock.ts cancelWithdrawal against runPick).           *)
THEOREM NeverRefundedAndSigned == Spec => []RefundedOrSigned
<1>1. IInv => RefundedOrSigned
  <2> SUFFICES ASSUME IInv, NEW i \in DOMAIN withdrawals
               PROVE  /\ Occurs("WithdrawalSigned", i) + Occurs("WithdrawalCancelled", i) <= 1
                      /\ Occurs("WithdrawalPickedForProcessing", i)
                           + Occurs("WithdrawalCancelled", i) <= 1
    BY DEF RefundedOrSigned
  <2>1. i \in Nat /\ History(events, withdrawals)
    BY DEF IInv, Shape
  <2>2. \A kind \in Tracked : Occurs(kind, i) = said(kind, statusOf(withdrawals, i))
    BY <2>1 DEF History, Occurs, OccursIn
  <2>3. /\ said("WithdrawalSigned", statusOf(withdrawals, i))
             + said("WithdrawalCancelled", statusOf(withdrawals, i)) <= 1
        /\ said("WithdrawalPickedForProcessing", statusOf(withdrawals, i))
             + said("WithdrawalCancelled", statusOf(withdrawals, i)) <= 1
    BY DEF said
  <2>4. QED
    BY <2>2, <2>3 DEF Tracked
<1>2. QED
  BY <1>1, InvariantHolds, PTL

------------------------------------------------------------------------
(* The windows, along the steps. *)

\* The log and the bucket did not move.
LEMMA WindowsStand ==
  ASSUME Windows(events, limiter), UNCHANGED <<events, limiter>>
  PROVE  Windows(events', limiter')
  OBVIOUS

\* An event that is no signing was logged, and the bucket did not move.
LEMMA WindowsWiden ==
  ASSUME IInv, Windows(events, limiter), UNCHANGED limiter,
         NEW kind \in EventKinds, kind # "WithdrawalSigned",
         NEW i \in Nat, NEW sats \in Nat, NEW at \in Nat,
         events' = Append(events, Event(kind, i, sats, at))
  PROVE  Windows(events', limiter')
<1> DEFINE e == Event(kind, i, sats, at)
<1>1. e \in EventRecord /\ e.kind = kind
  BY EventSays
<1>2. events \in Seq(EventRecord) /\ limiter \in LimiterState
  BY DEF IInv, Shape
<1> HIDE DEF e
<1>3. Windows(Append(events, e), limiter)
  BY <1>1, <1>2, UnsignedKeeps
<1>4. QED
  BY <1>3 DEF e

\* The signing of a withdrawal: three events, the second of which counts.
LEMMA SignWithdrawalWindows ==
  ASSUME IInv, Windows(events, limiter), NEW i \in DOMAIN withdrawals, SignWithdrawal(i)
  PROVE  Windows(events', limiter')
<1> DEFINE at == withdrawalDue(withdrawals[i])
           ts == msToSecs(at)
           amount == withdrawals[i].sats
           a == Event("WithdrawalInputsSigned", i, 0, at)
           b == Event("WithdrawalSigned", i, amount, at)
           c == Event("Burned", i, amount, at)
<1>1. withdrawals[i] \in WithdrawalRecord /\ at \in Nat /\ i \in Nat
  BY FiringWithdrawal DEF SignWithdrawal, IInv, InQueue
<1>2. amount \in Nat /\ ts \in Nat /\ 0 \in Nat
  BY <1>1, LimiterAssumption DEF WithdrawalRecord, msToSecs
<1>3. events' = events \o <<a, b, c>>
  BY DEF SignWithdrawal
<1>4. limiter' = consume(limiter, limiter.nextSeq, ts, amount)
      /\ consumeError(limiter, limiter.nextSeq, ts, amount) = "none"
  BY DEF SignWithdrawal, signError
<1>5. events \in Seq(EventRecord) /\ limiter \in LimiterState
  BY DEF IInv, Shape
<1> HIDE DEF at
<1>6. SecsOf(b) = ts /\ b.sats = amount
  BY DEF SecsOf, Event
<1> HIDE DEF ts, amount
<1>7. /\ a \in EventRecord /\ a.kind = "WithdrawalInputsSigned"
      /\ b \in EventRecord /\ b.kind = "WithdrawalSigned"
      /\ c \in EventRecord /\ c.kind = "Burned"
  BY <1>1, <1>2 DEF Event, EventRecord, EventKinds
<1> HIDE DEF a, b, c
<1>8. /\ limiter' \in LimiterState /\ limiter'.lastUpdated = ts /\ ts >= limiter.lastUpdated
      /\ limiter'.tokens + amount <= limiter.tokens + (ts - limiter.lastUpdated) * RefillRate
      /\ limiter'.tokens + amount <= BucketCap
  BY <1>2, <1>4, <1>5, DebitBound
<1> DEFINE e1 == Append(events, a)
           e2 == Append(e1, b)
<1>9. e1 \in Seq(EventRecord) /\ Windows(e1, limiter)
  BY <1>5, <1>7, UnsignedKeeps
<1>10. events' = Append(e2, c)
  BY <1>3, <1>5, <1>7, ThreeMore
<1> HIDE DEF e1
<1>11. e2 \in Seq(EventRecord) /\ Windows(e2, limiter')
  BY <1>5, <1>6, <1>7, <1>8, <1>9, SignedKeeps
<1> HIDE DEF e2
<1>12. QED
  BY <1>7, <1>8, <1>10, <1>11, UnsignedKeeps

\* A withdrawal that moves through its statuses, other than by a signing.
LEMMA PumpWindows ==
  ASSUME IInv, Windows(events, limiter), NEW i \in DOMAIN withdrawals,
         \/ ApproveWithdrawal(i) \/ PickWithdrawal(i)
         \/ RetryLater(i) \/ AbandonSign(i) \/ ConfirmWithdrawal(i)
  PROVE  Windows(events', limiter')
<1> DEFINE at == withdrawalDue(withdrawals[i])
           sats == withdrawals[i].sats
<1>1. i \in Nat /\ sats \in Nat /\ 0 \in Nat
  <2>1. withdrawals[i] \in WithdrawalRecord /\ i \in Nat
    BY DEF IInv, Shape
  <2>2. QED
    BY <2>1 DEF WithdrawalRecord
<1>2. CASE RetryLater(i) \/ AbandonSign(i)
  <2>1. UNCHANGED <<events, limiter>>
    BY <1>2 DEF RetryLater, AbandonSign
  <2>2. QED
    BY <2>1, WindowsStand
<1>3. CASE ApproveWithdrawal(i)
  <2>1. at \in Nat
    BY <1>3, FiringWithdrawal DEF ApproveWithdrawal, IInv, InQueue
  <2>2. events' = Append(events, Event("WithdrawalApproved", i, 0, at)) /\ UNCHANGED limiter
    BY <1>3 DEF ApproveWithdrawal
  <2> HIDE DEF at
  <2>3. QED
    BY <1>1, <2>1, <2>2, WindowsWiden DEF EventKinds
<1>4. CASE PickWithdrawal(i)
  <2>1. at \in Nat
    BY <1>4, FiringWithdrawal DEF PickWithdrawal, IInv, InQueue
  <2>2. events' = Append(events, Event("WithdrawalPickedForProcessing", i, sats, at))
        /\ UNCHANGED limiter
    BY <1>4 DEF PickWithdrawal
  <2> HIDE DEF at, sats
  <2>3. QED
    BY <1>1, <2>1, <2>2, WindowsWiden DEF EventKinds
<1>5. CASE ConfirmWithdrawal(i)
  <2>1. at \in Nat
    BY <1>5, FiringWithdrawal DEF ConfirmWithdrawal, IInv, InQueue
  <2>2. events' = Append(events, Event("WithdrawalConfirmed", i, 0, at)) /\ UNCHANGED limiter
    BY <1>5 DEF ConfirmWithdrawal
  <2> HIDE DEF at
  <2>3. QED
    BY <1>1, <2>1, <2>2, WindowsWiden DEF EventKinds
<1>6. QED
  BY <1>2, <1>3, <1>4, <1>5

\* A call, or a deposit that is approved.
LEMMA CallWindows ==
  ASSUME IInv, Windows(events, limiter),
         BridgeCall \/ \E i \in DOMAIN deposits : ApproveDeposit(i)
  PROVE  Windows(events', limiter')
<1>1. /\ nowMs \in Nat /\ Amounts \subseteq Nat /\ DepositApprovalDelay \in Nat
      /\ Len(deposits) + 1 \in Nat /\ Len(withdrawals) + 1 \in Nat
  BY BridgeAssumption DEF IInv, Shape
<1>2. \A i \in DOMAIN deposits : i \in Nat /\ deposits[i] \in DepositRecord
  BY DEF IInv, Shape
<1>3. \A i \in DOMAIN withdrawals : i \in Nat /\ withdrawals[i] \in WithdrawalRecord
  BY DEF IInv, Shape
<1>4. ASSUME NEW i \in DOMAIN deposits, ApproveDeposit(i)
      PROVE  Windows(events', limiter')
  <2> DEFINE at == deposits[i].requestedAt + DepositApprovalDelay
  <2>1. at \in Nat /\ deposits[i].sats \in Nat
    BY <1>1, <1>2 DEF DepositRecord
  <2>2. events' = Append(events, Event("DepositApproved", i, deposits[i].sats, at))
        /\ UNCHANGED limiter
    BY <1>4 DEF ApproveDeposit
  <2> HIDE DEF at
  <2>3. QED
    BY <1>2, <2>1, <2>2, WindowsWiden DEF EventKinds
<1>5. ASSUME NEW u \in Users, NEW s \in Amounts, deposit(u, s)
      PROVE  Windows(events', limiter')
  <2>1. events' = Append(events, Event("DepositRequested", Len(deposits) + 1, s, nowMs))
        /\ UNCHANGED limiter
    BY <1>5 DEF deposit
  <2>2. QED
    BY <1>1, <2>1, WindowsWiden DEF EventKinds
<1>6. ASSUME NEW u \in Users, NEW s \in Amounts, NEW j \in PickJitters, requestWithdrawal(u, s, j)
      PROVE  Windows(events', limiter')
  <2>1. events' = Append(events, Event("WithdrawalRequested", Len(withdrawals) + 1, s, nowMs))
        /\ UNCHANGED limiter
    BY <1>6 DEF requestWithdrawal
  <2>2. QED
    BY <1>1, <2>1, WindowsWiden DEF EventKinds
<1>7. ASSUME NEW u \in Users, NEW i \in DOMAIN withdrawals, cancelWithdrawal(u, i)
      PROVE  Windows(events', limiter')
  <2>1. events' = Append(events, Event("WithdrawalCancelled", i, withdrawals[i].sats, nowMs))
        /\ UNCHANGED limiter
    BY <1>7 DEF cancelWithdrawal
  <2>2. withdrawals[i].sats \in Nat
    BY <1>3 DEF WithdrawalRecord
  <2>3. QED
    BY <1>1, <1>3, <2>1, <2>2, WindowsWiden DEF EventKinds
<1>8. ASSUME NEW i \in DOMAIN deposits, confirmDeposit(i)
      PROVE  Windows(events', limiter')
  <2> DEFINE a == Event("DepositConfirmed", i, deposits[i].sats, nowMs)
             b == Event("Minted", i, deposits[i].sats, nowMs)
  <2>1. events' = events \o <<a, b>> /\ UNCHANGED limiter
    BY <1>8 DEF confirmDeposit
  <2>2. deposits[i].sats \in Nat
    BY <1>2 DEF DepositRecord
  <2>3. /\ a \in EventRecord /\ a.kind = "DepositConfirmed"
        /\ b \in EventRecord /\ b.kind = "Minted"
    BY <1>1, <1>2, <2>2 DEF Event, EventRecord, EventKinds
  <2>4. events \in Seq(EventRecord) /\ limiter \in LimiterState
    BY DEF IInv, Shape
  <2> HIDE DEF a, b
  <2> DEFINE e1 == Append(events, a)
  <2>5. events' = Append(e1, b)
    BY <2>1, <2>3, <2>4
  <2>6. e1 \in Seq(EventRecord) /\ Windows(e1, limiter)
    BY <2>3, <2>4, UnsignedKeeps
  <2> HIDE DEF e1
  <2>7. QED
    BY <2>1, <2>3, <2>4, <2>5, <2>6, UnsignedKeeps
<1>9. QED
  BY <1>4, <1>5, <1>6, <1>7, <1>8 DEF BridgeCall

\* Every step keeps the windows bounded.
LEMMA StepWindows ==
  ASSUME IInv, Windows(events, limiter), [BridgeNext]_bridgeVars
  PROVE  Windows(events', limiter')
<1>1. CASE Pump
  BY <1>1, CallWindows, PumpWindows, SignWithdrawalWindows DEF Pump
<1>2. CASE Advance
  <2>1. UNCHANGED <<events, limiter>>
    BY <1>2 DEF Advance, setNowMs
  <2>2. QED
    BY <2>1, WindowsStand
<1>3. CASE BridgeCall
  BY <1>3, CallWindows
<1>4. CASE UNCHANGED bridgeVars
  <2>1. UNCHANGED <<events, limiter>>
    BY <1>4 DEF bridgeVars
  <2>2. QED
    BY <2>1, WindowsStand
<1>5. QED
  BY <1>1, <1>2, <1>3, <1>4 DEF BridgeNext

(* What is signed between any two signings of the log, both included, is at most *)
(* a full bucket and the refill of that time: the bucket holds no debt and no     *)
(* credit from before the window (limiter.ts consume, mock.ts attemptSign).       *)
THEOREM WindowsStayBounded == Spec => []WindowBounded
<1>1. Init => Windows(events, limiter)
  <2> SUFFICES ASSUME Init
               PROVE  Windows(events, limiter)
    OBVIOUS
  <2>1. Signed(events) = {}
    BY DEF Init, Signed
  <2>2. QED
    BY <2>1 DEF Windows, TailBounded, WindowsBounded
<1>2. IInv /\ Windows(events, limiter) /\ [BridgeNext]_bridgeVars => Windows(events, limiter)'
  BY StepWindows
<1>3. Windows(events, limiter) => WindowBounded
  BY DEF Windows, WindowsBounded, WindowBounded, Signed, SecsOf, SumOf
<1>4. QED
  BY <1>1, <1>2, <1>3, InvariantHolds, PTL DEF Spec

------------------------------------------------------------------------
(* The replay of the simulated bridge's log. *)

\* A replay of a log of one more event is the replay before it and one boundary
\* more: the rules of LoopRules, of which these folds need no invariant.
AnyTurns(n, acc) == n = acc
Replay == INSTANCE LoopRules WITH Body <- boundary, Holds <- AnyTurns
Stream == INSTANCE LoopRules WITH Body <- keepSigned, Holds <- AnyTurns

\* What a replay holds.
Sample == [atMs : Nat, state : LimiterState]
QueueEntry == [atMs : Nat, depth : Nat]
Replayed ==
  [state : LimiterState, depth : Nat, unresolved : Nat, rejected : Nat,
   samples : Seq(Sample), queue : Seq(QueueEntry)]
\* What an event of the log debits.
debitOf(evs, e) == IF e.kind = "WithdrawalSigned" THEN resolveDebit(evs, e) ELSE NoDebit

\* What a log says was first asked for request id.
AsksFor(evs, id, s) == indexRequestedSats(evs, id) = {s}

\* It says so for good.
LEMMA RequestStays ==
  ASSUME NEW evs \in Seq(EventRecord), NEW e \in EventRecord, NEW id, NEW s,
         AsksFor(evs, id, s)
  PROVE  AsksFor(Append(evs, e), id, s)
<1> DEFINE kind == "WithdrawalRequested"
           n == Len(evs)
           r == Append(evs, e)
           at == {k \in DOMAIN evs : evs[k].kind = kind /\ evs[k].id = id}
           at2 == {k \in DOMAIN r : r[k].kind = kind /\ r[k].id = id}
           first == {j \in at : \A l \in at : j <= l}
           first2 == {j \in at2 : \A l \in at2 : j <= l}
<1>1. /\ n \in Nat /\ DOMAIN evs = 1..n /\ DOMAIN r = 1..(n + 1)
      /\ \A k \in 1..n : r[k] = evs[k]
  OBVIOUS
<1>2. {evs[k].sats : k \in first} = {s}
      /\ indexRequestedSats(r, id) = {r[k].sats : k \in first2}
  BY DEF firstSats, indexRequestedSats, AsksFor
<1> HIDE DEF n, r
<1>3. at \subseteq at2 /\ at2 \subseteq at \cup {n + 1} /\ at \subseteq 1..n
  BY <1>1
<1> HIDE DEF at, at2
<1>4. PICK j \in first : evs[j].sats = s
  BY <1>2
<1>5. \A k \in first : k = j
  BY <1>3, <1>4
<1>6. j \in first2
  BY <1>1, <1>3, <1>4
<1>7. \A k \in first2 : k = j
  BY <1>1, <1>3, <1>4, <1>6
<1>8. r[j].sats = s
  BY <1>1, <1>3, <1>4
<1> HIDE DEF first, first2
<1>9. {r[k].sats : k \in first2} = {s}
  BY <1>6, <1>7, <1>8
<1>10. QED
  BY <1>2, <1>9 DEF AsksFor, r

\* What a log has not said yet, the next event may say first.
LEMMA RequestComes ==
  ASSUME NEW evs \in Seq(EventRecord), NEW e \in EventRecord, e.kind = "WithdrawalRequested",
         \A k \in DOMAIN evs : ~(evs[k].kind = e.kind /\ evs[k].id = e.id)
  PROVE  AsksFor(Append(evs, e), e.id, e.sats)
<1> DEFINE n == Len(evs)
           r == Append(evs, e)
           at == {k \in DOMAIN r : r[k].kind = e.kind /\ r[k].id = e.id}
           first == {j \in at : \A l \in at : j <= l}
<1>1. /\ n \in Nat /\ DOMAIN evs = 1..n /\ DOMAIN r = 1..(n + 1)
      /\ r[n + 1] = e /\ \A k \in 1..n : r[k] = evs[k]
  OBVIOUS
<1>2. indexRequestedSats(r, e.id) = {r[k].sats : k \in first}
  BY DEF firstSats, indexRequestedSats
<1> HIDE DEF n, r
<1>3. at = {n + 1}
  <2>1. \A k \in DOMAIN r : k \in 1..n \/ k = n + 1
    BY <1>1
  <2>2. n + 1 \in at
    BY <1>1
  <2>3. \A k \in at : k = n + 1
    BY <1>1, <2>1
  <2> HIDE DEF at
  <2>4. QED
    BY <2>2, <2>3
<1> HIDE DEF at
<1>4. first = {n + 1}
  BY <1>1, <1>3
<1> HIDE DEF first
<1>5. {r[k].sats : k \in first} = {e.sats}
  BY <1>1, <1>4
<1>6. QED
  BY <1>2, <1>5 DEF AsksFor, r

\* A log that says nothing of a kind says nothing of any request of that kind.
LEMMA NothingFirst ==
  ASSUME NEW evs, NEW kind, NEW id, \A k \in DOMAIN evs : evs[k].kind # kind
  PROVE  firstSats(evs, kind, id) = {}
BY DEF firstSats

\* What a signed event debits, when its request is in the log ...
LEMMA DebitAsked ==
  ASSUME NEW evs, NEW e, NEW s, AsksFor(evs, e.id, s)
  PROVE  resolveDebit(evs, e) = [sats |-> s, resolved |-> TRUE]
<1>1. (CHOOSE x \in {s} : TRUE) = s
  OBVIOUS
<1>2. indexRequestedSats(evs, e.id) = {s} /\ {s} # {}
  BY DEF AsksFor
<1>3. QED
  BY <1>1, <1>2 DEF resolveDebit

\* ... and when neither its request nor its pick is.
LEMMA DebitCarried ==
  ASSUME NEW evs, NEW e, \A k \in DOMAIN evs : evs[k].kind = "WithdrawalSigned"
  PROVE  resolveDebit(evs, e) = [sats |-> e.sats, resolved |-> FALSE]
<1>1. indexRequestedSats(evs, e.id) = {} /\ indexPickedSats(evs, e.id) = {}
  BY NothingFirst DEF indexRequestedSats, indexPickedSats
<1>2. (CHOOSE x \in {e.sats} : TRUE) = e.sats
  OBVIOUS
<1>3. QED
  BY <1>1, <1>2 DEF resolveDebit

\* The induction that the rules ask for.
LEMMA ReplayInduction == Replay!Induction
  BY NatSetInduction DEF Replay!Induction

\* The same, for the stream.
LEMMA StreamInduction == Stream!Induction
  BY NatSetInduction DEF Stream!Induction

\* What was resolved so far stays as it was.
SettledDebits(evs, e) ==
  \A k \in DOMAIN evs :
    evs[k].kind = "WithdrawalSigned"
      => resolveDebit(Append(evs, e), evs[k]) = resolveDebit(evs, evs[k])

\* One event more is one boundary more.
LEMMA OneMoreBoundary ==
  ASSUME NEW evs \in Seq(EventRecord), NEW e \in EventRecord, SettledDebits(evs, e)
  PROVE  deriveLimiter(Append(evs, e))
           = boundary(deriveLimiter(evs), [event |-> e, debit |-> debitOf(Append(evs, e), e)])
<1> DEFINE n == Len(evs)
           r == Append(evs, e)
           a == resolved(evs)
           x == [event |-> e, debit |-> debitOf(r, e)]
           X == {a[k] : k \in 1..n} \cup {x}
<1>1. /\ n \in Nat /\ DOMAIN evs = 1..n /\ DOMAIN r = 1..(n + 1) /\ Len(r) = n + 1
      /\ r[n + 1] = e /\ \A k \in 1..n : r[k] = evs[k]
  OBVIOUS
<1>2. /\ a = [k \in 1..n |-> [event |-> evs[k], debit |-> debitOf(evs, evs[k])]]
      /\ resolved(r) = [k \in 1..(n + 1) |-> [event |-> r[k], debit |-> debitOf(r, r[k])]]
  <2> HIDE DEF n, r
  <2>1. QED
    BY <1>1 DEF resolved, debitOf
<1>3. \A k \in 1..n : debitOf(r, evs[k]) = debitOf(evs, evs[k])
  BY <1>1 DEF SettledDebits, debitOf
<1> HIDE DEF r
<1>4. \A k \in 1..n : resolved(r)[k] = a[k]
  <2> TAKE k \in 1..n
  <2>1. k \in 1..(n + 1)
    BY <1>1
  <2> HIDE DEF n, a
  <2>2. resolved(r)[k] = [event |-> r[k], debit |-> debitOf(r, r[k])]
    BY <1>2, <2>1
  <2>3. a[k] = [event |-> evs[k], debit |-> debitOf(evs, evs[k])]
    BY <1>2
  <2>4. QED
    BY <1>1, <1>3, <2>2, <2>3
<1>5. resolved(r)[n + 1] = x
  <2> HIDE DEF n
  <2>1. n + 1 \in 1..(n + 1)
    BY <1>1
  <2>2. QED
    BY <1>1, <1>2, <2>1
<1> HIDE DEF x, n, a
<1>6. a \in Seq(X) /\ x \in X /\ Len(a) = n
  <2>1. /\ \A k \in 1..n : a[k] \in X
        /\ a = [k \in 1..n |-> a[k]]
    BY <1>2
  <2> HIDE DEF X
  <2>2. a \in Seq(X)
    BY <1>1, <2>1
  <2>3. DOMAIN a = 1..n
    BY <2>1
  <2>4. QED
    BY <1>1, <2>2, <2>3 DEF X
<1>7. resolved(r) = Append(a, x)
  <2> HIDE DEF X
  <2> DEFINE c == Append(a, x)
  <2>1. /\ c \in Seq(X) /\ Len(c) = n + 1 /\ c[n + 1] = x
        /\ \A k \in 1..n : c[k] = a[k]
    BY <1>1, <1>6
  <2>2. c = [k \in 1..(n + 1) |-> c[k]]
    <3> HIDE DEF c
    <3>1. c = [k \in 1..Len(c) |-> c[k]]
      BY <2>1
    <3>2. QED
      BY <2>1, <3>1
  <2>3. resolved(r) = [k \in 1..(n + 1) |-> resolved(r)[k]]
    BY <1>2
  <2>4. \A k \in 1..(n + 1) : resolved(r)[k] = c[k]
    <3>1. \A k \in 1..(n + 1) : k # n + 1 => k \in 1..n
      BY <1>1
    <3> HIDE DEF c
    <3>2. QED
      BY <1>4, <1>5, <2>1, <3>1
  <2> HIDE DEF c
  <2>5. c = resolved(r)
    BY <2>2, <2>3, <2>4
  <2>6. QED
    BY <2>5 DEF c
<1>8. Replay!FoldSeq(replayStart, Append(a, x)) = boundary(Replay!FoldSeq(replayStart, a), x)
  BY <1>6, ReplayInduction, Replay!FoldOneMore
<1>9. \A q : deriveLimiter(q) = Replay!FoldSeq(replayStart, resolved(q))
  BY DEF deriveLimiter, Replay!FoldSeq, Replay!Greatest, FoldLeft, MapThenFoldSet, Max
<1>10. deriveLimiter(r) = boundary(deriveLimiter(evs), x)
  BY <1>7, <1>8, <1>9 DEF a
<1>11. QED
  BY <1>10 DEF r, x

\* One event more keeps the stream of the signed ones, or is one of them.
LEMMA OneMoreKept ==
  ASSUME NEW evs \in Seq(EventRecord), NEW e \in EventRecord
  PROVE  signedStream(Append(evs, e)) = keepSigned(signedStream(evs), e)
<1>1. \A q : signedStream(q) = Stream!FoldSeq(<<>>, q)
  BY DEF signedStream, Stream!FoldSeq, Stream!Greatest, FoldLeft, MapThenFoldSet, Max
<1>2. QED
  BY <1>1, StreamInduction, Stream!FoldOneMore

\* The replay of nothing.
LEMMA NothingReplayed ==
  deriveLimiter(<<>>) = replayStart /\ signedStream(<<>>) = <<>>
<1>1. \A q : deriveLimiter(q) = Replay!FoldSeq(replayStart, resolved(q))
  BY DEF deriveLimiter, Replay!FoldSeq, Replay!Greatest, FoldLeft, MapThenFoldSet, Max
<1>2. \A q : signedStream(q) = Stream!FoldSeq(<<>>, q)
  BY DEF signedStream, Stream!FoldSeq, Stream!Greatest, FoldLeft, MapThenFoldSet, Max
<1>3. resolved(<<>>) = <<>>
  <2>1. DOMAIN <<>> = {}
    OBVIOUS
  <2>2. QED
    BY <2>1 DEF resolved
<1>4. Replay!FoldSeq(replayStart, <<>>) = replayStart
  <2>1. <<>> \in Seq({1}) /\ 1 \in {1}
    OBVIOUS
  <2>2. QED
    BY <2>1, ReplayInduction, Replay!FoldOneMore
<1>5. Stream!FoldSeq(<<>>, <<>>) = <<>>
  <2>1. <<>> \in Seq({1}) /\ 1 \in {1}
    OBVIOUS
  <2>2. QED
    BY <2>1, StreamInduction, Stream!FoldOneMore
<1>6. QED
  BY <1>1, <1>2, <1>3, <1>4, <1>5

\* The traces of a replay reach back from t, and end in what the replay holds.
Timed(trace, t) == \A k \in DOMAIN trace : trace[k].atMs <= t
Tracks(d, t) ==
  /\ Timed(d.samples, t) /\ Timed(d.queue, t)
  /\ d.state = IF d.samples = <<>> THEN genesis ELSE d.samples[Len(d.samples)].state
  /\ d.depth = IF d.queue = <<>> THEN 0 ELSE d.queue[Len(d.queue)].depth

\* A trace with one entry more ends in that entry.
LEMMA TraceGrows ==
  ASSUME NEW X, NEW trace \in Seq(X), NEW x \in X, NEW t \in Nat, Timed(trace, t), x.atMs <= t
  PROVE  /\ Append(trace, x) \in Seq(X) /\ Timed(Append(trace, x), t)
         /\ Append(trace, x) # <<>> /\ Append(trace, x)[Len(Append(trace, x))] = x
<1> DEFINE c == Append(trace, x)
           n == Len(trace)
<1>1. /\ c \in Seq(X) /\ n \in Nat /\ Len(c) = n + 1 /\ DOMAIN c = 1..(n + 1)
      /\ DOMAIN trace = 1..n /\ c[n + 1] = x /\ \A k \in 1..n : c[k] = trace[k]
  OBVIOUS
<1> HIDE DEF c, n
<1>2. c # <<>>
  <2>1. Len(<<>>) = 0
    OBVIOUS
  <2>2. QED
    BY <1>1, <2>1
<1>3. ASSUME NEW k \in 1..(n + 1)
      PROVE  c[k].atMs <= t
  <2>1. k = n + 1 \/ k \in 1..n
    BY <1>1, <1>3
  <2>2. \A j \in 1..n : trace[j].atMs <= t
    BY <1>1 DEF Timed
  <2>3. QED
    BY <1>1, <2>1, <2>2
<1>4. Timed(c, t)
  BY <1>1, <1>3 DEF Timed
<1>5. QED
  BY <1>1, <1>2, <1>4 DEF c

\* A boundary of the queue leaves the bucket as it was.
LEMMA PushSays ==
  ASSUME NEW d \in Replayed, NEW t \in Nat, Tracks(d, t),
         NEW e \in EventRecord, e.atMs <= t, NEW depth \in Nat
  PROVE  /\ pushQueue(d, e, depth) \in Replayed /\ Tracks(pushQueue(d, e, depth), t)
         /\ pushQueue(d, e, depth).state = d.state /\ pushQueue(d, e, depth).depth = depth
         /\ pushQueue(d, e, depth).unresolved = d.unresolved
         /\ pushQueue(d, e, depth).rejected = d.rejected
         /\ pushQueue(d, e, depth).samples = d.samples
<1> DEFINE x == [atMs |-> e.atMs, depth |-> depth]
           q == Append(d.queue, x)
           p == pushQueue(d, e, depth)
<1>1. x \in QueueEntry /\ x.atMs = e.atMs /\ x.depth = depth
  BY DEF QueueEntry, EventRecord
<1>2. d.queue \in Seq(QueueEntry) /\ Timed(d.queue, t)
  BY DEF Replayed, Tracks
<1> HIDE DEF x
<1>3. q \in Seq(QueueEntry) /\ Timed(q, t) /\ q # <<>> /\ q[Len(q)] = x
  BY <1>1, <1>2, TraceGrows
<1>4. p = [d EXCEPT !.queue = q, !.depth = depth]
  BY DEF pushQueue, x
<1> HIDE DEF q, p
<1>5. /\ p.queue = q /\ p.depth = depth /\ p.state = d.state /\ p.samples = d.samples
      /\ p.unresolved = d.unresolved /\ p.rejected = d.rejected
  BY <1>4 DEF Replayed
<1>6. p \in Replayed
  BY <1>3, <1>4 DEF Replayed
<1>7. Tracks(p, t)
  BY <1>1, <1>3, <1>5 DEF Tracks
<1>8. QED
  BY <1>5, <1>6, <1>7 DEF p

\* A time in seconds is a number.
LEMMA SecsAre ==
  ASSUME NEW ms \in Nat
  PROVE  msToSecs(ms) \in Nat
<1>1. MsPerSec \in Nat /\ MsPerSec > 0
  BY LimiterAssumption
<1>2. QED
  BY <1>1 DEF msToSecs

\* A signed boundary that the bucket accepts.
LEMMA SignedSays ==
  ASSUME NEW d \in Replayed, NEW t \in Nat, Tracks(d, t),
         NEW e \in EventRecord, e.atMs <= t, NEW sats \in Nat, NEW known \in BOOLEAN,
         consumeError(d.state, d.state.nextSeq, msToSecs(e.atMs), sats) = "none"
  PROVE  LET p == signedBoundary(d, e, [sats |-> sats, resolved |-> known])
         IN /\ p \in Replayed /\ Tracks(p, t)
            /\ p.state = consume(d.state, d.state.nextSeq, msToSecs(e.atMs), sats)
            /\ p.depth = satSub(d.depth, sats)
            /\ p.unresolved = d.unresolved + (IF known THEN 0 ELSE 1)
            /\ p.rejected = d.rejected
<1> DEFINE debit == [sats |-> sats, resolved |-> known]
           p == signedBoundary(d, e, debit)
           next == consume(d.state, d.state.nextSeq, msToSecs(e.atMs), sats)
           left == satSub(d.depth, sats)
           o == pushQueue(d, e, left)
           x == [atMs |-> e.atMs, state |-> next]
           s == Append(d.samples, x)
           u == d.unresolved + (IF known THEN 0 ELSE 1)
<1>1. /\ d.state \in LimiterState /\ d.depth \in Nat /\ d.samples \in Seq(Sample)
      /\ d.unresolved \in Nat /\ d.rejected \in Nat /\ e.atMs \in Nat
  BY DEF Replayed, EventRecord
<1>2. msToSecs(e.atMs) \in Nat
  BY <1>1, SecsAre
<1>3. next \in LimiterState
  <2> DEFINE st == d.state
             ts == msToSecs(e.atMs)
  <2>1. st \in LimiterState /\ ts \in Nat
    BY <1>1, <1>2
  <2>2. consumeError(st, st.nextSeq, ts, sats) = "none"
    OBVIOUS
  <2>3. next = consume(st, st.nextSeq, ts, sats)
    OBVIOUS
  <2> HIDE DEF st, ts, next
  <2>4. QED
    BY <2>1, <2>2, <2>3, DebitBound
<1>4. left \in Nat
  BY <1>1 DEF satSub
<1> HIDE DEF left
<1>5. /\ o \in Replayed /\ Tracks(o, t) /\ o.depth = left /\ o.state = d.state
      /\ o.unresolved = d.unresolved /\ o.rejected = d.rejected /\ o.samples = d.samples
  BY <1>4, PushSays
<1>6. p = [o EXCEPT !.state = next, !.samples = s, !.unresolved = u, !.rejected = d.rejected]
  <2>1. debit.sats = sats /\ debit.resolved = known
    OBVIOUS
  <2> HIDE DEF debit
  <2>2. p = [o EXCEPT !.state = next, !.samples = Append(o.samples, x),
                      !.unresolved = o.unresolved + (IF known THEN 0 ELSE 1),
                      !.rejected = o.rejected + 0]
    <3> HIDE DEF o
    <3>1. QED
      BY <2>1, <1>5 DEF signedBoundary, o, left
  <2> HIDE DEF p, o, next, x
  <2>3. o.rejected + 0 = d.rejected
    BY <1>1, <1>5
  <2>4. QED
    BY <1>5, <2>2, <2>3
<1> HIDE DEF o, p
<1>7. u \in Nat
  BY <1>1
<1>8. x \in Sample /\ x.atMs = e.atMs /\ x.state = next
  <2> HIDE DEF next
  <2>1. QED
    BY <1>1, <1>3 DEF Sample
<1> HIDE DEF x, next, u
<1>9. s \in Seq(Sample) /\ Timed(s, t) /\ s # <<>> /\ s[Len(s)] = x
  BY <1>1, <1>8, TraceGrows DEF Tracks
<1> HIDE DEF s
<1>10. /\ p.state = next /\ p.samples = s /\ p.unresolved = u /\ p.rejected = d.rejected
       /\ p.depth = left /\ p.queue = o.queue
  BY <1>5, <1>6 DEF Replayed
<1>11. p \in Replayed
  BY <1>1, <1>3, <1>5, <1>6, <1>7, <1>9 DEF Replayed
<1>12. Tracks(p, t)
  BY <1>5, <1>8, <1>9, <1>10 DEF Tracks
<1>13. QED
  BY <1>10, <1>11, <1>12 DEF p, next, left, u

------------------------------------------------------------------------
(* What the requests of some statuses come to. *)
\* They carry a number of sats, and one may turn into another of as many.
Carries(R) == \A r \in R : r.sats \in Nat
Turns(rs, i, r, rs2) == i \in DOMAIN rs /\ r.sats = rs[i].sats /\ rs2 = [rs EXCEPT ![i] = r]

\* They are a finite number.
LEMMA Indexes ==
  ASSUME NEW R, NEW rs \in Seq(R)
  PROVE  IsFiniteSet(DOMAIN rs)
<1>1. Len(rs) \in Nat /\ DOMAIN rs = 1..Len(rs)
  OBVIOUS
<1>2. IsFiniteSet(1..Len(rs))
  BY <1>1, FS_Interval
<1>3. QED
  BY <1>1, <1>2

\* It is a number, at least what any one of them carries.
LEMMA SatsHold ==
  ASSUME NEW R, Carries(R), NEW rs \in Seq(R), NEW S
  PROVE  /\ Sats(rs, S) \in Nat
         /\ \A i \in DOMAIN rs : rs[i].status \in S => rs[i].sats <= Sats(rs, S)
<1> DEFINE f == [i \in DOMAIN rs |-> rs[i].sats]
           T == {i \in DOMAIN rs : rs[i].status \in S}
<1>1. DOMAIN rs = 1..Len(rs) /\ Len(rs) \in Nat /\ \A i \in DOMAIN rs : rs[i] \in R
  OBVIOUS
<1>2. IsFiniteSet(T)
  BY Indexes, FS_Subset
<1>3. \A x \in T : f[x] \in Nat
  BY <1>1 DEF Carries
<1>4. Sats(rs, S) = SumOf(f, T)
  BY DEF Sats, SumOf
<1> HIDE DEF f, T
<1>5. SumOf(f, T) \in Nat /\ \A i \in T : f[i] <= SumOf(f, T)
  BY <1>2, <1>3, SumNat, TermWithinSum
<1>6. QED
  BY <1>4, <1>5 DEF f, T

\* A request more adds what it carries, if it counts.
LEMMA SatsJoin ==
  ASSUME NEW R, Carries(R), NEW rs \in Seq(R), NEW r \in R, NEW S
  PROVE  Sats(Append(rs, r), S) = Sats(rs, S) + (IF r.status \in S THEN r.sats ELSE 0)
<1> DEFINE n == Len(rs)
           q == Append(rs, r)
           f == [i \in DOMAIN rs |-> rs[i].sats]
           T == {i \in DOMAIN rs : rs[i].status \in S}
           g == [i \in DOMAIN q |-> q[i].sats]
           U == {i \in DOMAIN q : q[i].status \in S}
<1>1. /\ n \in Nat /\ DOMAIN rs = 1..n /\ DOMAIN q = 1..(n + 1)
      /\ q[n + 1] = r /\ \A k \in 1..n : q[k] = rs[k] /\ rs[k] \in R
  OBVIOUS
<1> HIDE DEF n, q
<1>2. \A k \in 1..(n + 1) : k \in 1..n \/ k = n + 1
  BY <1>1
<1>3. \A k \in 1..n : k \in 1..(n + 1) /\ k # n + 1
  BY <1>1
<1>4. n + 1 \in 1..(n + 1)
  BY <1>1
<1>5. /\ T \subseteq 1..n /\ n + 1 \notin T
      /\ U = IF r.status \in S THEN T \cup {n + 1} ELSE T
  <2>1. \A k \in U : k \in T \/ (k = n + 1 /\ r.status \in S)
    BY <1>1, <1>2
  <2>2. \A k \in T : k \in U /\ k # n + 1
    BY <1>1, <1>3
  <2>3. r.status \in S => n + 1 \in U
    BY <1>1, <1>4
  <2>4. T \subseteq 1..n
    BY <1>1
  <2> HIDE DEF T, U
  <2>5. QED
    BY <2>1, <2>2, <2>3, <2>4
<1>6. g[n + 1] = r.sats /\ r.sats \in Nat
  BY <1>1, <1>4 DEF Carries
<1>7. \A k \in T : g[k] = f[k] /\ f[k] \in Nat
  BY <1>1, <1>3, <1>5 DEF Carries
<1>8. Sats(rs, S) = SumOf(f, T) /\ Sats(q, S) = SumOf(g, U)
  BY DEF Sats, SumOf
<1> HIDE DEF f, g, T, U
<1>9. IsFiniteSet(T)
  BY <1>1, <1>5, Indexes, FS_Subset
<1>10. SumOf(g, T) = SumOf(f, T) /\ SumOf(f, T) \in Nat
  BY <1>7, <1>9, SumSame, SumNat
<1>11. SumOf(g, T \cup {n + 1}) = g[n + 1] + SumOf(g, T)
  <2>1. \A x \in T \cup {n + 1} : g[x] \in Int
    BY <1>6, <1>7
  <2>2. QED
    BY <1>5, <1>9, <2>1, SumPutsIn
<1>12. QED
  BY <1>5, <1>6, <1>8, <1>10, <1>11 DEF q

\* A request that changes counts no more, or counts from now on.
Shifts(rs, rs2, S, v, r) ==
  Sats(rs2, S) = Sats(rs, S) - (IF v.status \in S THEN r.sats ELSE 0)
                             + (IF r.status \in S THEN r.sats ELSE 0)

\* The requests are the same but for that one.
LEMMA SatsMove ==
  ASSUME NEW R, Carries(R), NEW rs \in Seq(R), NEW S,
         NEW i, NEW r \in R, NEW rs2, Turns(rs, i, r, rs2)
  PROVE  /\ rs2 \in Seq(R) /\ Len(rs2) = Len(rs) /\ DOMAIN rs2 = DOMAIN rs
         /\ \A j \in DOMAIN rs : rs2[j].sats = rs[j].sats
         /\ Shifts(rs, rs2, S, rs[i], r)
<1> DEFINE f == [j \in DOMAIN rs |-> rs[j].sats]
           T == {j \in DOMAIN rs : rs[j].status \in S}
           g == [j \in DOMAIN rs2 |-> rs2[j].sats]
           U == {j \in DOMAIN rs2 : rs2[j].status \in S}
           V == T \ {i}
<1>0. i \in DOMAIN rs /\ r.sats = rs[i].sats /\ rs2 = [rs EXCEPT ![i] = r]
  BY DEF Turns
<1>1. rs2 \in Seq(R) /\ Len(rs2) = Len(rs) /\ DOMAIN rs2 = DOMAIN rs
  BY <1>0
<1>2. rs2[i] = r /\ \A j \in DOMAIN rs : j # i => rs2[j] = rs[j]
  BY <1>0
<1>3. \A j \in DOMAIN rs : rs2[j].sats = rs[j].sats
  BY <1>0, <1>2
<1>4. g = f
  BY <1>1, <1>3
<1>5. r.sats \in Nat /\ f[i] = r.sats
  BY <1>0 DEF Carries
<1>6. /\ T = IF rs[i].status \in S THEN V \cup {i} ELSE V
      /\ U = IF r.status \in S THEN V \cup {i} ELSE V
      /\ i \notin V /\ V \subseteq T
  BY <1>0, <1>1, <1>2
<1>7. Sats(rs, S) = SumOf(f, T) /\ Sats(rs2, S) = SumOf(g, U)
  BY DEF Sats, SumOf
<1>8. IsFiniteSet(T) /\ \A x \in DOMAIN rs : f[x] \in Nat
  BY Indexes, FS_Subset DEF Carries
<1>9. V \subseteq DOMAIN rs
  OBVIOUS
<1> HIDE DEF f, g, T, U, V
<1>10. IsFiniteSet(V)
  BY <1>6, <1>8, FS_Subset
<1>11. SumOf(f, V) \in Nat
  BY <1>8, <1>9, <1>10, SumNat
<1>12. SumOf(f, V \cup {i}) = f[i] + SumOf(f, V)
  <2>1. \A x \in V \cup {i} : f[x] \in Int
    BY <1>5, <1>8, <1>9
  <2>2. QED
    BY <1>6, <1>10, <2>1, SumPutsIn
<1>13. Sats(rs2, S) = Sats(rs, S) - (IF rs[i].status \in S THEN r.sats ELSE 0)
                                  + (IF r.status \in S THEN r.sats ELSE 0)
  <2>1. SumOf(f, T) = SumOf(f, V) + (IF rs[i].status \in S THEN r.sats ELSE 0)
    BY <1>5, <1>6, <1>11, <1>12
  <2>2. SumOf(g, U) = SumOf(f, V) + (IF r.status \in S THEN r.sats ELSE 0)
    BY <1>4, <1>5, <1>6, <1>11, <1>12
  <2>3. QED
    BY <1>5, <1>7, <1>11, <2>1, <2>2
<1>14. QED
  BY <1>1, <1>3, <1>13 DEF Shifts

\* Withdrawals and deposits do.
LEMMA RecordSats == Carries(WithdrawalRecord) /\ Carries(DepositRecord)
BY DEF Carries, WithdrawalRecord, DepositRecord

------------------------------------------------------------------------
(* The queue. *)
\* What waits to be signed is a number, at least what any one request asks.
LEMMA QueueHolds ==
  ASSUME NEW ws \in Seq(WithdrawalRecord)
  PROVE  /\ Sats(ws, InQueue) \in Nat
         /\ \A i \in DOMAIN ws : ws[i].status \in InQueue => ws[i].sats <= Sats(ws, InQueue)
BY RecordSats, SatsHold

\* A request joins the queue.
LEMMA QueueJoins ==
  ASSUME NEW ws \in Seq(WithdrawalRecord), NEW w \in WithdrawalRecord, w.status = "Requested"
  PROVE  Sats(Append(ws, w), InQueue) = Sats(ws, InQueue) + w.sats
<1>1. w.status \in InQueue
  BY DEF InQueue
<1>2. QED
  BY <1>1, RecordSats, SatsJoin

\* Request i becomes w, and asks for the same.
Becomes(ws, i, w, ws2) ==
  /\ i \in DOMAIN ws /\ w \in WithdrawalRecord /\ w.sats = ws[i].sats
  /\ ws2 = [ws EXCEPT ![i] = w]

\* It moves within the queue, or outside it, or leaves it.
LEMMA QueueMoves ==
  ASSUME NEW ws \in Seq(WithdrawalRecord), NEW i, NEW w, NEW ws2, Becomes(ws, i, w, ws2),
         w.status \in InQueue => ws[i].status \in InQueue
  PROVE  /\ ws2 \in Seq(WithdrawalRecord) /\ Len(ws2) = Len(ws) /\ DOMAIN ws2 = DOMAIN ws
         /\ \A j \in DOMAIN ws : ws2[j].sats = ws[j].sats
         /\ Sats(ws2, InQueue)
              = Sats(ws, InQueue)
                - (IF ws[i].status \in InQueue /\ w.status \notin InQueue THEN w.sats ELSE 0)
<1> DEFINE q == Sats(ws, InQueue)
           r == Sats(ws2, InQueue)
           v == ws[i].status
<1>1. w \in WithdrawalRecord /\ w.sats \in Nat /\ Turns(ws, i, w, ws2)
  BY DEF Becomes, Turns, WithdrawalRecord
<1>2. /\ ws2 \in Seq(WithdrawalRecord) /\ Len(ws2) = Len(ws) /\ DOMAIN ws2 = DOMAIN ws
      /\ \A j \in DOMAIN ws : ws2[j].sats = ws[j].sats
      /\ Shifts(ws, ws2, InQueue, ws[i], w)
  BY <1>1, RecordSats, SatsMove
<1>3. r = q - (IF v \in InQueue THEN w.sats ELSE 0) + (IF w.status \in InQueue THEN w.sats ELSE 0)
  BY <1>2 DEF Shifts
<1>4. q \in Nat /\ (w.status \in InQueue => v \in InQueue)
  BY QueueHolds
<1> HIDE DEF q, r, v
<1>5. r = q - (IF v \in InQueue /\ w.status \notin InQueue THEN w.sats ELSE 0)
  BY <1>1, <1>3, <1>4
<1>6. QED
  BY <1>2, <1>5 DEF q, r, v

\* Every withdrawal was asked for in the log, at its amount, and no event asks
\* for or signs any other.
Asked(evs, ws) ==
  /\ \A i \in DOMAIN ws : AsksFor(evs, i, ws[i].sats)
  /\ \A k \in DOMAIN evs :
       evs[k].kind \in {"WithdrawalRequested", "WithdrawalSigned"} => evs[k].id \in DOMAIN ws
\* The whole replay holds the bucket and the queue, and missed nothing.
WholeHolds(d, waiting, lim, t) ==
  /\ d \in Replayed /\ Tracks(d, t) /\ d.state = lim /\ d.depth = waiting
  /\ d.unresolved = 0 /\ d.rejected = 0
\* So does that of the signed events alone, of the bucket.
StreamHolds(str, lim, t) ==
  /\ str \in Seq(EventRecord) /\ \A k \in DOMAIN str : str[k].kind = "WithdrawalSigned"
  /\ deriveLimiter(str) \in Replayed /\ Tracks(deriveLimiter(str), t)
  /\ deriveLimiter(str).state = lim /\ deriveLimiter(str).rejected = 0
\* The queue is no more than the requests made can come to.
Fits(ws) == Sats(ws, InQueue) * MaxWithdrawals <= Len(ws) * MaxU64
Parity(evs, ws, lim, t) ==
  /\ evs \in Seq(EventRecord) /\ ws \in Seq(WithdrawalRecord)
  /\ Asked(evs, ws) /\ Fits(ws)
  /\ WholeHolds(deriveLimiter(evs), Sats(ws, InQueue), lim, t)
  /\ StreamHolds(signedStream(evs), lim, t)

\* What is known of a log of one event more.
LEMMA LogGrows ==
  ASSUME NEW evs \in Seq(EventRecord), NEW e \in EventRecord
  PROVE  /\ Append(evs, e) \in Seq(EventRecord)
         /\ \A P : (\A k \in DOMAIN evs : evs[k] \in P) /\ e \in P
                     => \A k \in DOMAIN Append(evs, e) : Append(evs, e)[k] \in P
<1> DEFINE n == Len(evs)
           r == Append(evs, e)
<1>1. /\ n \in Nat /\ DOMAIN evs = 1..n /\ DOMAIN r = 1..(n + 1) /\ r \in Seq(EventRecord)
      /\ r[n + 1] = e /\ \A k \in 1..n : r[k] = evs[k]
  OBVIOUS
<1> HIDE DEF n, r
<1>2. \A k \in 1..(n + 1) : k \in 1..n \/ k = n + 1
  BY <1>1
<1>3. QED
  BY <1>1, <1>2 DEF r

\* An event that asks for nothing new leaves what was asked for.
LEMMA AskedStays ==
  ASSUME NEW evs \in Seq(EventRecord), NEW e \in EventRecord, NEW ws, NEW ws2,
         Asked(evs, ws), DOMAIN ws2 = DOMAIN ws, \A i \in DOMAIN ws : ws2[i].sats = ws[i].sats,
         e.kind \in {"WithdrawalRequested", "WithdrawalSigned"} => e.id \in DOMAIN ws
  PROVE  Asked(Append(evs, e), ws2)
<1>1. \A i \in DOMAIN ws : AsksFor(Append(evs, e), i, ws[i].sats)
  BY RequestStays DEF Asked
<1> DEFINE P == {x \in EventRecord : x.kind \in {"WithdrawalRequested", "WithdrawalSigned"}
                                       => x.id \in DOMAIN ws}
<1>2. \A k \in DOMAIN evs : evs[k] \in P
  BY DEF Asked
<1>3. e \in P
  OBVIOUS
<1>4. \A k \in DOMAIN Append(evs, e) : Append(evs, e)[k] \in P
  <2> HIDE DEF P
  <2>1. QED
    BY <1>2, <1>3, LogGrows
<1>5. QED
  BY <1>1, <1>4 DEF Asked

\* A log that asked for what it signs resolves it the same from then on.
LEMMA AskedSettles ==
  ASSUME NEW evs \in Seq(EventRecord), NEW e \in EventRecord, NEW ws, Asked(evs, ws)
  PROVE  SettledDebits(evs, e)
<1> SUFFICES ASSUME NEW k \in DOMAIN evs, evs[k].kind = "WithdrawalSigned"
             PROVE  resolveDebit(Append(evs, e), evs[k]) = resolveDebit(evs, evs[k])
  BY DEF SettledDebits
<1>1. evs[k].id \in DOMAIN ws
  BY DEF Asked
<1>2. AsksFor(evs, evs[k].id, ws[evs[k].id].sats)
  BY <1>1 DEF Asked
<1>3. AsksFor(Append(evs, e), evs[k].id, ws[evs[k].id].sats)
  BY <1>2, RequestStays
<1>4. QED
  BY <1>2, <1>3, DebitAsked

\* A log of signed events alone resolves none of them, and takes what each carries.
LEMMA StreamSettles ==
  ASSUME NEW str \in Seq(EventRecord), NEW e \in EventRecord, e.kind = "WithdrawalSigned",
         \A k \in DOMAIN str : str[k].kind = "WithdrawalSigned"
  PROVE  /\ Append(str, e) \in Seq(EventRecord)
         /\ \A k \in DOMAIN Append(str, e) : Append(str, e)[k].kind = "WithdrawalSigned"
         /\ SettledDebits(str, e)
         /\ debitOf(Append(str, e), e) = [sats |-> e.sats, resolved |-> FALSE]
<1> DEFINE P == {x \in EventRecord : x.kind = "WithdrawalSigned"}
<1>1. (\A k \in DOMAIN str : str[k] \in P) /\ e \in P
  OBVIOUS
<1>2. \A k \in DOMAIN Append(str, e) : Append(str, e)[k] \in P
  <2> HIDE DEF P
  <2>1. QED
    BY <1>1, LogGrows
<1>3. \A k \in DOMAIN Append(str, e) : Append(str, e)[k].kind = "WithdrawalSigned"
  BY <1>2
<1>4. SettledDebits(str, e)
  BY <1>3, DebitCarried DEF SettledDebits
<1>5. debitOf(Append(str, e), e) = [sats |-> e.sats, resolved |-> FALSE]
  BY <1>3, DebitCarried DEF debitOf
<1>6. QED
  BY <1>3, <1>4, <1>5, LogGrows

\* The requests move among themselves, and none leaves or joins the queue.
SameQueue(ws, ws2) ==
  /\ ws2 \in Seq(WithdrawalRecord) /\ Len(ws2) = Len(ws) /\ DOMAIN ws2 = DOMAIN ws
  /\ \A i \in DOMAIN ws : ws2[i].sats = ws[i].sats
  /\ Sats(ws2, InQueue) = Sats(ws, InQueue)

\* What was timed by t is timed by any later time.
LEMMA TimedLater ==
  ASSUME NEW X, NEW trace \in Seq(X), \A x \in X : x.atMs \in Nat,
         NEW t \in Nat, NEW t2 \in Nat, t <= t2, Timed(trace, t)
  PROVE  Timed(trace, t2)
<1> SUFFICES ASSUME NEW k \in DOMAIN trace
             PROVE  trace[k].atMs <= t2
  BY DEF Timed
<1>1. trace[k] \in X
  OBVIOUS
<1>2. trace[k].atMs <= t
  BY DEF Timed
<1>3. QED
  BY <1>1, <1>2

\* Nothing is logged: the replay stands, also when it is later.
LEMMA ParityWaits ==
  ASSUME NEW evs, NEW ws, NEW lim, NEW t \in Nat, Parity(evs, ws, lim, t),
         NEW ws2, SameQueue(ws, ws2), NEW t2 \in Nat, t <= t2
  PROVE  Parity(evs, ws2, lim, t2)
<1>1. ASSUME NEW d \in Replayed, Tracks(d, t)
      PROVE  Tracks(d, t2)
  <2>1. /\ d.samples \in Seq(Sample) /\ d.queue \in Seq(QueueEntry)
        /\ Timed(d.samples, t) /\ Timed(d.queue, t)
    BY <1>1 DEF Replayed, Tracks
  <2>2. (\A x \in Sample : x.atMs \in Nat) /\ (\A x \in QueueEntry : x.atMs \in Nat)
    BY DEF Sample, QueueEntry
  <2>3. Timed(d.samples, t2) /\ Timed(d.queue, t2)
    BY <2>1, <2>2, TimedLater
  <2>4. QED
    BY <1>1, <2>3 DEF Tracks
<1>2. WholeHolds(deriveLimiter(evs), Sats(ws2, InQueue), lim, t2)
  BY <1>1 DEF Parity, WholeHolds, SameQueue
<1>3. StreamHolds(signedStream(evs), lim, t2)
  BY <1>1 DEF Parity, StreamHolds
<1>4. Asked(evs, ws2) /\ Fits(ws2)
  BY DEF Parity, Asked, Fits, SameQueue
<1>5. QED
  BY <1>2, <1>3, <1>4 DEF Parity, SameQueue

\* An event of no boundary: the replay stands.
LEMMA ParityStands ==
  ASSUME NEW evs, NEW ws, NEW lim, NEW t \in Nat, Parity(evs, ws, lim, t),
         NEW e \in EventRecord,
         e.kind \notin {"WithdrawalRequested", "WithdrawalSigned", "WithdrawalCancelled"}
  PROVE  Parity(Append(evs, e), ws, lim, t)
<1>1. evs \in Seq(EventRecord) /\ Asked(evs, ws)
  BY DEF Parity
<1>2. Append(evs, e) \in Seq(EventRecord) /\ Asked(Append(evs, e), ws)
  BY <1>1, LogGrows, AskedStays
<1>3. deriveLimiter(Append(evs, e)) = deriveLimiter(evs)
  <2> DEFINE d == deriveLimiter(evs)
             r == [event |-> e, debit |-> debitOf(Append(evs, e), e)]
  <2>1. deriveLimiter(Append(evs, e)) = boundary(d, r)
    BY <1>1, AskedSettles, OneMoreBoundary
  <2>2. r.event = e
    OBVIOUS
  <2> HIDE DEF d, r
  <2>3. boundary(d, r) = d
    BY <2>2 DEF boundary
  <2>4. QED
    BY <2>1, <2>3 DEF d
<1>4. signedStream(Append(evs, e)) = signedStream(evs)
  BY <1>1, OneMoreKept DEF keepSigned
<1>5. QED
  BY <1>2, <1>3, <1>4 DEF Parity

\* A product of naturals grows with either.
LEMMA RoomForOneMore ==
  ASSUME NEW n \in Nat, NEW m \in Nat, NEW q \in Nat, NEW s \in Nat, NEW u \in Nat,
         n < m, q * m <= n * u, s * m <= u
  PROVE  q + s <= u /\ (q + s) * m <= (n + 1) * u
<1>1. (q + s) * m = q * m + s * m /\ (n + 1) * u = n * u + u
  OBVIOUS
<1>2. (q + s) * m <= (n + 1) * u
  <2>1. q * m \in Nat /\ s * m \in Nat /\ n * u \in Nat
    OBVIOUS
  <2>2. QED
    BY <1>1, <2>1
<1>3. (n + 1) * u <= m * u
  <2>1. PICK j \in Nat : m = n + 1 + j
    <3>1. m - (n + 1) \in Nat /\ m = n + 1 + (m - (n + 1))
      OBVIOUS
    <3>2. QED
      BY <3>1
  <2>2. m * u = (n + 1) * u + j * u /\ j * u \in Nat /\ (n + 1) * u \in Nat
    BY <2>1
  <2>3. QED
    BY <2>2
<1>4. ~(q + s > u)
  <2> SUFFICES ASSUME q + s > u
               PROVE  FALSE
    OBVIOUS
  <2>1. PICK j \in Nat : q + s = u + 1 + j
    <3>1. (q + s) - (u + 1) \in Nat /\ q + s = u + 1 + ((q + s) - (u + 1))
      OBVIOUS
    <3>2. QED
      BY <3>1
  <2>2. (q + s) * m = u * m + m + j * m /\ j * m \in Nat /\ u * m \in Nat /\ u * m = m * u
    BY <2>1
  <2>3. (q + s) * m <= m * u
    <3>1. (q + s) * m \in Nat /\ (n + 1) * u \in Nat /\ m * u \in Nat
      OBVIOUS
    <3>2. QED
      BY <1>2, <1>3, <3>1
  <2>4. QED
    BY <2>2, <2>3
<1>5. QED
  BY <1>2, <1>4

\* Less in the queue fits as well.
LEMMA LessFits ==
  ASSUME NEW m \in Nat, NEW q \in Nat, NEW s \in Nat, NEW b \in Nat, s <= q, q * m <= b
  PROVE  (q - s) * m <= b
<1>1. q - s \in Nat /\ q = (q - s) + s
  OBVIOUS
<1>2. \A x \in Nat : (x + s) * m = x * m + s * m /\ x * m \in Nat /\ s * m \in Nat
  OBVIOUS
<1>3. q * m = (q - s) * m + s * m /\ (q - s) * m \in Nat /\ s * m \in Nat
  BY <1>1, <1>2
<1>4. QED
  BY <1>3

\* A request joins the queue, and the log has asked for it.
LEMMA ParityRequested ==
  ASSUME NEW evs, NEW ws, NEW lim, NEW t \in Nat, Parity(evs, ws, lim, t),
         NEW w \in WithdrawalRecord, w.status = "Requested", w.sats \in Amounts,
         Len(ws) < MaxWithdrawals,
         NEW e \in EventRecord, e.kind = "WithdrawalRequested", e.id = Len(ws) + 1,
         e.sats = w.sats, e.atMs <= t
  PROVE  Parity(Append(evs, e), Append(ws, w), lim, t)
<1> DEFINE n == Len(ws)
           ws2 == Append(ws, w)
           d == deriveLimiter(evs)
           r == [event |-> e, debit |-> debitOf(Append(evs, e), e)]
           q == Sats(ws, InQueue)
<1>1. /\ evs \in Seq(EventRecord) /\ ws \in Seq(WithdrawalRecord) /\ Asked(evs, ws)
      /\ Fits(ws) /\ WholeHolds(d, q, lim, t) /\ StreamHolds(signedStream(evs), lim, t)
  BY DEF Parity
<1>2. /\ n \in Nat /\ DOMAIN ws = 1..n /\ ws2 \in Seq(WithdrawalRecord) /\ Len(ws2) = n + 1
      /\ DOMAIN ws2 = 1..(n + 1) /\ ws2[n + 1] = w /\ \A k \in 1..n : ws2[k] = ws[k]
  BY <1>1
<1>3. q \in Nat /\ Sats(ws2, InQueue) = q + w.sats /\ w.sats \in Nat
  BY <1>1, QueueHolds, QueueJoins DEF WithdrawalRecord
<1> HIDE DEF n, ws2, q
<1>4. q + w.sats <= MaxU64 /\ (q + w.sats) * MaxWithdrawals <= (n + 1) * MaxU64
  <2>1. n < MaxWithdrawals /\ q * MaxWithdrawals <= n * MaxU64
    BY <1>1 DEF Fits, n, q
  <2>2. w.sats * MaxWithdrawals <= MaxU64 /\ MaxWithdrawals \in Nat /\ MaxU64 \in Nat
    BY AmountsFit, LimiterAssumption
  <2>3. QED
    BY <1>2, <1>3, <2>1, <2>2, RoomForOneMore
<1>5. Fits(ws2)
  BY <1>2, <1>3, <1>4 DEF Fits
<1>6. Append(evs, e) \in Seq(EventRecord) /\ Asked(Append(evs, e), ws2)
  <2>1. \A k \in DOMAIN evs : ~(evs[k].kind = e.kind /\ evs[k].id = e.id)
    BY <1>1, <1>2 DEF Asked, n
  <2>2. AsksFor(Append(evs, e), n + 1, w.sats)
    BY <1>1, <2>1, RequestComes DEF n
  <2>3. \A i \in 1..n : AsksFor(Append(evs, e), i, ws[i].sats)
    BY <1>1, <1>2, RequestStays DEF Asked
  <2>4. \A i \in 1..(n + 1) : AsksFor(Append(evs, e), i, ws2[i].sats)
    <3>1. \A i \in 1..(n + 1) : i \in 1..n \/ i = n + 1
      BY <1>2
    <3>2. QED
      BY <1>2, <2>2, <2>3, <3>1
  <2> DEFINE P == {x \in EventRecord : x.kind \in {"WithdrawalRequested", "WithdrawalSigned"}
                                         => x.id \in 1..(n + 1)}
  <2>5. \A k \in DOMAIN evs : evs[k] \in P
    <3>1. \A i \in 1..n : i \in 1..(n + 1)
      BY <1>2
    <3>2. QED
      BY <1>1, <1>2, <3>1 DEF Asked
  <2>6. e \in P
    BY <1>2 DEF n
  <2>7. \A k \in DOMAIN Append(evs, e) : Append(evs, e)[k] \in P
    <3> HIDE DEF P
    <3>1. QED
      BY <1>1, <2>5, <2>6, LogGrows
  <2>8. QED
    BY <1>1, <1>2, <2>4, <2>7, LogGrows DEF Asked
<1>7. WholeHolds(deriveLimiter(Append(evs, e)), q + w.sats, lim, t)
  <2>1. deriveLimiter(Append(evs, e)) = boundary(d, r)
    BY <1>1, AskedSettles, OneMoreBoundary
  <2>2. r.event = e
    OBVIOUS
  <2> HIDE DEF d, r
  <2>3. d \in Replayed /\ Tracks(d, t) /\ d.depth = q
    BY <1>1 DEF WholeHolds
  <2>4. boundary(d, r) = pushQueue(d, e, q + w.sats)
    <3>1. satAdd(d.depth, e.sats) = q + w.sats
      BY <1>3, <1>4, <2>3, LimiterAssumption DEF satAdd
    <3>2. QED
      BY <2>2, <3>1 DEF boundary
  <2>5. q + w.sats \in Nat
    BY <1>3
  <2>6. QED
    BY <1>1, <2>1, <2>3, <2>4, <2>5, PushSays DEF WholeHolds
<1>8. signedStream(Append(evs, e)) = signedStream(evs)
  BY <1>1, OneMoreKept DEF keepSigned
<1>9. QED
  BY <1>1, <1>2, <1>3, <1>5, <1>6, <1>7, <1>8 DEF Parity, ws2

\* Request i leaves the queue, for w.
Leaves(ws, i, w, ws2) ==
  Becomes(ws, i, w, ws2) /\ ws[i].status \in InQueue /\ w.status \notin InQueue

\* The queue is less by what that request asked for.
LEMMA QueueLeft ==
  ASSUME NEW ws \in Seq(WithdrawalRecord), NEW i, NEW w, NEW ws2,
         Leaves(ws, i, w, ws2), Fits(ws)
  PROVE  /\ ws2 \in Seq(WithdrawalRecord) /\ DOMAIN ws2 = DOMAIN ws
         /\ \A j \in DOMAIN ws : ws2[j].sats = ws[j].sats
         /\ Sats(ws2, InQueue) = satSub(Sats(ws, InQueue), w.sats) /\ Fits(ws2)
<1> DEFINE q == Sats(ws, InQueue)
<1>1. q \in Nat /\ w.sats \in Nat /\ w.sats <= q
  BY QueueHolds DEF WithdrawalRecord, Becomes, Leaves
<1>2. /\ ws2 \in Seq(WithdrawalRecord) /\ DOMAIN ws2 = DOMAIN ws /\ Len(ws2) = Len(ws)
      /\ \A j \in DOMAIN ws : ws2[j].sats = ws[j].sats
      /\ Sats(ws2, InQueue) = q - w.sats
  BY QueueMoves DEF Leaves
<1>3. q * MaxWithdrawals <= Len(ws) * MaxU64
  BY DEF Fits
<1> HIDE DEF q
<1>4. satSub(q, w.sats) = q - w.sats
  BY <1>1 DEF satSub
<1>5. Len(ws) * MaxU64 \in Nat /\ MaxWithdrawals \in Nat
  BY LimiterAssumption, AmountsFit
<1>6. (q - w.sats) * MaxWithdrawals <= Len(ws) * MaxU64
  BY <1>1, <1>3, <1>5, LessFits
<1>7. QED
  BY <1>2, <1>4, <1>6 DEF Fits, q

\* A cancelled request leaves the queue.
LEMMA ParityCancelled ==
  ASSUME NEW evs, NEW ws, NEW lim, NEW t \in Nat, Parity(evs, ws, lim, t),
         NEW i, NEW w, NEW ws2, Leaves(ws, i, w, ws2),
         NEW e \in EventRecord, e.kind = "WithdrawalCancelled", e.sats = w.sats, e.atMs <= t
  PROVE  Parity(Append(evs, e), ws2, lim, t)
<1> DEFINE d == deriveLimiter(evs)
           r == [event |-> e, debit |-> debitOf(Append(evs, e), e)]
           q == Sats(ws2, InQueue)
<1>1. /\ evs \in Seq(EventRecord) /\ ws \in Seq(WithdrawalRecord) /\ Asked(evs, ws)
      /\ Fits(ws) /\ WholeHolds(d, Sats(ws, InQueue), lim, t)
      /\ StreamHolds(signedStream(evs), lim, t)
  BY DEF Parity
<1>2. /\ ws2 \in Seq(WithdrawalRecord) /\ DOMAIN ws2 = DOMAIN ws
      /\ \A j \in DOMAIN ws : ws2[j].sats = ws[j].sats
      /\ q = satSub(Sats(ws, InQueue), w.sats) /\ Fits(ws2)
  BY <1>1, QueueLeft
<1>3. Append(evs, e) \in Seq(EventRecord) /\ Asked(Append(evs, e), ws2)
  BY <1>1, <1>2, LogGrows, AskedStays
<1>4. WholeHolds(deriveLimiter(Append(evs, e)), q, lim, t)
  <2>1. deriveLimiter(Append(evs, e)) = boundary(d, r)
    BY <1>1, AskedSettles, OneMoreBoundary
  <2>2. r.event = e
    OBVIOUS
  <2>3. q \in Nat
    BY <1>2, QueueHolds
  <2> HIDE DEF d, r, q
  <2>4. d \in Replayed /\ Tracks(d, t) /\ d.depth = Sats(ws, InQueue)
    BY <1>1 DEF WholeHolds
  <2>5. boundary(d, r) = pushQueue(d, e, q)
    BY <1>2, <2>2, <2>4 DEF boundary
  <2>6. QED
    BY <1>1, <2>1, <2>3, <2>4, <2>5, PushSays DEF WholeHolds
<1>5. signedStream(Append(evs, e)) = signedStream(evs)
  BY <1>1, OneMoreKept DEF keepSigned
<1>6. QED
  BY <1>1, <1>2, <1>3, <1>4, <1>5 DEF Parity

\* A signed request leaves the queue, and both replays debit what it asked for.
LEMMA ParitySigned ==
  ASSUME NEW evs, NEW ws, NEW lim, NEW t \in Nat, Parity(evs, ws, lim, t),
         NEW i, NEW w, NEW ws2, Leaves(ws, i, w, ws2),
         NEW e \in EventRecord, e.kind = "WithdrawalSigned", e.id = i, e.sats = w.sats,
         e.atMs <= t,
         consumeError(lim, lim.nextSeq, msToSecs(e.atMs), w.sats) = "none"
  PROVE  Parity(Append(evs, e), ws2, consume(lim, lim.nextSeq, msToSecs(e.atMs), w.sats), t)
<1> DEFINE d == deriveLimiter(evs)
           r == [event |-> e, debit |-> debitOf(Append(evs, e), e)]
           q == Sats(ws2, InQueue)
           str == signedStream(evs)
           ds == deriveLimiter(str)
           lim2 == consume(lim, lim.nextSeq, msToSecs(e.atMs), w.sats)
<1>1. /\ evs \in Seq(EventRecord) /\ ws \in Seq(WithdrawalRecord) /\ Asked(evs, ws)
      /\ Fits(ws) /\ WholeHolds(d, Sats(ws, InQueue), lim, t) /\ StreamHolds(str, lim, t)
  BY DEF Parity
<1>2. /\ ws2 \in Seq(WithdrawalRecord) /\ DOMAIN ws2 = DOMAIN ws
      /\ \A j \in DOMAIN ws : ws2[j].sats = ws[j].sats
      /\ q = satSub(Sats(ws, InQueue), w.sats) /\ Fits(ws2)
  BY <1>1, QueueLeft
<1>3. w.sats \in Nat /\ i \in DOMAIN ws /\ w.sats = ws[i].sats
  BY DEF WithdrawalRecord, Becomes, Leaves
<1>4. Append(evs, e) \in Seq(EventRecord) /\ Asked(Append(evs, e), ws2)
  BY <1>1, <1>2, <1>3, LogGrows, AskedStays
<1>5. WholeHolds(deriveLimiter(Append(evs, e)), q, lim2, t)
  <2>1. deriveLimiter(Append(evs, e)) = boundary(d, r)
    BY <1>1, AskedSettles, OneMoreBoundary
  <2>2. debitOf(Append(evs, e), e) = [sats |-> w.sats, resolved |-> TRUE]
    <3>1. AsksFor(Append(evs, e), e.id, w.sats)
      BY <1>2, <1>3, <1>4 DEF Asked
    <3>2. QED
      BY <3>1, DebitAsked DEF debitOf
  <2>3. r.event = e /\ r.debit = [sats |-> w.sats, resolved |-> TRUE]
    BY <2>2
  <2> HIDE DEF d, r, q
  <2>4. d \in Replayed /\ Tracks(d, t) /\ d.depth = Sats(ws, InQueue) /\ d.state = lim
        /\ d.unresolved = 0 /\ d.rejected = 0
    BY <1>1 DEF WholeHolds
  <2> DEFINE p == signedBoundary(d, e, [sats |-> w.sats, resolved |-> TRUE])
  <2>5. boundary(d, r) = p
    BY <2>3 DEF boundary
  <2>6. /\ p \in Replayed /\ Tracks(p, t)
        /\ p.state = consume(d.state, d.state.nextSeq, msToSecs(e.atMs), w.sats)
        /\ p.depth = satSub(d.depth, w.sats)
        /\ p.unresolved = d.unresolved + (IF TRUE THEN 0 ELSE 1)
        /\ p.rejected = d.rejected
    <3> DEFINE a == w.sats
               known == TRUE
    <3>1. consumeError(d.state, d.state.nextSeq, msToSecs(e.atMs), a) = "none"
      BY <2>4
    <3>2. a \in Nat /\ known \in BOOLEAN
      BY <1>3
    <3>3. p = signedBoundary(d, e, [sats |-> a, resolved |-> known])
      OBVIOUS
    <3> HIDE DEF p, a, known
    <3>4. /\ p \in Replayed /\ Tracks(p, t)
          /\ p.state = consume(d.state, d.state.nextSeq, msToSecs(e.atMs), a)
          /\ p.depth = satSub(d.depth, a)
          /\ p.unresolved = d.unresolved + (IF known THEN 0 ELSE 1)
          /\ p.rejected = d.rejected
      BY <2>4, <3>1, <3>2, <3>3, SignedSays
    <3>5. QED
      BY <3>4 DEF a, known
  <2> HIDE DEF p
  <2>7. QED
    BY <1>2, <2>1, <2>4, <2>5, <2>6 DEF WholeHolds
<1>6. StreamHolds(signedStream(Append(evs, e)), lim2, t)
  <2>1. signedStream(Append(evs, e)) = Append(str, e)
    BY <1>1, OneMoreKept DEF keepSigned
  <2> HIDE DEF str
  <2>2. /\ str \in Seq(EventRecord) /\ \A k \in DOMAIN str : str[k].kind = "WithdrawalSigned"
        /\ ds \in Replayed /\ Tracks(ds, t) /\ ds.state = lim /\ ds.rejected = 0
    BY <1>1 DEF StreamHolds
  <2>3. /\ Append(str, e) \in Seq(EventRecord)
        /\ \A k \in DOMAIN Append(str, e) : Append(str, e)[k].kind = "WithdrawalSigned"
        /\ SettledDebits(str, e)
        /\ debitOf(Append(str, e), e) = [sats |-> w.sats, resolved |-> FALSE]
    BY <2>2, StreamSettles
  <2> DEFINE x == [event |-> e, debit |-> debitOf(Append(str, e), e)]
             p == signedBoundary(ds, e, [sats |-> w.sats, resolved |-> FALSE])
  <2>4. deriveLimiter(Append(str, e)) = boundary(ds, x)
    BY <2>2, <2>3, OneMoreBoundary
  <2>5. x.event = e /\ x.debit = [sats |-> w.sats, resolved |-> FALSE]
    BY <2>3
  <2> HIDE DEF x, ds
  <2>6. boundary(ds, x) = p
    BY <2>5 DEF boundary
  <2>7. /\ p \in Replayed /\ Tracks(p, t)
        /\ p.state = consume(ds.state, ds.state.nextSeq, msToSecs(e.atMs), w.sats)
        /\ p.rejected = ds.rejected
    <3> DEFINE a == w.sats
               known == FALSE
    <3>1. consumeError(ds.state, ds.state.nextSeq, msToSecs(e.atMs), a) = "none"
      BY <2>2
    <3>2. a \in Nat /\ known \in BOOLEAN
      BY <1>3
    <3>3. p = signedBoundary(ds, e, [sats |-> a, resolved |-> known])
      OBVIOUS
    <3> HIDE DEF p, a, known
    <3>4. /\ p \in Replayed /\ Tracks(p, t)
          /\ p.state = consume(ds.state, ds.state.nextSeq, msToSecs(e.atMs), a)
          /\ p.depth = satSub(ds.depth, a)
          /\ p.unresolved = ds.unresolved + (IF known THEN 0 ELSE 1)
          /\ p.rejected = ds.rejected
      BY <2>2, <3>1, <3>2, <3>3, SignedSays
    <3>5. QED
      BY <3>4 DEF a, known
  <2> HIDE DEF p
  <2>8. QED
    BY <2>1, <2>2, <2>3, <2>4, <2>6, <2>7 DEF StreamHolds
<1> HIDE DEF lim2
<1>7. QED
  BY <1>1, <1>2, <1>4, <1>5, <1>6 DEF Parity, lim2

------------------------------------------------------------------------
(* The replay, along the steps. *)
\* The replays of the log, the bucket and the queue are in step.
InStep == Parity(events, withdrawals, limiter, nowMs)
Unbounded ==
  EventKinds \ {"WithdrawalRequested", "WithdrawalSigned", "WithdrawalCancelled"}

\* An event carries what it was made of, whole.
LEMMA EventCarries ==
  ASSUME NEW kind \in EventKinds, NEW id \in Nat, NEW sats \in Nat, NEW at \in Nat
  PROVE  /\ Event(kind, id, sats, at) \in EventRecord
         /\ Event(kind, id, sats, at).kind = kind /\ Event(kind, id, sats, at).id = id
         /\ Event(kind, id, sats, at).sats = sats /\ Event(kind, id, sats, at).atMs = at
BY DEF Event, EventRecord

\* A transition is applied once it is due.
LEMMA FiresInTime ==
  ASSUME NEW i, NEW s, NEW t, withdrawalFires(i, s, t)
  PROVE  t <= nowMs
BY DEF withdrawalFires, due

\* A request that moves within the queue, or outside it.
LEMMA MovesInQueue ==
  ASSUME Shape, NEW i, NEW w, Becomes(withdrawals, i, w, withdrawals'),
         w.status \in InQueue <=> withdrawals[i].status \in InQueue
  PROVE  SameQueue(withdrawals, withdrawals')
<1>1. withdrawals \in Seq(WithdrawalRecord)
  BY DEF Shape
<1> DEFINE ws == withdrawals
           ws2 == withdrawals'
           x == Sats(ws, InQueue)
<1>2. /\ ws2 \in Seq(WithdrawalRecord) /\ Len(ws2) = Len(ws) /\ DOMAIN ws2 = DOMAIN ws
      /\ \A j \in DOMAIN ws : ws2[j].sats = ws[j].sats
      /\ Sats(ws2, InQueue)
           = x - (IF ws[i].status \in InQueue /\ w.status \notin InQueue THEN w.sats ELSE 0)
  BY <1>1, QueueMoves
<1>3. x \in Nat
  BY <1>1, QueueHolds
<1> HIDE DEF x
<1>4. Sats(ws2, InQueue) = x
  BY <1>2, <1>3
<1>5. QED
  BY <1>2, <1>4 DEF SameQueue, x

\* What is logged of such a move is no boundary.
LEMMA LogsMove ==
  ASSUME IInv, InStep, SameQueue(withdrawals, withdrawals'), UNCHANGED <<nowMs, limiter>>,
         NEW kind \in Unbounded, NEW id \in Nat, NEW sats \in Nat, NEW at \in Nat,
         events' = Append(events, Event(kind, id, sats, at))
  PROVE  InStep'
<1> DEFINE e == Event(kind, id, sats, at)
<1>1. e \in EventRecord /\ e.kind = kind
  BY EventCarries DEF Unbounded
<1>2. nowMs \in Nat
  BY DEF IInv, Shape
<1>3. e.kind \notin {"WithdrawalRequested", "WithdrawalSigned", "WithdrawalCancelled"}
  BY <1>1 DEF Unbounded
<1> HIDE DEF e
<1>4. Parity(Append(events, e), withdrawals, limiter, nowMs)
  BY <1>1, <1>2, <1>3, ParityStands DEF InStep
<1>5. Parity(Append(events, e), withdrawals', limiter, nowMs)
  BY <1>2, <1>4, ParityWaits
<1>6. QED
  BY <1>5 DEF InStep, e

\* The requests stand.
LEMMA QueueStands ==
  ASSUME IInv, UNCHANGED withdrawals
  PROVE  SameQueue(withdrawals, withdrawals')
BY DEF SameQueue, IInv, Shape

\* The transitions of a withdrawal other than its signing.
LEMMA PumpInStep ==
  ASSUME IInv, InStep, NEW i \in DOMAIN withdrawals,
         \/ ApproveWithdrawal(i) \/ PickWithdrawal(i)
         \/ RetryLater(i) \/ AbandonSign(i) \/ ConfirmWithdrawal(i)
  PROVE  InStep'
<1> DEFINE v == withdrawals[i]
           at == withdrawalDue(v)
<1>1. Shape /\ nowMs \in Nat /\ v \in WithdrawalRecord /\ i \in Nat
  BY DEF IInv, Shape
<1>2. v.sats \in Nat /\ v.signAttempts + 1 \in Nat /\ SignRetryInterval \in Nat /\ 0 \in Nat
  BY <1>1, BridgeAssumption DEF WithdrawalRecord
<1>3. CASE ApproveWithdrawal(i)
  <2> DEFINE w == [v EXCEPT !.status = "Approved", !.approvedAt = at]
  <2>1. withdrawals' = [withdrawals EXCEPT ![i] = w]
    BY <1>1, <1>3 DEF ApproveWithdrawal, Shape
  <2>2. at \in Nat /\ v.status = "Requested"
    BY <1>1, <1>3, FiringWithdrawal DEF ApproveWithdrawal, InQueue
  <2>3. events' = Append(events, Event("WithdrawalApproved", i, 0, at))
        /\ UNCHANGED <<nowMs, limiter>>
    BY <1>3 DEF ApproveWithdrawal
  <2> HIDE DEF v, at
  <2>4. w \in WithdrawalRecord /\ w.status = "Approved" /\ w.sats = v.sats
    BY <1>1, <2>2 DEF WithdrawalRecord, InQueue
  <2> HIDE DEF w
  <2>5. SameQueue(withdrawals, withdrawals')
    BY <1>1, <2>1, <2>2, <2>4, MovesInQueue DEF InQueue, Becomes, v
  <2>6. "WithdrawalApproved" \in Unbounded
    BY DEF Unbounded, EventKinds
  <2>7. QED
    BY <1>1, <1>2, <2>2, <2>3, <2>5, <2>6, LogsMove
<1>4. CASE PickWithdrawal(i)
  <2> DEFINE w == [v EXCEPT !.status = "PickedForProcessing", !.pickedAt = at]
  <2>1. withdrawals' = [withdrawals EXCEPT ![i] = w]
    BY <1>1, <1>4 DEF PickWithdrawal, Shape
  <2>2. at \in Nat /\ v.status = "Approved"
    BY <1>1, <1>4, FiringWithdrawal DEF PickWithdrawal, InQueue
  <2>3. events' = Append(events, Event("WithdrawalPickedForProcessing", i, v.sats, at))
        /\ UNCHANGED <<nowMs, limiter>>
    BY <1>4 DEF PickWithdrawal
  <2> HIDE DEF v, at
  <2>4. w \in WithdrawalRecord /\ w.status = "PickedForProcessing" /\ w.sats = v.sats
    BY <1>1, <2>2 DEF WithdrawalRecord, InQueue
  <2> HIDE DEF w
  <2>5. SameQueue(withdrawals, withdrawals')
    BY <1>1, <2>1, <2>2, <2>4, MovesInQueue DEF InQueue, Becomes, v
  <2>6. "WithdrawalPickedForProcessing" \in Unbounded
    BY DEF Unbounded, EventKinds
  <2>7. QED
    BY <1>1, <1>2, <2>2, <2>3, <2>5, <2>6, LogsMove
<1>5. CASE ConfirmWithdrawal(i)
  <2> DEFINE w == [v EXCEPT !.status = "Confirmed"]
  <2>1. withdrawals' = [withdrawals EXCEPT ![i] = w]
    BY <1>1, <1>5 DEF ConfirmWithdrawal, Shape
  <2>2. at \in Nat /\ v.status = "Signed"
    BY <1>1, <1>5, FiringWithdrawal DEF ConfirmWithdrawal
  <2>3. events' = Append(events, Event("WithdrawalConfirmed", i, 0, at))
        /\ UNCHANGED <<nowMs, limiter>>
    BY <1>5 DEF ConfirmWithdrawal
  <2> HIDE DEF v, at
  <2>4. w \in WithdrawalRecord /\ w.status = "Confirmed" /\ w.sats = v.sats
    BY <1>1, <2>2 DEF WithdrawalRecord, InQueue
  <2> HIDE DEF w
  <2>5. SameQueue(withdrawals, withdrawals')
    BY <1>1, <2>1, <2>2, <2>4, MovesInQueue DEF InQueue, Becomes, v
  <2>6. "WithdrawalConfirmed" \in Unbounded
    BY DEF Unbounded, EventKinds
  <2>7. QED
    BY <1>1, <1>2, <2>2, <2>3, <2>5, <2>6, LogsMove
<1>6. CASE RetryLater(i)
  <2> DEFINE n == v.signAttempts + 1
             next == at + SignRetryInterval
             w == [v EXCEPT !.signAttempts = n, !.nextSignAttempt = next]
  <2>1. withdrawals' = [withdrawals EXCEPT ![i] = w]
    BY <1>1, <1>6 DEF RetryLater, Shape
  <2>2. at \in Nat /\ v.status = "PickedForProcessing"
    BY <1>1, <1>6, FiringWithdrawal DEF RetryLater, InQueue
  <2>3. UNCHANGED <<nowMs, limiter, events>>
    BY <1>6 DEF RetryLater
  <2>4. n \in Nat /\ next \in Nat
    BY <1>2, <2>2
  <2> HIDE DEF v, at, n, next
  <2>5. w \in WithdrawalRecord /\ w.status = "PickedForProcessing" /\ w.sats = v.sats
    BY <1>1, <2>2, <2>4 DEF WithdrawalRecord, InQueue
  <2> HIDE DEF w
  <2>6. SameQueue(withdrawals, withdrawals')
    BY <1>1, <2>1, <2>2, <2>5, MovesInQueue DEF InQueue, Becomes, v
  <2>7. QED
    BY <1>1, <2>3, <2>6, ParityWaits DEF InStep
<1>7. CASE AbandonSign(i)
  <2> DEFINE w == [v EXCEPT !.signAttempts = v.signAttempts + 1, !.signAbandoned = TRUE]
  <2>1. withdrawals' = [withdrawals EXCEPT ![i] = w]
    BY <1>1, <1>7 DEF AbandonSign, Shape
  <2>2. at \in Nat /\ v.status = "PickedForProcessing"
    BY <1>1, <1>7, FiringWithdrawal DEF AbandonSign, InQueue
  <2>3. UNCHANGED <<nowMs, limiter, events>>
    BY <1>7 DEF AbandonSign
  <2> HIDE DEF v, at
  <2>4. w \in WithdrawalRecord /\ w.status = "PickedForProcessing" /\ w.sats = v.sats
    BY <1>1, <1>2, <2>2 DEF WithdrawalRecord, InQueue
  <2> HIDE DEF w
  <2>5. SameQueue(withdrawals, withdrawals')
    BY <1>1, <2>1, <2>2, <2>4, MovesInQueue DEF InQueue, Becomes, v
  <2>6. QED
    BY <1>1, <2>3, <2>5, ParityWaits DEF InStep
<1>8. QED
  BY <1>3, <1>4, <1>5, <1>6, <1>7

\* The signing: the bucket, the queue and both replays move by one boundary.
LEMMA SignInStep ==
  ASSUME IInv, InStep, NEW i \in DOMAIN withdrawals, SignWithdrawal(i)
  PROVE  InStep'
<1> DEFINE v == withdrawals[i]
           at == withdrawalDue(v)
           w == [v EXCEPT !.status = "Signed", !.signedAt = at]
           a == Event("WithdrawalInputsSigned", i, 0, at)
           b == Event("WithdrawalSigned", i, v.sats, at)
           c == Event("Burned", i, v.sats, at)
<1>1. /\ v \in WithdrawalRecord /\ v.status = "PickedForProcessing" /\ at \in Nat /\ i \in Nat
      /\ nowMs \in Nat /\ events \in Seq(EventRecord) /\ at <= nowMs
  BY FiringWithdrawal, FiresInTime DEF SignWithdrawal, IInv, Shape, InQueue
<1>2. withdrawals' = [withdrawals EXCEPT ![i] = w]
  BY DEF SignWithdrawal, IInv, Shape
<1>3. /\ events' = events \o <<a, b, c>> /\ UNCHANGED nowMs
      /\ limiter' = consume(limiter, limiter.nextSeq, msToSecs(at), v.sats)
      /\ consumeError(limiter, limiter.nextSeq, msToSecs(at), v.sats) = "none"
  BY DEF SignWithdrawal, signError
<1>4. v.sats \in Nat /\ 0 \in Nat
  BY <1>1 DEF WithdrawalRecord
<1> HIDE DEF at
<1>5. Leaves(withdrawals, i, w, withdrawals') /\ w.sats = v.sats
  <2>1. w \in WithdrawalRecord /\ w.status = "Signed" /\ w.sats = v.sats
    <3> HIDE DEF v
    <3>1. QED
      BY <1>1 DEF WithdrawalRecord, InQueue
  <2>2. QED
    BY <1>1, <1>2, <2>1 DEF Leaves, Becomes, InQueue
<1> HIDE DEF v, w
<1>6. /\ a \in EventRecord /\ a.kind = "WithdrawalInputsSigned"
      /\ b \in EventRecord /\ b.kind = "WithdrawalSigned" /\ b.id = i /\ b.sats = v.sats
      /\ b.atMs = at /\ c \in EventRecord /\ c.kind = "Burned"
  <2>1. a \in EventRecord /\ a.kind = "WithdrawalInputsSigned"
    BY <1>1, <1>4 DEF Event, EventRecord, EventKinds
  <2>2. /\ b \in EventRecord /\ b.kind = "WithdrawalSigned" /\ b.id = i /\ b.sats = v.sats
        /\ b.atMs = at
    BY <1>1, <1>4 DEF Event, EventRecord, EventKinds
  <2>3. c \in EventRecord /\ c.kind = "Burned"
    BY <1>1, <1>4 DEF Event, EventRecord, EventKinds
  <2>4. QED
    BY <2>1, <2>2, <2>3
<1> HIDE DEF a, b, c
<1>7. events' = Append(Append(Append(events, a), b), c)
  BY <1>1, <1>3, <1>6, ThreeMore
<1> DEFINE e1 == Append(events, a)
<1>8. Parity(e1, withdrawals, limiter, nowMs)
  BY <1>1, <1>6, ParityStands DEF InStep
<1> HIDE DEF e1
<1>9. Parity(Append(e1, b), withdrawals', limiter', nowMs)
  BY <1>1, <1>3, <1>5, <1>6, <1>8, ParitySigned
<1> DEFINE e2 == Append(e1, b)
<1> HIDE DEF e2
<1>10. Parity(Append(e2, c), withdrawals', limiter', nowMs)
  BY <1>1, <1>6, <1>9, ParityStands DEF e2
<1>11. QED
  BY <1>3, <1>7, <1>10 DEF InStep, e1, e2

\* The calls, and a deposit that is approved.
LEMMA CallInStep ==
  ASSUME IInv, InStep, BridgeCall \/ \E i \in DOMAIN deposits : ApproveDeposit(i)
  PROVE  InStep'
<1>1. /\ nowMs \in Nat /\ Amounts \subseteq Nat /\ DepositApprovalDelay \in Nat
      /\ Len(deposits) + 1 \in Nat /\ Len(withdrawals) + 1 \in Nat
      /\ withdrawals \in Seq(WithdrawalRecord) /\ events \in Seq(EventRecord)
  BY BridgeAssumption DEF IInv, Shape
<1>2. \A i \in DOMAIN deposits :
        i \in Nat /\ deposits[i].sats \in Nat /\ deposits[i].requestedAt \in Nat
  <2>1. \A i \in DOMAIN deposits : i \in Nat /\ deposits[i] \in DepositRecord
    BY DEF IInv, Shape
  <2>2. \A x \in DepositRecord : x.sats \in Nat /\ x.requestedAt \in Nat
    BY DEF DepositRecord
  <2>3. QED
    BY <2>1, <2>2
<1>3. ASSUME NEW i \in DOMAIN deposits, ApproveDeposit(i)
      PROVE  InStep'
  <2> DEFINE at == deposits[i].requestedAt + DepositApprovalDelay
  <2>1. at \in Nat
    BY <1>1, <1>2
  <2>2. events' = Append(events, Event("DepositApproved", i, deposits[i].sats, at))
        /\ UNCHANGED <<nowMs, limiter, withdrawals>>
    BY <1>3 DEF ApproveDeposit
  <2> HIDE DEF at
  <2>3. "DepositApproved" \in Unbounded
    BY DEF Unbounded, EventKinds
  <2>4. QED
    BY <1>2, <2>1, <2>2, <2>3, QueueStands, LogsMove
<1>4. ASSUME NEW u \in Users, NEW s \in Amounts, deposit(u, s)
      PROVE  InStep'
  <2>1. events' = Append(events, Event("DepositRequested", Len(deposits) + 1, s, nowMs))
        /\ UNCHANGED <<nowMs, limiter, withdrawals>>
    BY <1>4 DEF deposit
  <2>2. "DepositRequested" \in Unbounded
    BY DEF Unbounded, EventKinds
  <2>3. QED
    BY <1>1, <2>1, <2>2, QueueStands, LogsMove
<1>5. ASSUME NEW i \in DOMAIN deposits, confirmDeposit(i)
      PROVE  InStep'
  <2> DEFINE a == Event("DepositConfirmed", i, deposits[i].sats, nowMs)
             b == Event("Minted", i, deposits[i].sats, nowMs)
  <2>1. events' = events \o <<a, b>> /\ UNCHANGED <<nowMs, limiter, withdrawals>>
    BY <1>5 DEF confirmDeposit
  <2>2. "DepositConfirmed" \in EventKinds /\ "Minted" \in EventKinds
    BY DEF EventKinds
  <2>3. /\ a \in EventRecord /\ a.kind = "DepositConfirmed"
        /\ b \in EventRecord /\ b.kind = "Minted"
    BY <1>1, <1>2, <2>2 DEF Event, EventRecord
  <2> HIDE DEF a, b
  <2>4. events' = Append(Append(events, a), b)
    BY <1>1, <2>1, <2>3
  <2> DEFINE e1 == Append(events, a)
  <2>5. Parity(e1, withdrawals, limiter, nowMs)
    BY <1>1, <2>3, ParityStands DEF InStep
  <2> HIDE DEF e1
  <2>6. Parity(Append(e1, b), withdrawals, limiter, nowMs)
    BY <1>1, <2>3, <2>5, ParityStands
  <2>7. QED
    BY <2>1, <2>4, <2>6 DEF InStep, e1
<1>6. ASSUME NEW u \in Users, NEW s \in Amounts, NEW j \in PickJitters, requestWithdrawal(u, s, j)
      PROVE  InStep'
  <2> DEFINE n == Len(withdrawals) + 1
             w == [requester |-> u, sats |-> s, requestedAt |-> nowMs, pickJitter |-> j,
                   status |-> "Requested", approvedAt |-> 0, pickedAt |-> 0, signedAt |-> 0,
                   nextSignAttempt |-> 0, signAttempts |-> 0, signAbandoned |-> FALSE]
             e == Event("WithdrawalRequested", n, s, nowMs)
  <2>1. withdrawals' = Append(withdrawals, w) /\ events' = Append(events, e)
        /\ UNCHANGED <<nowMs, limiter>> /\ Len(withdrawals) < MaxWithdrawals
    BY <1>6 DEF requestWithdrawal
  <2>2. j \in Nat
    BY BridgeAssumption DEF PickJitters
  <2>3. w \in WithdrawalRecord /\ w.status = "Requested" /\ w.sats = s
    BY <1>1, <2>2 DEF WithdrawalRecord, InQueue
  <2>4. "WithdrawalRequested" \in EventKinds
    BY DEF EventKinds
  <2>5. e \in EventRecord /\ e.kind = "WithdrawalRequested" /\ e.id = n /\ e.sats = s
        /\ e.atMs = nowMs
    BY <1>1, <2>4 DEF Event, EventRecord
  <2> HIDE DEF w, e
  <2>6. Parity(Append(events, e), Append(withdrawals, w), limiter, nowMs)
    <3>1. Parity(events, withdrawals, limiter, nowMs) /\ nowMs \in Nat
      BY <1>1 DEF InStep
    <3>2. w.status = "Requested" /\ w.sats \in Amounts /\ Len(withdrawals) < MaxWithdrawals
      BY <2>1, <2>3
    <3>3. e.id = Len(withdrawals) + 1 /\ e.sats = w.sats /\ e.atMs <= nowMs
      BY <2>3, <2>5, <3>1
    <3> HIDE DEF n
    <3>4. QED
      BY <2>3, <2>5, <3>1, <3>2, <3>3, ParityRequested
  <2>7. QED
    BY <2>1, <2>6 DEF InStep
<1>7. ASSUME NEW u \in Users, NEW i \in DOMAIN withdrawals, cancelWithdrawal(u, i)
      PROVE  InStep'
  <2> DEFINE v == withdrawals[i]
             w == [v EXCEPT !.status = "Cancelled"]
             e == Event("WithdrawalCancelled", i, v.sats, nowMs)
  <2>1. /\ withdrawals' = [withdrawals EXCEPT ![i] = w] /\ events' = Append(events, e)
        /\ UNCHANGED <<nowMs, limiter>> /\ v.status \in {"Requested", "Approved"}
    BY <1>1, <1>7 DEF cancelWithdrawal
  <2>2. v \in WithdrawalRecord /\ i \in Nat
    BY <1>1
  <2>3. v.sats \in Nat
    BY <2>2 DEF WithdrawalRecord
  <2>4. "WithdrawalCancelled" \in EventKinds
    BY DEF EventKinds
  <2>5. e \in EventRecord /\ e.kind = "WithdrawalCancelled" /\ e.sats = v.sats /\ e.atMs = nowMs
    BY <1>1, <2>2, <2>3, <2>4 DEF Event, EventRecord
  <2>6. Leaves(withdrawals, i, w, withdrawals') /\ w.sats = v.sats
    <3>1. w \in WithdrawalRecord /\ w.status = "Cancelled" /\ w.sats = v.sats
      BY <2>2, Restated DEF InQueue
    <3>2. QED
      BY <2>1, <3>1 DEF Leaves, Becomes, InQueue
  <2> HIDE DEF v, w, e
  <2>7. Parity(Append(events, e), withdrawals', limiter, nowMs)
    BY <1>1, <2>5, <2>6, ParityCancelled DEF InStep
  <2>8. QED
    BY <2>1, <2>7 DEF InStep
<1>8. QED
  BY <1>3, <1>4, <1>5, <1>6, <1>7 DEF BridgeCall

\* Nothing but the clock moves, and it moves on.
LEMMA ClockInStep ==
  ASSUME IInv, InStep, Advance \/ UNCHANGED bridgeVars
  PROVE  InStep'
<1>1. nowMs \in Nat
  BY DEF IInv, Shape
<1>2. UNCHANGED <<events, withdrawals, limiter>> /\ nowMs' \in Nat /\ nowMs <= nowMs'
  <2>1. CASE Advance
    BY <1>1, <2>1, BridgeAssumption DEF Advance, setNowMs
  <2>2. CASE UNCHANGED bridgeVars
    BY <1>1, <2>2 DEF bridgeVars
  <2>3. QED
    BY <2>1, <2>2
<1>3. Parity(events, withdrawals', limiter, nowMs')
  BY <1>1, <1>2, QueueStands, ParityWaits DEF InStep
<1>4. QED
  BY <1>2, <1>3 DEF InStep

\* Every step keeps the replays in step.
LEMMA StepInStep ==
  ASSUME IInv, InStep, [BridgeNext]_bridgeVars
  PROVE  InStep'
<1>1. CASE Pump
  BY <1>1, CallInStep, PumpInStep, SignInStep DEF Pump
<1>2. QED
  BY <1>1, CallInStep, ClockInStep DEF BridgeNext

\* A new bridge has a full bucket, as a replay of no events starts with.
LEMMA StartsInStep ==
  ASSUME Init
  PROVE  InStep
<1>1. /\ events = <<>> /\ withdrawals = <<>> /\ limiter = genesis /\ nowMs = 0
  BY DEF Init
<1>2. genesis \in LimiterState
  BY LimiterAssumption DEF genesis, LimiterState
<1>3. /\ replayStart \in Replayed /\ Tracks(replayStart, 0)
      /\ replayStart.state = genesis /\ replayStart.depth = 0
      /\ replayStart.unresolved = 0 /\ replayStart.rejected = 0
  <2>1. DOMAIN <<>> = {} /\ <<>> \in Seq(Sample) /\ <<>> \in Seq(QueueEntry)
    OBVIOUS
  <2>2. QED
    BY <1>2, <2>1 DEF replayStart, Replayed, Tracks, Timed
<1>4. Sats(<<>>, InQueue) = 0
  <2>1. {i \in DOMAIN <<>> : <<>>[i].status \in InQueue} = {}
    OBVIOUS
  <2>2. QED
    BY <2>1, SumEmpty DEF Sats, SumOf
<1>5. WholeHolds(deriveLimiter(<<>>), 0, genesis, 0)
  BY <1>3, NothingReplayed DEF WholeHolds
<1>6. StreamHolds(signedStream(<<>>), genesis, 0)
  <2>1. <<>> \in Seq(EventRecord) /\ DOMAIN <<>> = {}
    OBVIOUS
  <2>2. QED
    BY <1>3, <2>1, NothingReplayed DEF StreamHolds
<1>7. <<>> \in Seq(EventRecord) /\ <<>> \in Seq(WithdrawalRecord) /\ Asked(<<>>, <<>>)
  <2>1. DOMAIN <<>> = {}
    OBVIOUS
  <2>2. QED
    BY <2>1 DEF Asked
<1>8. Fits(<<>>)
  <2>1. Len(<<>>) = 0
    OBVIOUS
  <2>2. 0 * MaxWithdrawals <= 0 * MaxU64
    BY AmountsFit, LimiterAssumption
  <2>3. QED
    BY <1>4, <2>1, <2>2 DEF Fits
<1>9. QED
  BY <1>1, <1>4, <1>5, <1>6, <1>7, <1>8 DEF InStep, Parity

\* Of a trace that ends by t, the last entry at or before t is its last.
LEMMA LastOfTrace ==
  ASSUME NEW X, NEW trace \in Seq(X), NEW t, Timed(trace, t)
  PROVE  lastAtOrBefore(trace, t) = IF trace = <<>> THEN {} ELSE {trace[Len(trace)]}
<1> DEFINE n == Len(trace)
           at == {k \in DOMAIN trace : trace[k].atMs <= t}
           last == {j \in at : \A l \in at : l <= j}
<1>1. n \in Nat /\ DOMAIN trace = 1..n
  OBVIOUS
<1>2. at = 1..n
  BY <1>1 DEF Timed
<1>3. lastAtOrBefore(trace, t) = {trace[k] : k \in last}
  BY DEF lastAtOrBefore
<1>4. CASE trace = <<>>
  <2>1. n = 0
    BY <1>4
  <2> HIDE DEF n, at
  <2>2. last = {}
    BY <1>2, <2>1
  <2>3. QED
    BY <1>3, <1>4, <2>2
<1>5. CASE trace # <<>>
  <2>1. n # 0
    BY <1>5
  <2> HIDE DEF n, at
  <2>2. n \in last /\ \A k \in last : k = n
    BY <1>1, <1>2, <2>1
  <2> HIDE DEF last
  <2>3. QED
    BY <1>3, <1>5, <2>2 DEF n
<1>6. QED
  BY <1>4, <1>5

\* A replay in step reads the bucket and the queue at any time no earlier.
LEMMA ReadsNow ==
  ASSUME NEW d \in Replayed, NEW t \in Nat, Tracks(d, t)
  PROVE  /\ limiterAt(d, t).tokens = projectCapacityAtSecs(d.state, msToSecs(t))
         /\ limiterAt(d, t).depth = d.depth
<1> DEFINE samples == lastAtOrBefore(d.samples, t)
           queue == lastAtOrBefore(d.queue, t)
           state == IF samples = {} THEN genesis ELSE (CHOOSE s \in samples : TRUE).state
           depth == IF queue = {} THEN 0 ELSE (CHOOSE q \in queue : TRUE).depth
<1>1. /\ samples = IF d.samples = <<>> THEN {} ELSE {d.samples[Len(d.samples)]}
      /\ queue = IF d.queue = <<>> THEN {} ELSE {d.queue[Len(d.queue)]}
  BY LastOfTrace DEF Replayed, Tracks
<1>2. \A x : (CHOOSE y \in {x} : TRUE) = x
  OBVIOUS
<1>3. state = d.state
  BY <1>1, <1>2 DEF Tracks
<1>4. depth = d.depth
  BY <1>1, <1>2 DEF Tracks
<1>5. limiterAt(d, t) = [tokens |-> projectCapacityAtSecs(state, msToSecs(t)), depth |-> depth]
  BY DEF limiterAt
<1> HIDE DEF state, depth
<1>6. QED
  BY <1>3, <1>4, <1>5

\* Replays in step are in parity.
LEMMA InStepIsParity ==
  ASSUME IInv, InStep
  PROVE  ReplayParity
<1> DEFINE whole == deriveLimiter(events)
           only == deriveLimiter(signedStream(events))
<1>1. /\ whole \in Replayed /\ Tracks(whole, nowMs) /\ whole.state = limiter
      /\ whole.depth = Sats(withdrawals, InQueue) /\ whole.unresolved = 0 /\ whole.rejected = 0
      /\ only.state = limiter /\ only.rejected = 0
  BY DEF InStep, Parity, WholeHolds, StreamHolds
<1>2. nowMs \in Nat
  BY DEF IInv, Shape
<1> HIDE DEF whole, only
<1>3. /\ limiterAt(whole, nowMs).tokens = limiterStatusTokens
      /\ limiterAt(whole, nowMs).depth = Sats(withdrawals, InQueue)
  BY <1>1, <1>2, ReadsNow DEF limiterStatusTokens
<1>4. QED
  BY <1>1, <1>3 DEF ReplayParity, whole, only

(* The replay of the log gives the bucket and the queue of the bridge, with    *)
(* every debit resolved and accepted, and the signed events alone give the     *)
(* bucket (limiter.ts deriveLimiter against mock.ts): by induction on the log. *)
THEOREM ReplayStaysInParity == Spec => []ReplayParity
<1>1. Init => InStep
  BY StartsInStep
<1>2. IInv /\ InStep /\ [BridgeNext]_bridgeVars => InStep'
  BY StepInStep
<1>3. IInv /\ InStep => ReplayParity
  BY InStepIsParity
<1>4. QED
  BY <1>1, <1>2, <1>3, InvariantHolds, PTL DEF Spec

------------------------------------------------------------------------
(* The summary, event by event. *)

\* The rule of folds, at the summary of the watcher.
Folding == INSTANCE LoopRules WITH Body <- counted, Holds <- AnyTurns
FlowRecord == [pendingMint : Nat, pendingBurn : Nat, queueDepth : Nat]

\* Its assumption is the induction over Nat.
LEMMA FoldingInduction == Folding!Induction
  BY NatSetInduction DEF Folding!Induction

\* The fold over the first n events of a slice, from the summary b.
CountedTo(b, h, n) == FoldLeft(counted, b, [k \in 1..n |-> h[k]])

\* One event more is one event counted.
LEMMA CountedNext ==
  ASSUME NEW b, NEW h, NEW n \in Nat
  PROVE  /\ CountedTo(b, h, 0) = b
         /\ CountedTo(b, h, n + 1) = counted(CountedTo(b, h, n), h[n + 1])
<1> DEFINE s == [k \in 1..n |-> h[k]]
           r == [k \in 1..(n + 1) |-> h[k]]
           x == h[n + 1]
           X == {h[k] : k \in 1..(n + 1)}
<1>1. \A q : FoldLeft(counted, b, q) = Folding!FoldSeq(b, q)
  BY DEF Folding!FoldSeq, Folding!Greatest, FoldLeft, MapThenFoldSet, Max
<1>2. n + 1 \in 1..(n + 1) /\ \A k \in 1..n : k \in 1..(n + 1) /\ k # n + 1
  OBVIOUS
<1>3. x \in X /\ \A k \in 1..n : h[k] \in X
  BY <1>2
<1> HIDE DEF X
<1>4. s \in Seq(X) /\ Len(s) = n
  BY <1>3
<1> HIDE DEF x
<1>5. r = Append(s, x)
  <2> DEFINE c == Append(s, x)
  <2>1. /\ c \in Seq(X) /\ Len(c) = n + 1 /\ c[n + 1] = x
        /\ \A k \in 1..n : c[k] = h[k]
    BY <1>3, <1>4
  <2>2. c = [k \in 1..(n + 1) |-> c[k]]
    <3> HIDE DEF c
    <3>1. c = [k \in 1..Len(c) |-> c[k]]
      BY <2>1
    <3>2. QED
      BY <2>1, <3>1
  <2>3. \A k \in 1..(n + 1) : h[k] = c[k]
    <3>1. \A k \in 1..(n + 1) : k # n + 1 => k \in 1..n
      OBVIOUS
    <3> HIDE DEF c
    <3>2. QED
      BY <2>1, <3>1 DEF x
  <2> HIDE DEF c
  <2>4. r = c
    BY <2>2, <2>3
  <2>5. QED
    BY <2>4 DEF c
<1> HIDE DEF s, r
<1>6. /\ Folding!FoldSeq(b, <<>>) = b
      /\ Folding!FoldSeq(b, Append(s, x)) = counted(Folding!FoldSeq(b, s), x)
  BY <1>3, <1>4, FoldingInduction, Folding!FoldOneMore
<1>7. [k \in 1..0 |-> h[k]] = <<>>
  OBVIOUS
<1> DEFINE z == [k \in 1..0 |-> h[k]]
<1>8. CountedTo(b, h, 0) = FoldLeft(counted, b, z)
  BY DEF CountedTo
<1>9. CountedTo(b, h, n) = FoldLeft(counted, b, s)
  BY DEF CountedTo, s
<1>10. CountedTo(b, h, n + 1) = FoldLeft(counted, b, r)
  BY DEF CountedTo, r
<1>11. z = <<>>
  BY <1>7
<1> HIDE DEF z
<1>12. QED
  BY <1>1, <1>5, <1>6, <1>8, <1>9, <1>10, <1>11 DEF x

\* Two summaries that agree, but for a pendingBurn the first may have too large.
Near(f, g, exact) ==
  /\ f \in FlowRecord /\ g \in FlowRecord
  /\ f.pendingMint = g.pendingMint /\ f.queueDepth = g.queueDepth
  /\ f.pendingBurn >= g.pendingBurn
  /\ exact => f.pendingBurn = g.pendingBurn

\* They agree still after one event, if a confirmation counts no more in the first.
LEMMA CountedNear ==
  ASSUME NEW f, NEW g, NEW exact \in BOOLEAN, Near(f, g, exact),
         NEW d \in EventRecord, NEW e \in EventRecord, d.kind = e.kind, d.sats <= e.sats,
         exact \/ e.kind # "WithdrawalConfirmed" => d.sats = e.sats
  PROVE  Near(counted(f, d), counted(g, e), exact)
<1>1. d.sats \in Nat /\ e.sats \in Nat
  BY DEF EventRecord
<1>2. /\ f \in FlowRecord /\ g \in FlowRecord
      /\ f.pendingMint = g.pendingMint /\ f.queueDepth = g.queueDepth
      /\ f.pendingBurn >= g.pendingBurn
      /\ exact => f.pendingBurn = g.pendingBurn
  BY DEF Near
<1>3. /\ f.pendingMint \in Nat /\ f.pendingBurn \in Nat /\ f.queueDepth \in Nat
      /\ g.pendingMint \in Nat /\ g.pendingBurn \in Nat /\ g.queueDepth \in Nat
  BY <1>2 DEF FlowRecord
<1>5. CASE e.kind = "DepositApproved"
  BY <1>1, <1>2, <1>3, <1>5 DEF counted, Near, FlowRecord
<1>6. CASE e.kind = "DepositConfirmed"
  BY <1>1, <1>2, <1>3, <1>6 DEF counted, Near, FlowRecord, satSub
<1>7. CASE e.kind = "WithdrawalRequested"
  <2> DEFINE fb == f.pendingBurn + d.sats
             fq == f.queueDepth + d.sats
             gb == g.pendingBurn + e.sats
             gq == g.queueDepth + e.sats
  <2>1. /\ fb \in Nat /\ fq \in Nat /\ gb \in Nat /\ gq \in Nat
        /\ fq = gq /\ fb >= gb /\ (exact => fb = gb)
    BY <1>1, <1>2, <1>3, <1>7
  <2> DEFINE f2 == counted(f, d)
             g2 == counted(g, e)
  <2>2. /\ f2 = [f EXCEPT !.pendingBurn = fb, !.queueDepth = fq]
        /\ g2 = [g EXCEPT !.pendingBurn = gb, !.queueDepth = gq]
    BY <1>7 DEF counted
  <2> HIDE DEF fb, fq, gb, gq, f2, g2
  <2>3. /\ f2 \in FlowRecord /\ f2.pendingMint = f.pendingMint /\ f2.pendingBurn = fb
        /\ f2.queueDepth = fq
    BY <1>2, <2>1, <2>2 DEF FlowRecord
  <2>4. /\ g2 \in FlowRecord /\ g2.pendingMint = g.pendingMint /\ g2.pendingBurn = gb
        /\ g2.queueDepth = gq
    BY <1>2, <2>1, <2>2 DEF FlowRecord
  <2>5. Near(f2, g2, exact)
    BY <1>2, <2>1, <2>3, <2>4 DEF Near
  <2>6. QED
    BY <2>5 DEF f2, g2
<1>8. CASE e.kind = "WithdrawalSigned"
  BY <1>1, <1>2, <1>3, <1>8 DEF counted, Near, FlowRecord, satSub
<1>9. CASE e.kind = "WithdrawalConfirmed"
  BY <1>1, <1>2, <1>3, <1>9 DEF counted, Near, FlowRecord, satSub
<1>10. CASE e.kind = "WithdrawalCancelled"
  <2> DEFINE fb == satSub(f.pendingBurn, d.sats)
             fq == satSub(f.queueDepth, d.sats)
             gb == satSub(g.pendingBurn, e.sats)
             gq == satSub(g.queueDepth, e.sats)
  <2>1. /\ fb \in Nat /\ fq \in Nat /\ gb \in Nat /\ gq \in Nat
        /\ fq = gq /\ fb >= gb /\ (exact => fb = gb)
    BY <1>1, <1>2, <1>3, <1>10 DEF satSub
  <2> DEFINE f2 == counted(f, d)
             g2 == counted(g, e)
  <2>2. /\ f2 = [f EXCEPT !.pendingBurn = fb, !.queueDepth = fq]
        /\ g2 = [g EXCEPT !.pendingBurn = gb, !.queueDepth = gq]
    BY <1>10 DEF counted
  <2> HIDE DEF fb, fq, gb, gq, f2, g2
  <2>3. /\ f2 \in FlowRecord /\ f2.pendingMint = f.pendingMint /\ f2.pendingBurn = fb
        /\ f2.queueDepth = fq
    BY <1>2, <2>1, <2>2 DEF FlowRecord
  <2>4. /\ g2 \in FlowRecord /\ g2.pendingMint = g.pendingMint /\ g2.pendingBurn = gb
        /\ g2.queueDepth = gq
    BY <1>2, <2>1, <2>2 DEF FlowRecord
  <2>5. Near(f2, g2, exact)
    BY <1>2, <2>1, <2>3, <2>4 DEF Near
  <2>6. QED
    BY <2>5 DEF f2, g2
<1>11. CASE e.kind \notin {"DepositApproved", "DepositConfirmed", "WithdrawalRequested",
                           "WithdrawalSigned", "WithdrawalConfirmed", "WithdrawalCancelled"}
  BY <1>11 DEF counted, Near
<1>12. QED
  BY <1>5, <1>6, <1>7, <1>8, <1>9, <1>10, <1>11

------------------------------------------------------------------------
(* What the log tells. *)

\* The log up to its n-th event, each confirmation at what its request asked for.
settled(e, ws) == IF e.kind = "WithdrawalConfirmed" THEN [e EXCEPT !.sats = ws[e.id].sats] ELSE e
FlowTo(evs, ws, n) == FoldLeft(counted, FlowZero, [k \in 1..n |-> settled(evs[k], ws)])

\* A request is in the log once it is made, at its amount and before its confirmation.
Told(evs, ws) ==
  /\ \A i \in DOMAIN ws :
       \E j \in DOMAIN evs : evs[j].kind = "WithdrawalRequested" /\ evs[j].id = i
  /\ \A k \in DOMAIN evs :
       evs[k].kind \in {"WithdrawalRequested", "WithdrawalPickedForProcessing"}
         => evs[k].id \in DOMAIN ws /\ evs[k].sats = ws[evs[k].id].sats
  /\ \A k \in DOMAIN evs :
       evs[k].kind = "WithdrawalConfirmed"
         => /\ evs[k].id \in DOMAIN ws
            /\ \E j \in 1..(k - 1) :
                 evs[j].kind = "WithdrawalRequested" /\ evs[j].id = evs[k].id

\* What there is to be told.
Truth(ds, ws) ==
  [pendingMint |-> Sats(ds, {"Approved"}),
   pendingBurn |-> Sats(ws, InQueue \cup {"Signed"}),
   queueDepth |-> Sats(ws, InQueue)]

\* A log and requests that go on from others.
Grows(evs, ws, evs2, ws2) ==
  /\ \A k \in DOMAIN evs : k \in DOMAIN evs2 /\ evs2[k] = evs[k]
  /\ \A i \in DOMAIN ws : i \in DOMAIN ws2 /\ ws2[i].sats = ws[i].sats

\* What was told is not told otherwise later.
LEMMA FlowStays ==
  ASSUME NEW evs \in Seq(EventRecord), NEW ws, NEW evs2, NEW ws2,
         Told(evs, ws), Grows(evs, ws, evs2, ws2), NEW n \in 0..Len(evs)
  PROVE  FlowTo(evs2, ws2, n) = FlowTo(evs, ws, n)
<1>1. \A k \in 1..n : k \in DOMAIN evs
  OBVIOUS
<1>2. \A k \in 1..n : settled(evs2[k], ws2) = settled(evs[k], ws)
  <2> TAKE k \in 1..n
  <2>1. k \in DOMAIN evs /\ evs2[k] = evs[k]
    BY <1>1 DEF Grows
  <2>2. CASE evs[k].kind = "WithdrawalConfirmed"
    <3>1. evs[k].id \in DOMAIN ws
      BY <2>1, <2>2 DEF Told
    <3>2. ws2[evs[k].id].sats = ws[evs[k].id].sats
      BY <3>1 DEF Grows
    <3>3. QED
      BY <2>1, <3>2 DEF settled
  <2>3. CASE evs[k].kind # "WithdrawalConfirmed"
    BY <2>1, <2>3 DEF settled
  <2>4. QED
    BY <2>2, <2>3
<1>3. QED
  BY <1>2 DEF FlowTo

\* One event more is one event counted.
LEMMA FlowNext ==
  ASSUME NEW evs, NEW ws, NEW n \in Nat
  PROVE  /\ FlowTo(evs, ws, 0) = FlowZero
         /\ FlowTo(evs, ws, n + 1) = counted(FlowTo(evs, ws, n), settled(evs[n + 1], ws))
<1> DEFINE h == [k \in 1..(n + 1) |-> settled(evs[k], ws)]
<1>1. /\ [k \in 1..0 |-> settled(evs[k], ws)] = [k \in 1..0 |-> h[k]]
      /\ [k \in 1..n |-> settled(evs[k], ws)] = [k \in 1..n |-> h[k]]
      /\ [k \in 1..(n + 1) |-> settled(evs[k], ws)] = [k \in 1..(n + 1) |-> h[k]]
  <2>1. \A k \in 1..n : k \in 1..(n + 1)
    OBVIOUS
  <2>2. \A k \in 1..0 : FALSE
    OBVIOUS
  <2>3. QED
    BY <2>1, <2>2
<1>2. n + 1 \in 1..(n + 1)
  OBVIOUS
<1>3. h[n + 1] = settled(evs[n + 1], ws)
  BY <1>2
<1> HIDE DEF h
<1>4. /\ CountedTo(FlowZero, h, 0) = FlowZero
      /\ CountedTo(FlowZero, h, n + 1) = counted(CountedTo(FlowZero, h, n), h[n + 1])
  BY CountedNext
<1>5. FlowTo(evs, ws, 0) = CountedTo(FlowZero, h, 0)
  BY <1>1 DEF FlowTo, CountedTo
<1>6. FlowTo(evs, ws, n) = CountedTo(FlowZero, h, n)
  BY <1>1 DEF FlowTo, CountedTo
<1>7. FlowTo(evs, ws, n + 1) = CountedTo(FlowZero, h, n + 1)
  BY <1>1 DEF FlowTo, CountedTo
<1>8. QED
  BY <1>3, <1>4, <1>5, <1>6, <1>7

\* An event that carries what it must keeps the log told.
Tells(e, ws, ws2) ==
  /\ \A i \in DOMAIN ws : i \in DOMAIN ws2 /\ ws2[i].sats = ws[i].sats
  /\ \A i \in DOMAIN ws2 : i \in DOMAIN ws \/ (e.kind = "WithdrawalRequested" /\ e.id = i)
  /\ e.kind \in {"WithdrawalRequested", "WithdrawalPickedForProcessing"}
       => e.id \in DOMAIN ws2 /\ e.sats = ws2[e.id].sats
  /\ e.kind = "WithdrawalConfirmed" => e.id \in DOMAIN ws

\* A log stays told with one event more.
LEMMA ToldMore ==
  ASSUME NEW evs \in Seq(EventRecord), NEW e \in EventRecord, NEW ws, NEW ws2,
         Told(evs, ws), Tells(e, ws, ws2)
  PROVE  /\ Told(Append(evs, e), ws2)
         /\ Grows(evs, ws, Append(evs, e), ws2)
<1> DEFINE n == Len(evs)
           r == Append(evs, e)
<1>1. /\ n \in Nat /\ DOMAIN evs = 1..n /\ DOMAIN r = 1..(n + 1)
      /\ r[n + 1] = e /\ \A k \in 1..n : r[k] = evs[k]
  OBVIOUS
<1> HIDE DEF n, r
<1>2. (\A k \in 1..(n + 1) : k \in 1..n \/ k = n + 1) /\ n + 1 \in 1..(n + 1)
      /\ (\A k \in 1..n : k \in 1..(n + 1) /\ \A j \in 1..(k - 1) : j \in 1..n)
      /\ 1..((n + 1) - 1) = 1..n
  BY <1>1
<1>3. \A i \in DOMAIN ws2 :
        \E j \in DOMAIN r : r[j].kind = "WithdrawalRequested" /\ r[j].id = i
  <2> TAKE i \in DOMAIN ws2
  <2>1. CASE i \in DOMAIN ws
    <3>1. PICK j \in DOMAIN evs : evs[j].kind = "WithdrawalRequested" /\ evs[j].id = i
      BY <2>1 DEF Told
    <3>2. QED
      BY <1>1, <1>2, <3>1
  <2>2. CASE e.kind = "WithdrawalRequested" /\ e.id = i
    BY <1>1, <1>2, <2>2
  <2>3. QED
    BY <2>1, <2>2 DEF Tells
<1>4. \A k \in DOMAIN r :
        r[k].kind \in {"WithdrawalRequested", "WithdrawalPickedForProcessing"}
          => r[k].id \in DOMAIN ws2 /\ r[k].sats = ws2[r[k].id].sats
  <2> SUFFICES ASSUME NEW k \in DOMAIN r,
                      r[k].kind \in {"WithdrawalRequested", "WithdrawalPickedForProcessing"}
               PROVE  r[k].id \in DOMAIN ws2 /\ r[k].sats = ws2[r[k].id].sats
    OBVIOUS
  <2>1. CASE k \in 1..n
    <3>1. r[k] = evs[k] /\ k \in DOMAIN evs
      BY <1>1, <2>1
    <3>2. evs[k].id \in DOMAIN ws /\ evs[k].sats = ws[evs[k].id].sats
      BY <3>1 DEF Told
    <3>3. QED
      BY <3>1, <3>2 DEF Tells
  <2>2. CASE k = n + 1
    BY <1>1, <2>2 DEF Tells
  <2>3. QED
    BY <1>1, <1>2, <2>1, <2>2
<1>5. \A k \in DOMAIN r :
        r[k].kind = "WithdrawalConfirmed"
          => /\ r[k].id \in DOMAIN ws2
             /\ \E j \in 1..(k - 1) : r[j].kind = "WithdrawalRequested" /\ r[j].id = r[k].id
  <2> SUFFICES ASSUME NEW k \in DOMAIN r, r[k].kind = "WithdrawalConfirmed"
               PROVE  /\ r[k].id \in DOMAIN ws2
                      /\ \E j \in 1..(k - 1) :
                           r[j].kind = "WithdrawalRequested" /\ r[j].id = r[k].id
    OBVIOUS
  <2>1. CASE k \in 1..n
    <3>1. r[k] = evs[k] /\ k \in DOMAIN evs
      BY <1>1, <2>1
    <3>2. evs[k].id \in DOMAIN ws
      BY <3>1 DEF Told
    <3>3. PICK j \in 1..(k - 1) : evs[j].kind = "WithdrawalRequested" /\ evs[j].id = evs[k].id
      BY <3>1 DEF Told
    <3>4. r[j] = evs[j]
      BY <1>1, <1>2, <2>1
    <3>5. QED
      BY <3>1, <3>2, <3>3, <3>4 DEF Tells
  <2>2. CASE k = n + 1
    <3>1. r[k] = e /\ e.id \in DOMAIN ws
      BY <1>1, <2>2 DEF Tells
    <3>2. PICK j \in 1..n : evs[j].kind = "WithdrawalRequested" /\ evs[j].id = e.id
      BY <1>1, <3>1 DEF Told
    <3>3. j \in 1..(k - 1) /\ r[j] = evs[j]
      BY <1>1, <1>2, <2>2
    <3>4. QED
      BY <3>1, <3>2, <3>3 DEF Tells
  <2>3. QED
    BY <1>1, <1>2, <2>1, <2>2
<1>6. Told(r, ws2)
  BY <1>3, <1>4, <1>5 DEF Told
<1>7. Grows(evs, ws, r, ws2)
  BY <1>1, <1>2 DEF Grows, Tells
<1>8. QED
  BY <1>6, <1>7 DEF r

\* The log tells the truth.
Telling(evs, ds, ws) ==
  /\ evs \in Seq(EventRecord) /\ ds \in Seq(DepositRecord) /\ ws \in Seq(WithdrawalRecord)
  /\ Told(evs, ws) /\ FlowTo(evs, ws, Len(evs)) = Truth(ds, ws)

\* An event tells the truth when it turns one sum into the next.
LEMMA TellingMore ==
  ASSUME NEW evs, NEW ds, NEW ws, Telling(evs, ds, ws), NEW e \in EventRecord,
         NEW ds2 \in Seq(DepositRecord), NEW ws2 \in Seq(WithdrawalRecord), Tells(e, ws, ws2),
         counted(Truth(ds, ws), settled(e, ws2)) = Truth(ds2, ws2)
  PROVE  Telling(Append(evs, e), ds2, ws2) /\ Grows(evs, ws, Append(evs, e), ws2)
<1> DEFINE n == Len(evs)
           r == Append(evs, e)
<1>1. /\ evs \in Seq(EventRecord) /\ Told(evs, ws) /\ FlowTo(evs, ws, n) = Truth(ds, ws)
  BY DEF Telling
<1>2. Told(r, ws2) /\ Grows(evs, ws, r, ws2)
  BY <1>1, ToldMore
<1>3. n \in Nat /\ n \in 0..Len(evs) /\ Len(r) = n + 1 /\ r[n + 1] = e /\ r \in Seq(EventRecord)
  BY <1>1
<1> HIDE DEF n, r
<1>4. FlowTo(r, ws2, n) = Truth(ds, ws)
  BY <1>1, <1>2, <1>3, FlowStays
<1>5. FlowTo(r, ws2, n + 1) = counted(FlowTo(r, ws2, n), settled(r[n + 1], ws2))
  BY <1>3, FlowNext
<1>6. FlowTo(r, ws2, Len(r)) = Truth(ds2, ws2)
  BY <1>3, <1>4, <1>5
<1>7. QED
  BY <1>2, <1>3, <1>6 DEF Telling, r

\* The kinds of event the summary passes over.
Silent ==
  EventKinds \ {"DepositApproved", "DepositConfirmed", "WithdrawalRequested",
                "WithdrawalSigned", "WithdrawalConfirmed", "WithdrawalCancelled"}

\* An event that does not count, of something that does not count.
LEMMA TellsNothing ==
  ASSUME NEW evs, NEW ds, NEW ws, Telling(evs, ds, ws),
         NEW e \in EventRecord, e.kind \in Silent,
         NEW ds2 \in Seq(DepositRecord), NEW ws2 \in Seq(WithdrawalRecord), Tells(e, ws, ws2),
         Truth(ds2, ws2) = Truth(ds, ws)
  PROVE  Telling(Append(evs, e), ds2, ws2) /\ Grows(evs, ws, Append(evs, e), ws2)
<1>1. settled(e, ws2) = e
  BY DEF settled, Silent
<1>2. \A f : counted(f, e) = f
  BY DEF counted, Silent
<1>3. QED
  BY <1>1, <1>2, TellingMore

\* Nothing is logged, of something that does not count.
LEMMA TellingStays ==
  ASSUME NEW evs, NEW ds, NEW ws, Telling(evs, ds, ws), NEW ds2 \in Seq(DepositRecord),
         NEW ws2 \in Seq(WithdrawalRecord), DOMAIN ws2 = DOMAIN ws,
         \A i \in DOMAIN ws : ws2[i].sats = ws[i].sats, Truth(ds2, ws2) = Truth(ds, ws)
  PROVE  Telling(evs, ds2, ws2) /\ Grows(evs, ws, evs, ws2)
<1>1. Grows(evs, ws, evs, ws2)
  BY DEF Grows
<1>2. Told(evs, ws2)
  BY DEF Telling, Told
<1>3. Len(evs) \in 0..Len(evs) /\ evs \in Seq(EventRecord) /\ Told(evs, ws)
  BY DEF Telling
<1>4. FlowTo(evs, ws2, Len(evs)) = FlowTo(evs, ws, Len(evs))
  BY <1>1, <1>3, FlowStays
<1>5. QED
  BY <1>1, <1>2, <1>4 DEF Telling

\* What goes on from what goes on, goes on.
LEMMA GrowsOn ==
  ASSUME NEW evs, NEW ws, NEW evs1, NEW ws1, NEW evs2, NEW ws2,
         Grows(evs, ws, evs1, ws1), Grows(evs1, ws1, evs2, ws2)
  PROVE  Grows(evs, ws, evs2, ws2)
BY DEF Grows

\* A withdrawal changes: what counts of it.
LEMMA TruthMoves ==
  ASSUME NEW ds \in Seq(DepositRecord), NEW ws \in Seq(WithdrawalRecord),
         NEW i, NEW w, NEW ws2, Becomes(ws, i, w, ws2)
  PROVE  /\ ws2 \in Seq(WithdrawalRecord) /\ DOMAIN ws2 = DOMAIN ws
         /\ \A j \in DOMAIN ws : ws2[j].sats = ws[j].sats
         /\ Truth(ds, ws) \in FlowRecord
         /\ Truth(ds, ws2).pendingMint = Truth(ds, ws).pendingMint
         /\ Truth(ds, ws2).pendingBurn
              = Truth(ds, ws).pendingBurn
                - (IF ws[i].status \in InQueue \cup {"Signed"} THEN w.sats ELSE 0)
                + (IF w.status \in InQueue \cup {"Signed"} THEN w.sats ELSE 0)
         /\ Truth(ds, ws2).queueDepth
              = Truth(ds, ws).queueDepth
                - (IF ws[i].status \in InQueue THEN w.sats ELSE 0)
                + (IF w.status \in InQueue THEN w.sats ELSE 0)
         /\ ws[i].status \in InQueue \cup {"Signed"} => w.sats <= Truth(ds, ws).pendingBurn
         /\ ws[i].status \in InQueue => w.sats <= Truth(ds, ws).queueDepth
<1> DEFINE B == InQueue \cup {"Signed"}
           Q == InQueue
<1>1. i \in DOMAIN ws /\ w \in WithdrawalRecord /\ w.sats = ws[i].sats
      /\ Turns(ws, i, w, ws2)
  BY DEF Becomes, Turns
<1>2. /\ ws2 \in Seq(WithdrawalRecord) /\ Len(ws2) = Len(ws) /\ DOMAIN ws2 = DOMAIN ws
      /\ \A j \in DOMAIN ws : ws2[j].sats = ws[j].sats
      /\ Shifts(ws, ws2, B, ws[i], w) /\ Shifts(ws, ws2, Q, ws[i], w)
  <2>1. Carries(WithdrawalRecord)
    BY RecordSats
  <2> HIDE DEF B, Q
  <2>2. w \in WithdrawalRecord /\ Turns(ws, i, w, ws2)
    BY <1>1
  <2>3. /\ ws2 \in Seq(WithdrawalRecord) /\ Len(ws2) = Len(ws) /\ DOMAIN ws2 = DOMAIN ws
        /\ \A j \in DOMAIN ws : ws2[j].sats = ws[j].sats
        /\ Shifts(ws, ws2, B, ws[i], w)
    BY <2>1, <2>2, SatsMove
  <2>4. Shifts(ws, ws2, Q, ws[i], w)
    BY <2>1, <2>2, SatsMove
  <2>5. QED
    BY <2>3, <2>4
<1>3. \A S : /\ Sats(ws, S) \in Nat
             /\ \A k \in DOMAIN ws : ws[k].status \in S => ws[k].sats <= Sats(ws, S)
  BY RecordSats, SatsHold
<1>4. Sats(ds, {"Approved"}) \in Nat
  BY RecordSats, SatsHold
<1>5. /\ Truth(ds, ws).pendingMint = Sats(ds, {"Approved"})
      /\ Truth(ds, ws).pendingBurn = Sats(ws, B) /\ Truth(ds, ws).queueDepth = Sats(ws, Q)
      /\ Truth(ds, ws2).pendingMint = Sats(ds, {"Approved"})
      /\ Truth(ds, ws2).pendingBurn = Sats(ws2, B) /\ Truth(ds, ws2).queueDepth = Sats(ws2, Q)
      /\ Truth(ds, ws) = [pendingMint |-> Sats(ds, {"Approved"}), pendingBurn |-> Sats(ws, B),
                          queueDepth |-> Sats(ws, Q)]
  BY DEF Truth
<1>6. /\ Sats(ws2, B) = Sats(ws, B) - (IF ws[i].status \in B THEN w.sats ELSE 0)
                                    + (IF w.status \in B THEN w.sats ELSE 0)
      /\ Sats(ws2, Q) = Sats(ws, Q) - (IF ws[i].status \in Q THEN w.sats ELSE 0)
                                    + (IF w.status \in Q THEN w.sats ELSE 0)
      /\ ws[i].status \in B => w.sats <= Sats(ws, B)
      /\ ws[i].status \in Q => w.sats <= Sats(ws, Q)
      /\ Sats(ws, B) \in Nat /\ Sats(ws, Q) \in Nat
  BY <1>1, <1>2, <1>3 DEF Shifts
<1>7. Truth(ds, ws) \in FlowRecord
  BY <1>4, <1>5, <1>6 DEF FlowRecord
<1> HIDE DEF B, Q
<1>8. QED
  BY <1>2, <1>5, <1>6, <1>7 DEF B, Q

\* A deposit changes: what counts of it.
LEMMA TruthMints ==
  ASSUME NEW ds \in Seq(DepositRecord), NEW ws \in Seq(WithdrawalRecord),
         NEW i, NEW d \in DepositRecord, NEW ds2, Turns(ds, i, d, ds2)
  PROVE  /\ ds2 \in Seq(DepositRecord) /\ Truth(ds, ws) \in FlowRecord
         /\ Truth(ds2, ws).pendingMint
              = Truth(ds, ws).pendingMint
                - (IF ds[i].status = "Approved" THEN d.sats ELSE 0)
                + (IF d.status = "Approved" THEN d.sats ELSE 0)
         /\ Truth(ds2, ws).pendingBurn = Truth(ds, ws).pendingBurn
         /\ Truth(ds2, ws).queueDepth = Truth(ds, ws).queueDepth
         /\ ds[i].status = "Approved" => d.sats <= Truth(ds, ws).pendingMint
<1> DEFINE A == {"Approved"}
<1>1. ds2 \in Seq(DepositRecord) /\ Shifts(ds, ds2, A, ds[i], d)
  <2>1. Carries(DepositRecord)
    BY RecordSats
  <2> HIDE DEF A
  <2>2. QED
    BY <2>1, SatsMove
<1>2. /\ Sats(ds, A) \in Nat
      /\ \A k \in DOMAIN ds : ds[k].status \in A => ds[k].sats <= Sats(ds, A)
  BY RecordSats, SatsHold
<1>3. Sats(ws, InQueue) \in Nat /\ Sats(ws, InQueue \cup {"Signed"}) \in Nat
  BY RecordSats, SatsHold
<1>4. i \in DOMAIN ds /\ d.sats = ds[i].sats
  BY DEF Turns
<1>5. Sats(ds2, A) = Sats(ds, A) - (IF ds[i].status = "Approved" THEN d.sats ELSE 0)
                                 + (IF d.status = "Approved" THEN d.sats ELSE 0)
  BY <1>1 DEF Shifts
<1>6. ds[i].status = "Approved" => d.sats <= Sats(ds, A)
  BY <1>2, <1>4
<1>7. Truth(ds, ws) \in FlowRecord
  BY <1>2, <1>3 DEF Truth, FlowRecord
<1> DEFINE p == Sats(ds, A)
           q == Sats(ds2, A)
<1>8. /\ Truth(ds, ws).pendingMint = p /\ Truth(ds2, ws).pendingMint = q
      /\ Truth(ds2, ws).pendingBurn = Truth(ds, ws).pendingBurn
      /\ Truth(ds2, ws).queueDepth = Truth(ds, ws).queueDepth
  BY DEF Truth
<1> HIDE DEF p, q
<1>9. QED
  BY <1>1, <1>5, <1>6, <1>7, <1>8 DEF p, q

\* What is minted, burned and queued after one event.
mintAfter(f, e) ==
  CASE e.kind = "DepositApproved" -> f.pendingMint + e.sats
    [] e.kind = "DepositConfirmed" -> satSub(f.pendingMint, e.sats)
    [] OTHER -> f.pendingMint
burnAfter(f, e) ==
  CASE e.kind = "WithdrawalRequested" -> f.pendingBurn + e.sats
    [] e.kind \in {"WithdrawalConfirmed", "WithdrawalCancelled"} -> satSub(f.pendingBurn, e.sats)
    [] OTHER -> f.pendingBurn
queueAfter(f, e) ==
  CASE e.kind = "WithdrawalRequested" -> f.queueDepth + e.sats
    [] e.kind \in {"WithdrawalSigned", "WithdrawalCancelled"} -> satSub(f.queueDepth, e.sats)
    [] OTHER -> f.queueDepth

\* They are what the summary becomes.
LEMMA CountedFields ==
  ASSUME NEW p, NEW b, NEW q, NEW e
  PROVE  LET f == [pendingMint |-> p, pendingBurn |-> b, queueDepth |-> q]
         IN counted(f, e) = [pendingMint |-> mintAfter(f, e), pendingBurn |-> burnAfter(f, e),
                             queueDepth |-> queueAfter(f, e)]
<1> DEFINE f == [pendingMint |-> p, pendingBurn |-> b, queueDepth |-> q]
           m == mintAfter(f, e)
           u == burnAfter(f, e)
           v == queueAfter(f, e)
<1>0. f.pendingMint = p /\ f.pendingBurn = b /\ f.queueDepth = q
  OBVIOUS
<1>1. CASE e.kind \in {"DepositApproved", "DepositConfirmed"}
  <2>1. u = b /\ v = q
    BY <1>1 DEF burnAfter, queueAfter
  <2>2. counted(f, e) = [f EXCEPT !.pendingMint = m]
    BY <1>1 DEF counted, mintAfter
  <2> HIDE DEF m, u, v
  <2>3. QED
    BY <2>1, <2>2 DEF m, u, v
<1>2. CASE e.kind \in {"WithdrawalRequested", "WithdrawalCancelled"}
  <2>1. m = p
    BY <1>2 DEF mintAfter
  <2>2. counted(f, e) = [f EXCEPT !.pendingBurn = u, !.queueDepth = v]
    BY <1>2 DEF counted, burnAfter, queueAfter
  <2> HIDE DEF m, u, v
  <2>3. QED
    BY <2>1, <2>2 DEF m, u, v
<1>3. CASE e.kind = "WithdrawalSigned"
  <2>1. m = p /\ u = b
    BY <1>3 DEF mintAfter, burnAfter
  <2>2. counted(f, e) = [f EXCEPT !.queueDepth = v]
    BY <1>3 DEF counted, queueAfter
  <2> HIDE DEF m, u, v
  <2>3. QED
    BY <2>1, <2>2 DEF m, u, v
<1>4. CASE e.kind = "WithdrawalConfirmed"
  <2>1. m = p /\ v = q
    BY <1>4 DEF mintAfter, queueAfter
  <2>2. counted(f, e) = [f EXCEPT !.pendingBurn = u]
    BY <1>4 DEF counted, burnAfter
  <2> HIDE DEF m, u, v
  <2>3. QED
    BY <2>1, <2>2 DEF m, u, v
<1>5. CASE e.kind \notin {"DepositApproved", "DepositConfirmed", "WithdrawalRequested",
                          "WithdrawalSigned", "WithdrawalConfirmed", "WithdrawalCancelled"}
  <2>1. m = p /\ u = b /\ v = q
    BY <1>5 DEF mintAfter, burnAfter, queueAfter
  <2>2. counted(f, e) = f
    BY <1>5 DEF counted
  <2> HIDE DEF m, u, v
  <2>3. QED
    BY <2>1, <2>2 DEF m, u, v
<1>6. QED
  BY <1>1, <1>2, <1>3, <1>4, <1>5

\* The log goes on telling the truth when each sum moves as the event says.
Counts(f, e, g) ==
  /\ mintAfter(f, e) = g.pendingMint /\ burnAfter(f, e) = g.pendingBurn
  /\ queueAfter(f, e) = g.queueDepth

\* Sum by sum.
LEMMA TellingCounts ==
  ASSUME NEW evs, NEW ds, NEW ws, Telling(evs, ds, ws), NEW e \in EventRecord,
         NEW ds2 \in Seq(DepositRecord), NEW ws2 \in Seq(WithdrawalRecord), Tells(e, ws, ws2),
         Counts(Truth(ds, ws), settled(e, ws2), Truth(ds2, ws2))
  PROVE  Telling(Append(evs, e), ds2, ws2) /\ Grows(evs, ws, Append(evs, e), ws2)
<1> DEFINE p == Sats(ds, {"Approved"})
           b == Sats(ws, InQueue \cup {"Signed"})
           q == Sats(ws, InQueue)
           f == [pendingMint |-> p, pendingBurn |-> b, queueDepth |-> q]
           d == settled(e, ws2)
<1>1. f = Truth(ds, ws)
  BY DEF Truth
<1> HIDE DEF p, b, q
<1>2. counted(f, d) = [pendingMint |-> mintAfter(f, d), pendingBurn |-> burnAfter(f, d),
                       queueDepth |-> queueAfter(f, d)]
  BY CountedFields
<1>3. Truth(ds2, ws2) = [pendingMint |-> Truth(ds2, ws2).pendingMint,
                         pendingBurn |-> Truth(ds2, ws2).pendingBurn,
                         queueDepth |-> Truth(ds2, ws2).queueDepth]
  BY DEF Truth
<1> HIDE DEF f, d
<1>4. counted(f, d) = Truth(ds2, ws2)
  BY <1>1, <1>2, <1>3 DEF Counts, d
<1>5. counted(Truth(ds, ws), settled(e, ws2)) = Truth(ds2, ws2)
  BY <1>1, <1>4 DEF d
<1>6. QED
  BY <1>5, TellingMore

\* A withdrawal moves as an event of it says.
LEMMA TellsOfMove ==
  ASSUME NEW ds \in Seq(DepositRecord), NEW ws \in Seq(WithdrawalRecord),
         NEW i, NEW w, NEW ws2, Becomes(ws, i, w, ws2),
         NEW e \in EventRecord, e.id = i, e.kind # "WithdrawalRequested",
         e.kind = "WithdrawalPickedForProcessing" => e.sats = w.sats
  PROVE  /\ Tells(e, ws, ws2) /\ settled(e, ws2).kind = e.kind
         /\ settled(e, ws2).sats = IF e.kind = "WithdrawalConfirmed" THEN w.sats ELSE e.sats
<1>1. /\ ws2 \in Seq(WithdrawalRecord) /\ DOMAIN ws2 = DOMAIN ws
      /\ \A j \in DOMAIN ws : ws2[j].sats = ws[j].sats
  BY TruthMoves
<1>2. i \in DOMAIN ws /\ w.sats = ws[i].sats /\ ws2[i].sats = w.sats
  BY <1>1 DEF Becomes
<1>3. Tells(e, ws, ws2)
  BY <1>1, <1>2 DEF Tells
<1>4. settled(e, ws2).kind = e.kind
  BY DEF settled, EventRecord
<1>5. settled(e, ws2).sats = IF e.kind = "WithdrawalConfirmed" THEN w.sats ELSE e.sats
  BY <1>2 DEF settled, EventRecord
<1>6. QED
  BY <1>3, <1>4, <1>5

\* What an event says of the withdrawal that was v and is w.
Says(e, v, w) ==
  \/ /\ e.kind \in Silent /\ (e.kind = "WithdrawalPickedForProcessing" => e.sats = w.sats)
     /\ w.status \in InQueue <=> v.status \in InQueue
     /\ w.status = "Signed" <=> v.status = "Signed"
  \/ /\ e.kind = "WithdrawalSigned" /\ e.sats = w.sats
     /\ v.status \in InQueue /\ w.status = "Signed"
  \/ /\ e.kind = "WithdrawalConfirmed"
     /\ v.status = "Signed" /\ w.status = "Confirmed"
  \/ /\ e.kind = "WithdrawalCancelled" /\ e.sats = w.sats
     /\ v.status \in InQueue /\ w.status = "Cancelled"

\* A withdrawal that changes as its event says.
LEMMA TellingMoves ==
  ASSUME NEW evs, NEW ds, NEW ws, Telling(evs, ds, ws),
         NEW i, NEW w, NEW ws2, Becomes(ws, i, w, ws2),
         NEW e \in EventRecord, e.id = i, Says(e, ws[i], w)
  PROVE  Telling(Append(evs, e), ds, ws2) /\ Grows(evs, ws, Append(evs, e), ws2)
<1> DEFINE f == Truth(ds, ws)
           g == Truth(ds, ws2)
           v == ws[i]
           d == settled(e, ws2)
           x == w.sats
<1>1. ds \in Seq(DepositRecord) /\ ws \in Seq(WithdrawalRecord)
  BY DEF Telling
<1>2. /\ ws2 \in Seq(WithdrawalRecord) /\ f \in FlowRecord
      /\ g.pendingMint = f.pendingMint
      /\ g.pendingBurn = f.pendingBurn
                         - (IF v.status \in InQueue \cup {"Signed"} THEN x ELSE 0)
                         + (IF w.status \in InQueue \cup {"Signed"} THEN x ELSE 0)
      /\ g.queueDepth = f.queueDepth - (IF v.status \in InQueue THEN x ELSE 0)
                                     + (IF w.status \in InQueue THEN x ELSE 0)
      /\ v.status \in InQueue \cup {"Signed"} => x <= f.pendingBurn
      /\ v.status \in InQueue => x <= f.queueDepth
  BY <1>1, TruthMoves
<1>3. f.pendingMint \in Nat /\ f.pendingBurn \in Nat /\ f.queueDepth \in Nat /\ x \in Nat
  BY <1>2 DEF FlowRecord, Becomes, WithdrawalRecord
<1>4. e.kind # "WithdrawalRequested" /\ (e.kind = "WithdrawalPickedForProcessing" => e.sats = x)
  BY DEF Says, Silent
<1>5. /\ Tells(e, ws, ws2) /\ d.kind = e.kind
      /\ d.sats = IF e.kind = "WithdrawalConfirmed" THEN x ELSE e.sats
  BY <1>1, <1>4, TellsOfMove
<1> HIDE DEF f, g, d, x, v
<1>6. Counts(f, d, g)
  <2>1. CASE /\ e.kind \in Silent
             /\ w.status \in InQueue <=> v.status \in InQueue
             /\ w.status = "Signed" <=> v.status = "Signed"
    <3>1. g.pendingBurn = f.pendingBurn /\ g.queueDepth = f.queueDepth
      BY <1>2, <1>3, <2>1
    <3>2. QED
      BY <1>2, <1>5, <2>1, <3>1 DEF Counts, mintAfter, burnAfter, queueAfter, Silent
  <2>2. CASE /\ e.kind = "WithdrawalSigned" /\ e.sats = x
             /\ v.status \in InQueue /\ w.status = "Signed"
    <3>1. g.pendingBurn = f.pendingBurn /\ g.queueDepth = f.queueDepth - x /\ x <= f.queueDepth
      BY <1>2, <1>3, <2>2 DEF InQueue
    <3>2. g.queueDepth = satSub(f.queueDepth, x)
      BY <1>3, <3>1 DEF satSub
    <3>3. QED
      BY <1>2, <1>5, <2>2, <3>1, <3>2 DEF Counts, mintAfter, burnAfter, queueAfter
  <2>3. CASE /\ e.kind = "WithdrawalConfirmed"
             /\ v.status = "Signed" /\ w.status = "Confirmed"
    <3>1. g.pendingBurn = f.pendingBurn - x /\ x <= f.pendingBurn /\ g.queueDepth = f.queueDepth
      BY <1>2, <1>3, <2>3 DEF InQueue
    <3>2. g.pendingBurn = satSub(f.pendingBurn, x)
      BY <1>3, <3>1 DEF satSub
    <3>3. QED
      BY <1>2, <1>5, <2>3, <3>1, <3>2 DEF Counts, mintAfter, burnAfter, queueAfter
  <2>4. CASE /\ e.kind = "WithdrawalCancelled" /\ e.sats = x
             /\ v.status \in InQueue /\ w.status = "Cancelled"
    <3>1. /\ g.pendingBurn = f.pendingBurn - x /\ x <= f.pendingBurn
          /\ g.queueDepth = f.queueDepth - x /\ x <= f.queueDepth
      BY <1>2, <1>3, <2>4 DEF InQueue
    <3>2. g.pendingBurn = satSub(f.pendingBurn, x) /\ g.queueDepth = satSub(f.queueDepth, x)
      BY <1>3, <3>1 DEF satSub
    <3>3. QED
      BY <1>2, <1>5, <2>4, <3>2 DEF Counts, mintAfter, burnAfter, queueAfter
  <2>5. QED
    BY <2>1, <2>2, <2>3, <2>4 DEF Says, v, x
<1>7. QED
  BY <1>1, <1>2, <1>5, <1>6, TellingCounts DEF f, g, d

\* A withdrawal moves and nothing is logged.
LEMMA TellingQuietly ==
  ASSUME NEW evs, NEW ds, NEW ws, Telling(evs, ds, ws),
         NEW i, NEW w, NEW ws2, Becomes(ws, i, w, ws2), w.status = ws[i].status
  PROVE  Telling(evs, ds, ws2) /\ Grows(evs, ws, evs, ws2)
<1> DEFINE f == Truth(ds, ws)
           g == Truth(ds, ws2)
<1>1. ds \in Seq(DepositRecord) /\ ws \in Seq(WithdrawalRecord)
  BY DEF Telling
<1>2. /\ ws2 \in Seq(WithdrawalRecord) /\ f \in FlowRecord /\ DOMAIN ws2 = DOMAIN ws
      /\ \A j \in DOMAIN ws : ws2[j].sats = ws[j].sats
      /\ g.pendingMint = f.pendingMint
      /\ g.pendingBurn = f.pendingBurn
                         - (IF ws[i].status \in InQueue \cup {"Signed"} THEN w.sats ELSE 0)
                         + (IF w.status \in InQueue \cup {"Signed"} THEN w.sats ELSE 0)
      /\ g.queueDepth = f.queueDepth - (IF ws[i].status \in InQueue THEN w.sats ELSE 0)
                                     + (IF w.status \in InQueue THEN w.sats ELSE 0)
  BY <1>1, TruthMoves
<1>3. f.pendingMint \in Nat /\ f.pendingBurn \in Nat /\ f.queueDepth \in Nat /\ w.sats \in Nat
  BY <1>2 DEF FlowRecord, Becomes, WithdrawalRecord
<1>4. \A a, b : /\ Truth(a, b).pendingMint = Sats(a, {"Approved"})
                /\ Truth(a, b).pendingBurn = Sats(b, InQueue \cup {"Signed"})
                /\ Truth(a, b).queueDepth = Sats(b, InQueue)
  BY DEF Truth
<1> HIDE DEF f, g
<1>5. g.pendingBurn = f.pendingBurn /\ g.queueDepth = f.queueDepth
  BY <1>2, <1>3
<1>6. g = f
  BY <1>2, <1>4, <1>5 DEF f, g, Truth
<1>7. QED
  BY <1>1, <1>2, <1>6, TellingStays DEF f, g

\* A withdrawal is requested.
LEMMA TellingJoins ==
  ASSUME NEW evs, NEW ds, NEW ws, Telling(evs, ds, ws),
         NEW w \in WithdrawalRecord, w.status = "Requested",
         NEW e \in EventRecord, e.kind = "WithdrawalRequested", e.id = Len(ws) + 1,
         e.sats = w.sats
  PROVE  /\ Telling(Append(evs, e), ds, Append(ws, w))
         /\ Grows(evs, ws, Append(evs, e), Append(ws, w))
<1> DEFINE f == Truth(ds, ws)
           ws2 == Append(ws, w)
           g == Truth(ds, ws2)
           B == InQueue \cup {"Signed"}
           Q == InQueue
<1>1. ds \in Seq(DepositRecord) /\ ws \in Seq(WithdrawalRecord) /\ ws2 \in Seq(WithdrawalRecord)
  BY DEF Telling
<1>2. Carries(WithdrawalRecord) /\ w.sats \in Nat
  BY RecordSats DEF WithdrawalRecord
<1>3. w.status \in B /\ w.status \in Q
  BY DEF InQueue
<1>4. Sats(ws2, B) = Sats(ws, B) + w.sats /\ Sats(ws2, Q) = Sats(ws, Q) + w.sats
  <2> HIDE DEF B, Q
  <2>1. Sats(ws2, B) = Sats(ws, B) + (IF w.status \in B THEN w.sats ELSE 0)
    BY <1>1, <1>2, SatsJoin
  <2>2. Sats(ws2, Q) = Sats(ws, Q) + (IF w.status \in Q THEN w.sats ELSE 0)
    BY <1>1, <1>2, SatsJoin
  <2>3. QED
    BY <1>3, <2>1, <2>2
<1>5. Counts(f, e, g)
  BY <1>4 DEF Counts, Truth, mintAfter, burnAfter, queueAfter
<1>6. Tells(e, ws, ws2)
  <2>1. /\ DOMAIN ws = 1..Len(ws) /\ Len(ws) \in Nat /\ DOMAIN ws2 = 1..(Len(ws) + 1)
        /\ ws2[Len(ws) + 1] = w /\ \A j \in 1..Len(ws) : ws2[j] = ws[j]
    BY <1>1
  <2> HIDE DEF ws2
  <2>2. \A i \in DOMAIN ws : i \in DOMAIN ws2 /\ ws2[i].sats = ws[i].sats
    BY <2>1
  <2>3. \A i \in DOMAIN ws2 : i \in DOMAIN ws \/ i = Len(ws) + 1
    BY <2>1
  <2>4. Len(ws) + 1 \in DOMAIN ws2
    BY <2>1
  <2>5. QED
    BY <2>1, <2>2, <2>3, <2>4 DEF Tells
<1>7. settled(e, ws2) = e
  BY DEF settled
<1> HIDE DEF f, g, ws2
<1>8. QED
  BY <1>1, <1>5, <1>6, <1>7, TellingCounts DEF f, g, ws2

\* A deposit is requested, approved or confirmed, as an event of it says.
LEMMA TellingMints ==
  ASSUME NEW evs, NEW ds, NEW ws, Telling(evs, ds, ws),
         NEW i, NEW d \in DepositRecord, NEW ds2, Turns(ds, i, d, ds2),
         NEW e \in EventRecord, e.sats = d.sats,
         \/ /\ e.kind = "DepositApproved" /\ ds[i].status = "Requested" /\ d.status = "Approved"
         \/ /\ e.kind = "DepositConfirmed" /\ ds[i].status = "Approved" /\ d.status = "Confirmed"
  PROVE  Telling(Append(evs, e), ds2, ws) /\ Grows(evs, ws, Append(evs, e), ws)
<1> DEFINE f == Truth(ds, ws)
           g == Truth(ds2, ws)
           x == d.sats
<1>1. ds \in Seq(DepositRecord) /\ ws \in Seq(WithdrawalRecord)
  BY DEF Telling
<1>2. /\ ds2 \in Seq(DepositRecord) /\ f \in FlowRecord
      /\ g.pendingMint = f.pendingMint - (IF ds[i].status = "Approved" THEN x ELSE 0)
                                       + (IF d.status = "Approved" THEN x ELSE 0)
      /\ g.pendingBurn = f.pendingBurn /\ g.queueDepth = f.queueDepth
      /\ ds[i].status = "Approved" => x <= f.pendingMint
  BY <1>1, TruthMints
<1>3. f.pendingMint \in Nat /\ x \in Nat
  BY <1>2 DEF FlowRecord, DepositRecord
<1>4. settled(e, ws) = e /\ Tells(e, ws, ws)
  BY DEF settled, Tells
<1> HIDE DEF f, g, x
<1>5. Counts(f, e, g)
  <2>1. CASE /\ e.kind = "DepositApproved" /\ ds[i].status = "Requested" /\ d.status = "Approved"
    <3>1. g.pendingMint = f.pendingMint + x
      BY <1>2, <1>3, <2>1
    <3>2. QED
      BY <1>2, <2>1, <3>1 DEF Counts, mintAfter, burnAfter, queueAfter, x
  <2>2. CASE /\ e.kind = "DepositConfirmed" /\ ds[i].status = "Approved" /\ d.status = "Confirmed"
    <3>1. g.pendingMint = f.pendingMint - x /\ x <= f.pendingMint
      BY <1>2, <1>3, <2>2
    <3>2. g.pendingMint = satSub(f.pendingMint, x)
      BY <1>3, <3>1 DEF satSub
    <3>3. QED
      BY <1>2, <2>2, <3>2 DEF Counts, mintAfter, burnAfter, queueAfter, x
  <2>3. QED
    BY <2>1, <2>2
<1>6. QED
  BY <1>1, <1>2, <1>4, <1>5, TellingCounts DEF f, g

------------------------------------------------------------------------
(* The log, along the steps. *)

\* The log of the bridge tells what the bridge holds, and a step goes on from it.
TellsTruth == Telling(events, deposits, withdrawals)
GrowsHere == Grows(events, withdrawals, events', withdrawals')

\* An event of nothing that counts.
LEMMA TellsAside ==
  ASSUME NEW evs, NEW ds, NEW ws, Telling(evs, ds, ws), NEW e \in EventRecord,
         e.kind \in Silent \ {"WithdrawalPickedForProcessing"}
  PROVE  Telling(Append(evs, e), ds, ws) /\ Grows(evs, ws, Append(evs, e), ws)
<1>1. ds \in Seq(DepositRecord) /\ ws \in Seq(WithdrawalRecord)
  BY DEF Telling
<1>2. e.kind \notin {"WithdrawalRequested", "WithdrawalPickedForProcessing", "WithdrawalConfirmed"}
      /\ e.kind \in Silent
  BY DEF Silent
<1>3. Tells(e, ws, ws)
  BY <1>2 DEF Tells
<1>4. QED
  BY <1>1, <1>2, <1>3, TellsNothing

\* The transitions of a withdrawal other than its signing.
LEMMA PumpTells ==
  ASSUME IInv, TellsTruth, NEW i \in DOMAIN withdrawals,
         \/ ApproveWithdrawal(i) \/ PickWithdrawal(i)
         \/ RetryLater(i) \/ AbandonSign(i) \/ ConfirmWithdrawal(i)
  PROVE  TellsTruth' /\ GrowsHere
<1> DEFINE v == withdrawals[i]
           at == withdrawalDue(v)
<1>1. Shape /\ v \in WithdrawalRecord /\ i \in Nat
  BY DEF IInv, Shape
<1>2. v.sats \in Nat /\ v.signAttempts + 1 \in Nat /\ SignRetryInterval \in Nat /\ 0 \in Nat
  BY <1>1, BridgeAssumption DEF WithdrawalRecord
<1>3. CASE ApproveWithdrawal(i)
  <2> DEFINE w == [v EXCEPT !.status = "Approved", !.approvedAt = at]
             e == Event("WithdrawalApproved", i, 0, at)
  <2>1. withdrawals' = [withdrawals EXCEPT ![i] = w]
    BY <1>1, <1>3 DEF ApproveWithdrawal, Shape
  <2>2. at \in Nat /\ v.status = "Requested"
    BY <1>1, <1>3, FiringWithdrawal DEF ApproveWithdrawal, InQueue
  <2>3. events' = Append(events, e) /\ UNCHANGED deposits
    BY <1>3 DEF ApproveWithdrawal
  <2> HIDE DEF v, at
  <2>4. w \in WithdrawalRecord /\ w.status = "Approved" /\ w.sats = v.sats
    BY <1>1, <2>2 DEF WithdrawalRecord, InQueue
  <2>5. e \in EventRecord /\ e.kind = "WithdrawalApproved" /\ e.id = i
    BY <1>1, <2>2 DEF Event, EventRecord, EventKinds
  <2> HIDE DEF w, e
  <2>6. Becomes(withdrawals, i, w, withdrawals')
    BY <2>1, <2>4 DEF Becomes, v
  <2>7. Says(e, withdrawals[i], w)
    BY <2>2, <2>4, <2>5 DEF Says, Silent, EventKinds, InQueue, v
  <2>8. QED
    BY <2>3, <2>5, <2>6, <2>7, TellingMoves DEF TellsTruth, GrowsHere
<1>4. CASE PickWithdrawal(i)
  <2> DEFINE w == [v EXCEPT !.status = "PickedForProcessing", !.pickedAt = at]
             e == Event("WithdrawalPickedForProcessing", i, v.sats, at)
  <2>1. withdrawals' = [withdrawals EXCEPT ![i] = w]
    BY <1>1, <1>4 DEF PickWithdrawal, Shape
  <2>2. at \in Nat /\ v.status = "Approved"
    BY <1>1, <1>4, FiringWithdrawal DEF PickWithdrawal, InQueue
  <2>3. events' = Append(events, e) /\ UNCHANGED deposits
    BY <1>4 DEF PickWithdrawal
  <2> HIDE DEF v, at
  <2>4. w \in WithdrawalRecord /\ w.status = "PickedForProcessing" /\ w.sats = v.sats
    BY <1>1, <2>2 DEF WithdrawalRecord, InQueue
  <2>5. /\ e \in EventRecord /\ e.kind = "WithdrawalPickedForProcessing" /\ e.id = i
        /\ e.sats = v.sats
    BY <1>1, <1>2, <2>2 DEF Event, EventRecord, EventKinds
  <2> HIDE DEF w, e
  <2>6. Becomes(withdrawals, i, w, withdrawals')
    BY <2>1, <2>4 DEF Becomes, v
  <2>7. Says(e, withdrawals[i], w)
    BY <2>2, <2>4, <2>5 DEF Says, Silent, EventKinds, InQueue, v
  <2>8. QED
    BY <2>3, <2>5, <2>6, <2>7, TellingMoves DEF TellsTruth, GrowsHere
<1>5. CASE ConfirmWithdrawal(i)
  <2> DEFINE w == [v EXCEPT !.status = "Confirmed"]
             e == Event("WithdrawalConfirmed", i, 0, at)
  <2>1. withdrawals' = [withdrawals EXCEPT ![i] = w]
    BY <1>1, <1>5 DEF ConfirmWithdrawal, Shape
  <2>2. at \in Nat /\ v.status = "Signed"
    BY <1>1, <1>5, FiringWithdrawal DEF ConfirmWithdrawal
  <2>3. events' = Append(events, e) /\ UNCHANGED deposits
    BY <1>5 DEF ConfirmWithdrawal
  <2> HIDE DEF v, at
  <2>4. w \in WithdrawalRecord /\ w.status = "Confirmed" /\ w.sats = v.sats
    BY <1>1, <2>2 DEF WithdrawalRecord, InQueue
  <2>5. e \in EventRecord /\ e.kind = "WithdrawalConfirmed" /\ e.id = i
    BY <1>1, <2>2 DEF Event, EventRecord, EventKinds
  <2> HIDE DEF w, e
  <2>6. Becomes(withdrawals, i, w, withdrawals')
    BY <2>1, <2>4 DEF Becomes, v
  <2>7. Says(e, withdrawals[i], w)
    BY <2>2, <2>4, <2>5 DEF Says, v
  <2>8. QED
    BY <2>3, <2>5, <2>6, <2>7, TellingMoves DEF TellsTruth, GrowsHere
<1>6. CASE RetryLater(i)
  <2> DEFINE n == v.signAttempts + 1
             next == at + SignRetryInterval
             w == [v EXCEPT !.signAttempts = n, !.nextSignAttempt = next]
  <2>1. withdrawals' = [withdrawals EXCEPT ![i] = w]
    BY <1>1, <1>6 DEF RetryLater, Shape
  <2>2. at \in Nat
    BY <1>1, <1>6, FiringWithdrawal DEF RetryLater, InQueue
  <2>3. UNCHANGED <<deposits, events>>
    BY <1>6 DEF RetryLater
  <2>4. n \in Nat /\ next \in Nat
    BY <1>2, <2>2
  <2> HIDE DEF v, at, n, next
  <2>5. w \in WithdrawalRecord /\ w.status = v.status /\ w.sats = v.sats
    BY <1>1, <2>4 DEF WithdrawalRecord
  <2> HIDE DEF w
  <2>6. Becomes(withdrawals, i, w, withdrawals')
    BY <2>1, <2>5 DEF Becomes, v
  <2>7. QED
    BY <2>3, <2>5, <2>6, TellingQuietly DEF TellsTruth, GrowsHere, v
<1>7. CASE AbandonSign(i)
  <2> DEFINE w == [v EXCEPT !.signAttempts = v.signAttempts + 1, !.signAbandoned = TRUE]
  <2>1. withdrawals' = [withdrawals EXCEPT ![i] = w]
    BY <1>1, <1>7 DEF AbandonSign, Shape
  <2>2. UNCHANGED <<deposits, events>>
    BY <1>7 DEF AbandonSign
  <2> HIDE DEF v, at
  <2>3. w \in WithdrawalRecord /\ w.status = v.status /\ w.sats = v.sats
    BY <1>1, <1>2 DEF WithdrawalRecord
  <2> HIDE DEF w
  <2>4. Becomes(withdrawals, i, w, withdrawals')
    BY <2>1, <2>3 DEF Becomes, v
  <2>5. QED
    BY <2>2, <2>3, <2>4, TellingQuietly DEF TellsTruth, GrowsHere, v
<1>8. QED
  BY <1>3, <1>4, <1>5, <1>6, <1>7

\* The signing: three events, of which the second counts.
LEMMA SignTells ==
  ASSUME IInv, TellsTruth, NEW i \in DOMAIN withdrawals, SignWithdrawal(i)
  PROVE  TellsTruth' /\ GrowsHere
<1> DEFINE v == withdrawals[i]
           at == withdrawalDue(v)
           w == [v EXCEPT !.status = "Signed", !.signedAt = at]
           a == Event("WithdrawalInputsSigned", i, 0, at)
           b == Event("WithdrawalSigned", i, v.sats, at)
           c == Event("Burned", i, v.sats, at)
<1>1. /\ v \in WithdrawalRecord /\ v.status = "PickedForProcessing" /\ at \in Nat /\ i \in Nat
      /\ events \in Seq(EventRecord)
  BY FiringWithdrawal DEF SignWithdrawal, IInv, Shape, InQueue
<1>2. withdrawals' = [withdrawals EXCEPT ![i] = w]
  BY DEF SignWithdrawal, IInv, Shape
<1>3. events' = events \o <<a, b, c>> /\ UNCHANGED deposits
  BY DEF SignWithdrawal
<1>4. v.sats \in Nat /\ 0 \in Nat
  BY <1>1 DEF WithdrawalRecord
<1> HIDE DEF at
<1>5. w \in WithdrawalRecord /\ w.status = "Signed" /\ w.sats = v.sats
  <2> HIDE DEF v
  <2>1. QED
    BY <1>1 DEF WithdrawalRecord, InQueue
<1>6. Becomes(withdrawals, i, w, withdrawals')
  BY <1>2, <1>5 DEF Becomes
<1> HIDE DEF w
<1>7. /\ a \in EventRecord /\ a.kind = "WithdrawalInputsSigned"
      /\ b \in EventRecord /\ b.kind = "WithdrawalSigned" /\ b.id = i /\ b.sats = v.sats
      /\ c \in EventRecord /\ c.kind = "Burned"
  <2> HIDE DEF v
  <2>1. a \in EventRecord /\ a.kind = "WithdrawalInputsSigned"
    BY <1>1, <1>4 DEF Event, EventRecord, EventKinds
  <2>2. b \in EventRecord /\ b.kind = "WithdrawalSigned" /\ b.id = i /\ b.sats = v.sats
    BY <1>1, <1>4 DEF Event, EventRecord, EventKinds
  <2>3. c \in EventRecord /\ c.kind = "Burned"
    BY <1>1, <1>4 DEF Event, EventRecord, EventKinds
  <2>4. QED
    BY <2>1, <2>2, <2>3
<1>8. Says(b, withdrawals[i], w)
  BY <1>1, <1>5, <1>7 DEF Says, InQueue
<1> HIDE DEF a, b, c, v
<1>9. events' = Append(Append(Append(events, a), b), c)
  BY <1>1, <1>3, <1>7, ThreeMore
<1>10. /\ a.kind \in Silent \ {"WithdrawalPickedForProcessing"}
       /\ c.kind \in Silent \ {"WithdrawalPickedForProcessing"}
  BY <1>7 DEF Silent, EventKinds
<1> DEFINE e1 == Append(events, a)
<1>11. Telling(e1, deposits, withdrawals) /\ Grows(events, withdrawals, e1, withdrawals)
  BY <1>7, <1>10, TellsAside DEF TellsTruth
<1> HIDE DEF e1
<1> DEFINE e2 == Append(e1, b)
<1>12. Telling(e2, deposits, withdrawals') /\ Grows(e1, withdrawals, e2, withdrawals')
  BY <1>6, <1>7, <1>8, <1>11, TellingMoves
<1> HIDE DEF e2
<1> DEFINE e3 == Append(e2, c)
<1>13. Telling(e3, deposits, withdrawals') /\ Grows(e2, withdrawals', e3, withdrawals')
  BY <1>7, <1>10, <1>12, TellsAside
<1> HIDE DEF e3
<1>14. Grows(events, withdrawals, e3, withdrawals')
  <2>1. Grows(events, withdrawals, e2, withdrawals')
    BY <1>11, <1>12, GrowsOn
  <2>2. QED
    BY <1>13, <2>1, GrowsOn
<1>15. events' = e3
  BY <1>9 DEF e1, e2, e3
<1>16. QED
  BY <1>3, <1>13, <1>14, <1>15 DEF TellsTruth, GrowsHere

\* The calls, and a deposit that is approved.
LEMMA CallTells ==
  ASSUME IInv, TellsTruth, BridgeCall \/ \E i \in DOMAIN deposits : ApproveDeposit(i)
  PROVE  TellsTruth' /\ GrowsHere
<1>1. /\ nowMs \in Nat /\ Amounts \subseteq Nat /\ DepositApprovalDelay \in Nat
      /\ Len(deposits) + 1 \in Nat /\ Len(withdrawals) + 1 \in Nat
      /\ deposits \in Seq(DepositRecord)
      /\ withdrawals \in Seq(WithdrawalRecord) /\ events \in Seq(EventRecord)
  BY BridgeAssumption DEF IInv, Shape
<1>2. \A i \in DOMAIN deposits : i \in Nat /\ deposits[i] \in DepositRecord
  BY <1>1
<1>3. \A x \in DepositRecord : x.sats \in Nat /\ x.requestedAt \in Nat
  BY DEF DepositRecord
<1>4. ASSUME NEW i \in DOMAIN deposits, ApproveDeposit(i)
      PROVE  TellsTruth' /\ GrowsHere
  <2> DEFINE v == deposits[i]
             at == v.requestedAt + DepositApprovalDelay
             d == [v EXCEPT !.status = "Approved", !.approvedAt = at]
             e == Event("DepositApproved", i, v.sats, at)
  <2>1. at \in Nat /\ v \in DepositRecord /\ v.sats \in Nat /\ i \in Nat
    BY <1>1, <1>2, <1>3
  <2>2. /\ v.status = "Requested" /\ deposits' = [deposits EXCEPT ![i] = d]
        /\ events' = Append(events, e) /\ UNCHANGED withdrawals
    BY <1>1, <1>4 DEF ApproveDeposit
  <2> HIDE DEF v, at
  <2>3. d \in DepositRecord /\ d.status = "Approved" /\ d.sats = v.sats
    BY <2>1 DEF DepositRecord
  <2>4. e \in EventRecord /\ e.kind = "DepositApproved" /\ e.sats = v.sats
    BY <2>1 DEF Event, EventRecord, EventKinds
  <2> HIDE DEF d, e
  <2>5. Turns(deposits, i, d, deposits')
    BY <2>2, <2>3 DEF Turns, v
  <2>6. QED
    BY <2>2, <2>3, <2>4, <2>5, TellingMints DEF TellsTruth, GrowsHere, v
<1>5. ASSUME NEW u \in Users, NEW s \in Amounts, deposit(u, s)
      PROVE  TellsTruth' /\ GrowsHere
  <2> DEFINE d == [recipient |-> u, sats |-> s, requestedAt |-> nowMs,
                   status |-> "Requested", approvedAt |-> 0]
             e == Event("DepositRequested", Len(deposits) + 1, s, nowMs)
  <2>1. deposits' = Append(deposits, d) /\ events' = Append(events, e) /\ UNCHANGED withdrawals
    BY <1>5 DEF deposit
  <2>2. d \in DepositRecord /\ d.status = "Requested"
    BY <1>1 DEF DepositRecord
  <2>3. e \in EventRecord /\ e.kind = "DepositRequested"
    BY <1>1 DEF Event, EventRecord, EventKinds
  <2> HIDE DEF d, e
  <2> DEFINE A == {"Approved"}
  <2>4. Sats(deposits', A) = Sats(deposits, A)
    <3>1. Carries(DepositRecord) /\ d.status \notin A
      BY <2>2, RecordSats
    <3> HIDE DEF A
    <3>2. Sats(Append(deposits, d), A)
            = Sats(deposits, A) + (IF d.status \in A THEN d.sats ELSE 0)
      BY <1>1, <2>2, <3>1, SatsJoin
    <3>3. Sats(deposits, A) \in Nat
      BY <1>1, <3>1, SatsHold
    <3>4. QED
      BY <2>1, <3>1, <3>2, <3>3
  <2>5. Truth(deposits', withdrawals) = Truth(deposits, withdrawals)
    BY <2>4 DEF Truth
  <2>6. deposits' \in Seq(DepositRecord)
    BY <1>1, <2>1, <2>2
  <2>7. Tells(e, withdrawals, withdrawals) /\ e.kind \in Silent
    BY <2>3 DEF Tells, Silent, EventKinds
  <2>8. QED
    BY <1>1, <2>1, <2>3, <2>5, <2>6, <2>7, TellsNothing DEF TellsTruth, GrowsHere
<1>6. ASSUME NEW i \in DOMAIN deposits, confirmDeposit(i)
      PROVE  TellsTruth' /\ GrowsHere
  <2> DEFINE v == deposits[i]
             d == [v EXCEPT !.status = "Confirmed"]
             a == Event("DepositConfirmed", i, v.sats, nowMs)
             b == Event("Minted", i, v.sats, nowMs)
  <2>1. v \in DepositRecord /\ v.sats \in Nat /\ i \in Nat
    BY <1>2, <1>3
  <2>2. /\ v.status = "Approved" /\ deposits' = [deposits EXCEPT ![i] = d]
        /\ events' = events \o <<a, b>> /\ UNCHANGED withdrawals
    BY <1>1, <1>6 DEF confirmDeposit
  <2> HIDE DEF v
  <2>3. d \in DepositRecord /\ d.status = "Confirmed" /\ d.sats = v.sats
    BY <2>1 DEF DepositRecord
  <2>4. /\ a \in EventRecord /\ a.kind = "DepositConfirmed" /\ a.sats = v.sats
        /\ b \in EventRecord /\ b.kind = "Minted"
    BY <1>1, <2>1 DEF Event, EventRecord, EventKinds
  <2> HIDE DEF d, a, b
  <2>5. events' = Append(Append(events, a), b)
    BY <1>1, <2>2, <2>4
  <2>6. Turns(deposits, i, d, deposits')
    BY <2>2, <2>3 DEF Turns, v
  <2> DEFINE e1 == Append(events, a)
  <2>7. Telling(e1, deposits', withdrawals) /\ Grows(events, withdrawals, e1, withdrawals)
    BY <2>2, <2>3, <2>4, <2>6, TellingMints DEF TellsTruth, v
  <2> HIDE DEF e1
  <2> DEFINE e2 == Append(e1, b)
  <2>8. b.kind \in Silent \ {"WithdrawalPickedForProcessing"}
    BY <2>4 DEF Silent, EventKinds
  <2>9. Telling(e2, deposits', withdrawals) /\ Grows(e1, withdrawals, e2, withdrawals)
    BY <2>4, <2>7, <2>8, TellsAside
  <2> HIDE DEF e2
  <2>10. Grows(events, withdrawals, e2, withdrawals)
    BY <2>7, <2>9, GrowsOn
  <2>11. events' = e2
    BY <2>5 DEF e1, e2
  <2>12. QED
    BY <2>2, <2>9, <2>10, <2>11 DEF TellsTruth, GrowsHere
<1>7. ASSUME NEW u \in Users, NEW s \in Amounts, NEW j \in PickJitters, requestWithdrawal(u, s, j)
      PROVE  TellsTruth' /\ GrowsHere
  <2> DEFINE n == Len(withdrawals) + 1
             w == [requester |-> u, sats |-> s, requestedAt |-> nowMs, pickJitter |-> j,
                   status |-> "Requested", approvedAt |-> 0, pickedAt |-> 0, signedAt |-> 0,
                   nextSignAttempt |-> 0, signAttempts |-> 0, signAbandoned |-> FALSE]
             e == Event("WithdrawalRequested", n, s, nowMs)
  <2>1. withdrawals' = Append(withdrawals, w) /\ events' = Append(events, e)
        /\ UNCHANGED deposits
    BY <1>7 DEF requestWithdrawal
  <2>2. j \in Nat
    BY BridgeAssumption DEF PickJitters
  <2>3. w \in WithdrawalRecord /\ w.status = "Requested" /\ w.sats = s
    BY <1>1, <2>2 DEF WithdrawalRecord, InQueue
  <2>4. e \in EventRecord /\ e.kind = "WithdrawalRequested" /\ e.id = n /\ e.sats = s
    BY <1>1 DEF Event, EventRecord, EventKinds
  <2> HIDE DEF w, e
  <2>5. QED
    BY <2>1, <2>3, <2>4, TellingJoins DEF TellsTruth, GrowsHere
<1>8. ASSUME NEW u \in Users, NEW i \in DOMAIN withdrawals, cancelWithdrawal(u, i)
      PROVE  TellsTruth' /\ GrowsHere
  <2> DEFINE v == withdrawals[i]
             w == [v EXCEPT !.status = "Cancelled"]
             e == Event("WithdrawalCancelled", i, v.sats, nowMs)
  <2>1. /\ withdrawals' = [withdrawals EXCEPT ![i] = w] /\ events' = Append(events, e)
        /\ UNCHANGED deposits /\ v.status \in {"Requested", "Approved"}
    BY <1>1, <1>8 DEF cancelWithdrawal
  <2>2. v \in WithdrawalRecord /\ i \in Nat
    BY <1>1
  <2>3. v.sats \in Nat
    BY <2>2 DEF WithdrawalRecord
  <2> HIDE DEF v
  <2>4. /\ e \in EventRecord /\ e.kind = "WithdrawalCancelled" /\ e.sats = v.sats /\ e.id = i
    BY <1>1, <2>2, <2>3 DEF Event, EventRecord, EventKinds
  <2>5. w \in WithdrawalRecord /\ w.status = "Cancelled" /\ w.sats = v.sats
    BY <2>2, Restated DEF InQueue
  <2> HIDE DEF w, e
  <2>6. Becomes(withdrawals, i, w, withdrawals')
    BY <2>1, <2>5 DEF Becomes, v
  <2>7. Says(e, withdrawals[i], w)
    BY <2>1, <2>4, <2>5 DEF Says, InQueue, v
  <2>8. QED
    BY <2>1, <2>4, <2>6, <2>7, TellingMoves DEF TellsTruth, GrowsHere
<1>9. QED
  BY <1>4, <1>5, <1>6, <1>7, <1>8 DEF BridgeCall

\* Every step of the bridge keeps the log true, and the log only grows.
LEMMA StepTells ==
  ASSUME IInv, TellsTruth, [BridgeNext]_bridgeVars
  PROVE  TellsTruth' /\ GrowsHere
<1>1. CASE Pump
  BY <1>1, CallTells, PumpTells, SignTells DEF Pump
<1>2. CASE Advance \/ UNCHANGED bridgeVars
  <2>1. UNCHANGED <<events, deposits, withdrawals>>
    BY <1>2 DEF Advance, setNowMs, bridgeVars
  <2>2. Grows(events, withdrawals, events, withdrawals)
    BY DEF Grows
  <2>3. QED
    BY <2>1, <2>2 DEF TellsTruth, GrowsHere
<1>3. CASE BridgeCall
  BY <1>3, CallTells
<1>4. QED
  BY <1>1, <1>2, <1>3 DEF BridgeNext

\* A new bridge has nothing to tell.
LEMMA StartsTelling ==
  ASSUME Init
  PROVE  TellsTruth
<1>1. /\ events = <<>> /\ withdrawals = <<>> /\ deposits = <<>>
  BY DEF Init
<1>2. /\ DOMAIN <<>> = {} /\ <<>> \in Seq(EventRecord) /\ <<>> \in Seq(WithdrawalRecord)
      /\ <<>> \in Seq(DepositRecord) /\ Len(<<>>) = 0
  OBVIOUS
<1>3. \A S : Sats(<<>>, S) = 0
  <2> TAKE S
  <2>1. {i \in DOMAIN <<>> : <<>>[i].status \in S} = {}
    OBVIOUS
  <2>2. QED
    BY <2>1, SumEmpty DEF Sats, SumOf
<1>4. Truth(<<>>, <<>>) = FlowZero
  BY <1>3 DEF Truth, FlowZero
<1>5. FlowTo(<<>>, <<>>, 0) = FlowZero
  BY FlowNext
<1>6. Told(<<>>, <<>>)
  BY <1>2 DEF Told
<1>7. QED
  BY <1>1, <1>2, <1>4, <1>5, <1>6 DEF TellsTruth, Telling

------------------------------------------------------------------------
(* The positions of a slice. *)

\* A sequence lists a set of positions, in order.
Rising(s) == \A k, l \in DOMAIN s : k < l => s[k] < s[l]
Enumerates(s, P) ==
  /\ s \in [1..Cardinality(P) -> P] /\ Rising(s)
  /\ \A p \in P : \E k \in DOMAIN s : s[k] = p

\* Whatever set of positions, they stand in some order.
LEMMA EnumerationExists ==
  ASSUME NEW n \in Nat, NEW P \in SUBSET (1..n)
  PROVE  \E s : Enumerates(s, P)
<1> DEFINE Good == {k \in Nat : \A Q \in SUBSET (1..k) : \E s : Enumerates(s, Q)}
<1>1. 0 \in Good
  <2> SUFFICES ASSUME NEW Q \in SUBSET (1..0)
               PROVE  \E s : Enumerates(s, Q)
    OBVIOUS
  <2>1. Q = {}
    OBVIOUS
  <2>2. Cardinality(Q) = 0
    BY <2>1, FS_EmptySet
  <2> DEFINE s == [k \in 1..0 |-> 0]
  <2>3. s \in [1..0 -> Q] /\ DOMAIN s = {}
    OBVIOUS
  <2>4. Enumerates(s, Q)
    BY <2>1, <2>2, <2>3 DEF Enumerates, Rising
  <2>5. QED
    BY <2>4
<1>2. ASSUME NEW k \in Nat, k \in Good
      PROVE  k + 1 \in Good
  <2> SUFFICES ASSUME NEW Q \in SUBSET (1..(k + 1))
               PROVE  \E s : Enumerates(s, Q)
    OBVIOUS
  <2> DEFINE R == Q \ {k + 1}
  <2>1. R \in SUBSET (1..k) /\ (k + 1 \notin Q => R = Q) /\ (k + 1 \in Q => Q = R \cup {k + 1})
    OBVIOUS
  <2>2. PICK s : Enumerates(s, R)
    BY <1>2, <2>1
  <2>3. CASE k + 1 \notin Q
    BY <2>1, <2>2, <2>3
  <2>4. CASE k + 1 \in Q
    <3>1. IsFiniteSet(R) /\ Cardinality(R) \in Nat
      <4>1. IsFiniteSet(1..k)
        <5>1. k \in Int
          OBVIOUS
        <5> HIDE DEF Good, R
        <5>2. QED
          BY <5>1, FS_Interval
      <4>2. QED
        BY <2>1, <4>1, FS_Subset, FS_CardinalityType
    <3> DEFINE c == Cardinality(R)
               t == [j \in 1..(c + 1) |-> IF j = c + 1 THEN k + 1 ELSE s[j]]
    <3>2. Cardinality(Q) = c + 1
      <4>1. k + 1 \notin R /\ Q = R \cup {k + 1}
        BY <2>1, <2>4
      <4> HIDE DEF R
      <4>2. QED
        BY <3>1, <4>1, FS_AddElement
    <3>3. c \in Nat /\ DOMAIN s = 1..c /\ \A j \in 1..c : s[j] \in R
      BY <2>2, <3>1 DEF Enumerates
    <3> HIDE DEF c, R
    <3>4. \A j \in 1..(c + 1) : j = c + 1 \/ (j \in 1..c /\ j # c + 1)
      BY <3>3
    <3>5. \A j \in 1..c : j \in 1..(c + 1) /\ j # c + 1
      BY <3>3
    <3>6. c + 1 \in 1..(c + 1)
      BY <3>3
    <3>7. DOMAIN t = 1..(c + 1) /\ t[c + 1] = k + 1 /\ \A j \in 1..c : t[j] = s[j]
      BY <3>5, <3>6
    <3>8. t \in [1..(c + 1) -> Q]
      <4>1. \A j \in 1..(c + 1) : (IF j = c + 1 THEN k + 1 ELSE s[j]) \in Q
        BY <2>1, <2>4, <3>3, <3>4
      <4>2. QED
        BY <4>1
    <3> HIDE DEF t
    <3>9. Rising(t)
      <4>1. \A j \in 1..c : t[j] \in 1..k
        BY <2>1, <3>3, <3>7
      <4>2. \A j, l \in 1..c : j < l => t[j] < t[l]
        BY <2>2, <3>3, <3>7 DEF Enumerates, Rising
      <4>3. \A j \in 1..c : t[j] < t[c + 1]
        BY <3>7, <4>1
      <4>4. \A l \in 1..(c + 1) : ~(c + 1 < l)
        BY <3>3
      <4>5. QED
        BY <3>4, <3>7, <4>2, <4>3, <4>4 DEF Rising
    <3>10. \A p \in Q : \E j \in DOMAIN t : t[j] = p
      <4> TAKE p \in Q
      <4>1. CASE p = k + 1
        BY <3>6, <3>7, <4>1
      <4>2. CASE p \in R
        <5>1. PICK j \in DOMAIN s : s[j] = p
          BY <2>2, <4>2 DEF Enumerates
        <5>2. QED
          BY <3>3, <3>5, <3>7, <5>1
      <4>3. QED
        BY <2>1, <2>4, <4>1, <4>2
    <3>11. Enumerates(t, Q)
      BY <3>2, <3>8, <3>9, <3>10 DEF Enumerates
    <3>12. QED
      BY <3>11
  <2>5. QED
    BY <2>3, <2>4
<1> HIDE DEF Good
<1>3. n \in Good
  BY <1>1, <1>2, NatSetInduction
<1>4. QED
  BY <1>3 DEF Good

\* The watched positions of an interval of the log, and a list of them.
Shown(evs, a, b) == {k \in (a + 1)..b : evs[k].kind \in WatchKinds}
Lists(s, evs, a, b) ==
  /\ s \in Seq(Nat) /\ Rising(s)
  /\ \A k \in DOMAIN s : s[k] \in Shown(evs, a, b)
  /\ \A p \in Shown(evs, a, b) : \E k \in DOMAIN s : s[k] = p

\* The list the watcher makes of them is one.
LEMMA InOrderLists ==
  ASSUME NEW evs, NEW a \in Nat, NEW b \in Nat
  PROVE  Lists(inOrder(Shown(evs, a, b)), evs, a, b)
<1> DEFINE P == Shown(evs, a, b)
           s == inOrder(P)
<1>1. P \in SUBSET (1..b)
  BY DEF Shown
<1> HIDE DEF P
<1>2. \E t : Enumerates(t, P)
  BY <1>1, EnumerationExists
<1>3. s = CHOOSE t \in [1..Cardinality(P) -> P] :
            /\ \A k, l \in DOMAIN t : k < l => t[k] < t[l]
            /\ \A p \in P : \E k \in DOMAIN t : t[k] = p
  BY DEF inOrder
<1>4. Enumerates(s, P)
  BY <1>2, <1>3 DEF Enumerates, Rising
<1> HIDE DEF s
<1>5. IsFiniteSet(P) /\ Cardinality(P) \in Nat
  <2>1. IsFiniteSet(1..b)
    <3>1. b \in Int
      OBVIOUS
    <3>2. QED
      BY <3>1, FS_Interval
  <2>2. QED
    BY <1>1, <2>1, FS_Subset, FS_CardinalityType
<1>6. s \in [1..Cardinality(P) -> P] /\ P \subseteq Nat
  BY <1>1, <1>4 DEF Enumerates
<1>7. s \in Seq(Nat)
  <2> DEFINE n == Cardinality(P)
  <2>1. n \in Nat /\ DOMAIN s = 1..n /\ s = [k \in 1..n |-> s[k]]
    BY <1>5, <1>6
  <2>2. \A k \in 1..n : s[k] \in Nat
    BY <1>6
  <2> HIDE DEF n
  <2>3. s \in [1..n -> Nat]
    BY <2>1, <2>2
  <2>4. QED
    BY <2>1, <2>3
<1>8. Lists(s, evs, a, b)
  BY <1>4, <1>6, <1>7 DEF Lists, Enumerates, P
<1>9. QED
  BY <1>8 DEF s, P

------------------------------------------------------------------------
(* The fold of a slice. *)

\* What a slice says of requests, and that it says it of the requests there are.
SaysTrue(evs, ws) ==
  \A k \in DOMAIN evs :
    evs[k].kind \in {"WithdrawalRequested", "WithdrawalPickedForProcessing"}
      => evs[k].sats = ws[evs[k].id].sats

\* So the first request found in it states the amount.
LEMMA FirstSays ==
  ASSUME NEW evs, NEW ws, NEW n \in Nat, DOMAIN evs = 1..n, SaysTrue(evs, ws), NEW id,
         NEW kind \in {"WithdrawalRequested", "WithdrawalPickedForProcessing"}
  PROVE  /\ \A x \in firstSats(evs, kind, id) : x = ws[id].sats
         /\ (\E k \in DOMAIN evs : evs[k].kind = kind /\ evs[k].id = id)
              => firstSats(evs, kind, id) # {}
<1> DEFINE at == {k \in DOMAIN evs : evs[k].kind = kind /\ evs[k].id = id}
           first == {j \in at : \A l \in at : j <= l}
<1>1. firstSats(evs, kind, id) = {evs[k].sats : k \in first}
  BY DEF firstSats
<1>2. \A k \in first : evs[k].sats = ws[id].sats
  BY DEF SaysTrue
<1>3. at \subseteq 1..n /\ first \subseteq at
  OBVIOUS
<1>4. at # {} => first # {}
  <2> SUFFICES ASSUME at # {}
               PROVE  first # {}
    OBVIOUS
  <2> HIDE DEF at
  <2>1. IsFiniteSet(at) /\ at \subseteq Int
    <3>1. IsFiniteSet(1..n)
      <4>1. n \in Int
        OBVIOUS
      <4>2. QED
        BY <4>1, FS_Interval
    <3>2. IsFiniteSet(at)
      BY <1>3, <3>1, FS_Subset
    <3>3. \A k \in 1..n : k \in Int
      OBVIOUS
    <3>4. QED
      BY <1>3, <3>2, <3>3
  <2>2. Min(at) \in at /\ \A x \in at : Min(at) <= x
    BY <2>1, MinOfSet
  <2>3. Min(at) \in first
    BY <2>2
  <2>4. QED
    BY <2>3
<1>5. (\E k \in DOMAIN evs : evs[k].kind = kind /\ evs[k].id = id) => at # {}
  OBVIOUS
<1> HIDE DEF at, first
<1>6. QED
  BY <1>1, <1>2, <1>4, <1>5

\* A confirmation counts what its request asked for, or nothing; not nothing if
\* its request is in the slice.
LEMMA JoinSays ==
  ASSUME NEW evs, NEW ws, NEW n \in Nat, DOMAIN evs = 1..n, SaysTrue(evs, ws), NEW id
  PROVE  /\ joinedSats(evs, id) \in {0, ws[id].sats}
         /\ (\E k \in DOMAIN evs : evs[k].kind = "WithdrawalRequested" /\ evs[k].id = id)
              => joinedSats(evs, id) = ws[id].sats
<1> DEFINE R == indexRequestedSats(evs, id)
           K == indexPickedSats(evs, id)
           s == IF R # {} THEN R ELSE K
<1>1. (\A x \in R : x = ws[id].sats)
      /\ ((\E k \in DOMAIN evs : evs[k].kind = "WithdrawalRequested" /\ evs[k].id = id) => R # {})
  BY FirstSays DEF indexRequestedSats
<1>2. \A x \in K : x = ws[id].sats
  BY FirstSays DEF indexPickedSats
<1>3. joinedSats(evs, id) = IF s = {} THEN 0 ELSE CHOOSE x \in s : TRUE
  BY DEF joinedSats
<1> HIDE DEF R, K
<1>4. s # {} => (CHOOSE x \in s : TRUE) = ws[id].sats
  BY <1>1, <1>2
<1>5. R # {} => s # {}
  OBVIOUS
<1> HIDE DEF s
<1>6. QED
  BY <1>1, <1>3, <1>4, <1>5

\* Where the log says nothing that is watched, the summary stands.
LEMMA FlowSkips ==
  ASSUME NEW evs, NEW ws, NEW a \in Nat, NEW b \in Nat, a <= b, Shown(evs, a, b) = {}
  PROVE  FlowTo(evs, ws, b) = FlowTo(evs, ws, a)
<1> DEFINE Good == {n \in Nat : a + n <= b => FlowTo(evs, ws, a + n) = FlowTo(evs, ws, a)}
<1>1. 0 \in Good
  <2>1. a + 0 = a
    OBVIOUS
  <2>2. QED
    BY <2>1
<1>2. ASSUME NEW n \in Nat, n \in Good
      PROVE  n + 1 \in Good
  <2> SUFFICES ASSUME a + (n + 1) <= b
               PROVE  FlowTo(evs, ws, a + (n + 1)) = FlowTo(evs, ws, a)
    OBVIOUS
  <2> DEFINE m == a + n
  <2>1. m \in Nat /\ m <= b /\ a + (n + 1) = m + 1 /\ m + 1 \in (a + 1)..b
    OBVIOUS
  <2>2. FlowTo(evs, ws, m) = FlowTo(evs, ws, a)
    BY <1>2, <2>1
  <2> HIDE DEF m, Good
  <2>3. FlowTo(evs, ws, m + 1) = counted(FlowTo(evs, ws, m), settled(evs[m + 1], ws))
    BY <2>1, FlowNext
  <2>4. evs[m + 1].kind \notin FlowKinds
    BY <2>1, WatcherAssumption DEF Shown
  <2>5. settled(evs[m + 1], ws) = evs[m + 1]
    BY <2>4 DEF settled, FlowKinds
  <2>6. counted(FlowTo(evs, ws, m), evs[m + 1]) = FlowTo(evs, ws, m)
    BY <2>4 DEF counted, FlowKinds
  <2>7. QED
    BY <2>1, <2>2, <2>3, <2>5, <2>6
<1> HIDE DEF Good
<1>3. \A n \in Nat : n \in Good
  BY <1>1, <1>2, NatSetInduction
<1>4. b - a \in Nat /\ a + (b - a) = b
  OBVIOUS
<1>5. QED
  BY <1>3, <1>4 DEF Good

\* A slice of the log, as a list of positions.
Slice(evs, s) == [k \in DOMAIN s |-> evs[s[k]]]

\* An event of a slice, as the watcher counts it and as it is.
LEMMA SliceEvent ==
  ASSUME NEW evs \in Seq(EventRecord), NEW ws \in Seq(WithdrawalRecord), Told(evs, ws),
         NEW a \in Nat, NEW b \in 0..Len(evs), NEW s, Lists(s, evs, a, b),
         NEW exact \in BOOLEAN, exact => a = 0, NEW k \in DOMAIN s
  PROVE  LET d == joined(Slice(evs, s))[k]
             e == settled(evs[s[k]], ws)
         IN /\ d \in EventRecord /\ e \in EventRecord
            /\ d.kind = e.kind /\ d.sats <= e.sats
            /\ exact \/ e.kind # "WithdrawalConfirmed" => d.sats = e.sats
<1> DEFINE q == Slice(evs, s)
           p == s[k]
           v == evs[p]
           d == joined(q)[k]
           e == settled(v, ws)
<1>1. /\ Len(s) \in Nat /\ DOMAIN s = 1..Len(s) /\ DOMAIN q = 1..Len(s)
      /\ \A j \in DOMAIN s : q[j] = evs[s[j]] /\ s[j] \in (a + 1)..b
  BY DEF Slice, Lists, Shown
<1>2. \A j \in (a + 1)..b : j \in DOMAIN evs
  OBVIOUS
<1>3. v \in EventRecord /\ p \in DOMAIN evs /\ q[k] = v /\ k \in DOMAIN q /\ p <= b
      /\ p \in Nat /\ DOMAIN q = DOMAIN s
  BY <1>1, <1>2
<1>4. SaysTrue(q, ws)
  <2>1. \A j \in DOMAIN evs :
          evs[j].kind \in {"WithdrawalRequested", "WithdrawalPickedForProcessing"}
            => evs[j].sats = ws[evs[j].id].sats
    BY DEF Told
  <2>2. \A j \in DOMAIN q : q[j] = evs[s[j]] /\ s[j] \in DOMAIN evs
    BY <1>1, <1>2
  <2>3. QED
    BY <2>1, <2>2 DEF SaysTrue
<1>5. d = IF v.kind = "WithdrawalConfirmed" THEN [v EXCEPT !.sats = joinedSats(q, v.id)] ELSE v
  BY <1>3 DEF joined
<1> HIDE DEF q, d, e, p, v
<1>6. CASE v.kind # "WithdrawalConfirmed"
  <2>1. d = v /\ e = v
    BY <1>5, <1>6 DEF e, settled
  <2>2. v.sats \in Nat
    BY <1>3 DEF EventRecord
  <2>3. d \in EventRecord /\ e \in EventRecord /\ d.kind = e.kind /\ d.sats <= e.sats
        /\ d.sats = e.sats
    BY <1>3, <2>1, <2>2
  <2>4. QED
    BY <2>3 DEF d, e, p, q, v
<1>7. CASE v.kind = "WithdrawalConfirmed"
  <2> DEFINE x == joinedSats(q, v.id)
             y == ws[v.id].sats
  <2>1. d = [v EXCEPT !.sats = x] /\ e = [v EXCEPT !.sats = y]
    BY <1>5, <1>7 DEF e, settled
  <2>2. v.id \in DOMAIN ws
    BY <1>3, <1>7 DEF Told, v
  <2>3. y \in Nat
    <3>1. ws[v.id] \in WithdrawalRecord
      BY <2>2
    <3>2. \A w \in WithdrawalRecord : w.sats \in Nat
      BY DEF WithdrawalRecord
    <3>3. QED
      BY <3>1, <3>2
  <2>4. x \in {0, y}
        /\ ((\E j \in DOMAIN q : q[j].kind = "WithdrawalRequested" /\ q[j].id = v.id) => x = y)
    BY <1>1, <1>4, JoinSays
  <2>5. exact => x = y
    <3> SUFFICES ASSUME exact
                 PROVE  x = y
      OBVIOUS
    <3>1. PICK j \in 1..(p - 1) : evs[j].kind = "WithdrawalRequested" /\ evs[j].id = v.id
      BY <1>3, <1>7 DEF Told, v
    <3>2. j \in Shown(evs, a, b)
      <4>1. j \in (a + 1)..b
        BY <1>3, <3>1
      <4>2. "WithdrawalRequested" \in WatchKinds
        BY WatcherAssumption DEF FlowKinds
      <4>3. QED
        BY <3>1, <4>1, <4>2 DEF Shown
    <3>3. PICK l \in DOMAIN s : s[l] = j
      BY <3>2 DEF Lists
    <3>4. l \in DOMAIN q /\ q[l] = evs[j]
      BY <1>1, <1>3, <3>3
    <3>5. QED
      BY <2>4, <3>1, <3>4
  <2> HIDE DEF x, y
  <2>6. x \in Nat /\ x <= y
    BY <2>3, <2>4
  <2>7. /\ d \in EventRecord /\ d.kind = v.kind /\ d.sats = x
        /\ e \in EventRecord /\ e.kind = v.kind /\ e.sats = y
    BY <1>3, <2>1, <2>3, <2>6 DEF EventRecord
  <2>8. /\ d \in EventRecord /\ e \in EventRecord /\ d.kind = e.kind /\ d.sats <= e.sats
        /\ (exact \/ e.kind # "WithdrawalConfirmed" => d.sats = e.sats)
    BY <1>7, <2>5, <2>6, <2>7
  <2>9. QED
    BY <2>8 DEF d, e, p, q, v
<1>8. QED
  BY <1>6, <1>7

\* The summary of a slice goes on from that of what came before it.
LEMMA FoldAlong ==
  ASSUME NEW evs \in Seq(EventRecord), NEW ws \in Seq(WithdrawalRecord), Told(evs, ws),
         NEW a \in Nat, NEW b \in 0..Len(evs), a <= b, NEW s, Lists(s, evs, a, b),
         NEW exact \in BOOLEAN, exact => a = 0,
         NEW f, Near(f, FlowTo(evs, ws, a), exact)
  PROVE  Near(applyFlow(f, Slice(evs, s)), FlowTo(evs, ws, b), exact)
<1> DEFINE h == joined(Slice(evs, s))
           c == Len(s)
           P(n) == IF n = 0 THEN a ELSE s[n]
           F(n) == CountedTo(f, h, n)
           Good == {n \in Nat : n <= c => Near(F(n), FlowTo(evs, ws, P(n)), exact)}
<1>1. /\ c \in Nat /\ DOMAIN s = 1..c /\ s \in Seq(Nat) /\ Rising(s)
      /\ \A k \in 1..c : s[k] \in (a + 1)..b /\ s[k] \in Nat
      /\ \A k \in 1..c : s[k] \in Shown(evs, a, b)
      /\ \A p \in Shown(evs, a, b) : \E k \in 1..c : s[k] = p
  BY DEF Lists, Shown
<1>2. \A n \in 0..c : P(n) \in Nat /\ P(n) <= b /\ a <= P(n)
  BY <1>1
<1>3. ASSUME NEW n \in Nat
       PROVE  F(0) = f /\ F(n + 1) = counted(F(n), h[n + 1])
  <2> HIDE DEF h, P, c, Good
  <2>1. QED
    BY CountedNext
<1>4. 0 \in Good
  <2>1. F(0) = f
    BY <1>3
  <2>2. P(0) = a
    OBVIOUS
  <2> HIDE DEF F, P
  <2>3. QED
    BY <2>1, <2>2
<1>5. ASSUME NEW n \in Nat, n \in Good
      PROVE  n + 1 \in Good
  <2> SUFFICES ASSUME n + 1 <= c
               PROVE  Near(F(n + 1), FlowTo(evs, ws, P(n + 1)), exact)
    OBVIOUS
  <2>1. n \in 0..c /\ n + 1 \in 1..c /\ n + 1 # 0 /\ n <= c
    BY <1>1
  <2> DEFINE p == s[n + 1]
             m == p - 1
  <2>2. P(n + 1) = p /\ p \in (a + 1)..b /\ m \in Nat /\ m + 1 = p /\ a <= m /\ m <= b
    BY <1>1, <2>1
  <2>3. Near(F(n), FlowTo(evs, ws, P(n)), exact)
    BY <1>5, <2>1
  <2>4. P(n) \in Nat /\ P(n) <= m
    <3>1. CASE n = 0
      BY <2>2, <3>1
    <3>2. CASE n # 0
      <4>1. n \in 1..c /\ n < n + 1
        BY <2>1, <3>2
      <4>2. s[n] < p /\ s[n] \in Nat
        BY <1>1, <2>1, <4>1 DEF Rising
      <4>3. QED
        BY <2>2, <3>2, <4>2
    <3>3. QED
      BY <3>1, <3>2
  <2>5. Shown(evs, P(n), m) = {}
    <3> SUFFICES ASSUME NEW x \in Shown(evs, P(n), m)
                 PROVE  FALSE
      OBVIOUS
    <3> DEFINE q == P(n)
    <3>1. x \in Nat /\ P(n) < x /\ x < p /\ evs[x].kind \in WatchKinds
      <4>1. q \in Nat /\ m \in Nat /\ m + 1 = p /\ x \in Shown(evs, q, m)
        BY <2>2, <2>4
      <4> HIDE DEF q, m, p
      <4>2. x \in (q + 1)..m /\ evs[x].kind \in WatchKinds
        BY <4>1 DEF Shown
      <4>3. x \in Nat /\ q < x /\ x < p
        BY <4>1, <4>2
      <4>4. QED
        BY <4>2, <4>3 DEF q
    <3>2. x \in Shown(evs, a, b)
      <4>1. q \in Nat /\ a <= q /\ p \in (a + 1)..b /\ q < x /\ x < p
        BY <1>2, <2>1, <2>2, <2>4, <3>1
      <4> HIDE DEF q, p
      <4>2. x \in (a + 1)..b
        BY <3>1, <4>1
      <4>3. QED
        BY <3>1, <4>2 DEF Shown
    <3>3. PICK k \in 1..c : s[k] = x
      BY <1>1, <3>2
    <3>4. k < n + 1
      <4>1. ~(n + 1 < k) /\ k # n + 1
        <5>1. n + 1 < k => p < x
          BY <1>1, <2>1, <3>3 DEF Rising
        <5>2. x \in Nat /\ p \in Nat
          BY <1>1, <2>1, <3>1
        <5>3. QED
          BY <3>1, <3>3, <5>1, <5>2
      <4>2. QED
        BY <1>1, <4>1
    <3>5. n # 0 /\ n \in 1..c
      BY <1>1, <2>1, <3>4
    <3>6. s[n] < s[k]
      BY <3>1, <3>3, <3>5
    <3>7. k < n
      <4>1. k = n \/ k < n
        BY <1>1, <3>4
      <4>2. s[n] \in Nat
        BY <1>1, <3>5
      <4>3. QED
        BY <3>6, <4>1, <4>2
    <3>8. s[k] < s[n]
      BY <1>1, <3>5, <3>7 DEF Rising
    <3>9. s[n] \in Nat /\ s[k] \in Nat
      BY <1>1, <3>5
    <3>10. QED
      BY <3>6, <3>8, <3>9
  <2>6. FlowTo(evs, ws, m) = FlowTo(evs, ws, P(n))
    <3> HIDE DEF P, m
    <3>1. QED
      BY <2>2, <2>4, <2>5, FlowSkips
  <2> DEFINE d == h[n + 1]
             e == settled(evs[p], ws)
  <2>7. FlowTo(evs, ws, p) = counted(FlowTo(evs, ws, m), e)
    <3> HIDE DEF m, p
    <3>1. QED
      BY <2>2, FlowNext
  <2>8. F(n + 1) = counted(F(n), d)
    BY <1>3
  <2>9. /\ d \in EventRecord /\ e \in EventRecord
        /\ d.kind = e.kind /\ d.sats <= e.sats
        /\ (exact \/ e.kind # "WithdrawalConfirmed" => d.sats = e.sats)
    <3>1. n + 1 \in DOMAIN s
      BY <1>1, <2>1
    <3>2. QED
      BY <3>1, SliceEvent
  <2> HIDE DEF F, P, d, e, p, m, h
  <2>10. Near(counted(F(n), d), counted(FlowTo(evs, ws, m), e), exact)
    BY <2>3, <2>6, <2>9, CountedNear
  <2>11. QED
    BY <2>2, <2>7, <2>8, <2>10
<1>6. \A n \in Nat : n \in Good
  <2> HIDE DEF Good
  <2>1. QED
    BY <1>4, <1>5, NatSetInduction
<1>7. Near(F(c), FlowTo(evs, ws, P(c)), exact)
  <2>1. c \in Good
    <3> HIDE DEF Good, c
    <3>1. QED
      BY <1>1, <1>6
  <2> HIDE DEF F, P
  <2>2. QED
    BY <1>1, <2>1
<1>8. P(c) \in Nat /\ P(c) <= b /\ a <= P(c)
  BY <1>1, <1>2
<1>9. Shown(evs, P(c), b) = {}
  <2> SUFFICES ASSUME NEW x \in Shown(evs, P(c), b)
               PROVE  FALSE
    OBVIOUS
  <2>1. x \in Nat /\ P(c) < x /\ x \in (a + 1)..b /\ evs[x].kind \in WatchKinds
    BY <1>8 DEF Shown
  <2>2. x \in Shown(evs, a, b)
    BY <2>1 DEF Shown
  <2>3. PICK k \in 1..c : s[k] = x
    BY <1>1, <2>2
  <2>4. c # 0 /\ c \in 1..c /\ P(c) = s[c]
    BY <1>1, <2>3
  <2>5. k = c \/ k < c
    <3> HIDE DEF c
    <3>1. QED
      BY <1>1
  <2>6. s[c] \in Nat /\ s[k] \in Nat
    BY <1>1, <2>4
  <2>7. s[k] <= s[c]
    <3>1. k < c => s[k] < s[c]
      BY <1>1, <2>4 DEF Rising
    <3> HIDE DEF c
    <3>2. QED
      BY <2>5, <2>6, <3>1
  <2>8. QED
    BY <2>1, <2>3, <2>4, <2>6, <2>7 DEF Shown
<1>10. FlowTo(evs, ws, b) = FlowTo(evs, ws, P(c))
  <2> HIDE DEF P
  <2>1. b \in Nat
    OBVIOUS
  <2>2. QED
    BY <1>8, <1>9, <2>1, FlowSkips
<1>11. F(c) = applyFlow(f, Slice(evs, s))
  <2>1. DOMAIN h = 1..c
    BY <1>1 DEF joined, Slice
  <2>2. h = [k \in 1..c |-> h[k]]
    BY <2>1 DEF joined
  <2> HIDE DEF h
  <2>3. F(c) = FoldLeft(counted, f, h)
    BY <2>2 DEF CountedTo
  <2>4. QED
    BY <2>3 DEF applyFlow, h
<1> HIDE DEF F, P
<1>12. QED
  BY <1>7, <1>10, <1>11

------------------------------------------------------------------------
(* The watcher. *)

\* What it holds at cursor `cu` of the log: nothing watched was left out up to
\* there, and its summary is that of the log up to there; a restart goes back to
\* where that was so.
PagesHold(pa, cu, n) == \A p \in pa : p.from \in 0..cu /\ p.next \in p.from..n
CheckpointHolds(ch, evs, ws) ==
  ch.cursor \in 0..Len(evs) /\ Near(ch.flow, FlowTo(evs, ws, ch.cursor), FALSE)
RetainedHolds(re, ch, evs, cu) ==
  ch = [cursor |-> 0, flow |-> FlowZero] /\ Lists(re, evs, 0, cu)
WatchHolds(evs, ws, cu, se, re, fl, pa, ch, rl) ==
  /\ cu \in 0..Len(evs) /\ se \in 0..cu /\ Shown(evs, se, cu) = {}
  /\ PagesHold(pa, cu, Len(evs)) /\ rl \in BOOLEAN
  /\ CheckpointHolds(ch, evs, ws) /\ (rl => RetainedHolds(re, ch, evs, cu))
  /\ Near(fl, FlowTo(evs, ws, cu), rl)
WatchHere ==
  WatchHolds(events, withdrawals, cursor, seen, retained, flow, pages, checkpoint, retainLog)

\* A log that grows shows what it showed.
LEMMA ShownStays ==
  ASSUME NEW evs \in Seq(EventRecord), NEW ws, NEW evs2, NEW ws2, Grows(evs, ws, evs2, ws2),
         NEW a \in Nat, NEW b \in 0..Len(evs)
  PROVE  Shown(evs2, a, b) = Shown(evs, a, b)
<1>1. \A k \in (a + 1)..b : k \in DOMAIN evs
  OBVIOUS
<1>2. \A k \in (a + 1)..b : evs2[k] = evs[k]
  BY <1>1 DEF Grows
<1>3. QED
  BY <1>2 DEF Shown

\* The bridge moves and the watcher does not.
LEMMA WatcherLooksOn ==
  ASSUME NEW evs \in Seq(EventRecord), NEW ws, Told(evs, ws),
         NEW evs2 \in Seq(EventRecord), NEW ws2, Grows(evs, ws, evs2, ws2),
         NEW cu, NEW se, NEW re, NEW fl, NEW pa, NEW ch, NEW rl,
         WatchHolds(evs, ws, cu, se, re, fl, pa, ch, rl)
  PROVE  WatchHolds(evs2, ws2, cu, se, re, fl, pa, ch, rl)
<1> DEFINE n == Len(evs)
           m == Len(evs2)
<1>1. n \in Nat /\ m \in Nat /\ DOMAIN evs = 1..n /\ DOMAIN evs2 = 1..m
  OBVIOUS
<1>2. n <= m
  <2>1. n \in 1..n => n \in 1..m
    BY <1>1 DEF Grows
  <2> HIDE DEF n, m
  <2>2. QED
    BY <1>1, <2>1
<1>3. /\ cu \in 0..n /\ se \in 0..cu /\ Shown(evs, se, cu) = {}
      /\ PagesHold(pa, cu, n) /\ rl \in BOOLEAN
      /\ CheckpointHolds(ch, evs, ws) /\ (rl => RetainedHolds(re, ch, evs, cu))
      /\ Near(fl, FlowTo(evs, ws, cu), rl)
  BY DEF WatchHolds
<1>4. \A k \in 0..n : FlowTo(evs2, ws2, k) = FlowTo(evs, ws, k)
  BY FlowStays
<1>5. Shown(evs2, se, cu) = {} /\ Shown(evs2, 0, cu) = Shown(evs, 0, cu)
  <2>1. se \in Nat /\ 0 \in Nat /\ cu \in 0..Len(evs)
    BY <1>1, <1>3
  <2>2. QED
    BY <1>3, <2>1, ShownStays
<1>6. CheckpointHolds(ch, evs2, ws2)
  <2>1. ch.cursor \in 0..n /\ Near(ch.flow, FlowTo(evs, ws, ch.cursor), FALSE)
    BY <1>3 DEF CheckpointHolds
  <2>2. ch.cursor \in 0..m
    <3> HIDE DEF n, m
    <3>1. QED
      BY <1>1, <1>2, <2>1
  <2>3. QED
    BY <1>4, <2>1, <2>2 DEF CheckpointHolds
<1>7. rl => RetainedHolds(re, ch, evs2, cu)
  BY <1>3, <1>5 DEF RetainedHolds, Lists
<1>8. PagesHold(pa, cu, m)
  <2> HIDE DEF n, m
  <2> SUFFICES ASSUME NEW p \in pa
               PROVE  p.from \in 0..cu /\ p.next \in p.from..m
    BY DEF PagesHold
  <2>1. p.from \in 0..cu /\ p.next \in p.from..n
    BY <1>3 DEF PagesHold
  <2>2. p.from \in Int /\ p.next \in Int
    BY <1>1, <1>3, <2>1
  <2>3. QED
    BY <1>1, <1>2, <2>1, <2>2
<1>9. cu \in 0..m
  <2> HIDE DEF n, m
  <2>1. QED
    BY <1>1, <1>2, <1>3
<1>10. Near(fl, FlowTo(evs2, ws2, cu), rl)
  BY <1>3, <1>4
<1>11. QED
  BY <1>3, <1>5, <1>6, <1>7, <1>8, <1>9, <1>10 DEF WatchHolds

\* A list of nothing is empty.
LEMMA ListsNothing ==
  ASSUME NEW s, NEW evs, NEW a, NEW b, Lists(s, evs, a, b), Shown(evs, a, b) = {}
  PROVE  s = <<>>
<1>1. s \in Seq(Nat) /\ \A k \in DOMAIN s : FALSE
  BY DEF Lists
<1>2. Len(s) \in Nat /\ DOMAIN s = 1..Len(s)
  BY <1>1
<1>3. Len(s) = 0
  <2>1. Len(s) # 0 => Len(s) \in 1..Len(s)
    BY <1>2
  <2>2. QED
    BY <1>1, <1>2, <2>1
<1>4. QED
  BY <1>1, <1>3

\* A list that is not empty ends with the last of what it lists.
LEMMA ListsToLast ==
  ASSUME NEW s, NEW evs, NEW a \in Nat, NEW b \in Nat, Lists(s, evs, a, b), s # <<>>
  PROVE  /\ Last(s) \in (a + 1)..b /\ Shown(evs, Last(s), b) = {}
<1> DEFINE c == Len(s)
<1>1. s \in Seq(Nat) /\ Rising(s) /\ (\A k \in DOMAIN s : s[k] \in Shown(evs, a, b))
      /\ \A p \in Shown(evs, a, b) : \E k \in DOMAIN s : s[k] = p
  BY DEF Lists
<1>2. c \in Nat /\ DOMAIN s = 1..c /\ c # 0
  BY <1>1
<1>3. c \in 1..c /\ Last(s) = s[c]
  BY <1>2 DEF Last
<1>4. Last(s) \in (a + 1)..b
  BY <1>1, <1>2, <1>3 DEF Shown
<1>5. Shown(evs, Last(s), b) = {}
  <2> SUFFICES ASSUME NEW x \in Shown(evs, Last(s), b)
               PROVE  FALSE
    OBVIOUS
  <2>1. x \in Nat /\ Last(s) < x /\ x \in (a + 1)..b /\ evs[x].kind \in WatchKinds
    BY <1>4 DEF Shown
  <2>2. x \in Shown(evs, a, b)
    BY <2>1 DEF Shown
  <2>3. PICK k \in 1..c : s[k] = x
    BY <1>1, <1>2, <2>2
  <2> HIDE DEF c
  <2>4. k = c \/ k < c
    BY <1>2
  <2>5. k < c => s[k] < s[c]
    BY <1>1, <1>2, <1>3 DEF Rising
  <2>6. s[c] \in Nat
    BY <1>1, <1>2, <1>3
  <2>7. QED
    BY <1>3, <2>1, <2>3, <2>4, <2>5, <2>6
<1>6. QED
  BY <1>4, <1>5

\* Two lists, the second of what comes after, are one.
LEMMA ListsJoin ==
  ASSUME NEW r, NEW s, NEW evs, NEW a \in Nat, NEW b \in Nat, a <= b,
         Lists(r, evs, 0, a), Lists(s, evs, a, b)
  PROVE  Lists(r \o s, evs, 0, b)
<1> DEFINE c == Len(r)
           d == Len(s)
           t == r \o s
<1>1. /\ r \in Seq(Nat) /\ Rising(r) /\ (\A k \in DOMAIN r : r[k] \in Shown(evs, 0, a))
      /\ (\A p \in Shown(evs, 0, a) : \E k \in DOMAIN r : r[k] = p)
      /\ s \in Seq(Nat) /\ Rising(s) /\ (\A k \in DOMAIN s : s[k] \in Shown(evs, a, b))
      /\ (\A p \in Shown(evs, a, b) : \E k \in DOMAIN s : s[k] = p)
  BY DEF Lists
<1>2. /\ c \in Nat /\ d \in Nat /\ DOMAIN r = 1..c /\ DOMAIN s = 1..d
      /\ t \in Seq(Nat) /\ DOMAIN t = 1..(c + d)
      /\ (\A k \in 1..c : t[k] = r[k]) /\ \A k \in 1..d : t[c + k] = s[k]
  BY <1>1
<1> HIDE DEF c, d, t
<1>3. \A k \in 1..(c + d) : k \in 1..c \/ (k - c \in 1..d /\ k = c + (k - c))
  BY <1>2
<1>4. (\A k \in 1..c : k \in 1..(c + d)) /\ \A k \in 1..d : c + k \in 1..(c + d)
  BY <1>2
<1>5. \A p : p \in Shown(evs, 0, b) <=> p \in Shown(evs, 0, a) \/ p \in Shown(evs, a, b)
  BY DEF Shown
<1>6. (\A k \in 1..c : t[k] \in 1..a) /\ \A k \in 1..d : t[c + k] \in (a + 1)..b
  <2>1. Shown(evs, 0, a) \subseteq 1..a /\ Shown(evs, a, b) \subseteq (a + 1)..b
    BY DEF Shown
  <2>2. (\A k \in 1..c : t[k] \in Shown(evs, 0, a)) /\ \A k \in 1..d : t[c + k] \in Shown(evs, a, b)
    BY <1>1, <1>2
  <2>3. QED
    BY <2>1, <2>2
<1>7. \A k \in DOMAIN t : t[k] \in Shown(evs, 0, b)
  <2> SUFFICES ASSUME NEW k \in 1..(c + d)
               PROVE  t[k] \in Shown(evs, 0, b)
    BY <1>2
  <2>1. CASE k \in 1..c
    <3>1. t[k] = r[k] /\ r[k] \in Shown(evs, 0, a)
      BY <1>1, <1>2, <2>1
    <3>2. QED
      BY <1>5, <3>1
  <2>2. CASE k - c \in 1..d /\ k = c + (k - c)
    <3>1. t[k] = s[k - c] /\ s[k - c] \in Shown(evs, a, b)
      BY <1>1, <1>2, <2>2
    <3>2. QED
      BY <1>5, <3>1
  <2>3. QED
    BY <1>3, <2>1, <2>2
<1>8. \A p \in Shown(evs, 0, b) : \E k \in DOMAIN t : t[k] = p
  <2> SUFFICES ASSUME NEW p \in Shown(evs, 0, b)
               PROVE  \E k \in 1..(c + d) : t[k] = p
    BY <1>2
  <2>1. CASE p \in Shown(evs, 0, a)
    <3>1. PICK k \in 1..c : r[k] = p
      BY <1>1, <1>2, <2>1
    <3>2. QED
      BY <1>2, <1>4, <3>1
  <2>2. CASE p \in Shown(evs, a, b)
    <3>1. PICK k \in 1..d : s[k] = p
      BY <1>1, <1>2, <2>2
    <3>2. t[c + k] = p /\ c + k \in 1..(c + d)
      BY <1>2, <1>4, <3>1
    <3>3. QED
      BY <3>2
  <2>3. QED
    BY <1>5, <2>1, <2>2
<1>9. Rising(t)
  <2> SUFFICES ASSUME NEW k \in 1..(c + d), NEW l \in 1..(c + d), k < l
               PROVE  t[k] < t[l]
    BY <1>2 DEF Rising
  <2>1. CASE l \in 1..c
    <3>1. k \in 1..c
      BY <1>2, <2>1
    <3>2. QED
      BY <1>1, <1>2, <2>1, <3>1 DEF Rising
  <2>2. CASE k \in 1..c /\ l - c \in 1..d /\ l = c + (l - c)
    <3>1. t[k] \in 1..a /\ t[l] \in (a + 1)..b
      BY <1>6, <2>2
    <3>2. QED
      BY <3>1
  <2>3. CASE k - c \in 1..d /\ k = c + (k - c) /\ l - c \in 1..d /\ l = c + (l - c)
    <3>1. k - c < l - c
      BY <1>2
    <3>2. s[k - c] < s[l - c]
      BY <1>1, <1>2, <2>3, <3>1 DEF Rising
    <3>3. t[k] = s[k - c] /\ t[l] = s[l - c]
      BY <1>2, <2>3
    <3>4. QED
      BY <3>2, <3>3
  <2>4. QED
    BY <1>3, <2>1, <2>2, <2>3
<1>10. QED
  BY <1>2, <1>7, <1>8, <1>9 DEF Lists, t

\* The positions of a page the watcher takes: none of a page it is beyond, and
\* else all that was not seen.
LEMMA FreshPositions ==
  ASSUME NEW p, cursor \in Nat, seen \in 0..cursor, Shown(events, seen, cursor) = {},
         p.from \in 0..cursor, p.next \in Nat
  PROVE  /\ p.next <= cursor => freshOf(p) = <<>>
         /\ p.next > cursor => Lists(freshOf(p), events, cursor, p.next)
<1> DEFINE F == {k \in watched(p.from, p.next) : k > seen}
<1>1. F = {k \in Shown(events, p.from, p.next) : k > seen}
  BY DEF watched, Shown
<1>2. p.next <= cursor => F = Shown(events, 0, 0)
  <2> SUFFICES ASSUME p.next <= cursor
               PROVE  F = Shown(events, 0, 0)
    OBVIOUS
  <2>1. Shown(events, 0, 0) = {}
    BY DEF Shown
  <2>2. \A k \in Shown(events, p.from, p.next) : ~(k > seen)
    <3> SUFFICES ASSUME NEW k \in Shown(events, p.from, p.next), k > seen
                 PROVE  FALSE
      OBVIOUS
    <3>1. k \in Nat /\ k <= cursor /\ events[k].kind \in WatchKinds
      BY DEF Shown
    <3>2. k \in Shown(events, seen, cursor)
      BY <3>1 DEF Shown
    <3>3. QED
      BY <3>2
  <2>3. QED
    BY <1>1, <2>1, <2>2
<1>3. p.next > cursor => F = Shown(events, cursor, p.next)
  <2> SUFFICES ASSUME p.next > cursor
               PROVE  F = Shown(events, cursor, p.next)
    OBVIOUS
  <2>1. ASSUME NEW k \in F
        PROVE  k \in Shown(events, cursor, p.next)
    <3>1. k \in Nat /\ k > seen /\ k <= p.next /\ events[k].kind \in WatchKinds
      BY <1>1 DEF Shown
    <3>2. k \notin Shown(events, seen, cursor)
      OBVIOUS
    <3>3. k > cursor
      BY <3>1, <3>2 DEF Shown
    <3>4. k \in (cursor + 1)..p.next
      BY <3>1, <3>3
    <3>5. QED
      BY <3>1, <3>4 DEF Shown
  <2>2. ASSUME NEW k \in Shown(events, cursor, p.next)
        PROVE  k \in F
    <3>1. k \in Nat /\ k > cursor /\ k <= p.next /\ events[k].kind \in WatchKinds
      BY DEF Shown
    <3>2. k \in (p.from + 1)..p.next /\ k > seen
      BY <3>1
    <3>3. k \in Shown(events, p.from, p.next)
      BY <3>1, <3>2 DEF Shown
    <3>4. QED
      BY <1>1, <3>2, <3>3
  <2> HIDE DEF F
  <2>3. QED
    BY <2>1, <2>2
<1>4. freshOf(p) = inOrder(F)
  BY DEF freshOf
<1> HIDE DEF F
<1>5. CASE p.next <= cursor
  <2>1. Lists(freshOf(p), events, 0, 0)
    BY <1>2, <1>4, <1>5, InOrderLists
  <2>2. Shown(events, 0, 0) = {}
    BY DEF Shown
  <2>3. freshOf(p) = <<>>
    BY <2>1, <2>2, ListsNothing
  <2>4. QED
    BY <1>5, <2>3
<1>6. CASE p.next > cursor
  <2>1. Lists(freshOf(p), events, cursor, p.next)
    BY <1>3, <1>4, <1>6, InOrderLists
  <2>2. ~(p.next <= cursor)
    BY <1>6
  <2>3. QED
    BY <2>1, <2>2
<1>7. QED
  BY <1>5, <1>6

\* A page is read from the cursor on.
LEMMA ReadHolds ==
  ASSUME events \in Seq(EventRecord), WatchHere, pollRead
  PROVE  WatchHere'
<1> DEFINE n == Len(events)
           q == [from |-> cursor, next |-> pageEnd(cursor)]
<1>1. /\ n \in Nat /\ cursor \in 0..n /\ PagesHold(pages, cursor, n)
  BY DEF WatchHere, WatchHolds
<1>2. pages' = pages \cup {q}
      /\ UNCHANGED <<events, withdrawals, retainLog, cursor, seen, retained, flow, checkpoint>>
  BY DEF pollRead, bridgeVars
<1>3. pageEnd(cursor) \in cursor..n
  <2> DEFINE hits == watched(cursor, n)
             full == {k \in hits : Cardinality(watched(cursor, k)) = BatchLimit}
  <2>1. pageEnd(cursor) = IF full = {} THEN n ELSE CHOOSE k \in full : TRUE
    BY DEF pageEnd
  <2>2. \A k \in full : k \in (cursor + 1)..n
    BY DEF watched
  <2> HIDE DEF full
  <2>3. full # {} => (CHOOSE k \in full : TRUE) \in full
    OBVIOUS
  <2> HIDE DEF n
  <2>4. QED
    BY <1>1, <2>1, <2>2, <2>3
<1>4. q.from = cursor /\ q.next = pageEnd(cursor)
  OBVIOUS
<1> HIDE DEF n, q
<1>5. PagesHold(pages \cup {q}, cursor, n)
  BY <1>1, <1>3, <1>4 DEF PagesHold
<1>6. QED
  BY <1>2, <1>5 DEF WatchHere, WatchHolds, n

\* A page is folded.
LEMMA FoldHolds ==
  ASSUME events \in Seq(EventRecord), withdrawals \in Seq(WithdrawalRecord),
         Told(events, withdrawals), WatchHere, NEW p \in pages, pollFold(p)
  PROVE  WatchHere'
<1> DEFINE n == Len(events)
           s == freshOf(p)
<1>1. /\ n \in Nat /\ cursor \in 0..n /\ seen \in 0..cursor /\ Shown(events, seen, cursor) = {}
      /\ PagesHold(pages, cursor, n) /\ retainLog \in BOOLEAN
      /\ CheckpointHolds(checkpoint, events, withdrawals)
      /\ (retainLog => RetainedHolds(retained, checkpoint, events, cursor))
      /\ Near(flow, FlowTo(events, withdrawals, cursor), retainLog)
  BY DEF WatchHere, WatchHolds
<1>2. /\ seen' = (IF s = <<>> THEN seen ELSE Last(s))
      /\ retained' = (IF retainLog THEN retained \o s ELSE retained)
      /\ cursor' = max2(max2(p.next, cursor), seen')
      /\ flow' = (IF s = <<>> THEN flow
                  ELSE IF retainLog THEN applyFlow(FlowZero, eventsAt(retained'))
                  ELSE applyFlow(flow, eventsAt(s)))
      /\ pages' = pages \ {p}
      /\ UNCHANGED <<events, withdrawals, retainLog, checkpoint>>
  BY DEF pollFold, bridgeVars
<1>3. p.from \in 0..cursor /\ p.next \in p.from..n /\ p.next \in Nat
  BY <1>1 DEF PagesHold
<1>4. /\ (p.next <= cursor => s = <<>>)
      /\ (p.next > cursor => Lists(s, events, cursor, p.next))
  BY <1>1, <1>3, FreshPositions
<1>5. \A r : eventsAt(r) = Slice(events, r)
  BY DEF eventsAt, Slice
<1>6. \A c \in cursor..n : PagesHold(pages', c, n)
  <2> TAKE c \in cursor..n
  <2> SUFFICES ASSUME NEW q \in pages
               PROVE  q.from \in 0..c /\ q.next \in q.from..n
    BY <1>2 DEF PagesHold
  <2> HIDE DEF n
  <2>1. q.from \in 0..cursor /\ q.next \in q.from..n
    BY <1>1 DEF PagesHold
  <2>2. QED
    BY <1>1, <2>1
<1> HIDE DEF n, s
<1>7. CASE p.next <= cursor
  <2>1. s = <<>> /\ seen' = seen /\ flow' = flow
    BY <1>2, <1>4, <1>7
  <2>2. cursor' = cursor
    BY <1>1, <1>2, <1>3, <1>7, <2>1 DEF max2
  <2>3. retainLog => RetainedHolds(retained', checkpoint, events, cursor)
    <3>1. retainLog => retained \in Seq(Nat)
      BY <1>1 DEF RetainedHolds, Lists
    <3>2. retainLog => retained' = retained
      BY <1>2, <2>1, <3>1
    <3>3. QED
      BY <1>1, <3>2
  <2>4. PagesHold(pages', cursor, n)
    BY <1>1, <1>6
  <2>5. QED
    BY <1>1, <1>2, <2>1, <2>2, <2>3, <2>4 DEF WatchHere, WatchHolds, n
<1>8. CASE p.next > cursor
  <2> DEFINE b == p.next
  <2>1. Lists(s, events, cursor, b) /\ b \in Nat /\ b \in 0..n /\ cursor <= b /\ cursor \in Nat
        /\ b \in cursor..n
    BY <1>1, <1>3, <1>4, <1>8
  <2> HIDE DEF b
  <2>2. seen' \in 0..b /\ Shown(events, seen', b) = {}
    <3>1. CASE s = <<>>
      <4>1. seen' = seen
        BY <1>2, <3>1
      <4>2. seen \in 0..b
        BY <1>1, <2>1
      <4>3. Shown(events, cursor, b) = {}
        <5>1. DOMAIN s = {}
          BY <3>1
        <5>2. QED
          BY <2>1, <5>1 DEF Lists
      <4>4. Shown(events, seen, b) = {}
        <5> SUFFICES ASSUME NEW x \in Shown(events, seen, b)
                     PROVE  FALSE
          OBVIOUS
        <5>1. x \in Shown(events, seen, cursor) \/ x \in Shown(events, cursor, b)
          BY <1>1, <2>1 DEF Shown
        <5>2. QED
          BY <1>1, <4>3, <5>1
      <4>5. QED
        BY <4>1, <4>2, <4>4
    <3>2. CASE s # <<>>
      <4>1. Last(s) \in (cursor + 1)..b /\ Shown(events, Last(s), b) = {}
        BY <2>1, <3>2, ListsToLast
      <4>2. QED
        BY <1>2, <2>1, <3>2, <4>1
    <3>3. QED
      BY <3>1, <3>2
  <2>3. cursor' = b
    BY <1>1, <1>2, <1>8, <2>1, <2>2 DEF max2, b
  <2>4. retainLog => RetainedHolds(retained', checkpoint, events, b)
    <3> SUFFICES ASSUME retainLog
                 PROVE  RetainedHolds(retained', checkpoint, events, b)
      OBVIOUS
    <3>1. Lists(retained, events, 0, cursor) /\ checkpoint = [cursor |-> 0, flow |-> FlowZero]
      BY <1>1 DEF RetainedHolds
    <3>2. Lists(retained \o s, events, 0, b)
      BY <2>1, <3>1, ListsJoin
    <3>3. retained' = retained \o s
      BY <1>2
    <3>4. QED
      BY <3>1, <3>2, <3>3 DEF RetainedHolds
  <2>5. Near(flow', FlowTo(events, withdrawals, b), retainLog)
    <3>1. CASE s = <<>>
      <4>1. Shown(events, cursor, b) = {}
        <5>1. DOMAIN s = {}
          BY <3>1
        <5>2. QED
          BY <2>1, <5>1 DEF Lists
      <4>2. FlowTo(events, withdrawals, b) = FlowTo(events, withdrawals, cursor)
        BY <2>1, <4>1, FlowSkips
      <4>3. QED
        BY <1>1, <1>2, <3>1, <4>2
    <3>2. CASE s # <<>> /\ retainLog
      <4>1. Lists(retained', events, 0, b)
        BY <2>4, <3>2 DEF RetainedHolds
      <4>2. flow' = applyFlow(FlowZero, Slice(events, retained'))
        BY <1>2, <1>5, <3>2
      <4>3. Near(FlowZero, FlowTo(events, withdrawals, 0), TRUE)
        BY FlowNext DEF Near, FlowZero, FlowRecord
      <4>4. b \in 0..Len(events) /\ 0 <= b
        BY <2>1 DEF n
      <4>5. Near(applyFlow(FlowZero, Slice(events, retained')), FlowTo(events, withdrawals, b), TRUE)
        BY <4>1, <4>3, <4>4, FoldAlong
      <4>6. QED
        BY <3>2, <4>2, <4>5
    <3>3. CASE s # <<>> /\ ~retainLog
      <4>1. flow' = applyFlow(flow, Slice(events, s))
        BY <1>2, <1>5, <3>3
      <4>2. Near(flow, FlowTo(events, withdrawals, cursor), FALSE) /\ retainLog = FALSE
        BY <1>1, <3>3
      <4>3. b \in 0..Len(events)
        BY <2>1 DEF n
      <4>4. Near(applyFlow(flow, Slice(events, s)), FlowTo(events, withdrawals, b), FALSE)
        BY <2>1, <4>2, <4>3, FoldAlong
      <4>5. QED
        BY <4>1, <4>2, <4>4
    <3>4. QED
      BY <3>1, <3>2, <3>3
  <2>6. PagesHold(pages', b, n)
    BY <1>6, <2>1
  <2>7. QED
    BY <1>1, <1>2, <2>1, <2>2, <2>3, <2>4, <2>5, <2>6 DEF WatchHere, WatchHolds, n
<1>9. QED
  BY <1>1, <1>3, <1>7, <1>8

\* Where nothing was read yet, the summary is empty and true.
LEMMA StartsZero ==
  ASSUME NEW evs, NEW ws, NEW exact
  PROVE  /\ Near(FlowZero, FlowTo(evs, ws, 0), exact) /\ Shown(evs, 0, 0) = {}
         /\ Lists(<<>>, evs, 0, 0)
<1>1. Shown(evs, 0, 0) = {}
  BY DEF Shown
<1>2. <<>> \in Seq(Nat) /\ DOMAIN <<>> = {}
  OBVIOUS
<1>3. Lists(<<>>, evs, 0, 0)
  BY <1>1, <1>2 DEF Lists, Rising
<1>4. FlowTo(evs, ws, 0) = FlowZero
  BY FlowNext
<1>5. Near(FlowZero, FlowZero, exact)
  BY DEF Near, FlowZero, FlowRecord
<1>6. QED
  BY <1>1, <1>3, <1>4, <1>5

\* A checkpoint is saved.
LEMMA SaveHolds ==
  ASSUME WatchHere, saveCheckpoint
  PROVE  WatchHere'
<1>1. /\ cursor \in 0..Len(events) /\ Near(flow, FlowTo(events, withdrawals, cursor), retainLog)
      /\ retainLog \in BOOLEAN
  BY DEF WatchHere, WatchHolds
<1>2. /\ checkpoint' = [cursor |-> cursor, flow |-> flow] /\ retainLog = FALSE
      /\ UNCHANGED <<events, withdrawals, retainLog, cursor, seen, retained, flow, pages>>
  BY <1>1 DEF saveCheckpoint, bridgeVars
<1>3. checkpoint'.cursor = cursor /\ checkpoint'.flow = flow
  BY <1>2
<1>4. CheckpointHolds(checkpoint', events, withdrawals)
  BY <1>1, <1>2, <1>3 DEF CheckpointHolds
<1>5. QED
  BY <1>2, <1>4 DEF WatchHere, WatchHolds

\* A watcher stops, and another resumes from the checkpoint.
LEMMA CreateHolds ==
  ASSUME events \in Seq(EventRecord), WatchHere, createWatcher
  PROVE  WatchHere'
<1> DEFINE c == checkpoint.cursor
<1>1. /\ retainLog \in BOOLEAN /\ CheckpointHolds(checkpoint, events, withdrawals)
      /\ (retainLog => RetainedHolds(retained, checkpoint, events, cursor))
  BY DEF WatchHere, WatchHolds
<1>2. /\ cursor' = c /\ seen' = c /\ flow' = checkpoint.flow /\ retained' = <<>> /\ pages' = {}
      /\ UNCHANGED <<events, withdrawals, retainLog, checkpoint>>
  BY DEF createWatcher, bridgeVars
<1>3. c \in 0..Len(events) /\ Near(checkpoint.flow, FlowTo(events, withdrawals, c), FALSE)
  BY <1>1 DEF CheckpointHolds
<1>4. c \in 0..c /\ Shown(events, c, c) = {}
  <2>1. c \in Nat
    BY <1>3
  <2> HIDE DEF c
  <2>2. QED
    BY <2>1 DEF Shown
<1>5. PagesHold({}, c, Len(events))
  BY DEF PagesHold
<1>6. CASE retainLog
  <2>1. checkpoint = [cursor |-> 0, flow |-> FlowZero]
    BY <1>1, <1>6 DEF RetainedHolds
  <2>2. c = 0 /\ checkpoint.flow = FlowZero
    BY <2>1
  <2>3. RetainedHolds(<<>>, checkpoint, events, c)
    BY <2>1, <2>2, StartsZero DEF RetainedHolds
  <2>4. Near(checkpoint.flow, FlowTo(events, withdrawals, c), retainLog)
    BY <2>2, StartsZero
  <2> HIDE DEF c
  <2>5. QED
    BY <1>1, <1>2, <1>3, <1>4, <1>5, <2>3, <2>4 DEF WatchHere, WatchHolds
<1>7. CASE ~retainLog
  <2>1. retainLog = FALSE
    BY <1>1, <1>7
  <2> HIDE DEF c
  <2>2. QED
    BY <1>1, <1>2, <1>3, <1>4, <1>5, <2>1 DEF WatchHere, WatchHolds
<1>8. QED
  BY <1>6, <1>7

\* A new watcher has read nothing.
LEMMA StartsHolding ==
  ASSUME events \in Seq(EventRecord), WatchInit
  PROVE  WatchHere
<1>1. /\ retainLog \in BOOLEAN /\ cursor = 0 /\ seen = 0 /\ retained = <<>> /\ flow = FlowZero
      /\ pages = {} /\ checkpoint = [cursor |-> 0, flow |-> FlowZero]
  BY DEF WatchInit
<1>2. 0 \in 0..Len(events) /\ 0 \in 0..0
  OBVIOUS
<1>3. checkpoint.cursor = 0 /\ checkpoint.flow = FlowZero
  BY <1>1
<1>4. PagesHold(pages, 0, Len(events))
  BY <1>1 DEF PagesHold
<1>5. CheckpointHolds(checkpoint, events, withdrawals)
  BY <1>2, <1>3, StartsZero DEF CheckpointHolds
<1>6. RetainedHolds(retained, checkpoint, events, 0)
  BY <1>1, StartsZero DEF RetainedHolds
<1>7. Near(flow, FlowTo(events, withdrawals, 0), retainLog) /\ Shown(events, 0, 0) = {}
  BY <1>1, StartsZero
<1>8. QED
  BY <1>1, <1>2, <1>4, <1>5, <1>6, <1>7 DEF WatchHere, WatchHolds

------------------------------------------------------------------------
\* The inductive invariant of the watcher over the bridge: the bridge's, a log
\* that tells the truth, and a summary that is that of the log up to the cursor.
WatchInv == IInv /\ TellsTruth /\ WatchHere

\* Every step of the bridge and of the watcher preserves it.
LEMMA WatchStep ==
  ASSUME WatchInv, [WatcherNext]_vars
  PROVE  WatchInv'
<1>1. IInv /\ TellsTruth /\ WatchHere
  BY DEF WatchInv
<1>2. /\ events \in Seq(EventRecord) /\ withdrawals \in Seq(WithdrawalRecord)
      /\ Told(events, withdrawals)
  BY <1>1 DEF TellsTruth, Telling
<1>3. CASE [BridgeNext]_bridgeVars /\ UNCHANGED watchVars
  <2>1. IInv' /\ TellsTruth' /\ GrowsHere
    BY <1>1, <1>3, StepInv, StepTells
  <2>2. events' \in Seq(EventRecord)
    BY <2>1 DEF TellsTruth, Telling
  <2>3. UNCHANGED <<retainLog, cursor, seen, retained, flow, pages, checkpoint>>
    BY <1>3 DEF watchVars
  <2>4. WatchHolds(events', withdrawals', cursor, seen, retained, flow, pages, checkpoint, retainLog)
    BY <1>1, <1>2, <2>1, <2>2, WatcherLooksOn DEF GrowsHere, WatchHere
  <2>5. QED
    BY <2>1, <2>3, <2>4 DEF WatchInv, WatchHere
<1>4. CASE WatchNext
  <2>1. UNCHANGED bridgeVars
    BY <1>4 DEF WatchNext, pollRead, pollFold, saveCheckpoint, createWatcher
  <2>2. IInv' /\ TellsTruth'
    BY <1>1, <2>1, StepInv, StepTells
  <2>3. WatchHere'
    BY <1>1, <1>2, <1>4, ReadHolds, FoldHolds, SaveHolds, CreateHolds DEF WatchNext
  <2>4. QED
    BY <2>2, <2>3 DEF WatchInv
<1>5. CASE UNCHANGED vars
  BY <1>3, <1>5 DEF vars
<1>6. QED
  BY <1>3, <1>4, <1>5 DEF WatcherNext

\* It holds the summary to the truth at the end of the log.
LEMMA TruthWhenCaughtUp ==
  ASSUME WatchInv
  PROVE  FlowIsTruth
<1> SUFFICES ASSUME cursor = Len(events)
             PROVE  /\ flow.queueDepth = Sats(withdrawals, InQueue)
                    /\ flow.pendingMint = Sats(deposits, {"Approved"})
                    /\ flow.pendingBurn >= Sats(withdrawals, InQueue \cup {"Signed"})
                    /\ retainLog => flow.pendingBurn = Sats(withdrawals, InQueue \cup {"Signed"})
  BY DEF FlowIsTruth
<1> DEFINE g == Truth(deposits, withdrawals)
<1>1. Near(flow, g, retainLog)
  BY DEF WatchInv, WatchHere, WatchHolds, TellsTruth, Telling
<1>2. /\ g.pendingMint = Sats(deposits, {"Approved"})
      /\ g.pendingBurn = Sats(withdrawals, InQueue \cup {"Signed"})
      /\ g.queueDepth = Sats(withdrawals, InQueue)
  BY DEF Truth
<1> HIDE DEF g
<1>3. QED
  BY <1>1, <1>2 DEF Near

(* Whatever polls overlap, and however often the watcher is restarted, one that *)
(* has caught up with the log states what is queued, about to be minted and     *)
(* about to be burned (watcher.ts poll, applyFlow and createWatcher).           *)
THEOREM WatcherTellsTruth == WatchSpec => []FlowIsTruth
<1>1. Init /\ WatchInit => WatchInv
  <2> SUFFICES ASSUME Init, WatchInit
               PROVE  WatchInv
    OBVIOUS
  <2>1. IInv /\ TellsTruth
    BY InitInv, StartsTelling
  <2>2. events \in Seq(EventRecord)
    BY <2>1 DEF TellsTruth, Telling
  <2>3. QED
    BY <2>1, <2>2, StartsHolding DEF WatchInv
<1>2. WatchInv /\ [WatcherNext]_vars => WatchInv'
  BY WatchStep
<1>3. WatchInv => FlowIsTruth
  BY TruthWhenCaughtUp
<1>4. QED
  BY <1>1, <1>2, <1>3, PTL DEF WatchSpec

-------------------------------------------------------------------------
(* The log of the live adapter. *)

Emitted == [module : Modules, key : Nat \X Nat \X Nat]

\* No two events have one key; of its transaction, the last event is the latest.
ChainOK(ch) ==
  /\ ch \in Seq(Emitted) /\ Len(ch) <= MaxEvents
  /\ \A p, q \in DOMAIN ch : ch[p].key = ch[q].key => p = q
  /\ \A p \in DOMAIN ch :
       LET k == ch[p].key
           l == ch[Len(ch)].key
       IN k[1] = l[1] /\ k[2] = l[2] => k[3] <= l[3]

InOrder(ch) == \A p \in 2..Len(ch) : compareRawEventKeys(ch[p - 1].key, ch[p].key)

\* A keeper has been handed what is in its log or held.
HandedIn(lg, held, p) == p \in ToSet(lg) \/ held[p] > 0

\* What its cursors have passed was handed to it.
Handed(ch, lg, held, cur) ==
  /\ lg \in Seq(DOMAIN ch) /\ held \in [Positions -> Nat] /\ cur \in [Modules -> 0..Len(ch)]
  /\ \A p \in Positions : held[p] > 0 => p \in DOMAIN ch
  /\ \A p \in DOMAIN ch : p <= cur[ch[p].module] => HandedIn(lg, held, p)

\* So was all that a module it is done with had when the keeper began.
Complete(ch, lg, held, ex, bg) ==
  /\ ex \in SUBSET Modules /\ bg \in NotBegun..Len(ch)
  /\ \A p \in DOMAIN ch : ch[p].module \in ex /\ p <= bg => HandedIn(lg, held, p)

Straight(ch, lg, bg) == InOrder(ch) /\ bg = Len(ch) => OlderFirst(lg)

KeeperOK(ch, lg, held, cur, ex, ms, bg) ==
  /\ Handed(ch, lg, held, cur) /\ Complete(ch, lg, held, ex, bg) /\ Straight(ch, lg, bg)
  /\ bg = NotBegun => ex = {} /\ ms = {} /\ lg = <<>>
  /\ Modules \subseteq ex => \A p \in Positions : held[p] = 0
  /\ ms \in SUBSET DOMAIN ch /\ \A p \in ms : p > bg

\* A query under way starts after what was handed over, and was sent no earlier than
\* the first one.
CallOK(ch, lg, held, bg, c) ==
  /\ c \in CallRecord
  /\ c # Idle => bg # NotBegun
  /\ c.goal = "digest" => c.arg \in DOMAIN ch
  /\ c.turn # 0 =>
       /\ c.after <= c.sent /\ c.sent <= Len(ch) /\ bg <= c.sent
       /\ \A p \in DOMAIN ch :
            ch[p].module = EVENT_MODULES[c.turn] /\ p <= c.after => HandedIn(lg, held, p)

\* While calls do not overlap, what was handed over is what the cursors have passed,
\* and nothing is handed over twice.
Single(ch, lg, held, cur) ==
  /\ \A p \in Positions : held[p] <= 1 /\ (held[p] > 0 => p \notin ToSet(lg))
  /\ \A p \in DOMAIN ch : HandedIn(lg, held, p) => p <= cur[ch[p].module]
  /\ IsInjective(lg)

OneAtATime(cur, cl) ==
  /\ \A a, b \in Calls : cl[a] # Idle /\ cl[b] # Idle => a = b
  /\ \A a \in Calls : cl[a].turn # 0 => cl[a].after = cur[EVENT_MODULES[cl[a].turn]]

KeeperInv(ch, lg, held, cur, ex, ms, bg, cl, alone) ==
  /\ KeeperOK(ch, lg, held, cur, ex, ms, bg)
  /\ \A c \in Calls : CallOK(ch, lg, held, bg, cl[c])
  /\ alone => Single(ch, lg, held, cur) /\ OneAtATime(cur, cl)

MergeShape ==
  /\ pageLimit \in [Keepers -> PageLimits]
  /\ log \in [Keepers -> Seq(Nat)] /\ holding \in [Keepers -> [Positions -> Nat]]
  /\ moduleCursors \in [Keepers -> [Modules -> Nat]]
  /\ exhausted \in [Keepers -> SUBSET Modules] /\ missing \in [Keepers -> SUBSET Nat]
  /\ began \in [Keepers -> Int] /\ call \in [Keepers -> [Calls -> CallRecord]]

\* The inductive invariant.
MergeInv ==
  /\ MergeShape /\ ChainOK(chain)
  /\ \A k \in Keepers :
       KeeperInv(chain, log[k], holding[k], moduleCursors[k], exhausted[k], missing[k],
                 began[k], call[k], k \notin overlapped)

------------------------------------------------------------------------
(* Keys. *)

\* Keys are compared as numbers are, component by component.
LEMMA KeysCompare ==
  ASSUME NEW a \in Nat \X Nat \X Nat, NEW b \in Nat \X Nat \X Nat, NEW c \in Nat \X Nat \X Nat
  PROVE  /\ ~compareRawEventKeys(a, a)
         /\ compareRawEventKeys(a, b) \/ compareRawEventKeys(b, a) \/ a = b
         /\ compareRawEventKeys(a, b) /\ compareRawEventKeys(b, c) => compareRawEventKeys(a, c)
<1>1. a[1] \in Nat /\ a[2] \in Nat /\ a[3] \in Nat /\ a = <<a[1], a[2], a[3]>>
  OBVIOUS
<1>2. b[1] \in Nat /\ b[2] \in Nat /\ b[3] \in Nat /\ b = <<b[1], b[2], b[3]>>
  OBVIOUS
<1>3. c[1] \in Nat /\ c[2] \in Nat /\ c[3] \in Nat
  OBVIOUS
<1>4. a[1] = b[1] /\ a[2] = b[2] /\ a[3] = b[3] => a = b
  BY <1>1, <1>2
<1>5. QED
  BY <1>1, <1>2, <1>3, <1>4 DEF compareRawEventKeys

\* So positions are: before is a strict order, and no two positions tie.
LEMMA PositionsCompare ==
  ASSUME ChainOK(chain), NEW p \in DOMAIN chain, NEW q \in DOMAIN chain
  PROVE  /\ ~before(p, p)
         /\ before(p, q) \/ before(q, p) \/ p = q
         /\ \A r \in DOMAIN chain : before(p, q) /\ before(q, r) => before(p, r)
<1>1. \A r \in DOMAIN chain : chain[r].key \in Nat \X Nat \X Nat
  <2>1. \A e \in Emitted : e.key \in Nat \X Nat \X Nat
    BY Zenon DEF Emitted
  <2>2. \A r \in DOMAIN chain : chain[r] \in Emitted
    <3> HIDE DEF Emitted
    <3>1. QED
      BY DEF ChainOK
  <2>3. QED
    BY Zenon, <2>1, <2>2
<1>2. chain[p].key = chain[q].key => p = q
  BY DEF ChainOK
<1>3. ~before(p, p) /\ (before(p, q) \/ before(q, p) \/ p = q)
  BY <1>1, <1>2, KeysCompare DEF before, rawEventKey
<1>4. ASSUME NEW r \in DOMAIN chain
      PROVE  before(p, q) /\ before(q, r) => before(p, r)
  BY <1>1, KeysCompare DEF before, rawEventKey
<1>5. QED
  BY <1>3, <1>4

\* In a chain in key order, the order of the keys is that of the positions.
LEMMA InOrderCompares ==
  ASSUME ChainOK(chain), InOrder(chain)
  PROVE  \A p, q \in DOMAIN chain : before(p, q) <=> p < q
<1> DEFINE n == Len(chain)
           Good == {d \in Nat : \A p \in 1..n : d > 0 /\ p + d \in 1..n => before(p, p + d)}
<1>1. n \in Nat /\ DOMAIN chain = 1..n
  BY DEF ChainOK
<1>2. 0 \in Good
  OBVIOUS
<1>3. ASSUME NEW d \in Nat, d \in Good
      PROVE  d + 1 \in Good
  <2> SUFFICES ASSUME NEW p \in 1..n, p + (d + 1) \in 1..n
               PROVE  before(p, p + (d + 1))
    OBVIOUS
  <2>1. p + d \in 1..n /\ p + (d + 1) \in 2..n /\ (p + (d + 1)) - 1 = p + d
    BY <1>1
  <2>2. before(p + d, p + (d + 1))
    BY <2>1 DEF InOrder, before, rawEventKey
  <2>3. CASE d = 0
    BY <2>2, <2>3, <1>1
  <2>4. CASE d > 0
    <3>1. before(p, p + d)
      BY <1>3, <2>1, <2>4
    <3>2. QED
      BY <1>1, <2>1, <2>2, <3>1, PositionsCompare
  <2>5. QED
    BY <2>3, <2>4
<1> HIDE DEF Good
<1>4. \A d \in Nat : d \in Good
  BY <1>2, <1>3, NatSetInduction
<1>5. \A p, q \in 1..n : p < q => before(p, q)
  <2>1. TAKE p, q \in 1..n
  <2>2. HAVE p < q
  <2>3. q - p \in Nat /\ q - p > 0 /\ p + (q - p) = q
    BY <1>1, <2>2
  <2>4. q - p \in Good
    BY <1>4, <2>3
  <2>5. QED
    BY <2>3, <2>4 DEF Good
<1>6. ASSUME NEW p \in DOMAIN chain, NEW q \in DOMAIN chain
      PROVE  before(p, q) <=> p < q
  <2>1. p \in Int /\ q \in Int /\ (p < q => before(p, q)) /\ (q < p => before(q, p))
    BY <1>1, <1>5
  <2>2. ~before(p, p) /\ ~(before(p, q) /\ before(q, p))
    BY PositionsCompare
  <2>3. QED
    BY <2>1, <2>2
<1>7. QED
  BY <1>6

------------------------------------------------------------------------
(* What a query answers, and whose turn it is. *)

\* There is a module, and those still to come are known by their turn.
LEMMA WhoseTurn ==
  ASSUME NEW t \in Nat \ {0}, NEW spent
  PROVE  /\ nextLive(t, spent) # 0 => /\ nextLive(t, spent) \in t..Len(EVENT_MODULES)
                                      /\ EVENT_MODULES[nextLive(t, spent)] \in Modules \ spent
         /\ nextLive(t, spent) = 0 <=> \A i \in t..Len(EVENT_MODULES) : EVENT_MODULES[i] \in spent
<1> DEFINE ahead == {i \in t..Len(EVENT_MODULES) : EVENT_MODULES[i] \notin spent}
<1>1. Len(EVENT_MODULES) \in Nat /\ EVENT_MODULES \in Seq(STRING)
  BY MergeAssumption
<1>2. ahead \subseteq Int /\ IsFiniteSet(ahead)
  <2>1. t \in Int /\ Len(EVENT_MODULES) \in Int
    BY <1>1
  <2>2. IsFiniteSet(t..Len(EVENT_MODULES))
    BY <2>1, FS_Interval
  <2>3. QED
    BY <2>1, <2>2, FS_Subset
<1>3. nextLive(t, spent) = IF ahead = {} THEN 0 ELSE CHOOSE i \in ahead : \A j \in ahead : i <= j
  BY DEF nextLive
<1>4. ASSUME ahead # {}
      PROVE  nextLive(t, spent) \in ahead
  <2> HIDE DEF ahead
  <2>1. \E i \in ahead : \A j \in ahead : i <= j
    BY <1>2, <1>4, MinOfSet
  <2>2. QED
    BY <1>3, <1>4, <2>1
<1>5. \A i \in 1..Len(EVENT_MODULES) : EVENT_MODULES[i] \in Modules
  BY <1>1 DEF Modules, ToSet
<1>6. ahead = {} <=> \A i \in t..Len(EVENT_MODULES) : EVENT_MODULES[i] \in spent
  OBVIOUS
<1>7. \A i \in ahead : i \in t..Len(EVENT_MODULES) /\ i # 0 /\ EVENT_MODULES[i] \in Modules \ spent
  BY <1>1, <1>5
<1> HIDE DEF ahead
<1>8. QED
  BY <1>3, <1>4, <1>6, <1>7

\* When nobody has a turn, every module is spent, and the other way round.
LEMMA AllSpent ==
  ASSUME NEW spent
  PROVE  /\ nextLive(1, spent) = 0 <=> Modules \subseteq spent
         /\ \A t \in Nat \ {0} : Modules \subseteq spent => nextLive(t, spent) = 0
<1>1. DOMAIN EVENT_MODULES = 1..Len(EVENT_MODULES) /\ Len(EVENT_MODULES) \in Nat
  BY MergeAssumption
<1>2. Modules \subseteq spent <=> \A i \in 1..Len(EVENT_MODULES) : EVENT_MODULES[i] \in spent
  BY <1>1 DEF Modules, ToSet
<1>3. nextLive(1, spent) = 0 <=> \A i \in 1..Len(EVENT_MODULES) : EVENT_MODULES[i] \in spent
  BY WhoseTurn
<1>4. ASSUME NEW t \in Nat \ {0}, Modules \subseteq spent
      PROVE  nextLive(t, spent) = 0
  <2>1. \A i \in t..Len(EVENT_MODULES) : EVENT_MODULES[i] \in spent
    BY <1>1, <1>2, <1>4
  <2>2. QED
    BY <2>1, WhoseTurn
<1>5. QED
  BY <1>2, <1>3, <1>4

LEMMA SomeModule == ~(Modules \subseteq {})
<1>1. 1 \in DOMAIN EVENT_MODULES
  BY MergeAssumption
<1>2. QED
  BY <1>1 DEF Modules, ToSet

\* A page is the events of the module from where it starts to where its cursor ends;
\* the last page leaves none of those there when it was read.
PageIs(m, after, length, ans, end) ==
  /\ end \in after..length /\ ans.data \in SUBSET DOMAIN chain
  /\ \A p \in DOMAIN chain :
       p \in ans.data <=> chain[p].module = m /\ after < p /\ p <= end
  /\ ~ans.hasNextPage => \A p \in DOMAIN chain : chain[p].module = m /\ p <= length => p <= end

LEMMA PageHands ==
  ASSUME ChainOK(chain), NEW m \in Modules, NEW length \in 0..Len(chain), NEW after \in 0..length,
         NEW limit \in Nat \ {0}, NEW ans, ans = page(m, after, limit, length), NEW end, end = cursorAfter(after, ans)
  PROVE  PageIs(m, after, length, ans, end)
<1> DEFINE n == length
           all == stream(m, after, length)
           upto(p) == {q \in all : q <= p}
           data == {p \in all : Cardinality(upto(p)) <= limit}
<1>1. n \in Nat /\ DOMAIN chain = 1..Len(chain) /\ n <= Len(chain) /\ Len(chain) \in Nat
  BY DEF ChainOK
<1>2. ans = [data |-> data, hasNextPage |-> Cardinality(all) > limit]
  BY DEF page
<1>3. ans.data = data /\ ans.hasNextPage = (Cardinality(all) > limit)
  BY <1>2
<1>4. all = {p \in 1..n : p > after /\ chain[p].module = m}
  BY <1>1 DEF stream
<1>5. IsFiniteSet(all) /\ Cardinality(all) \in Nat
  <2>1. 1 \in Int /\ n \in Int /\ all \subseteq 1..n
    BY <1>1, <1>4
  <2> HIDE DEF n, all
  <2>2. IsFiniteSet(1..n)
    BY <2>1, FS_Interval
  <2>3. QED
    BY <2>1, <2>2, FS_Subset, FS_CardinalityType
<1>6. ASSUME NEW p \in all
      PROVE  IsFiniteSet(upto(p)) /\ Cardinality(upto(p)) \in Nat
             /\ Cardinality(upto(p)) <= Cardinality(all)
  <2>1. upto(p) \in SUBSET all
    OBVIOUS
  <2> HIDE DEF upto, all
  <2>2. QED
    BY <1>5, <2>1, FS_Subset, FS_CardinalityType
<1>7. ASSUME NEW p \in data, NEW q \in all, q <= p
      PROVE  q \in data
  <2>1. upto(q) \in SUBSET upto(p) /\ p \in all
    BY <1>1, <1>4, <1>7
  <2>2. Cardinality(upto(q)) <= Cardinality(upto(p)) /\ Cardinality(upto(q)) \in Nat
        /\ Cardinality(upto(p)) \in Nat /\ Cardinality(upto(p)) <= limit
    <3>1. IsFiniteSet(upto(p)) /\ Cardinality(upto(p)) \in Nat /\ Cardinality(upto(q)) \in Nat
      BY <1>6, <2>1
    <3>2. Cardinality(upto(p)) <= limit
      OBVIOUS
    <3> HIDE DEF upto, all, data
    <3>3. QED
      BY <2>1, <3>1, <3>2, FS_Subset
  <2> HIDE DEF upto
  <2>3. Cardinality(upto(q)) <= limit
    BY <2>2
  <2>4. QED
    BY <2>3
<1>8. ~ans.hasNextPage => data = all
  <2>1. ASSUME ~ans.hasNextPage, NEW p \in all
        PROVE  Cardinality(upto(p)) <= limit
    <3>1. ~(Cardinality(all) > limit) /\ Cardinality(all) \in Nat
      BY <1>3, <1>5, <2>1
    <3>2. Cardinality(upto(p)) \in Nat /\ Cardinality(upto(p)) <= Cardinality(all)
      BY <1>6
    <3> HIDE DEF upto, all
    <3>3. QED
      BY <3>1, <3>2
  <2> HIDE DEF upto, all
  <2>2. QED
    BY <2>1
<1>9. data \subseteq all /\ IsFiniteSet(data)
  <2>1. data \subseteq all
    OBVIOUS
  <2> HIDE DEF data, all
  <2>2. QED
    BY <1>5, <2>1, FS_Subset
<1>10. end = IF data = {} THEN after ELSE Max(data)
  BY <1>3 DEF cursorAfter
<1> HIDE DEF data, upto
<1>11. data # {} => Max(data) \in data /\ \A p \in data : p <= Max(data)
  <2>1. data \subseteq Int
    BY <1>1, <1>4, <1>9
  <2>2. QED
    BY <1>9, <2>1, MaxOfSet
<1>12. \A p \in data : p \in 1..n /\ p > after /\ chain[p].module = m
  BY <1>4, <1>9
<1>13. end \in after..n
  BY <1>1, <1>10, <1>11, <1>12
<1>14. \A p \in DOMAIN chain : p \in data <=> chain[p].module = m /\ after < p /\ p <= end
  <2>1. TAKE p \in DOMAIN chain
  <2>2. p \in data => chain[p].module = m /\ after < p /\ p <= end
    BY <1>1, <1>10, <1>11, <1>12
  <2>3. ASSUME chain[p].module = m, after < p, p <= end
        PROVE  p \in data
    <3>1. p \in all
      BY <1>1, <1>4, <1>13, <2>3
    <3>2. data # {} /\ end = Max(data)
      BY <1>1, <1>10, <2>3
    <3>3. QED
      BY <1>7, <1>11, <2>3, <3>1, <3>2
  <2>4. QED
    BY <2>2, <2>3
<1>15. ~ans.hasNextPage => \A p \in DOMAIN chain : chain[p].module = m /\ p <= n => p <= end
  <2>1. SUFFICES ASSUME data = all, NEW p \in DOMAIN chain, chain[p].module = m, p <= n
                 PROVE  p <= end
    BY <1>8
  <2>2. CASE p <= after
    BY <1>1, <1>13, <2>2
  <2>3. CASE p > after
    <3>1. p \in data
      BY <1>1, <1>4, <2>1, <2>3
    <3>2. QED
      BY <1>14, <3>1
  <2>4. QED
    BY <1>1, <2>2, <2>3
<1>16. data \in SUBSET DOMAIN chain
  BY <1>1, <1>12
<1>17. QED
  BY <1>3, <1>13, <1>14, <1>15, <1>16 DEF PageIs

------------------------------------------------------------------------
(* One answer, for one keeper. *)

\* A query under way, and what its answer does to the held events and the cursors.
Answered(cur, ex, c, limit, length, ans, high, spent) ==
  LET m == EVENT_MODULES[c.turn]
  IN /\ c.turn # 0 /\ length \in c.sent..Len(chain) /\ ans = page(m, c.after, limit, length)
     /\ high = [cur EXCEPT ![m] = cursorAfter(c.after, ans)]
     /\ spent = IF ans.hasNextPage THEN ex ELSE ex \cup {m}

\* What the answer holds is all of its module between where the query starts and where
\* the cursor goes, which is past what there was at the first query if no page is left.
Gives(cur, ex, c, ans, high, spent) ==
  LET m == EVENT_MODULES[c.turn]
  IN /\ m \in Modules /\ high \in [Modules -> 0..Len(chain)]
     /\ ans.data \in SUBSET DOMAIN chain /\ high[m] >= c.after
     /\ \A j \in Modules : j # m => high[j] = cur[j]
     /\ \A p \in DOMAIN chain :
          p \in ans.data <=> chain[p].module = m /\ c.after < p /\ p <= high[m]
     /\ spent # ex =>
          /\ spent = ex \cup {m}
          /\ \A p \in DOMAIN chain : chain[p].module = m /\ p <= c.sent => p <= high[m]

LEMMA AnswerHands ==
  ASSUME ChainOK(chain), NEW cur \in [Modules -> 0..Len(chain)], NEW ex, NEW c \in CallRecord,
         c.after <= c.sent, c.sent <= Len(chain), NEW limit \in Nat \ {0}, NEW length,
         NEW ans, NEW high, NEW spent, Answered(cur, ex, c, limit, length, ans, high, spent)
  PROVE  Gives(cur, ex, c, ans, high, spent)
<1> DEFINE m == EVENT_MODULES[c.turn]
<1>1. c.turn \in 0..Len(EVENT_MODULES) /\ c.after \in Nat /\ c.sent \in Nat
  BY DEF CallRecord
<1>2. Len(chain) \in Nat /\ Len(EVENT_MODULES) \in Nat /\ EVENT_MODULES \in Seq(STRING)
  BY MergeAssumption DEF ChainOK
<1>3. c.turn # 0 /\ length \in c.sent..Len(chain) /\ ans = page(m, c.after, limit, length)
      /\ high = [cur EXCEPT ![m] = cursorAfter(c.after, ans)]
      /\ spent = IF ans.hasNextPage THEN ex ELSE ex \cup {m}
  BY DEF Answered
<1>4. m \in Modules
  BY <1>1, <1>2, <1>3 DEF Modules, ToSet
<1>5. length \in 0..Len(chain) /\ c.after \in 0..length /\ length \in Nat
  BY <1>1, <1>2, <1>3
<1> DEFINE end == cursorAfter(c.after, ans)
<1>6. end = cursorAfter(c.after, ans)
  OBVIOUS
<1> HIDE DEF end
<1>7. /\ end \in c.after..length /\ ans.data \in SUBSET DOMAIN chain
      /\ \A p \in DOMAIN chain :
           p \in ans.data <=> chain[p].module = m /\ c.after < p /\ p <= end
      /\ ~ans.hasNextPage => \A p \in DOMAIN chain : chain[p].module = m /\ p <= length => p <= end
  <2>1. PageIs(m, c.after, length, ans, end)
    <3> HIDE DEF m
    <3>1. QED
      BY Zenon, <1>3, <1>4, <1>5, <1>6, PageHands
  <2>2. QED
    BY <2>1 DEF PageIs
<1>8. end \in 0..Len(chain) /\ end >= c.after
  BY <1>1, <1>2, <1>5, <1>7
<1>9. high[m] = end /\ high \in [Modules -> 0..Len(chain)] /\ \A j \in Modules : j # m => high[j] = cur[j]
  BY <1>3, <1>4, <1>6, <1>8
<1>10. ASSUME spent # ex
       PROVE  /\ spent = ex \cup {m}
              /\ \A p \in DOMAIN chain : chain[p].module = m /\ p <= c.sent => p <= high[m]
  <2>1. spent = ex \cup {m} /\ \A p \in DOMAIN chain : chain[p].module = m /\ p <= length => p <= end
    BY <1>3, <1>7, <1>10
  <2>2. \A p \in DOMAIN chain : p <= c.sent => p <= length
    BY <1>1, <1>2, <1>3
  <2>3. QED
    BY <1>9, <2>1, <2>2
<1>11. QED
  BY <1>4, <1>7, <1>8, <1>9, <1>10 DEF Gives

\* Nothing that was handed over is lost when more is.
More(held, held2) ==
  held2 \in [Positions -> Nat] /\ \A p \in Positions : held[p] > 0 => held2[p] > 0

\* What arrives is held.
LEMMA ArrivesHeld ==
  ASSUME ChainOK(chain), NEW lg, NEW held, NEW cur, NEW ex, NEW bg,
         Handed(chain, lg, held, cur), Complete(chain, lg, held, ex, bg),
         NEW c, CallOK(chain, lg, held, bg, c), NEW limit \in Nat \ {0}, NEW length,
         NEW ans, NEW high, NEW spent, Answered(cur, ex, c, limit, length, ans, high, spent)
  PROVE  /\ More(held, pushed(held, ans.data)) /\ Handed(chain, lg, pushed(held, ans.data), high)
         /\ Complete(chain, lg, pushed(held, ans.data), spent, bg)
<1> DEFINE m == EVENT_MODULES[c.turn]
           held2 == pushed(held, ans.data)
<1>1. /\ lg \in Seq(DOMAIN chain) /\ held \in [Positions -> Nat] /\ cur \in [Modules -> 0..Len(chain)]
      /\ \A p \in Positions : held[p] > 0 => p \in DOMAIN chain
      /\ \A p \in DOMAIN chain : p <= cur[chain[p].module] => p \in ToSet(lg) \/ held[p] > 0
  BY DEF Handed, HandedIn
<1>2. /\ ex \in SUBSET Modules /\ bg \in NotBegun..Len(chain)
      /\ \A p \in DOMAIN chain : chain[p].module \in ex /\ p <= bg => p \in ToSet(lg) \/ held[p] > 0
  BY DEF Complete, HandedIn
<1>3. /\ c \in CallRecord /\ c.turn # 0 /\ c.after <= c.sent /\ c.sent <= Len(chain) /\ bg <= c.sent
      /\ \A p \in DOMAIN chain : chain[p].module = m /\ p <= c.after => p \in ToSet(lg) \/ held[p] > 0
  BY DEF CallOK, Answered, HandedIn
<1>4. m = EVENT_MODULES[c.turn]
  OBVIOUS
<1> HIDE DEF m
<1>5. /\ m \in Modules /\ high \in [Modules -> 0..Len(chain)]
      /\ ans.data \in SUBSET DOMAIN chain /\ high[m] >= c.after
      /\ \A j \in Modules : j # m => high[j] = cur[j]
      /\ \A p \in DOMAIN chain :
           p \in ans.data <=> chain[p].module = m /\ c.after < p /\ p <= high[m]
      /\ spent # ex =>
           /\ spent = ex \cup {m}
           /\ \A p \in DOMAIN chain : chain[p].module = m /\ p <= c.sent => p <= high[m]
  <2>1. Gives(cur, ex, c, ans, high, spent)
    BY Zenon, <1>1, <1>3, AnswerHands
  <2>2. QED
    BY <1>4, <2>1 DEF Gives
<1>6. DOMAIN chain = 1..Len(chain) /\ Len(chain) \in Nat /\ DOMAIN chain \subseteq Positions
  BY MergeAssumption DEF ChainOK, Positions
<1>7. \A p \in DOMAIN chain : chain[p].module \in Modules
  <2>1. \A e \in Emitted : e.module \in Modules
    BY DEF Emitted
  <2>2. chain \in Seq(Emitted)
    BY DEF ChainOK
  <2> HIDE DEF Emitted
  <2>3. QED
    BY <2>1, <2>2
<1>8. held2 \in [Positions -> Nat]
      /\ \A p \in Positions : held2[p] > 0 <=> held[p] > 0 \/ p \in ans.data
  BY <1>1 DEF pushed
<1> HIDE DEF held2
<1>9. \A p \in DOMAIN chain :
        chain[p].module = m /\ p <= high[m] => p \in ToSet(lg) \/ held2[p] > 0
  <2>1. TAKE p \in DOMAIN chain
  <2>2. p \in Int /\ c.after \in Int /\ p \in Positions
    BY <1>3, <1>6 DEF CallRecord
  <2>3. QED
    BY <1>3, <1>5, <1>8, <2>2
<1>10. \A p \in Positions : held2[p] > 0 => p \in DOMAIN chain
  BY <1>1, <1>5, <1>8
<1>11. ASSUME NEW p \in DOMAIN chain, p <= high[chain[p].module]
       PROVE  HandedIn(lg, held2, p)
  <2>1. CASE chain[p].module = m
    BY <1>9, <1>11, <2>1 DEF HandedIn
  <2>2. CASE chain[p].module # m
    BY <1>1, <1>5, <1>6, <1>7, <1>8, <1>11, <2>2 DEF HandedIn
  <2>3. QED
    BY <2>1, <2>2
<1>12. ASSUME NEW p \in DOMAIN chain, chain[p].module \in spent, p <= bg
       PROVE  HandedIn(lg, held2, p)
  <2>1. CASE chain[p].module \in ex
    BY <1>2, <1>6, <1>8, <1>12, <2>1 DEF HandedIn
  <2>2. CASE chain[p].module \notin ex
    <3>1. chain[p].module = m
      BY <1>5, <1>12, <2>2
    <3>2. spent # ex
      BY <1>12, <2>2
    <3>3. p <= c.sent
      <4>1. p \in Int /\ bg \in Int /\ c.sent \in Int
        BY <1>2, <1>3, <1>6 DEF CallRecord, NotBegun
      <4>2. QED
        BY <1>3, <1>12, <4>1
    <3>4. QED
      BY <1>5, <1>9, <3>1, <3>2, <3>3 DEF HandedIn
  <2>3. QED
    BY <2>1, <2>2
<1>13. spent \in SUBSET Modules
  BY <1>2, <1>5
<1>14. Handed(chain, lg, held2, high)
  BY <1>1, <1>5, <1>8, <1>10, <1>11 DEF Handed
<1>15. Complete(chain, lg, held2, spent, bg)
  BY <1>2, <1>12, <1>13 DEF Complete
<1>16. More(held, held2)
  BY <1>8 DEF More
<1>17. QED
  BY <1>14, <1>15, <1>16 DEF held2

\* A query that starts at its module's cursor is handed nothing twice.
LEMMA ArrivesOnce ==
  ASSUME ChainOK(chain), NEW lg, NEW held, NEW cur, NEW ex, NEW bg,
         Handed(chain, lg, held, cur), Single(chain, lg, held, cur),
         NEW c, CallOK(chain, lg, held, bg, c), NEW limit \in Nat \ {0}, NEW length,
         NEW ans, NEW high, NEW spent, Answered(cur, ex, c, limit, length, ans, high, spent),
         c.after = cur[EVENT_MODULES[c.turn]]
  PROVE  Single(chain, lg, pushed(held, ans.data), high)
<1> DEFINE m == EVENT_MODULES[c.turn]
           held2 == pushed(held, ans.data)
<1>1. /\ lg \in Seq(DOMAIN chain) /\ held \in [Positions -> Nat] /\ cur \in [Modules -> 0..Len(chain)]
      /\ \A p \in Positions : held[p] > 0 => p \in DOMAIN chain
  BY DEF Handed
<1>2. /\ \A p \in Positions : held[p] <= 1 /\ (held[p] > 0 => p \notin ToSet(lg))
      /\ \A p \in DOMAIN chain : HandedIn(lg, held, p) => p <= cur[chain[p].module]
      /\ IsInjective(lg)
  BY DEF Single
<1>3. c \in CallRecord /\ c.turn # 0 /\ c.after <= c.sent /\ c.sent <= Len(chain)
  BY DEF CallOK, Answered
<1>4. m = EVENT_MODULES[c.turn] /\ c.after = cur[m]
  OBVIOUS
<1> HIDE DEF m
<1>5. /\ m \in Modules /\ high \in [Modules -> 0..Len(chain)]
      /\ ans.data \in SUBSET DOMAIN chain /\ high[m] >= c.after
      /\ \A j \in Modules : j # m => high[j] = cur[j]
      /\ \A p \in DOMAIN chain :
           p \in ans.data <=> chain[p].module = m /\ c.after < p /\ p <= high[m]
  <2>1. Gives(cur, ex, c, ans, high, spent)
    BY Zenon, <1>1, <1>3, AnswerHands
  <2>2. QED
    BY <1>4, <2>1 DEF Gives
<1>6. DOMAIN chain = 1..Len(chain) /\ Len(chain) \in Nat /\ DOMAIN chain \subseteq Positions
  BY MergeAssumption DEF ChainOK, Positions
<1>7. \A p \in DOMAIN chain : chain[p].module \in Modules
  <2>1. \A e \in Emitted : e.module \in Modules
    BY DEF Emitted
  <2>2. chain \in Seq(Emitted)
    BY DEF ChainOK
  <2> HIDE DEF Emitted
  <2>3. QED
    BY <2>1, <2>2
<1>8. held2 \in [Positions -> Nat]
      /\ \A p \in Positions : held2[p] = IF p \in ans.data THEN held[p] + 1 ELSE held[p]
  BY <1>1 DEF pushed
<1> HIDE DEF held2
<1>9. ASSUME NEW p \in ans.data
      PROVE  p \in Positions /\ p \notin ToSet(lg) /\ held[p] = 0
  <2>1. p \in DOMAIN chain /\ chain[p].module = m /\ cur[m] < p /\ p \in Positions
    BY <1>4, <1>5, <1>6
  <2>2. ~(p <= cur[m])
    BY <1>1, <1>5, <1>6, <2>1
  <2>3. ~HandedIn(lg, held, p)
    BY <1>2, <2>1, <2>2
  <2>4. p \notin ToSet(lg) /\ ~(held[p] > 0) /\ held[p] \in Nat
    BY <1>1, <2>1, <2>3 DEF HandedIn
  <2>5. QED
    BY <2>1, <2>4
<1>10. ASSUME NEW p \in Positions
       PROVE  held2[p] <= 1 /\ (held2[p] > 0 => p \notin ToSet(lg))
  <2>1. CASE p \in ans.data
    BY <1>8, <1>9, <2>1
  <2>2. CASE p \notin ans.data
    BY <1>2, <1>8, <2>2
  <2>3. QED
    BY <2>1, <2>2
<1>11. ASSUME NEW p \in DOMAIN chain, HandedIn(lg, held2, p)
       PROVE  p <= high[chain[p].module]
  <2>1. p \in Positions /\ p \in Int
    BY <1>6
  <2>2. CASE p \in ans.data
    BY <1>5, <2>2
  <2>3. CASE p \notin ans.data
    <3>1. HandedIn(lg, held, p)
      BY <1>8, <1>11, <2>1, <2>3 DEF HandedIn
    <3>2. p <= cur[chain[p].module]
      BY <1>2, <3>1
    <3>3. CASE chain[p].module = m
      BY <1>1, <1>4, <1>5, <2>1, <3>2, <3>3
    <3>4. CASE chain[p].module # m
      BY <1>5, <1>7, <3>2, <3>4
    <3>5. QED
      BY <3>3, <3>4
  <2>4. QED
    BY <2>2, <2>3
<1>12. Single(chain, lg, held2, high)
  BY <1>2, <1>10, <1>11 DEF Single
<1>13. QED
  BY <1>12 DEF held2

------------------------------------------------------------------------
(* What a round releases. *)

\* What is released is what was ready, in key order.
LEMMA ReleasedListed ==
  ASSUME ChainOK(chain), NEW ready \in [Positions -> Nat],
         \A p \in Positions : ready[p] > 0 => p \in DOMAIN chain, NEW s \in released(ready)
  PROVE  /\ s \in Seq(DOMAIN chain)
         /\ \A p \in Positions : p \in ToSet(s) <=> ready[p] > 0
         /\ \A i, j \in 1..Len(s) : i < j => ~before(s[j], s[i])
         /\ (\A p \in Positions : ready[p] <= 1) => IsInjective(s)
<1> DEFINE kinds == {p \in Positions : ready[p] > 0}
           each == {{p} \X (1..ready[p]) : p \in kinds}
           copies == UNION each
           N == Cardinality(copies)
<1>1. IsFiniteSet(kinds)
  <2>1. MaxEvents \in Int /\ 1 \in Int
    BY MergeAssumption
  <2>2. IsFiniteSet(1..MaxEvents)
    BY <2>1, FS_Interval
  <2>3. kinds \subseteq 1..MaxEvents
    BY DEF Positions
  <2> HIDE DEF kinds
  <2>4. QED
    BY <2>2, <2>3, FS_Subset
<1>2. \A p \in kinds : IsFiniteSet({p} \X (1..ready[p]))
  <2>1. TAKE p \in kinds
  <2>2. ready[p] \in Int /\ 1 \in Int
    OBVIOUS
  <2>3. IsFiniteSet(1..ready[p]) /\ IsFiniteSet({p})
    BY <2>2, FS_Interval, FS_Singleton
  <2>4. QED
    BY <2>3, FS_Product
<1>3. IsFiniteSet(each)
  <2> DEFINE copiesOf == [p \in kinds |-> {p} \X (1..ready[p])]
  <2>1. copiesOf \in Surjection(kinds, each)
    BY DEF Surjection
  <2> HIDE DEF kinds, each, copiesOf
  <2>2. QED
    BY <1>1, <2>1, FS_Surjection
<1>4. \A T \in each : IsFiniteSet(T)
  BY <1>2
<1>5. N \in Nat
  <2> HIDE DEF each
  <2>1. IsFiniteSet(copies)
    BY <1>3, <1>4, FS_UNION
  <2>2. QED
    BY <2>1, FS_CardinalityType
<1>6. /\ s \in [1..N -> kinds]
      /\ \A p \in kinds : Cardinality({i \in DOMAIN s : s[i] = p}) = ready[p]
      /\ \A i, j \in DOMAIN s : i < j => ~before(s[j], s[i])
  BY DEF released
<1> HIDE DEF N, kinds
<1>7. kinds \subseteq DOMAIN chain /\ \A p \in Positions : p \in kinds <=> ready[p] > 0
  BY DEF kinds
<1>8. s \in Seq(kinds) /\ Len(s) = N /\ DOMAIN s = 1..N
  BY <1>5, <1>6
<1>9. s \in Seq(DOMAIN chain)
  BY <1>5, <1>6, <1>7
<1>10. ASSUME NEW p \in kinds
       PROVE  \E i \in DOMAIN s : s[i] = p
  <2>1. ready[p] > 0 /\ Cardinality({i \in DOMAIN s : s[i] = p}) = ready[p]
    BY <1>6, <1>7, <1>10 DEF kinds
  <2>2. {i \in DOMAIN s : s[i] = p} # {}
    BY <2>1, FS_EmptySet
  <2>3. QED
    BY <2>2
<1>11. \A p \in Positions : p \in ToSet(s) <=> ready[p] > 0
  BY <1>6, <1>7, <1>8, <1>10 DEF ToSet
<1>12. ASSUME \A p \in Positions : ready[p] <= 1, NEW i \in DOMAIN s, NEW j \in DOMAIN s, s[i] = s[j]
       PROVE  i = j
  <2> DEFINE p == s[i]
             at == {h \in DOMAIN s : s[h] = p}
  <2>1. p \in kinds
    BY <1>6, <1>8
  <2>2. p \in Positions /\ ready[p] > 0 /\ ready[p] \in Nat
    BY <2>1 DEF kinds
  <2>3. ready[p] = 1
    BY <1>12, <2>2
  <2>4. Cardinality(at) = 1 /\ i \in at /\ j \in at
    BY <1>6, <1>12, <2>1, <2>3
  <2>5. IsFiniteSet(at)
    <3>1. at \subseteq 1..N /\ N \in Int /\ 1 \in Int
      BY <1>5, <1>8
    <3> HIDE DEF at
    <3>2. IsFiniteSet(1..N)
      BY <3>1, FS_Interval
    <3>3. QED
      BY <3>1, <3>2, FS_Subset
  <2> HIDE DEF at
  <2>6. PICK x : at = {x}
    BY <2>4, <2>5, FS_Singleton
  <2>7. QED
    BY <2>4, <2>6
<1>13. (\A p \in Positions : ready[p] <= 1) => IsInjective(s)
  BY <1>12 DEF IsInjective
<1>14. QED
  BY <1>6, <1>8, <1>9, <1>11, <1>13

\* What of the held events is released, or stays.
Part(held, ready, out) == [p \in Positions |-> IF (p \in ready) = out THEN held[p] ELSE 0]

Releases(lg, held, ex, cur, s, grown, left) ==
  LET ready == orderable({p \in Positions : held[p] > 0}, ex, cur)
  IN s \in released(Part(held, ready, TRUE)) /\ left = Part(held, ready, FALSE) /\ grown = lg \o s

\* The log grows by what was orderable, and that is held no more.
Moves(lg, held, ex, cur, s, grown, left) ==
  LET leaves(p) == held[p] > 0 /\ \A j \in Modules \ ex : cur[j] # 0 /\ before(p, cur[j])
  IN /\ s \in Seq(DOMAIN chain) /\ grown \in Seq(DOMAIN chain)
     /\ Len(grown) = Len(lg) + Len(s) /\ ToSet(grown) = ToSet(lg) \cup ToSet(s)
     /\ \A i \in 1..Len(grown) : grown[i] = IF i <= Len(lg) THEN lg[i] ELSE s[i - Len(lg)]
     /\ \A p \in Positions : p \in ToSet(s) <=> leaves(p)
     /\ left \in [Positions -> Nat] /\ \A p \in Positions : left[p] = IF leaves(p) THEN 0 ELSE held[p]
     /\ \A i, j \in 1..Len(s) : i < j => ~before(s[j], s[i])
     /\ (\A p \in Positions : held[p] <= 1) => IsInjective(s)

LEMMA ReleaseMoves ==
  ASSUME ChainOK(chain), NEW lg, NEW held, NEW cur, Handed(chain, lg, held, cur), NEW ex,
         NEW s, NEW grown, NEW left, Releases(lg, held, ex, cur, s, grown, left)
  PROVE  Moves(lg, held, ex, cur, s, grown, left)
<1> DEFINE ready == orderable({p \in Positions : held[p] > 0}, ex, cur)
           out == Part(held, ready, TRUE)
           leaves(p) == held[p] > 0 /\ \A j \in Modules \ ex : cur[j] # 0 /\ before(p, cur[j])
<1>1. lg \in Seq(DOMAIN chain) /\ held \in [Positions -> Nat]
      /\ \A p \in Positions : held[p] > 0 => p \in DOMAIN chain
  BY DEF Handed
<1>2. s \in released(out) /\ left = Part(held, ready, FALSE) /\ grown = lg \o s
  BY DEF Releases
<1>3. \A p \in Positions : p \in ready <=> leaves(p)
  BY DEF orderable
<1> HIDE DEF ready, leaves
<1>4. out \in [Positions -> Nat] /\ \A p \in Positions : out[p] = IF p \in ready THEN held[p] ELSE 0
  BY <1>1 DEF Part
<1>5. left \in [Positions -> Nat] /\ \A p \in Positions : left[p] = IF p \in ready THEN 0 ELSE held[p]
  BY <1>1, <1>2 DEF Part
<1>6. \A p \in Positions : leaves(p) => held[p] > 0
  BY DEF leaves
<1> HIDE DEF out
<1>7. \A p \in Positions : out[p] > 0 => p \in DOMAIN chain
  <2>1. TAKE p \in Positions
  <2>2. HAVE out[p] > 0
  <2>3. held[p] > 0
    BY <1>4, <2>2
  <2>4. QED
    BY <1>1, <2>3
<1>8. /\ s \in Seq(DOMAIN chain)
      /\ \A p \in Positions : p \in ToSet(s) <=> out[p] > 0
      /\ \A i, j \in 1..Len(s) : i < j => ~before(s[j], s[i])
      /\ (\A p \in Positions : out[p] <= 1) => IsInjective(s)
  BY <1>2, <1>4, <1>7, ReleasedListed
<1>9. \A p \in Positions : p \in ToSet(s) <=> leaves(p)
  BY <1>3, <1>4, <1>6, <1>8
<1>10. (\A p \in Positions : held[p] <= 1) => \A p \in Positions : out[p] <= 1
  BY <1>1, <1>4
<1>11. /\ grown \in Seq(DOMAIN chain) /\ Len(grown) = Len(lg) + Len(s)
       /\ \A i \in 1..Len(grown) : grown[i] = IF i <= Len(lg) THEN lg[i] ELSE s[i - Len(lg)]
  BY <1>1, <1>2, <1>8
<1>12. ToSet(grown) = ToSet(lg) \cup ToSet(s)
  <2>1. Len(lg) \in Nat /\ Len(s) \in Nat /\ DOMAIN lg = 1..Len(lg) /\ DOMAIN s = 1..Len(s)
        /\ DOMAIN grown = 1..(Len(lg) + Len(s))
    BY <1>1, <1>8, <1>11
  <2>2. \A i \in DOMAIN lg : i \in DOMAIN grown /\ grown[i] = lg[i]
    BY <1>11, <2>1
  <2>3. \A i \in DOMAIN s : Len(lg) + i \in DOMAIN grown /\ grown[Len(lg) + i] = s[i]
    BY <1>11, <2>1
  <2>4. \A i \in DOMAIN grown : (i \in DOMAIN lg /\ grown[i] = lg[i])
                                \/ (i - Len(lg) \in DOMAIN s /\ grown[i] = s[i - Len(lg)])
    BY <1>11, <2>1
  <2>5. QED
    BY <2>2, <2>3, <2>4 DEF ToSet
<1>13. QED
  BY <1>3, <1>5, <1>8, <1>9, <1>10, <1>11, <1>12 DEF Moves, leaves

\* A release keeps what is known of a keeper.
LEMMA ReleaseKeeps ==
  ASSUME ChainOK(chain), NEW lg, NEW held, NEW cur, Handed(chain, lg, held, cur),
         NEW ex, NEW bg, Complete(chain, lg, held, ex, bg),
         NEW s, NEW grown, NEW left, Releases(lg, held, ex, cur, s, grown, left)
  PROVE  /\ Handed(chain, grown, left, cur) /\ Complete(chain, grown, left, ex, bg)
         /\ \A p \in Positions : HandedIn(lg, held, p) => HandedIn(grown, left, p)
         /\ Modules \subseteq ex => \A p \in Positions : left[p] = 0
<1> DEFINE leaves(p) == held[p] > 0 /\ \A j \in Modules \ ex : cur[j] # 0 /\ before(p, cur[j])
<1>1. Moves(lg, held, ex, cur, s, grown, left)
  BY Zenon, ReleaseMoves
<1>2. /\ grown \in Seq(DOMAIN chain) /\ ToSet(grown) = ToSet(lg) \cup ToSet(s)
      /\ \A p \in Positions : p \in ToSet(s) <=> leaves(p)
      /\ left \in [Positions -> Nat] /\ \A p \in Positions : left[p] = IF leaves(p) THEN 0 ELSE held[p]
  BY <1>1 DEF Moves
<1>3. /\ held \in [Positions -> Nat] /\ cur \in [Modules -> 0..Len(chain)]
      /\ \A p \in Positions : held[p] > 0 => p \in DOMAIN chain
      /\ \A p \in DOMAIN chain : p <= cur[chain[p].module] => HandedIn(lg, held, p)
  BY DEF Handed
<1>4. Modules \subseteq ex => \A p \in Positions : held[p] > 0 => leaves(p)
  OBVIOUS
<1> HIDE DEF leaves
<1>5. DOMAIN chain \subseteq Positions
  BY MergeAssumption DEF ChainOK, Positions
<1>6. \A p \in Positions : HandedIn(lg, held, p) => HandedIn(grown, left, p)
  BY <1>2 DEF HandedIn
<1>7. \A p \in Positions : left[p] > 0 => held[p] > 0
  <2>1. TAKE p \in Positions
  <2>2. QED
    BY <1>2
<1>8. Handed(chain, grown, left, cur)
  BY <1>2, <1>3, <1>5, <1>6, <1>7 DEF Handed
<1>9. Complete(chain, grown, left, ex, bg)
  BY <1>5, <1>6 DEF Complete
<1>10. ASSUME Modules \subseteq ex, NEW p \in Positions
       PROVE  left[p] = 0
  BY <1>2, <1>3, <1>4, <1>10
<1>11. QED
  BY <1>6, <1>8, <1>9, <1>10

\* Of a chain in key order that has not grown, an event older than a released one was
\* handed over, and is ready when that one is.
LEMMA ReleaseStraight ==
  ASSUME ChainOK(chain), NEW lg, NEW held, NEW cur, Handed(chain, lg, held, cur),
         NEW ex, NEW bg, Complete(chain, lg, held, ex, bg), Straight(chain, lg, bg),
         NEW s, NEW grown, NEW left, Releases(lg, held, ex, cur, s, grown, left)
  PROVE  Straight(chain, grown, bg)
<1> DEFINE leaves(p) == held[p] > 0 /\ \A j \in Modules \ ex : cur[j] # 0 /\ before(p, cur[j])
           n == Len(lg)
<1> SUFFICES ASSUME InOrder(chain), bg = Len(chain)
             PROVE  OlderFirst(grown)
  BY DEF Straight
<1>1. Moves(lg, held, ex, cur, s, grown, left)
  BY Zenon, ReleaseMoves
<1>2. /\ s \in Seq(DOMAIN chain) /\ grown \in Seq(DOMAIN chain) /\ Len(grown) = n + Len(s)
      /\ \A i \in 1..Len(grown) : grown[i] = IF i <= n THEN lg[i] ELSE s[i - n]
      /\ \A p \in Positions : p \in ToSet(s) <=> leaves(p)
      /\ \A i, j \in 1..Len(s) : i < j => ~before(s[j], s[i])
  BY <1>1 DEF Moves
<1>3. /\ lg \in Seq(DOMAIN chain) /\ cur \in [Modules -> 0..Len(chain)]
      /\ \A p \in DOMAIN chain : p <= cur[chain[p].module] => HandedIn(lg, held, p)
  BY DEF Handed
<1>4. \A p \in DOMAIN chain : chain[p].module \in ex /\ p <= Len(chain) => HandedIn(lg, held, p)
  BY DEF Complete
<1>5. OlderFirst(lg)
  BY DEF Straight
<1>6. DOMAIN chain = 1..Len(chain) /\ Len(chain) \in Nat /\ DOMAIN chain \subseteq Positions
  BY MergeAssumption DEF ChainOK, Positions
<1>7. \A p \in DOMAIN chain : chain[p].module \in Modules
  <2>1. \A e \in Emitted : e.module \in Modules
    BY DEF Emitted
  <2>2. chain \in Seq(Emitted)
    BY DEF ChainOK
  <2> HIDE DEF Emitted
  <2>3. QED
    BY <2>1, <2>2
<1>8. n \in Nat /\ DOMAIN lg = 1..n /\ Len(s) \in Nat /\ DOMAIN s = 1..Len(s)
      /\ DOMAIN grown = 1..(n + Len(s)) /\ Len(grown) = n + Len(s)
  BY <1>2, <1>3
<1> HIDE DEF n
<1>9. ASSUME NEW x \in DOMAIN chain, x \in ToSet(s), NEW p \in 1..(x - 1)
      PROVE  p \in ToSet(lg) \/ p \in ToSet(s)
  <2>1. p \in DOMAIN chain /\ p \in Int /\ x \in Int /\ p < x /\ p <= Len(chain)
    BY <1>6
  <2>2. held[x] > 0 /\ \A j \in Modules \ ex : cur[j] # 0 /\ before(x, cur[j])
    BY <1>2, <1>6, <1>9
  <2>3. \A j \in Modules \ ex : cur[j] # 0 /\ cur[j] \in DOMAIN chain /\ x < cur[j]
    <3>1. TAKE j \in Modules \ ex
    <3>2. cur[j] # 0 /\ before(x, cur[j]) /\ cur[j] \in 0..Len(chain)
      BY <1>3, <2>2
    <3>3. cur[j] \in DOMAIN chain
      BY <1>6, <3>2
    <3>4. QED
      BY <3>2, <3>3, InOrderCompares
  <2>4. HandedIn(lg, held, p)
    <3>1. CASE chain[p].module \in ex
      BY <1>4, <2>1, <3>1
    <3>2. CASE chain[p].module \notin ex
      <4>1. cur[chain[p].module] \in DOMAIN chain /\ x < cur[chain[p].module]
        BY <1>7, <2>1, <2>3, <3>2
      <4>2. p <= cur[chain[p].module]
        BY <1>6, <2>1, <4>1
      <4>3. QED
        BY <1>3, <2>1, <4>2
    <3>3. QED
      BY <3>1, <3>2
  <2>5. \A j \in Modules \ ex : cur[j] # 0 /\ before(p, cur[j])
    <3>1. TAKE j \in Modules \ ex
    <3>2. cur[j] # 0 /\ cur[j] \in DOMAIN chain /\ p < cur[j]
      BY <1>6, <2>1, <2>3
    <3>3. QED
      BY <2>1, <3>2, InOrderCompares
  <2>6. held[p] > 0 => leaves(p)
    BY <2>5
  <2>7. QED
    BY <1>2, <1>6, <2>1, <2>4, <2>6 DEF HandedIn
<1>10. ASSUME NEW i \in DOMAIN grown, NEW p \in 1..(grown[i] - 1)
       PROVE  \E j \in 1..(i - 1) : grown[j] = p
  <2>1. CASE i <= n
    <3>1. i \in DOMAIN lg /\ grown[i] = lg[i]
      BY <1>2, <1>8, <2>1
    <3>2. PICK j \in 1..(i - 1) : lg[j] = p
      BY <1>5, <1>10, <3>1 DEF OlderFirst
    <3>3. j \in 1..(n + Len(s)) /\ j <= n
      BY <1>8, <2>1
    <3>4. QED
      BY <1>2, <1>8, <3>2, <3>3
  <2>2. CASE ~(i <= n)
    <3> DEFINE a == i - n
               x == s[a]
    <3>1. a \in DOMAIN s /\ grown[i] = x /\ i = n + a /\ a \in Int
      BY <1>2, <1>8, <2>2
    <3>2. x \in DOMAIN chain /\ x \in ToSet(s) /\ p \in 1..(x - 1)
      <4>1. x \in DOMAIN chain
        BY <1>2, <3>1
      <4>2. x \in ToSet(s)
        BY <3>1 DEF ToSet
      <4>3. QED
        BY <1>10, <3>1, <4>1, <4>2
    <3>3. p \in DOMAIN chain /\ p \in Int /\ x \in Int /\ p < x
      BY <1>6, <3>2
    <3> HIDE DEF a, x
    <3>4. CASE p \in ToSet(lg)
      <4>1. PICK j \in 1..n : lg[j] = p
        BY <1>8, <3>4 DEF ToSet
      <4>2. j \in 1..(i - 1) /\ j \in 1..(n + Len(s)) /\ j <= n
        BY <1>8, <3>1
      <4>3. QED
        BY <1>2, <1>8, <4>1, <4>2
    <3>5. CASE p \in ToSet(s)
      <4>1. PICK b \in 1..Len(s) : s[b] = p
        BY <1>8, <3>5 DEF ToSet
      <4>2. before(p, x)
        BY <3>2, <3>3, InOrderCompares
      <4>3. b < a
        <5>1. ~(a < b)
          BY <1>2, <1>8, <3>1, <4>1, <4>2 DEF x
        <5>2. a # b
          BY <3>3, <4>1 DEF x
        <5>3. QED
          BY <3>1, <4>1, <5>1, <5>2
      <4>4. n + b \in 1..(i - 1) /\ n + b \in 1..(n + Len(s)) /\ ~(n + b <= n) /\ (n + b) - n = b
        BY <1>8, <3>1, <4>1, <4>3
      <4>5. grown[n + b] = p
        BY <1>2, <1>8, <4>1, <4>4
      <4>6. QED
        BY <4>4, <4>5
    <3>6. QED
      BY <1>9, <3>2, <3>4, <3>5
  <2>3. QED
    BY <2>1, <2>2
<1>11. QED
  BY <1>10 DEF OlderFirst

\* What was handed over once is logged once.
LEMMA ReleaseOnce ==
  ASSUME ChainOK(chain), NEW lg, NEW held, NEW cur, Handed(chain, lg, held, cur),
         Single(chain, lg, held, cur), NEW ex,
         NEW s, NEW grown, NEW left, Releases(lg, held, ex, cur, s, grown, left)
  PROVE  Single(chain, grown, left, cur)
<1> DEFINE leaves(p) == held[p] > 0 /\ \A j \in Modules \ ex : cur[j] # 0 /\ before(p, cur[j])
           n == Len(lg)
<1>1. Moves(lg, held, ex, cur, s, grown, left)
  BY Zenon, ReleaseMoves
<1>2. /\ lg \in Seq(DOMAIN chain) /\ held \in [Positions -> Nat]
      /\ \A p \in Positions : held[p] <= 1 /\ (held[p] > 0 => p \notin ToSet(lg))
      /\ \A p \in DOMAIN chain : HandedIn(lg, held, p) => p <= cur[chain[p].module]
      /\ IsInjective(lg)
  BY DEF Single, Handed
<1>3. /\ s \in Seq(DOMAIN chain) /\ grown \in Seq(DOMAIN chain) /\ Len(grown) = n + Len(s)
      /\ ToSet(grown) = ToSet(lg) \cup ToSet(s)
      /\ \A i \in 1..Len(grown) : grown[i] = IF i <= n THEN lg[i] ELSE s[i - n]
      /\ \A p \in Positions : p \in ToSet(s) <=> leaves(p)
      /\ \A p \in Positions : left[p] = IF leaves(p) THEN 0 ELSE held[p]
  BY <1>1 DEF Moves
<1>4. IsInjective(s)
  BY <1>1, <1>2 DEF Moves
<1>5. \A p \in Positions : leaves(p) => held[p] > 0
  OBVIOUS
<1>6. DOMAIN chain \subseteq Positions
  BY MergeAssumption DEF ChainOK, Positions
<1>7. n \in Nat /\ DOMAIN lg = 1..n /\ Len(s) \in Nat /\ DOMAIN s = 1..Len(s)
      /\ DOMAIN grown = 1..(n + Len(s))
  BY <1>2, <1>3
<1> HIDE DEF leaves, n
<1>8. \A p \in Positions : left[p] <= 1 /\ (left[p] > 0 => p \notin ToSet(grown))
  <2>1. TAKE p \in Positions
  <2>2. CASE leaves(p)
    BY <1>3, <2>2
  <2>3. CASE ~leaves(p)
    BY <1>2, <1>3, <2>3
  <2>4. QED
    BY <2>2, <2>3
<1>9. \A p \in DOMAIN chain : HandedIn(grown, left, p) => HandedIn(lg, held, p)
  BY <1>3, <1>5, <1>6 DEF HandedIn
<1>10. \A p \in ToSet(s) : p \notin ToSet(lg)
  <2>1. ToSet(s) \subseteq Positions
    BY <1>3, <1>6 DEF ToSet
  <2>2. QED
    BY <1>2, <1>3, <1>5, <2>1
<1>11. ASSUME NEW i \in DOMAIN grown, NEW j \in DOMAIN grown, grown[i] = grown[j]
       PROVE  i = j
  <2>1. \A h \in DOMAIN grown : \/ h \in DOMAIN lg /\ grown[h] = lg[h]
                                \/ h - n \in DOMAIN s /\ grown[h] = s[h - n]
    BY <1>3, <1>7
  <2>2. CASE i \in DOMAIN lg /\ grown[i] = lg[i] /\ j \in DOMAIN lg /\ grown[j] = lg[j]
    BY <1>2, <1>11, <2>2 DEF IsInjective
  <2>3. CASE i - n \in DOMAIN s /\ grown[i] = s[i - n] /\ j - n \in DOMAIN s /\ grown[j] = s[j - n]
    <3>1. i - n = j - n
      BY <1>4, <1>11, <2>3 DEF IsInjective
    <3>2. QED
      BY <1>7, <3>1
  <2>4. \A h \in DOMAIN lg : lg[h] \in ToSet(lg)
    BY DEF ToSet
  <2>5. \A h \in DOMAIN s : s[h] \in ToSet(s)
    BY DEF ToSet
  <2>6. QED
    BY <1>10, <1>11, <2>1, <2>2, <2>3, <2>4, <2>5
<1>12. IsInjective(grown)
  BY <1>11 DEF IsInjective
<1>13. QED
  BY <1>2, <1>8, <1>9, <1>12 DEF Single

------------------------------------------------------------------------
(* The steps. *)

\* Nothing was handed over before the first query.
LEMMA MergeInitInv ==
  ASSUME MergeInit
  PROVE  MergeInv
<1>1. Idle \in CallRecord /\ Idle.turn = 0 /\ Idle.goal = "none"
  BY MergeAssumption DEF Idle, CallRecord
<1>2. MergeShape
  <2>1. pageLimit \in [Keepers -> PageLimits] /\ call \in [Keepers -> [Calls -> CallRecord]]
    BY <1>1 DEF MergeInit
  <2>2. /\ log \in [Keepers -> Seq(Nat)] /\ holding \in [Keepers -> [Positions -> Nat]]
        /\ moduleCursors \in [Keepers -> [Modules -> Nat]]
        /\ exhausted \in [Keepers -> SUBSET Modules] /\ missing \in [Keepers -> SUBSET Nat]
        /\ began \in [Keepers -> Int]
    BY DEF MergeInit, NotBegun
  <2>3. QED
    BY <2>1, <2>2 DEF MergeShape
<1>3. chain = <<>>
  BY DEF MergeInit
<1>4. DOMAIN chain = {} /\ Len(chain) = 0
  BY <1>3
<1>5. ChainOK(chain)
  BY <1>3, MergeAssumption DEF ChainOK
<1>6. ASSUME NEW k \in Keepers
      PROVE  KeeperInv(chain, log[k], holding[k], moduleCursors[k], exhausted[k], missing[k],
                       began[k], call[k], k \notin overlapped)
  <2>1. /\ log[k] = <<>> /\ holding[k] = [p \in Positions |-> 0]
        /\ moduleCursors[k] = [m \in Modules |-> 0] /\ exhausted[k] = {}
        /\ missing[k] = {} /\ began[k] = NotBegun /\ call[k] = [c \in Calls |-> Idle]
    BY DEF MergeInit
  <2>2. Handed(chain, log[k], holding[k], moduleCursors[k])
    BY <1>4, <2>1 DEF Handed
  <2>3. Complete(chain, log[k], holding[k], exhausted[k], began[k])
    BY <1>4, <2>1 DEF Complete, NotBegun
  <2>4. Straight(chain, log[k], began[k])
    BY <1>4, <2>1 DEF Straight, NotBegun
  <2>5. KeeperOK(chain, log[k], holding[k], moduleCursors[k], exhausted[k], missing[k], began[k])
    BY <2>1, <2>2, <2>3, <2>4 DEF KeeperOK
  <2>6. \A c \in Calls : CallOK(chain, log[k], holding[k], began[k], call[k][c])
    BY <1>1, <2>1 DEF CallOK
  <2>7. Single(chain, log[k], holding[k], moduleCursors[k])
    BY <1>4, <2>1 DEF Single, IsInjective
  <2>8. OneAtATime(moduleCursors[k], call[k])
    BY <1>1, <2>1 DEF OneAtATime
  <2>9. QED
    BY <2>5, <2>6, <2>7, <2>8 DEF KeeperInv
<1>7. QED
  BY <1>2, <1>5, <1>6 DEF MergeInv

\* A stutter.
LEMMA MergeStutters ==
  ASSUME MergeInv, UNCHANGED mergeVars
  PROVE  MergeInv'
<1>1. chain' = chain /\ log' = log /\ holding' = holding /\ moduleCursors' = moduleCursors
      /\ exhausted' = exhausted /\ call' = call /\ missing' = missing /\ began' = began
      /\ overlapped' = overlapped /\ pageLimit' = pageLimit
  BY DEF mergeVars, merged, observed
<1>2. QED
  BY <1>1 DEF MergeInv, MergeShape

\* What is emitted is the latest event, under a key of its own.
LEMMA EmitsOne ==
  ASSUME ChainOK(chain), NEW m \in Modules, Emit(m)
  PROVE  \E e \in Emitted : chain' = Append(chain, e) /\ ChainOK(Append(chain, e))
<1> DEFINE n == Len(chain)
<1>1. chain \in Seq(Emitted) /\ n \in Nat /\ DOMAIN chain = 1..n /\ n + 1 <= MaxEvents
  BY MergeAssumption DEF ChainOK, Emit
<1>2. \A p \in DOMAIN chain : /\ chain[p].key[1] \in Nat /\ chain[p].key[2] \in Nat
                              /\ chain[p].key[3] \in Nat
                              /\ chain[p].key = <<chain[p].key[1], chain[p].key[2], chain[p].key[3]>>
  <2>1. \A x \in Nat \X Nat \X Nat :
          x[1] \in Nat /\ x[2] \in Nat /\ x[3] \in Nat /\ x = <<x[1], x[2], x[3]>>
    OBVIOUS
  <2>2. \A e \in Emitted : e.key \in Nat \X Nat \X Nat
    BY Zenon DEF Emitted
  <2> HIDE DEF Emitted
  <2>3. \A p \in DOMAIN chain : chain[p].key \in Nat \X Nat \X Nat
    BY <1>1, <2>2
  <2>4. QED
    BY <2>1, <2>3
<1>3. ASSUME NEW a \in Nat, NEW b \in Nat, NEW c \in Nat,
             \A p \in DOMAIN chain : chain[p].key[1] = a /\ chain[p].key[2] = b => chain[p].key[3] < c
      PROVE  /\ [module |-> m, key |-> <<a, b, c>>] \in Emitted
             /\ ChainOK(Append(chain, [module |-> m, key |-> <<a, b, c>>]))
  <2> DEFINE e == [module |-> m, key |-> <<a, b, c>>]
             more == Append(chain, e)
  <2>1. e \in Emitted
    BY DEF Emitted
  <2>2. e.key = <<a, b, c>>
    OBVIOUS
  <2> HIDE DEF e
  <2>3. more \in Seq(Emitted) /\ Len(more) = n + 1 /\ DOMAIN more = 1..(n + 1)
        /\ more[n + 1] = e /\ \A p \in 1..n : more[p] = chain[p]
    BY <1>1, <2>1
  <2> HIDE DEF more, n, Emitted
  <2>4. \A p \in 1..n : chain[p].key # e.key
    <3>1. TAKE p \in 1..n
    <3>2. SUFFICES ASSUME chain[p].key = e.key
                   PROVE  FALSE
      OBVIOUS
    <3>3. chain[p].key[1] = a /\ chain[p].key[2] = b /\ chain[p].key[3] = c
      BY <2>2, <3>2
    <3>4. chain[p].key[3] < c
      BY <1>1, <1>3, <3>3
    <3>5. QED
      BY <1>3, <3>3, <3>4
  <2>5. ASSUME NEW p \in DOMAIN more, NEW q \in DOMAIN more, more[p].key = more[q].key
        PROVE  p = q
    <3>1. p \in 1..n /\ q \in 1..n => p = q
      <4>1. \A x, y \in DOMAIN chain : chain[x].key = chain[y].key => x = y
        BY DEF ChainOK
      <4>2. QED
        BY <1>1, <2>3, <2>5, <4>1
    <3>2. ~(p \in 1..n /\ q = n + 1) /\ ~(p = n + 1 /\ q \in 1..n)
      BY <2>3, <2>4, <2>5
    <3>3. QED
      BY <1>1, <2>3, <3>1, <3>2
  <2>6. ASSUME NEW p \in DOMAIN more, more[p].key[1] = more[Len(more)].key[1],
               more[p].key[2] = more[Len(more)].key[2]
        PROVE  more[p].key[3] <= more[Len(more)].key[3]
    <3>1. more[Len(more)].key = <<a, b, c>>
      BY <2>2, <2>3
    <3>2. CASE p \in 1..n
      BY <1>1, <1>2, <1>3, <2>3, <2>6, <3>1, <3>2
    <3>3. CASE p = n + 1
      BY <2>3, <3>1, <3>3
    <3>4. QED
      BY <1>1, <2>3, <3>2, <3>3
  <2>7. ChainOK(more)
    BY <1>1, <2>3, <2>5, <2>6 DEF ChainOK
  <2>8. QED
    BY <2>1, <2>7 DEF e, more
<1>4. ASSUME NEW ms \in lastMs .. MaxMs, NEW d \in Digests \ txs(ms),
             chain' = Append(chain, [module |-> m, key |-> <<ms, d, 0>>])
      PROVE  \E e \in Emitted : chain' = Append(chain, e) /\ ChainOK(Append(chain, e))
  <2>1. lastMs \in Nat
    <3>1. CASE chain = <<>>
      BY <3>1 DEF lastMs
    <3>2. CASE chain # <<>>
      <4>1. n \in DOMAIN chain
        BY <1>1, <3>2
      <4>2. QED
        BY <1>2, <3>2, <4>1 DEF lastMs, Last
    <3>3. QED
      BY <3>1, <3>2
  <2>2. ms \in Nat /\ d \in Nat
    BY <2>1, MergeAssumption
  <2>3. \A p \in DOMAIN chain : ~(chain[p].key[1] = ms /\ chain[p].key[2] = d)
    BY DEF txs
  <2>4. QED
    BY <1>3, <1>4, <2>2, <2>3
<1>5. ASSUME chain # <<>>, NEW k, k = Last(chain).key,
             chain' = Append(chain, [module |-> m, key |-> <<k[1], k[2], k[3] + 1>>])
      PROVE  \E e \in Emitted : chain' = Append(chain, e) /\ ChainOK(Append(chain, e))
  <2>1. n \in DOMAIN chain /\ k = chain[n].key
    BY <1>1, <1>5 DEF Last
  <2>2. k[1] \in Nat /\ k[2] \in Nat /\ k[3] + 1 \in Nat /\ k[3] \in Nat
    BY <1>2, <2>1
  <2>3. \A p \in DOMAIN chain :
          chain[p].key[1] = k[1] /\ chain[p].key[2] = k[2] => chain[p].key[3] <= k[3]
    BY <2>1 DEF ChainOK
  <2>4. \A p \in DOMAIN chain :
          chain[p].key[1] = k[1] /\ chain[p].key[2] = k[2] => chain[p].key[3] < k[3] + 1
    BY <1>2, <2>2, <2>3
  <2>5. QED
    BY <1>3, <1>5, <2>2, <2>4
<1>6. QED
  <2> HIDE DEF n
  <2>1. CASE \E ms \in lastMs .. MaxMs : \E d \in Digests \ txs(ms) :
               chain' = Append(chain, [module |-> m, key |-> <<ms, d, 0>>])
    BY <1>4, <2>1
  <2>2. CASE chain # <<>> /\ chain' = Append(chain,
               [module |-> m, key |-> <<Last(chain).key[1], Last(chain).key[2], Last(chain).key[3] + 1>>])
    BY <1>5, <2>2
  <2>3. QED
    BY <2>1, <2>2 DEF Emit

\* A keeper that has not looked again does not know of it.
LEMMA KeeperLooksOn ==
  ASSUME NEW ch, ChainOK(ch), NEW e \in Emitted, ChainOK(Append(ch, e)), NEW lg, NEW held, NEW cur, NEW ex, NEW ms, NEW bg,
         NEW cl, NEW alone, KeeperInv(ch, lg, held, cur, ex, ms, bg, cl, alone)
  PROVE  KeeperInv(Append(ch, e), lg, held, cur, ex, ms, bg, cl, alone)
<1> DEFINE more == Append(ch, e)
           n == Len(ch)
<1>1. n \in Nat /\ DOMAIN ch = 1..n /\ DOMAIN more = 1..(n + 1) /\ Len(more) = n + 1
      /\ (\A p \in 1..n : more[p] = ch[p]) /\ more[n + 1] = e
  BY DEF ChainOK
<1>2. e.module \in Modules
  BY DEF Emitted
<1>3. /\ Handed(ch, lg, held, cur) /\ Complete(ch, lg, held, ex, bg)
      /\ ms \in SUBSET DOMAIN ch /\ \A p \in ms : p > bg
      /\ bg = NotBegun => ex = {} /\ ms = {} /\ lg = <<>>
      /\ Modules \subseteq ex => \A p \in Positions : held[p] = 0
      /\ \A c \in Calls : CallOK(ch, lg, held, bg, cl[c])
      /\ alone => Single(ch, lg, held, cur) /\ OneAtATime(cur, cl)
  BY DEF KeeperInv, KeeperOK
<1>4. /\ lg \in Seq(1..n) /\ held \in [Positions -> Nat] /\ cur \in [Modules -> 0..n]
      /\ \A p \in Positions : held[p] > 0 => p \in 1..n
      /\ \A p \in 1..n : p <= cur[ch[p].module] => HandedIn(lg, held, p)
  BY <1>1, <1>3 DEF Handed
<1>5. /\ ex \in SUBSET Modules /\ bg \in NotBegun..n
      /\ \A p \in 1..n : ch[p].module \in ex /\ p <= bg => HandedIn(lg, held, p)
  BY <1>1, <1>3 DEF Complete
<1> HIDE DEF more, n
<1>6. lg \in Seq(DOMAIN more) /\ cur \in [Modules -> 0..Len(more)] /\ DOMAIN ch \subseteq DOMAIN more
      /\ \A p \in Positions : held[p] > 0 => p \in DOMAIN more
  BY <1>1, <1>4
<1>7. \A p \in DOMAIN more : (p \in 1..n /\ more[p] = ch[p]) \/ (p = n + 1 /\ more[p] = e)
  BY <1>1
<1>8. Handed(more, lg, held, cur)
  <2>1. ASSUME NEW p \in DOMAIN more, p <= cur[more[p].module]
        PROVE  HandedIn(lg, held, p)
    <3>1. CASE p = n + 1 /\ more[p] = e
      BY <1>1, <1>2, <1>4, <2>1, <3>1
    <3>2. CASE p \in 1..n /\ more[p] = ch[p]
      BY <1>4, <2>1, <3>2
    <3>3. QED
      BY <1>7, <3>1, <3>2
  <2>2. QED
    BY <1>4, <1>6, <2>1 DEF Handed
<1>9. Complete(more, lg, held, ex, bg)
  <2>1. bg \in NotBegun..Len(more)
    BY <1>1, <1>5 DEF NotBegun
  <2>2. ASSUME NEW p \in DOMAIN more, more[p].module \in ex, p <= bg
        PROVE  HandedIn(lg, held, p)
    <3>1. p # n + 1
      BY <1>1, <1>5, <2>2 DEF NotBegun
    <3>2. QED
      BY <1>5, <1>7, <2>2, <3>1
  <2>3. QED
    BY <1>5, <2>1, <2>2 DEF Complete
<1>10. Straight(more, lg, bg)
  <2>1. bg # Len(more)
    BY <1>1, <1>5 DEF NotBegun
  <2>2. QED
    BY <2>1 DEF Straight
<1>11. KeeperOK(more, lg, held, cur, ex, ms, bg)
  BY <1>3, <1>6, <1>8, <1>9, <1>10 DEF KeeperOK
<1>12. ASSUME NEW c \in Calls
       PROVE  CallOK(more, lg, held, bg, cl[c])
  <2>1. CallOK(ch, lg, held, bg, cl[c])
    BY <1>3
  <2>2. cl[c] \in CallRecord /\ (cl[c] # Idle => bg # NotBegun) /\ (cl[c].goal = "digest" => cl[c].arg \in DOMAIN ch)
    BY <2>1 DEF CallOK
  <2>3. ASSUME cl[c].turn # 0
        PROVE  /\ cl[c].after <= cl[c].sent /\ cl[c].sent <= Len(more) /\ bg <= cl[c].sent
               /\ \A p \in DOMAIN more :
                    more[p].module = EVENT_MODULES[cl[c].turn] /\ p <= cl[c].after => HandedIn(lg, held, p)
    <3>1. /\ cl[c].after <= cl[c].sent /\ cl[c].sent <= n /\ bg <= cl[c].sent
          /\ \A p \in 1..n :
               ch[p].module = EVENT_MODULES[cl[c].turn] /\ p <= cl[c].after => HandedIn(lg, held, p)
      BY <1>1, <2>1, <2>3 DEF CallOK, n
    <3>2. cl[c].after \in Nat /\ cl[c].sent \in Nat
      BY <2>2 DEF CallRecord
    <3>3. cl[c].sent <= Len(more) /\ cl[c].after < n + 1
      BY <1>1, <3>1, <3>2
    <3>4. ASSUME NEW p \in DOMAIN more, more[p].module = EVENT_MODULES[cl[c].turn], p <= cl[c].after
          PROVE  HandedIn(lg, held, p)
      <4>1. p # n + 1
        BY <1>1, <3>2, <3>3, <3>4
      <4>2. QED
        BY <1>7, <3>1, <3>4, <4>1
    <3>5. QED
      BY <3>1, <3>3, <3>4
  <2>4. QED
    BY <1>6, <2>2, <2>3 DEF CallOK
<1>13. ASSUME Single(ch, lg, held, cur)
       PROVE  Single(more, lg, held, cur)
  <2>1. ASSUME NEW p \in DOMAIN more, HandedIn(lg, held, p)
        PROVE  p <= cur[more[p].module]
    <3>1. p # n + 1
      <4>1. ToSet(lg) \subseteq 1..n
        <5>1. lg \in [1..Len(lg) -> 1..n]
          BY <1>1, <1>4
        <5>2. QED
          BY <5>1 DEF ToSet
      <4>2. n + 1 \notin 1..n
        BY <1>1
      <4>3. p = n + 1 => p \in Positions
        BY <1>1, MergeAssumption DEF Positions, ChainOK, more
      <4>4. QED
        BY <1>4, <2>1, <4>1, <4>2, <4>3 DEF HandedIn
    <3>2. QED
      BY <1>1, <1>7, <1>13, <2>1, <3>1 DEF Single
  <2>2. QED
    BY <1>13, <2>1 DEF Single
<1>14. KeeperInv(more, lg, held, cur, ex, ms, bg, cl, alone)
  BY <1>3, <1>11, <1>12, <1>13 DEF KeeperInv
<1>15. QED
  BY <1>14 DEF more

\* The chain grows; nobody has been handed anything.
LEMMA EmitInv ==
  ASSUME MergeInv, NEW m \in Modules, Emit(m)
  PROVE  MergeInv'
<1>1. UNCHANGED <<pageLimit, log, holding, moduleCursors, exhausted, call, missing, began, overlapped>>
  BY DEF Emit, merged, observed
<1>2. PICK e \in Emitted : chain' = Append(chain, e) /\ ChainOK(Append(chain, e))
  BY EmitsOne DEF MergeInv
<1>3. MergeShape'
  BY <1>1 DEF MergeInv, MergeShape
<1>4. ASSUME NEW k \in Keepers
      PROVE  KeeperInv(chain', log'[k], holding'[k], moduleCursors'[k], exhausted'[k], missing'[k],
                       began'[k], call'[k], k \notin overlapped')
  <2>1. KeeperInv(chain, log[k], holding[k], moduleCursors[k], exhausted[k], missing[k],
                  began[k], call[k], k \notin overlapped) /\ ChainOK(chain)
    BY DEF MergeInv
  <2>2. KeeperInv(Append(chain, e), log[k], holding[k], moduleCursors[k], exhausted[k], missing[k],
                  began[k], call[k], k \notin overlapped)
    BY Zenon, <1>2, <2>1, KeeperLooksOn
  <2>3. QED
    BY <1>1, <1>2, <2>2
<1>5. QED
  BY <1>2, <1>3, <1>4 DEF MergeInv

\* A step of one keeper leaves the others alone.
LEMMA OneKeeperMoves ==
  ASSUME MergeInv, NEW k \in Keepers, UNCHANGED <<pageLimit, chain>>, MergeShape',
         \A j \in Keepers \ {k} :
           /\ log'[j] = log[j] /\ holding'[j] = holding[j] /\ moduleCursors'[j] = moduleCursors[j]
           /\ exhausted'[j] = exhausted[j] /\ missing'[j] = missing[j] /\ began'[j] = began[j]
           /\ call'[j] = call[j] /\ (j \in overlapped' <=> j \in overlapped),
         KeeperInv(chain, log'[k], holding'[k], moduleCursors'[k], exhausted'[k], missing'[k],
                   began'[k], call'[k], k \notin overlapped')
  PROVE  MergeInv'
<1>1. ChainOK(chain') /\ chain' = chain
  BY DEF MergeInv
<1>2. ASSUME NEW j \in Keepers
      PROVE  KeeperInv(chain', log'[j], holding'[j], moduleCursors'[j], exhausted'[j], missing'[j],
                       began'[j], call'[j], j \notin overlapped')
  <2>1. CASE j = k
    BY <1>1, <2>1
  <2>2. CASE j # k
    <3>1. KeeperInv(chain, log[j], holding[j], moduleCursors[j], exhausted[j], missing[j],
                    began[j], call[j], j \notin overlapped)
      BY DEF MergeInv
    <3>2. (j \notin overlapped') = (j \notin overlapped)
      BY <2>2
    <3>3. QED
      BY <1>1, <2>2, <3>1, <3>2
  <2>3. QED
    BY <2>1, <2>2
<1>3. QED
  BY <1>1, <1>2 DEF MergeInv

\* What was handed over stays so for the calls under way.
LEMMA CallStands ==
  ASSUME NEW ch, ChainOK(ch), NEW lg, NEW held, NEW bg, NEW c, CallOK(ch, lg, held, bg, c),
         NEW lg2, NEW held2, NEW bg2, bg2 = bg \/ bg = NotBegun,
         \A p \in Positions : HandedIn(lg, held, p) => HandedIn(lg2, held2, p),
         bg = NotBegun => bg2 # NotBegun \/ c = Idle
  PROVE  CallOK(ch, lg2, held2, bg2, c)
<1>1. DOMAIN ch \subseteq Positions
  BY MergeAssumption DEF ChainOK, Positions
<1>2. Idle.turn = 0
  BY DEF Idle
<1>3. QED
  BY <1>1, <1>2 DEF CallOK

\* A call that is over, or sends the first query of a round.
Ends(next) == next = Idle
Starts(next, goal, cur) ==
  \E i \in 1..Len(EVENT_MODULES) :
    next = [goal |-> goal.goal, arg |-> goal.arg, turn |-> i,
            after |-> cur[EVENT_MODULES[i]], sent |-> Len(chain)]

\* A request may be reported as missing.
Misses(ms, ms2, ex, lg) ==
  /\ ms2 \in SUBSET DOMAIN chain
  /\ \A p \in ms2 : p \in ms \/ (Modules \subseteq ex /\ p \notin ToSet(lg))

LEMMA CallMoves ==
  ASSUME ChainOK(chain), NEW lg, NEW held, NEW cur, NEW ex, NEW ms, NEW bg, NEW cl, NEW alone,
         KeeperInv(chain, lg, held, cur, ex, ms, bg, cl, alone), NEW c \in Calls,
         cl \in [Calls -> CallRecord], NEW goal \in CallRecord,
         goal.goal = "digest" => goal.arg \in DOMAIN chain,
         NEW alone2, alone2 => alone /\ \A o \in Calls : o # c => cl[o] = Idle,
         NEW next, NEW ms2, NEW bg2, Misses(ms, ms2, ex, lg),
         \/ Ends(next) /\ bg2 = bg
         \/ Starts(next, goal, cur) /\ bg2 = IF bg = NotBegun THEN Len(chain) ELSE bg
  PROVE  /\ next \in CallRecord
         /\ KeeperInv(chain, lg, held, cur, ex, ms2, bg2, [cl EXCEPT ![c] = next], alone2)
<1> DEFINE cl2 == [cl EXCEPT ![c] = next]
<1>1. DOMAIN chain = 1..Len(chain) /\ Len(chain) \in Nat /\ DOMAIN chain \subseteq Positions
  BY MergeAssumption DEF ChainOK, Positions
<1>2. /\ Handed(chain, lg, held, cur) /\ Complete(chain, lg, held, ex, bg) /\ Straight(chain, lg, bg)
      /\ bg = NotBegun => ex = {} /\ ms = {} /\ lg = <<>>
      /\ Modules \subseteq ex => \A p \in Positions : held[p] = 0
      /\ ms \in SUBSET DOMAIN chain /\ \A p \in ms : p > bg
      /\ \A a \in Calls : CallOK(chain, lg, held, bg, cl[a])
      /\ alone => Single(chain, lg, held, cur) /\ OneAtATime(cur, cl)
  BY DEF KeeperInv, KeeperOK
<1>3. /\ ex \in SUBSET Modules /\ bg \in NotBegun..Len(chain)
      /\ \A p \in DOMAIN chain : chain[p].module \in ex /\ p <= bg => HandedIn(lg, held, p)
  BY <1>2 DEF Complete
<1>4. bg2 \in NotBegun..Len(chain) /\ (bg # NotBegun => bg2 = bg)
      /\ (Starts(next, goal, cur) /\ ~Ends(next) => bg2 # NotBegun /\ bg2 <= Len(chain))
  BY <1>1, <1>3 DEF NotBegun
<1>5. cur \in [Modules -> 0..Len(chain)]
      /\ \A p \in DOMAIN chain : p <= cur[chain[p].module] => HandedIn(lg, held, p)
  BY <1>2 DEF Handed
<1>6. Complete(chain, lg, held, ex, bg2)
  BY <1>2, <1>3, <1>4 DEF Complete
<1>7. Straight(chain, lg, bg2)
  <2>1. CASE bg = NotBegun
    BY <1>2, <2>1 DEF Straight, OlderFirst
  <2>2. CASE bg # NotBegun
    BY <1>2, <1>4, <2>2
  <2>3. QED
    BY <2>1, <2>2
<1>8. ASSUME NEW p \in ms2
      PROVE  p > bg2
  <2>1. CASE p \in ms
    BY <1>2, <1>4, <2>1
  <2>2. CASE p \notin ms
    <3>1. p \in DOMAIN chain /\ Modules \subseteq ex /\ p \notin ToSet(lg)
      BY <2>2 DEF Misses
    <3>2. p \in Positions /\ held[p] = 0 /\ chain[p].module \in Modules
      <4>1. \A e \in Emitted : e.module \in Modules
        BY DEF Emitted
      <4>2. chain[p] \in Emitted
        BY <3>1 DEF ChainOK
      <4>3. QED
        BY <1>1, <1>2, <3>1, <4>1, <4>2
    <3>3. ~HandedIn(lg, held, p)
      BY <3>1, <3>2 DEF HandedIn
    <3>4. ~(p <= bg2)
      BY <1>6, <3>1, <3>2, <3>3 DEF Complete
    <3>5. p \in Int
      BY <1>1, <3>1
    <3>6. bg2 \in Int
      <4>1. bg2 \in NotBegun..Len(chain)
        BY <1>4
      <4>2. NotBegun \in Int /\ Len(chain) \in Int
        BY <1>1 DEF NotBegun
      <4>3. QED
        BY <4>1, <4>2
    <3>7. QED
      BY <3>4, <3>5, <3>6
  <2>3. QED
    BY <2>1, <2>2
<1>9. bg2 = NotBegun => ex = {} /\ ms2 = {} /\ lg = <<>>
  BY <1>2, <1>4, SomeModule DEF Misses
<1>10. KeeperOK(chain, lg, held, cur, ex, ms2, bg2)
  BY <1>2, <1>6, <1>7, <1>8, <1>9 DEF KeeperOK, Misses
<1>11. next \in CallRecord /\ CallOK(chain, lg, held, bg2, next)
       /\ (next.turn # 0 => next.after = cur[EVENT_MODULES[next.turn]])
  <2>1. CASE Ends(next)
    <3>1. Idle \in CallRecord /\ Idle.turn = 0 /\ Idle.goal = "none"
      BY MergeAssumption DEF Idle, CallRecord
    <3>2. QED
      BY <2>1, <3>1 DEF Ends, CallOK
  <2>2. CASE ~Ends(next)
    <3>1. PICK i \in 1..Len(EVENT_MODULES) :
            next = [goal |-> goal.goal, arg |-> goal.arg, turn |-> i,
                    after |-> cur[EVENT_MODULES[i]], sent |-> Len(chain)]
      BY <2>2 DEF Starts
    <3>2. Len(EVENT_MODULES) \in Nat /\ EVENT_MODULES[i] \in Modules
      BY MergeAssumption DEF Modules, ToSet
    <3>3. cur[EVENT_MODULES[i]] \in 0..Len(chain)
      BY <1>5, <3>2
    <3>4. /\ next.goal = goal.goal /\ next.arg = goal.arg /\ next.turn = i
          /\ next.after = cur[EVENT_MODULES[i]] /\ next.sent = Len(chain)
      BY <3>1
    <3>5. next \in CallRecord
      BY <1>1, <3>1, <3>2, <3>3 DEF CallRecord
    <3>6. bg2 # NotBegun /\ bg2 <= Len(chain)
      BY <1>4, <2>2
    <3>7. next.after <= next.sent /\ next.sent <= Len(chain) /\ bg2 <= next.sent
      BY <1>1, <3>3, <3>4, <3>6
    <3>8. \A p \in DOMAIN chain :
            chain[p].module = EVENT_MODULES[next.turn] /\ p <= next.after => HandedIn(lg, held, p)
      BY <1>5, <3>4
    <3>9. CallOK(chain, lg, held, bg2, next)
      BY <3>4, <3>5, <3>6, <3>7, <3>8 DEF CallOK
    <3>10. QED
      BY <3>4, <3>5, <3>9
  <2>3. QED
    BY <2>1, <2>2
<1>12. \A a \in Calls : cl2[a] = IF a = c THEN next ELSE cl[a]
  OBVIOUS
<1> HIDE DEF cl2
<1>13. ASSUME NEW a \in Calls
       PROVE  CallOK(chain, lg, held, bg2, cl2[a])
  <2>1. CASE a = c
    BY <1>11, <1>12, <2>1
  <2>2. CASE a # c
    <3>1. CallOK(chain, lg, held, bg, cl[a])
      BY <1>2
    <3>2. bg = NotBegun => cl[a] = Idle
      BY <3>1 DEF CallOK
    <3>3. CallOK(chain, lg, held, bg2, cl[a])
      BY <1>4, <3>1, <3>2, CallStands
    <3>4. QED
      BY <1>12, <2>2, <3>3
  <2>3. QED
    BY <2>1, <2>2
<1>14. ASSUME alone2
       PROVE  Single(chain, lg, held, cur) /\ OneAtATime(cur, cl2)
  <2>1. Single(chain, lg, held, cur) /\ OneAtATime(cur, cl) /\ \A o \in Calls : o # c => cl[o] = Idle
    BY <1>2, <1>14
  <2>2. Idle.turn = 0
    BY DEF Idle
  <2>3. \A a \in Calls : cl2[a] # Idle => a = c
    BY <1>12, <2>1
  <2>4. \A a \in Calls : cl2[a].turn # 0 => cl2[a].after = cur[EVENT_MODULES[cl2[a].turn]]
    BY <1>11, <1>12, <2>2, <2>3
  <2>5. QED
    BY <2>1, <2>3, <2>4 DEF OneAtATime
<1>15. KeeperInv(chain, lg, held, cur, ex, ms2, bg2, cl2, alone2)
  BY <1>10, <1>13, <1>14 DEF KeeperInv
<1>16. QED
  BY <1>11, <1>15 DEF cl2

\* A call is over or starts a round.
LEMMA LookInv ==
  ASSUME MergeInv, NEW k \in Keepers, NEW c \in Calls, NEW goal \in CallRecord,
         goal.goal = "digest" => goal.arg \in DOMAIN chain, look(k, c, goal),
         \A j \in Keepers : j # k => (j \in overlapped' <=> j \in overlapped),
         k \notin overlapped' => /\ k \notin overlapped
                                 /\ \A o \in Calls : o # c => call[k][o] = Idle
  PROVE  MergeInv'
<1>1. MergeShape /\ ChainOK(chain)
      /\ KeeperInv(chain, log[k], holding[k], moduleCursors[k], exhausted[k], missing[k],
                   began[k], call[k], k \notin overlapped)
  BY DEF MergeInv
<1>2. UNCHANGED <<pageLimit, chain, log, holding, moduleCursors, exhausted>>
  BY DEF look, merged
<1>3. call[k] \in [Calls -> CallRecord]
  BY <1>1 DEF MergeShape
<1>4. PICK next, ms2, bg2 :
        /\ call' = [call EXCEPT ![k][c] = next]
        /\ missing' = [missing EXCEPT ![k] = ms2] /\ began' = [began EXCEPT ![k] = bg2]
        /\ Misses(missing[k], ms2, exhausted[k], log[k])
        /\ \/ Ends(next) /\ bg2 = began[k]
           \/ Starts(next, goal, moduleCursors[k])
              /\ bg2 = IF began[k] = NotBegun THEN Len(chain) ELSE began[k]
  <2>1. missing = [missing EXCEPT ![k] = missing[k]] /\ began = [began EXCEPT ![k] = began[k]]
    BY <1>1 DEF MergeShape
  <2>2. missing[k] \in SUBSET DOMAIN chain
    BY <1>1 DEF KeeperInv, KeeperOK
  <2>3. CASE served(k, goal)
    <3> DEFINE lost == goal.goal = "digest" /\ goal.arg \notin ToSet(log[k])
               ms2 == IF lost THEN missing[k] \cup {goal.arg} ELSE missing[k]
    <3>1. call' = [call EXCEPT ![k][c] = Idle] /\ began' = began
          /\ missing' = IF lost THEN [missing EXCEPT ![k] = missing[k] \cup {goal.arg}] ELSE missing
      BY <2>3 DEF look
    <3>2. lost => Modules \subseteq exhausted[k] /\ goal.arg \in DOMAIN chain /\ goal.arg \notin ToSet(log[k])
      BY <2>3 DEF served, allExhausted
    <3> HIDE DEF lost
    <3>3. missing' = [missing EXCEPT ![k] = ms2]
      BY <2>1, <3>1
    <3>4. Misses(missing[k], ms2, exhausted[k], log[k])
      BY <2>2, <3>2 DEF Misses
    <3> HIDE DEF ms2
    <3>5. QED
      BY <2>1, <3>1, <3>3, <3>4 DEF Ends
  <2>4. CASE ~served(k, goal)
    <3> DEFINE i == nextLive(1, exhausted[k])
               next == asking(k, goal, i)
               bg2 == IF began[k] = NotBegun THEN Len(chain) ELSE began[k]
    <3>1. call' = [call EXCEPT ![k][c] = next] /\ missing' = missing
          /\ began' = IF began[k] = NotBegun THEN [began EXCEPT ![k] = Len(chain)] ELSE began
      BY <2>4 DEF look
    <3>2. began' = [began EXCEPT ![k] = bg2]
      BY <2>1, <3>1
    <3>3. i \in 1..Len(EVENT_MODULES)
      <4>1. ~(Modules \subseteq exhausted[k])
        BY <2>4 DEF served, allExhausted
      <4>2. i # 0
        BY <4>1, AllSpent
      <4>3. QED
        BY <4>2, WhoseTurn
    <3> HIDE DEF i
    <3>4. Starts(next, goal, moduleCursors[k])
      BY <3>3 DEF Starts, asking
    <3>5. Misses(missing[k], missing[k], exhausted[k], log[k])
      BY <2>2 DEF Misses
    <3> HIDE DEF next, bg2
    <3>6. bg2 = IF began[k] = NotBegun THEN Len(chain) ELSE began[k]
      BY DEF bg2
    <3>7. QED
      BY <2>1, <3>1, <3>2, <3>4, <3>5, <3>6
  <2>5. QED
    BY <2>3, <2>4
<1>5. /\ next \in CallRecord
      /\ KeeperInv(chain, log[k], holding[k], moduleCursors[k], exhausted[k], ms2, bg2,
                   [call[k] EXCEPT ![c] = next], k \notin overlapped')
  <2> DEFINE alone == k \notin overlapped
             alone2 == k \notin overlapped'
  <2>1. alone2 => alone /\ \A o \in Calls : o # c => call[k][o] = Idle
    OBVIOUS
  <2>2. KeeperInv(chain, log[k], holding[k], moduleCursors[k], exhausted[k], missing[k],
                  began[k], call[k], alone)
    BY <1>1
  <2> HIDE DEF alone, alone2
  <2>3. /\ next \in CallRecord
        /\ KeeperInv(chain, log[k], holding[k], moduleCursors[k], exhausted[k], ms2, bg2,
                     [call[k] EXCEPT ![c] = next], alone2)
    <3>1. /\ Misses(missing[k], ms2, exhausted[k], log[k])
          /\ \/ Ends(next) /\ bg2 = began[k]
             \/ Starts(next, goal, moduleCursors[k])
                /\ bg2 = IF began[k] = NotBegun THEN Len(chain) ELSE began[k]
      BY <1>4
    <3>2. ChainOK(chain)
      BY <1>1
    <3>3. QED
      BY Zenon, <1>3, <2>1, <2>2, <3>1, <3>2, CallMoves
  <2>4. QED
    BY <2>3 DEF alone2
<1>6. ms2 \in SUBSET Nat /\ bg2 \in Int
  <2>1. DOMAIN chain \subseteq Nat /\ Len(chain) \in Nat
    BY <1>1 DEF ChainOK
  <2>2. ms2 \in SUBSET DOMAIN chain /\ bg2 \in NotBegun..Len(chain)
    BY <1>5 DEF KeeperInv, KeeperOK, Complete
  <2>3. QED
    BY <2>1, <2>2 DEF NotBegun
<1>7. /\ call' \in [Keepers -> [Calls -> CallRecord]] /\ missing' \in [Keepers -> SUBSET Nat]
      /\ began' \in [Keepers -> Int] /\ call'[k] = [call[k] EXCEPT ![c] = next]
      /\ missing'[k] = ms2 /\ began'[k] = bg2
      /\ \A j \in Keepers : j # k => call'[j] = call[j] /\ missing'[j] = missing[j] /\ began'[j] = began[j]
  BY <1>1, <1>4, <1>5, <1>6 DEF MergeShape
<1>8. MergeShape'
  BY <1>1, <1>2, <1>7 DEF MergeShape
<1>9. KeeperInv(chain, log'[k], holding'[k], moduleCursors'[k], exhausted'[k], missing'[k],
                began'[k], call'[k], k \notin overlapped')
  BY <1>2, <1>5, <1>7
<1>10. QED
  BY <1>2, <1>7, <1>8, <1>9, OneKeeperMoves

\* A call begins.
LEMMA BeginInv ==
  ASSUME MergeInv, NEW k \in Keepers, NEW c \in Calls, NEW goal \in CallRecord,
         goal.goal = "digest" => goal.arg \in DOMAIN chain, begin(k, c, goal)
  PROVE  MergeInv'
<1>1. look(k, c, goal)
      /\ overlapped' = IF \E o \in Calls : call[k][o] # Idle THEN overlapped \cup {k} ELSE overlapped
  BY DEF begin
<1>2. \A j \in Keepers : j # k => (j \in overlapped' <=> j \in overlapped)
  BY <1>1
<1>3. k \notin overlapped' => /\ k \notin overlapped
                              /\ \A o \in Calls : o # c => call[k][o] = Idle
  BY <1>1
<1>4. QED
  BY <1>1, <1>2, <1>3, LookInv

\* A call that has ended a round goes on.
LEMMA LookAgainInv ==
  ASSUME MergeInv, NEW k \in Keepers, NEW c \in Calls, lookAgain(k, c)
  PROVE  MergeInv'
<1>1. call[k][c] # Idle /\ look(k, c, call[k][c]) /\ overlapped' = overlapped
  BY DEF lookAgain, betweenRounds
<1>2. KeeperInv(chain, log[k], holding[k], moduleCursors[k], exhausted[k], missing[k],
                began[k], call[k], k \notin overlapped)
  BY DEF MergeInv
<1>3. CallOK(chain, log[k], holding[k], began[k], call[k][c])
  BY <1>2 DEF KeeperInv
<1>4. call[k][c] \in CallRecord /\ (call[k][c].goal = "digest" => call[k][c].arg \in DOMAIN chain)
  BY <1>3 DEF CallOK
<1>5. k \notin overlapped => \A o \in Calls : o # c => call[k][o] = Idle
  BY <1>1, <1>2 DEF KeeperInv, OneAtATime
<1>6. QED
  BY <1>1, <1>4, <1>5, LookInv

\* A call fails with its query.
LEMMA QueryFailsInv ==
  ASSUME MergeInv, NEW k \in Keepers, NEW c \in Calls, queryFails(k, c)
  PROVE  MergeInv'
<1>1. call[k][c].turn # 0 /\ call' = [call EXCEPT ![k][c] = Idle]
      /\ UNCHANGED <<pageLimit, chain, log, holding, moduleCursors, exhausted, missing, began, overlapped>>
  BY DEF queryFails, merged, observed
<1>2. MergeShape /\ ChainOK(chain)
      /\ KeeperInv(chain, log[k], holding[k], moduleCursors[k], exhausted[k], missing[k],
                   began[k], call[k], k \notin overlapped)
  BY DEF MergeInv
<1>3. call[k] \in [Calls -> CallRecord]
  BY <1>2 DEF MergeShape
<1>4. Idle \in CallRecord /\ Idle.turn = 0 /\ Idle.goal = "none"
  BY MergeAssumption DEF Idle, CallRecord
<1>5. k \notin overlapped => \A o \in Calls : o # c => call[k][o] = Idle
  BY <1>1, <1>2, <1>4 DEF KeeperInv, OneAtATime
<1>6. Misses(missing[k], missing[k], exhausted[k], log[k])
  BY <1>2 DEF KeeperInv, KeeperOK, Misses
<1>7. KeeperInv(chain, log[k], holding[k], moduleCursors[k], exhausted[k], missing[k],
                began[k], [call[k] EXCEPT ![c] = Idle], k \notin overlapped)
  <2> DEFINE alone == k \notin overlapped
             alone2 == k \notin overlapped
             next == Idle
             ms2 == missing[k]
             bg2 == began[k]
  <2>1. alone2 => alone /\ \A o \in Calls : o # c => call[k][o] = Idle
    BY <1>5
  <2>2. KeeperInv(chain, log[k], holding[k], moduleCursors[k], exhausted[k], missing[k],
                  began[k], call[k], alone)
    BY <1>2
  <2>3. next \in CallRecord /\ (next.goal = "digest" => next.arg \in DOMAIN chain)
    BY <1>4
  <2>4. /\ Misses(missing[k], ms2, exhausted[k], log[k])
        /\ \/ Ends(next) /\ bg2 = began[k]
           \/ Starts(next, next, moduleCursors[k])
              /\ bg2 = IF began[k] = NotBegun THEN Len(chain) ELSE began[k]
    BY <1>6 DEF Ends
  <2> HIDE DEF alone, alone2, next, ms2, bg2
  <2>5. KeeperInv(chain, log[k], holding[k], moduleCursors[k], exhausted[k], ms2,
                  bg2, [call[k] EXCEPT ![c] = next], alone2)
    BY Zenon, <1>2, <1>3, <2>1, <2>2, <2>3, <2>4, CallMoves
  <2>6. QED
    BY <2>5 DEF alone2, next, ms2, bg2
<1>8. /\ call' \in [Keepers -> [Calls -> CallRecord]] /\ call'[k] = [call[k] EXCEPT ![c] = Idle]
      /\ \A j \in Keepers : j # k => call'[j] = call[j]
  BY <1>1, <1>2, <1>4 DEF MergeShape
<1>9. MergeShape'
  BY <1>1, <1>2, <1>8 DEF MergeShape
<1>10. KeeperInv(chain, log'[k], holding'[k], moduleCursors'[k], exhausted'[k], missing'[k],
                 began'[k], call'[k], k \notin overlapped')
  BY <1>1, <1>7, <1>8
<1>11. QED
  BY <1>1, <1>8, <1>9, <1>10, OneKeeperMoves

\* After an answer the round goes on with a later module, or ends with a release.
GoesOn(lg, held, cur, c, ans, spent, grown, left, next) ==
  /\ ~(Modules \subseteq spent) /\ grown = lg /\ left = pushed(held, ans.data)
  /\ \E i \in (c.turn + 1)..Len(EVENT_MODULES) :
       next = [goal |-> c.goal, arg |-> c.arg, turn |-> i,
               after |-> cur[EVENT_MODULES[i]], sent |-> Len(chain)]

EndsRound(lg, held, c, ans, high, spent, grown, left, next) ==
  /\ \E s : Releases(lg, pushed(held, ans.data), spent, high, s, grown, left)
  /\ next = [Idle EXCEPT !.goal = c.goal, !.arg = c.arg]

\* What an answer, and the release if any, leave of a keeper.
LEMMA AnswerKeeps ==
  ASSUME ChainOK(chain), NEW lg, NEW held, NEW cur, NEW ex, NEW ms, NEW bg,
         KeeperOK(chain, lg, held, cur, ex, ms, bg),
         NEW c, CallOK(chain, lg, held, bg, c), NEW limit \in Nat \ {0}, NEW length,
         NEW ans, NEW high, NEW spent, Answered(cur, ex, c, limit, length, ans, high, spent),
         NEW grown, NEW left, NEW next,
         \/ GoesOn(lg, held, cur, c, ans, spent, grown, left, next)
         \/ EndsRound(lg, held, c, ans, high, spent, grown, left, next)
  PROVE  /\ KeeperOK(chain, grown, left, high, spent, ms, bg)
         /\ \A p \in Positions : HandedIn(lg, held, p) => HandedIn(grown, left, p)
         /\ c.after = cur[EVENT_MODULES[c.turn]] /\ Single(chain, lg, held, cur) => Single(chain, grown, left, high)
<1> DEFINE held2 == pushed(held, ans.data)
<1>1. /\ Handed(chain, lg, held, cur) /\ Complete(chain, lg, held, ex, bg) /\ Straight(chain, lg, bg)
      /\ ms \in SUBSET DOMAIN chain /\ \A p \in ms : p > bg
  BY DEF KeeperOK
<1>2. /\ More(held, held2) /\ Handed(chain, lg, held2, high)
      /\ Complete(chain, lg, held2, spent, bg)
  <2>1. /\ More(held, pushed(held, ans.data)) /\ Handed(chain, lg, pushed(held, ans.data), high)
        /\ Complete(chain, lg, pushed(held, ans.data), spent, bg)
    BY Zenon, <1>1, ArrivesHeld
  <2>2. QED
    BY <2>1
<1>3. c.after = cur[EVENT_MODULES[c.turn]] /\ Single(chain, lg, held, cur) => Single(chain, lg, held2, high)
  BY Zenon, <1>1, ArrivesOnce
<1> HIDE DEF held2
<1>4. bg # NotBegun
  <2>1. c # Idle
    BY DEF Answered, Idle
  <2>2. QED
    BY <2>1 DEF CallOK
<1>5. \A p \in Positions : HandedIn(lg, held, p) => HandedIn(lg, held2, p)
  BY <1>2 DEF More, HandedIn
<1>6. CASE GoesOn(lg, held, cur, c, ans, spent, grown, left, next)
  <2>1. ~(Modules \subseteq spent) /\ grown = lg /\ left = held2
    BY <1>6 DEF GoesOn, held2
  <2>2. KeeperOK(chain, grown, left, high, spent, ms, bg)
    BY <1>1, <1>2, <1>4, <2>1 DEF KeeperOK
  <2>3. QED
    BY <1>3, <1>5, <2>1, <2>2
<1>7. CASE EndsRound(lg, held, c, ans, high, spent, grown, left, next)
  <2>1. PICK s : Releases(lg, held2, spent, high, s, grown, left)
    BY <1>7 DEF EndsRound, held2
  <2>2. /\ Handed(chain, grown, left, high) /\ Complete(chain, grown, left, spent, bg)
        /\ \A p \in Positions : HandedIn(lg, held2, p) => HandedIn(grown, left, p)
        /\ Modules \subseteq spent => \A p \in Positions : left[p] = 0
    <3>1. Handed(chain, lg, held2, high) /\ Complete(chain, lg, held2, spent, bg)
      BY <1>2
    <3>2. Handed(chain, grown, left, high)
      BY Zenon, <2>1, <3>1, ReleaseKeeps
    <3>3. Complete(chain, grown, left, spent, bg)
      BY Zenon, <2>1, <3>1, ReleaseKeeps
    <3>4. \A p \in Positions : HandedIn(lg, held2, p) => HandedIn(grown, left, p)
      BY Zenon, <2>1, <3>1, ReleaseKeeps
    <3>5. Modules \subseteq spent => \A p \in Positions : left[p] = 0
      BY <2>1, <3>1, ReleaseKeeps
    <3>6. QED
      BY <3>2, <3>3, <3>4, <3>5
  <2>3. Straight(chain, grown, bg)
    BY Zenon, <1>1, <1>2, <2>1, ReleaseStraight
  <2>4. Single(chain, lg, held2, high) => Single(chain, grown, left, high)
    BY Zenon, <1>2, <2>1, ReleaseOnce
  <2>5. KeeperOK(chain, grown, left, high, spent, ms, bg)
    BY <1>1, <1>4, <2>2, <2>3 DEF KeeperOK
  <2>6. QED
    BY <1>3, <1>5, <2>2, <2>4, <2>5
<1>8. QED
  BY <1>6, <1>7

\* The calls then: the one answered has its next query to await, from the cursor of a
\* module no answer has just moved, or a round behind it.
LEMMA CallsGoOn ==
  ASSUME ChainOK(chain), NEW lg, NEW held, NEW cur, NEW ex, NEW ms, NEW bg, NEW cl, NEW alone,
         KeeperInv(chain, lg, held, cur, ex, ms, bg, cl, alone), NEW c \in Calls,
         cl \in [Calls -> CallRecord], NEW limit \in Nat \ {0}, NEW length,
         NEW ans, NEW high, NEW spent, Answered(cur, ex, cl[c], limit, length, ans, high, spent),
         NEW grown, NEW left, NEW next,
         \/ GoesOn(lg, held, cur, cl[c], ans, spent, grown, left, next)
         \/ EndsRound(lg, held, cl[c], ans, high, spent, grown, left, next)
  PROVE  /\ next \in CallRecord
         /\ KeeperInv(chain, grown, left, high, spent, ms, bg, [cl EXCEPT ![c] = next], alone)
<1> DEFINE cl2 == [cl EXCEPT ![c] = next]
           q == cl[c]
<1>1. /\ KeeperOK(chain, lg, held, cur, ex, ms, bg)
      /\ \A a \in Calls : CallOK(chain, lg, held, bg, cl[a])
      /\ alone => Single(chain, lg, held, cur) /\ OneAtATime(cur, cl)
  BY DEF KeeperInv
<1>2. CallOK(chain, lg, held, bg, q) /\ q \in CallRecord
      /\ Answered(cur, ex, q, limit, length, ans, high, spent)
      /\ \/ GoesOn(lg, held, cur, q, ans, spent, grown, left, next)
         \/ EndsRound(lg, held, q, ans, high, spent, grown, left, next)
  BY <1>1
<1>3. q.turn # 0 /\ q.turn \in 1..Len(EVENT_MODULES) /\ Len(EVENT_MODULES) \in Nat
      /\ high = [cur EXCEPT ![EVENT_MODULES[q.turn]] = cursorAfter(q.after, ans)]
  BY <1>2, MergeAssumption DEF Answered, CallRecord
<1>4. \A a \in Calls : cl2[a] = IF a = c THEN next ELSE cl[a]
  OBVIOUS
<1>5. q = cl[c]
  OBVIOUS
<1> HIDE DEF cl2, q
<1>6. /\ KeeperOK(chain, grown, left, high, spent, ms, bg)
      /\ \A p \in Positions : HandedIn(lg, held, p) => HandedIn(grown, left, p)
      /\ q.after = cur[EVENT_MODULES[q.turn]] /\ Single(chain, lg, held, cur) => Single(chain, grown, left, high)
  BY Zenon, <1>1, <1>2, AnswerKeeps
<1>7. bg # NotBegun /\ Idle.turn = 0 /\ q # Idle /\ (q.goal = "digest" => q.arg \in DOMAIN chain)
      /\ bg \in NotBegun..Len(chain)
  <2>1. Idle.turn = 0
    BY DEF Idle
  <2>2. q # Idle
    BY <1>3, <2>1
  <2>3. bg \in NotBegun..Len(chain)
    BY <1>1 DEF KeeperOK, Complete
  <2>4. QED
    BY <1>2, <2>1, <2>2, <2>3 DEF CallOK
<1>8. DOMAIN chain = 1..Len(chain) /\ Len(chain) \in Nat /\ DOMAIN chain \subseteq Positions
  BY MergeAssumption DEF ChainOK, Positions
<1>9. next \in CallRecord /\ CallOK(chain, grown, left, bg, next)
      /\ (next.turn # 0 => next.after = high[EVENT_MODULES[next.turn]])
  <2>1. CASE EndsRound(lg, held, q, ans, high, spent, grown, left, next)
    <3>1. next = [goal |-> q.goal, arg |-> q.arg, turn |-> 0, after |-> 0, sent |-> 0]
      BY <2>1 DEF EndsRound, Idle
    <3>2. next \in CallRecord /\ next.turn = 0 /\ next.goal = q.goal /\ next.arg = q.arg
      BY <1>2, <1>3, <3>1 DEF CallRecord
    <3>3. QED
      BY <1>7, <3>2 DEF CallOK
  <2>2. CASE GoesOn(lg, held, cur, q, ans, spent, grown, left, next)
    <3>1. PICK i \in (q.turn + 1)..Len(EVENT_MODULES) :
            next = [goal |-> q.goal, arg |-> q.arg, turn |-> i,
                    after |-> cur[EVENT_MODULES[i]], sent |-> Len(chain)]
      BY <2>2 DEF GoesOn
    <3>2. i \in 1..Len(EVENT_MODULES) /\ i # q.turn
      BY <1>3
    <3>3. EVENT_MODULES[i] \in Modules /\ EVENT_MODULES[i] # EVENT_MODULES[q.turn]
      BY <1>3, <3>2, MergeAssumption DEF Modules, ToSet, IsInjective
    <3>4. /\ cur \in [Modules -> 0..Len(chain)]
          /\ \A p \in DOMAIN chain : p <= cur[chain[p].module] => HandedIn(lg, held, p)
      BY <1>1 DEF KeeperOK, Handed
    <3>5. high[EVENT_MODULES[i]] = cur[EVENT_MODULES[i]] /\ cur[EVENT_MODULES[i]] \in 0..Len(chain)
      BY <1>3, <3>3, <3>4
    <3>6. /\ next.goal = q.goal /\ next.arg = q.arg /\ next.turn = i
          /\ next.after = cur[EVENT_MODULES[i]] /\ next.sent = Len(chain)
      BY <3>1
    <3>7. next \in CallRecord
      BY <1>2, <1>8, <3>1, <3>2, <3>5 DEF CallRecord
    <3>8. next.after <= next.sent /\ next.sent <= Len(chain) /\ bg <= next.sent
      BY <1>7, <1>8, <3>5, <3>6 DEF NotBegun
    <3>9. \A p \in DOMAIN chain :
            chain[p].module = EVENT_MODULES[next.turn] /\ p <= next.after => HandedIn(grown, left, p)
      BY <1>6, <1>8, <3>4, <3>6
    <3>10. CallOK(chain, grown, left, bg, next)
      BY <1>7, <3>6, <3>7, <3>8, <3>9 DEF CallOK
    <3>11. QED
      BY <3>5, <3>6, <3>7, <3>10
  <2>3. QED
    BY <1>2, <2>1, <2>2
<1>10. ASSUME NEW a \in Calls
       PROVE  CallOK(chain, grown, left, bg, cl2[a])
  <2>1. CASE a = c
    BY <1>4, <1>9, <2>1
  <2>2. CASE a # c
    <3>1. CallOK(chain, lg, held, bg, cl[a])
      BY <1>1
    <3>2. CallOK(chain, grown, left, bg, cl[a])
      BY <1>6, <1>7, <3>1, CallStands
    <3>3. QED
      BY <1>4, <2>2, <3>2
  <2>3. QED
    BY <2>1, <2>2
<1>11. ASSUME alone
       PROVE  Single(chain, grown, left, high) /\ OneAtATime(high, cl2)
  <2>1. Single(chain, lg, held, cur) /\ OneAtATime(cur, cl)
    BY <1>1, <1>11
  <2>2. q.after = cur[EVENT_MODULES[q.turn]] /\ \A a \in Calls : a # c => cl[a] = Idle
    BY <1>3, <1>5, <1>7, <2>1 DEF OneAtATime
  <2>3. \A a \in Calls : cl2[a] # Idle => a = c
    BY <1>4, <2>2
  <2>4. \A a \in Calls : cl2[a].turn # 0 => cl2[a].after = high[EVENT_MODULES[cl2[a].turn]]
    BY <1>4, <1>7, <1>9, <2>3
  <2>5. QED
    BY <1>6, <2>1, <2>2, <2>3, <2>4 DEF OneAtATime
<1>12. KeeperInv(chain, grown, left, high, spent, ms, bg, cl2, alone)
  BY <1>6, <1>10, <1>11 DEF KeeperInv
<1>13. QED
  BY <1>9, <1>12 DEF cl2

\* One answer, and what it leaves of one keeper.
LEMMA FetchMoreInv ==
  ASSUME MergeInv, NEW k \in Keepers, NEW c \in Calls, fetchMore(k, c)
  PROVE  MergeInv'
<1>1. MergeShape /\ ChainOK(chain)
      /\ KeeperInv(chain, log[k], holding[k], moduleCursors[k], exhausted[k], missing[k],
                   began[k], call[k], k \notin overlapped)
  BY DEF MergeInv
<1>2. call[k] \in [Calls -> CallRecord] /\ call[k][c] \in CallRecord /\ call[k][c].turn # 0
      /\ pageLimit[k] \in Nat \ {0}
  <2>1. call[k] \in [Calls -> CallRecord] /\ pageLimit[k] \in PageLimits
    BY <1>1 DEF MergeShape
  <2>2. call[k][c].turn # 0
    BY DEF fetchMore
  <2>3. QED
    BY <2>1, <2>2, MergeAssumption
<1>3. CallOK(chain, log[k], holding[k], began[k], call[k][c])
  BY <1>1 DEF KeeperInv
<1>4. PICK ans \in answers(k, call[k][c]) :
       LET m == EVENT_MODULES[call[k][c].turn]
           held == pushed(holding[k], ans.data)
           high == [moduleCursors[k] EXCEPT ![m] = cursorAfter(call[k][c].after, ans)]
           spent == spentBy(k, m, ans)
           next == nextLive(call[k][c].turn + 1, spent)
           ready == orderable({p \in Positions : held[p] > 0}, spent, high)
           part(out) == [p \in Positions |-> IF (p \in ready) = out THEN held[p] ELSE 0]
       IN /\ moduleCursors' = [moduleCursors EXCEPT ![k] = high]
          /\ exhausted' = [exhausted EXCEPT ![k] = spent]
          /\ \/ /\ next # 0
                /\ call' = [call EXCEPT ![k][c] = asking(k, @, next)]
                /\ holding' = [holding EXCEPT ![k] = held]
                /\ UNCHANGED log
             \/ /\ next = 0
                /\ call' = [call EXCEPT ![k][c] = [Idle EXCEPT !.goal = call[k][c].goal, !.arg = call[k][c].arg]]
                /\ holding' = [holding EXCEPT ![k] = part(FALSE)]
                /\ \E s \in released(part(TRUE)) : log' = [log EXCEPT ![k] = @ \o s]
  BY DEF fetchMore
<1> DEFINE q == call[k][c]
           m == EVENT_MODULES[q.turn]
           held == pushed(holding[k], ans.data)
           high == [moduleCursors[k] EXCEPT ![m] = cursorAfter(q.after, ans)]
           spent == spentBy(k, m, ans)
           i == nextLive(q.turn + 1, spent)
           ready == orderable({p \in Positions : held[p] > 0}, spent, high)
<1>5. UNCHANGED <<pageLimit, chain, missing, began, overlapped>>
  BY DEF fetchMore, observed
<1>6. PICK length \in q.sent..Len(chain) : ans = page(m, q.after, pageLimit[k], length)
  BY <1>4 DEF answers
<1>7. Answered(moduleCursors[k], exhausted[k], q, pageLimit[k], length, ans, high, spent)
  BY <1>2, <1>6 DEF Answered, spentBy
<1>8. PICK next, grown, left :
        /\ moduleCursors' = [moduleCursors EXCEPT ![k] = high]
        /\ exhausted' = [exhausted EXCEPT ![k] = spent]
        /\ call' = [call EXCEPT ![k][c] = next]
        /\ holding' = [holding EXCEPT ![k] = left] /\ log' = [log EXCEPT ![k] = grown]
        /\ \/ GoesOn(log[k], holding[k], moduleCursors[k], q, ans, spent, grown, left, next)
           \/ EndsRound(log[k], holding[k], q, ans, high, spent, grown, left, next)
  <2>1. q.turn + 1 \in Nat \ {0} /\ Len(EVENT_MODULES) \in Nat
    BY <1>2, MergeAssumption DEF CallRecord
  <2>2. CASE i # 0
    <3>1. /\ moduleCursors' = [moduleCursors EXCEPT ![k] = high]
          /\ exhausted' = [exhausted EXCEPT ![k] = spent]
          /\ call' = [call EXCEPT ![k][c] = asking(k, q, i)]
          /\ holding' = [holding EXCEPT ![k] = held] /\ UNCHANGED log
      BY <1>4, <2>2
    <3>2. log' = [log EXCEPT ![k] = log[k]]
      BY <1>1, <3>1 DEF MergeShape
    <3> HIDE DEF m, high, spent, ready
    <3>3. i \in (q.turn + 1)..Len(EVENT_MODULES) /\ ~(Modules \subseteq spent)
      BY <2>1, <2>2, WhoseTurn, AllSpent
    <3> HIDE DEF i
    <3>4. GoesOn(log[k], holding[k], moduleCursors[k], q, ans, spent, log[k], held, asking(k, q, i))
      BY <3>3 DEF GoesOn, asking
    <3>5. QED
      BY <3>1, <3>2, <3>4
  <2>3. CASE i = 0
    <3> DEFINE next == [Idle EXCEPT !.goal = q.goal, !.arg = q.arg]
               left == Part(held, ready, FALSE)
    <3>1. /\ moduleCursors' = [moduleCursors EXCEPT ![k] = high]
          /\ exhausted' = [exhausted EXCEPT ![k] = spent]
          /\ call' = [call EXCEPT ![k][c] = next]
          /\ holding' = [holding EXCEPT ![k] = left]
          /\ \E s \in released(Part(held, ready, TRUE)) : log' = [log EXCEPT ![k] = @ \o s]
      BY <1>4, <2>3 DEF Part
    <3>2. PICK s \in released(Part(held, ready, TRUE)) : log' = [log EXCEPT ![k] = log[k] \o s]
      BY <1>1, <3>1 DEF MergeShape
    <3>3. Releases(log[k], held, spent, high, s, log[k] \o s, left)
      BY <3>2 DEF Releases
    <3> HIDE DEF m, high, spent, ready, left, i
    <3>4. EndsRound(log[k], holding[k], q, ans, high, spent, log[k] \o s, left, next)
      BY <3>3 DEF EndsRound
    <3> HIDE DEF next
    <3>5. QED
      BY <3>1, <3>2, <3>4
  <2>4. QED
    BY <2>2, <2>3
<1> HIDE DEF m, held, high, spent, i, ready
<1>9. /\ next \in CallRecord
      /\ KeeperInv(chain, grown, left, high, spent, missing[k], began[k],
                   [call[k] EXCEPT ![c] = next], k \notin overlapped)
  <2> DEFINE alone == k \notin overlapped
  <2>1. KeeperInv(chain, log[k], holding[k], moduleCursors[k], exhausted[k], missing[k],
                  began[k], call[k], alone)
    BY <1>1
  <2>2. /\ Answered(moduleCursors[k], exhausted[k], call[k][c], pageLimit[k], length, ans, high, spent)
        /\ \/ GoesOn(log[k], holding[k], moduleCursors[k], call[k][c], ans, spent, grown, left, next)
           \/ EndsRound(log[k], holding[k], call[k][c], ans, high, spent, grown, left, next)
    BY <1>7, <1>8
  <2> HIDE DEF alone, q
  <2>3. /\ next \in CallRecord
        /\ KeeperInv(chain, grown, left, high, spent, missing[k], began[k],
                     [call[k] EXCEPT ![c] = next], alone)
    BY Zenon, <1>1, <1>2, <2>1, <2>2, CallsGoOn
  <2>4. QED
    BY <2>3 DEF alone
<1>10. grown \in Seq(Nat) /\ left \in [Positions -> Nat] /\ high \in [Modules -> Nat]
       /\ spent \in SUBSET Modules
  <2>1. DOMAIN chain \subseteq Nat /\ Len(chain) \in Nat
    BY <1>1 DEF ChainOK
  <2>2. Handed(chain, grown, left, high) /\ spent \in SUBSET Modules
    BY <1>9 DEF KeeperInv, KeeperOK, Complete
  <2>3. grown \in Seq(DOMAIN chain) /\ left \in [Positions -> Nat]
        /\ high \in [Modules -> 0..Len(chain)]
    BY <2>2 DEF Handed
  <2>4. grown \in Seq(Nat)
    BY <2>1, <2>3
  <2>5. QED
    BY <2>1, <2>2, <2>3, <2>4
<1>11. /\ log' \in [Keepers -> Seq(Nat)] /\ holding' \in [Keepers -> [Positions -> Nat]]
       /\ moduleCursors' \in [Keepers -> [Modules -> Nat]]
       /\ exhausted' \in [Keepers -> SUBSET Modules]
       /\ call' \in [Keepers -> [Calls -> CallRecord]]
       /\ log'[k] = grown /\ holding'[k] = left /\ moduleCursors'[k] = high
       /\ exhausted'[k] = spent /\ call'[k] = [call[k] EXCEPT ![c] = next]
       /\ \A j \in Keepers : j # k =>
            /\ log'[j] = log[j] /\ holding'[j] = holding[j] /\ moduleCursors'[j] = moduleCursors[j]
            /\ exhausted'[j] = exhausted[j] /\ call'[j] = call[j]
  BY <1>1, <1>8, <1>9, <1>10 DEF MergeShape
<1>12. MergeShape'
  BY <1>1, <1>5, <1>11 DEF MergeShape
<1>13. KeeperInv(chain, log'[k], holding'[k], moduleCursors'[k], exhausted'[k], missing'[k],
                 began'[k], call'[k], k \notin overlapped')
  BY <1>5, <1>9, <1>11
<1>14. QED
  BY <1>5, <1>11, <1>12, <1>13, OneKeeperMoves

------------------------------------------------------------------------
(* The theorems. *)

\* What the cursors of a keeper have passed was handed to it, and so was all that a
\* module it is done with had when it began, whatever it asks for, whatever fails and
\* however its calls overlap; while they do not, nothing is handed to it twice.
THEOREM MergeInvariance == MergeSpec => []MergeInv
<1>1. MergeInit => MergeInv
  BY MergeInitInv
<1>2. MergeInv /\ [MergeNext]_mergeVars => MergeInv'
  <2>1. SUFFICES ASSUME MergeInv, [MergeNext]_mergeVars
                 PROVE  MergeInv'
    OBVIOUS
  <2>2. CASE UNCHANGED mergeVars
    BY <2>1, <2>2, MergeStutters
  <2>3. CASE \E m \in Modules : Emit(m)
    BY <2>1, <2>3, EmitInv
  <2>4. ASSUME NEW k \in Keepers, NEW c \in Calls, callStep(k, c)
        PROVE  MergeInv'
    <3>1. /\ ChainOK(chain) /\ MergeShape
      BY <2>1, MergeAssumption DEF MergeInv
    <3>2. Idle \in CallRecord /\ Idle.goal = "none"
      BY MergeAssumption DEF Idle, CallRecord
    <3>3. CASE readEvents(k, c)
      <4>1. PICK start \in 0..Len(log[k]) :
              begin(k, c, [Idle EXCEPT !.goal = "read", !.arg = start + pageLimit[k]])
        BY <3>3 DEF readEvents
      <4>2. start + pageLimit[k] \in Nat
        <5>1. log[k] \in Seq(Nat) /\ pageLimit[k] \in PageLimits
          BY <3>1 DEF MergeShape
        <5>2. Len(log[k]) \in Nat
          BY <5>1
        <5>3. PageLimits \subseteq Nat
          BY MergeAssumption
        <5>4. pageLimit[k] \in Nat
          BY <5>1, <5>3
        <5>5. QED
          BY <5>2, <5>4
      <4> DEFINE goal == [Idle EXCEPT !.goal = "read", !.arg = start + pageLimit[k]]
      <4>3. goal \in CallRecord /\ goal.goal = "read"
        BY <3>2, <4>2 DEF CallRecord, Idle
      <4> HIDE DEF goal
      <4>4. begin(k, c, goal)
        BY <4>1 DEF goal
      <4>5. QED
        BY <2>1, <4>3, <4>4, BeginInv
    <3>4. CASE \E p \in Wanted \cap DOMAIN chain : digestFor(k, c, p)
      <4>1. PICK p \in DOMAIN chain : digestFor(k, c, p)
        BY <3>4
      <4> DEFINE goal == [Idle EXCEPT !.goal = "digest", !.arg = p]
      <4>2. p \in Nat
        BY <3>1 DEF ChainOK
      <4>3. goal \in CallRecord /\ goal.arg = p
        BY <3>2, <4>2 DEF CallRecord, Idle
      <4>4. begin(k, c, goal)
        BY <4>1 DEF digestFor
      <4> HIDE DEF goal
      <4>5. QED
        BY <2>1, <4>3, <4>4, BeginInv
    <3>5. CASE lookAgain(k, c)
      BY <2>1, <3>5, LookAgainInv
    <3>6. CASE fetchMore(k, c)
      BY <2>1, <3>6, FetchMoreInv
    <3>7. CASE queryFails(k, c)
      BY <2>1, <3>7, QueryFailsInv
    <3>8. QED
      BY <2>4, <3>3, <3>4, <3>5, <3>6, <3>7 DEF callStep
  <2>5. QED
    BY <2>1, <2>2, <2>3, <2>4 DEF MergeNext
<1>3. QED
  BY <1>1, <1>2, PTL DEF MergeSpec

\* In the log of a keeper that has read a chain in key order since it last grew, an
\* older event comes first, however pages, queries and calls fell; and a keeper whose
\* calls have not overlapped has no event twice.
THEOREM PagingLeavesNoTrace == MergeSpec => []PagingInvisible
<1>1. MergeInv => PagingInvisible
  <2>1. SUFFICES ASSUME MergeInv, NEW k \in Keepers
                 PROVE  /\ KeysInOrder /\ began[k] = Len(chain) => OlderFirst(log[k])
                        /\ k \notin overlapped => IsInjective(log[k])
    BY DEF PagingInvisible
  <2>2. KeeperInv(chain, log[k], holding[k], moduleCursors[k], exhausted[k], missing[k],
                  began[k], call[k], k \notin overlapped)
    BY <2>1 DEF MergeInv
  <2>3. Straight(chain, log[k], began[k])
    BY <2>2 DEF KeeperInv, KeeperOK
  <2>4. k \notin overlapped => IsInjective(log[k])
    BY <2>2 DEF KeeperInv, Single
  <2>5. KeysInOrder => InOrder(chain)
    BY DEF KeysInOrder, InOrder, before, rawEventKey
  <2>6. QED
    BY <2>3, <2>4, <2>5 DEF Straight
<1>2. QED
  BY <1>1, MergeInvariance, PTL

\* A request reported as missing was made after the keeper's first query.
THEOREM MissingMeansNew == MergeSpec => []NotFoundMeansNew
<1>1. MergeInv => NotFoundMeansNew
  BY DEF MergeInv, KeeperInv, KeeperOK, NotFoundMeansNew
<1>2. QED
  BY <1>1, MergeInvariance, PTL

------------------------------------------------------------------------
(* The capability registry. *)

(* No capability is ahead of the registry: the next epoch is fresh.         *)
NoneAhead ==
    /\ \A c \in admin_caps : c.epoch <= reg.admin_epoch
    /\ \A c \in keeper_caps : c.epoch <= reg.keeper_epoch

(* The inductive invariant: OneLiveCapEach survives a new epoch only        *)
(* because nobody holds a capability of that epoch yet.                     *)
CapsInv == CapsTypeOK /\ OneLiveCapEach /\ NoneAhead

(* Raising an epoch and minting one capability of it leaves that one live,  *)
(* and none ahead.                                                          *)
LEMMA FreshEpoch ==
    ASSUME NEW caps \in SUBSET Cap, NEW epoch \in Nat, NEW who \in Addresses,
           \A c \in caps : c.epoch <= epoch
    PROVE  LET new == [holder |-> who, epoch |-> epoch + 1]
           IN  /\ new \in Cap
               /\ live(caps \cup {new}, epoch + 1) = {new}
               /\ \A c \in caps \cup {new} : c.epoch <= epoch + 1
<1> DEFINE new == [holder |-> who, epoch |-> epoch + 1]
<1>1. new \in Cap
  BY DEF Cap
<1>2. \A c \in caps : c.epoch \in Nat /\ c.epoch <= epoch /\ c.epoch # epoch + 1
  BY DEF Cap
<1>3. QED
  BY <1>1, <1>2 DEF live

(* The allowlist grows only while there is room for one more.               *)
LEMMA AllowlistRoom ==
    ASSUME NEW L, IsFiniteSet(L), NEW e, MaxAllowlist \in Nat
    PROVE  /\ IsFiniteSet(L \cup {e}) /\ IsFiniteSet(L \ {e})
           /\ Cardinality(L) < MaxAllowlist => Cardinality(L \cup {e}) <= MaxAllowlist
           /\ Cardinality(L) <= MaxAllowlist => Cardinality(L \ {e}) <= MaxAllowlist
<1>1. Cardinality(L) \in Nat
  BY FS_CardinalityType
<1>2. /\ IsFiniteSet(L \cup {e})
      /\ Cardinality(L \cup {e}) = IF e \in L THEN Cardinality(L) ELSE Cardinality(L) + 1
  BY FS_AddElement
<1>3. /\ IsFiniteSet(L \ {e})
      /\ Cardinality(L \ {e}) = IF e \in L THEN Cardinality(L) - 1 ELSE Cardinality(L)
  BY FS_RemoveElement
<1>4. QED
  BY <1>1, <1>2, <1>3

(* The registry new_registry makes satisfies the invariant.                 *)
LEMMA CapsInitInv == CapsInit => CapsInv
<1> SUFFICES ASSUME NEW admin \in Addresses, NEW keeper \in Addresses,
                    new_registry(admin, keeper)
             PROVE  CapsInv
  BY DEF CapsInit
<1> USE CapsAssumption
<1>1. CapsTypeOK
  BY FS_EmptySet DEF new_registry, CapsTypeOK, CapRegistry, Cap
<1>2. OneLiveCapEach
  BY DEF new_registry, OneLiveCapEach, live
<1>3. NoneAhead
  BY DEF new_registry, NoneAhead
<1>4. QED
  BY <1>1, <1>2, <1>3 DEF CapsInv

(* Every call, by whoever holds whichever capability, preserves it.         *)
LEMMA CapsNextInv == CapsInv /\ [CapsNext]_capsVars => CapsInv'
<1> SUFFICES ASSUME CapsInv, [CapsNext]_capsVars
             PROVE  CapsInv'
  OBVIOUS
<1> USE CapsAssumption
<1>0. /\ reg \in CapRegistry /\ admin_caps \in SUBSET Cap /\ keeper_caps \in SUBSET Cap
      /\ reg.admin_epoch \in Nat /\ reg.keeper_epoch \in Nat
  BY DEF CapsInv, CapsTypeOK, CapRegistry
<1>1. ASSUME NEW cap \in admin_caps, NEW a \in Addresses, initiate_admin_transfer(cap, a)
      PROVE  CapsInv'
  BY <1>0, <1>1 DEF initiate_admin_transfer, CapsInv, CapsTypeOK, CapRegistry, OneLiveCapEach, NoneAhead
<1>2. ASSUME NEW cap \in admin_caps, cancel_admin_transfer(cap)
      PROVE  CapsInv'
  BY <1>0, <1>2 DEF cancel_admin_transfer, CapsInv, CapsTypeOK, CapRegistry, OneLiveCapEach, NoneAhead
<1>3. ASSUME NEW a \in Addresses, accept_admin_transfer(a)
      PROVE  CapsInv'
  <2> DEFINE new == [holder |-> a, epoch |-> reg.admin_epoch + 1]
  <2>1. /\ reg' = [reg EXCEPT !.admin = a, !.admin_epoch = reg.admin_epoch + 1,
                              !.pending_admin = NoAddress]
        /\ admin_caps' = admin_caps \cup {new} /\ keeper_caps' = keeper_caps
    BY <1>3 DEF accept_admin_transfer
  <2>2. /\ new \in Cap /\ live(admin_caps \cup {new}, reg.admin_epoch + 1) = {new}
        /\ \A c \in admin_caps \cup {new} : c.epoch <= reg.admin_epoch + 1
    <3> DEFINE m == reg.admin_epoch
    <3>1. m \in Nat /\ admin_caps \in SUBSET Cap /\ \A c \in admin_caps : c.epoch <= m
      BY <1>0 DEF CapsInv, NoneAhead
    <3> HIDE DEF m
    <3>2. /\ new \in Cap
          /\ live(admin_caps \cup {[holder |-> a, epoch |-> m + 1]}, m + 1) = {[holder |-> a, epoch |-> m + 1]}
          /\ \A c \in admin_caps \cup {[holder |-> a, epoch |-> m + 1]} : c.epoch <= m + 1
      BY <3>1, FreshEpoch DEF m
    <3>3. QED
      BY <3>2 DEF m
  <2>3. CapsTypeOK'
    <3>1. reg' \in CapRegistry /\ reg'.allowlist = reg.allowlist
      <4> DEFINE m == reg.admin_epoch + 1
      <4>1. m \in Nat
        BY <1>0
      <4>2. reg' = [reg EXCEPT !.admin = a, !.admin_epoch = m, !.pending_admin = NoAddress]
        BY <2>1
      <4> HIDE DEF m
      <4>3. QED
        BY <1>0, <4>1, <4>2 DEF CapRegistry
    <3>2. admin_caps' \subseteq Cap /\ keeper_caps' \subseteq Cap
      BY <1>0, <2>1, <2>2
    <3>3. QED
      BY <3>1, <3>2 DEF CapsInv, CapsTypeOK
  <2>4. OneLiveCapEach'
    BY <1>0, <2>1, <2>2 DEF CapsInv, OneLiveCapEach, CapRegistry
  <2>5. NoneAhead'
    BY <1>0, <2>1, <2>2 DEF CapsInv, NoneAhead, CapRegistry
  <2>6. QED
    BY <2>3, <2>4, <2>5 DEF CapsInv
<1>4. ASSUME NEW cap \in admin_caps, NEW a \in Addresses, rotate_keeper_cap(cap, a)
      PROVE  CapsInv'
  <2> DEFINE new == [holder |-> a, epoch |-> reg.keeper_epoch + 1]
  <2>1. /\ reg' = [reg EXCEPT !.keeper = a, !.keeper_epoch = reg.keeper_epoch + 1]
        /\ keeper_caps' = keeper_caps \cup {new} /\ admin_caps' = admin_caps
    BY <1>4 DEF rotate_keeper_cap
  <2>2. /\ new \in Cap /\ live(keeper_caps \cup {new}, reg.keeper_epoch + 1) = {new}
        /\ \A c \in keeper_caps \cup {new} : c.epoch <= reg.keeper_epoch + 1
    BY <1>0, FreshEpoch DEF CapsInv, NoneAhead
  <2>3. CapsTypeOK'
    <3>1. reg' \in CapRegistry /\ reg'.allowlist = reg.allowlist
      <4>1. PICK e \in Nat : e = reg.keeper_epoch + 1
        BY <1>0
      <4>2. QED
        BY <1>0, <2>1, <4>1 DEF CapRegistry
    <3>2. admin_caps' \subseteq Cap /\ keeper_caps' \subseteq Cap
      BY <1>0, <2>1, <2>2
    <3>3. QED
      BY <3>1, <3>2 DEF CapsInv, CapsTypeOK
  <2>4. OneLiveCapEach'
    BY <1>0, <2>1, <2>2 DEF CapsInv, OneLiveCapEach, CapRegistry
  <2>5. NoneAhead'
    BY <1>0, <2>1, <2>2 DEF CapsInv, NoneAhead, CapRegistry
  <2>6. QED
    BY <2>3, <2>4, <2>5 DEF CapsInv
<1>5. ASSUME NEW cap \in admin_caps, NEW paused \in BOOLEAN, set_paused(cap, paused)
      PROVE  CapsInv'
  BY <1>0, <1>5 DEF set_paused, CapsInv, CapsTypeOK, CapRegistry, OneLiveCapEach, NoneAhead
<1>6. ASSUME NEW cap \in admin_caps, NEW e \in Entries,
             allow_address(cap, e) \/ disallow_address(cap, e)
      PROVE  CapsInv'
  <2>1. /\ reg'.allowlist \in SUBSET Entries /\ IsFiniteSet(reg'.allowlist)
        /\ Cardinality(reg'.allowlist) <= MaxAllowlist
    <3>1. IsFiniteSet(reg.allowlist) /\ Cardinality(reg.allowlist) <= MaxAllowlist
      BY DEF CapsInv, CapsTypeOK
    <3>2. CASE allow_address(cap, e)
      <4>1. /\ Cardinality(reg.allowlist) < MaxAllowlist
            /\ reg'.allowlist \in SUBSET Entries /\ reg'.allowlist = reg.allowlist \cup {e}
        BY <1>0, <3>2 DEF allow_address, CapRegistry
      <4>2. QED
        BY <3>1, <4>1, AllowlistRoom
    <3>3. CASE disallow_address(cap, e)
      <4>1. /\ reg'.allowlist \in SUBSET Entries /\ reg'.allowlist = reg.allowlist \ {e}
        BY <1>0, <3>3 DEF disallow_address, CapRegistry
      <4>2. QED
        BY <3>1, <4>1, AllowlistRoom
    <3>4. QED
      BY <1>6, <3>2, <3>3
  <2>2. /\ reg' = [reg EXCEPT !.allowlist = reg'.allowlist]
        /\ UNCHANGED <<admin_caps, keeper_caps>>
    BY <1>0, <1>6 DEF allow_address, disallow_address, CapRegistry
  <2>3. CapsTypeOK'
    BY <1>0, <2>1, <2>2 DEF CapsInv, CapsTypeOK, CapRegistry
  <2>4. OneLiveCapEach' /\ NoneAhead'
    BY <1>0, <2>2 DEF CapsInv, OneLiveCapEach, NoneAhead, CapRegistry
  <2>5. QED
    BY <2>3, <2>4 DEF CapsInv
<1>7. CASE UNCHANGED capsVars
  BY <1>7 DEF capsVars, CapsInv, CapsTypeOK, OneLiveCapEach, NoneAhead
<1>8. QED
  BY <1>1, <1>2, <1>3, <1>4, <1>5, <1>6, <1>7 DEF CapsNext, WithAdminCap

(* The inductive invariant holds of every behaviour of the registry.        *)
THEOREM CapsInvariance == CapsSpec => []CapsInv
  BY CapsInitInv, CapsNextInv, PTL DEF CapsSpec

(* The registry stays well typed and its allowlist within MAX_ALLOWLIST.    *)
THEOREM CapsTypeCorrect == CapsSpec => []CapsTypeOK
<1>1. CapsInv => CapsTypeOK
  BY DEF CapsInv
<1>2. QED
  BY CapsInvariance, <1>1, PTL

(* At any moment the admin, and nobody else, holds a live AdminCap, and the *)
(* keeper, and nobody else, a KeeperCap of the current epoch.               *)
THEOREM OneAuthority == CapsSpec => []OneLiveCapEach
<1>1. CapsInv => OneLiveCapEach
  BY DEF CapsInv
<1>2. QED
  BY CapsInvariance, <1>1, PTL

(* A step never revives a capability: its epoch is behind, and epochs only  *)
(* increase.                                                                *)
THEOREM NoCapRevives == CapsSpec => RetiredForGood
<1> DEFINE A == /\ \A c \in admin_caps : c.epoch # reg.admin_epoch => c.epoch # reg'.admin_epoch
                /\ \A c \in keeper_caps : c.epoch # reg.keeper_epoch => c.epoch # reg'.keeper_epoch
<1>1. CapsInv /\ [CapsNext]_capsVars => [A]_capsVars
  <2> SUFFICES ASSUME CapsInv, CapsNext
               PROVE  A
    OBVIOUS
  <2> USE CapsAssumption
  <2>0. /\ reg \in CapRegistry /\ reg.admin_epoch \in Nat /\ reg.keeper_epoch \in Nat
        /\ \A c \in admin_caps : c.epoch \in Nat /\ c.epoch <= reg.admin_epoch
        /\ \A c \in keeper_caps : c.epoch \in Nat /\ c.epoch <= reg.keeper_epoch
    BY DEF CapsInv, CapsTypeOK, CapRegistry, NoneAhead, Cap
  <2>1. /\ reg'.admin_epoch = reg.admin_epoch \/ reg'.admin_epoch = reg.admin_epoch + 1
        /\ reg'.keeper_epoch = reg.keeper_epoch \/ reg'.keeper_epoch = reg.keeper_epoch + 1
    BY <2>0 DEF CapsNext, WithAdminCap, initiate_admin_transfer, cancel_admin_transfer,
                accept_admin_transfer, rotate_keeper_cap, set_paused, allow_address,
                disallow_address, CapRegistry
  <2>2. QED
    BY <2>0, <2>1
<1>2. CapsSpec => [][A]_capsVars
  BY CapsInvariance, <1>1, PTL DEF CapsSpec
<1>3. QED
  BY <1>2 DEF RetiredForGood

(* The seat of the admin moves only by the nominee's acceptance, and a      *)
(* nomination is withdrawn or used up, never replaced.                      *)
THEOREM ConsentedHandover == CapsSpec => AuthorityMovesByConsent
<1> DEFINE A == /\ reg'.admin_epoch # reg.admin_epoch =>
                      /\ reg.pending_admin # NoAddress
                      /\ reg'.admin = reg.pending_admin
                      /\ reg'.pending_admin = NoAddress
                /\ reg.pending_admin # NoAddress =>
                      reg'.pending_admin \in {reg.pending_admin, NoAddress}
<1>1. CapsInv /\ [CapsNext]_capsVars => [A]_capsVars
  <2> SUFFICES ASSUME CapsInv, CapsNext
               PROVE  A
    OBVIOUS
  <2>0. reg \in CapRegistry
    BY DEF CapsInv, CapsTypeOK
  <2>1. CASE \E a \in Addresses : accept_admin_transfer(a)
    BY <2>0, <2>1, CapsAssumption DEF accept_admin_transfer, CapRegistry
  <2>2. CASE \E cap \in admin_caps : WithAdminCap(cap)
    BY <2>0, <2>2 DEF WithAdminCap, initiate_admin_transfer, cancel_admin_transfer,
                      rotate_keeper_cap, set_paused, allow_address, disallow_address,
                      CapRegistry
  <2>3. QED
    BY <2>1, <2>2 DEF CapsNext
<1>2. CapsSpec => [][A]_capsVars
  BY CapsInvariance, <1>1, PTL DEF CapsSpec
<1>3. QED
  BY <1>2 DEF AuthorityMovesByConsent
========================================================================
