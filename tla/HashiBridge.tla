-------------------------- MODULE HashiBridge --------------------------
(***************************************************************************)
(* The simulated Hashi bridge (keeper/src/hashi/mock.ts): a discrete-event *)
(* simulation on a logical clock.  Deposits and withdrawals move through   *)
(* their statuses by transitions that fall due at exact times; every call  *)
(* of the adapter first "pumps" all due transitions in (time, order)       *)
(* sequence, and appends what happened to an event log.  Here a transition *)
(* is an action of its own and every call waits until nothing is due       *)
(* (Quiet): the code is single-threaded and its pump runs to the end       *)
(* inside the call, so nobody sees the states in between.                  *)
(* Request identifiers are positions; balances are those of hBTC.          *)
(***************************************************************************)
EXTENDS Limiter, Sequences, SequencesExt, FiniteSets

CONSTANTS
  Users,
  Amounts,                 \* sats a request may carry
  DepositMinimum, WithdrawalMinimum,
  DepositApprovalDelay, DepositConfirmDelay,
  WithdrawalApprovalDelay, BatchDelay, SignDelay, ConfirmDelay,
  SignRetryInterval, MaxSignRetries,
  ReorderWindow,           \* pick jitters are 0..ReorderWindow-1, or 0
  CancelCooldown,
  StartBalance,            \* hBTC each user was staged with (creditBalance)
  MaxDeposits, MaxWithdrawals,   \* bound: requests made
  LastRequest,             \* bound: no request after this time
  MaxTime, Steps           \* bound: the clock, and how far one call moves it

ASSUME BridgeAssumption ==
  /\ Amounts \subseteq Nat /\ Steps \subseteq Nat /\ StartBalance \in Nat
  /\ {DepositApprovalDelay, WithdrawalApprovalDelay, BatchDelay, SignDelay,
      ConfirmDelay, SignRetryInterval, ReorderWindow} \subseteq Nat

VARIABLES
  nowMs, limiter, deposits, withdrawals, balances, events,
  burned                   \* history: the sats of all Burned events

bridgeVars == <<nowMs, limiter, deposits, withdrawals, balances, events, burned>>

InQueue == {"Requested", "Approved", "PickedForProcessing"}
PickJitters == IF ReorderWindow > 0 THEN 0..(ReorderWindow - 1) ELSE {0}

Event(kind, id, sats, at) == [kind |-> kind, id |-> id, sats |-> sats, atMs |-> at]

Init ==
  /\ nowMs = 0 /\ limiter = genesis
  /\ deposits = <<>> /\ withdrawals = <<>> /\ events = <<>>
  /\ balances = [u \in Users |-> StartBalance]
  /\ burned = 0

------------------------------------------------------------------------
\* What is pending: each request has at most one transition to come.

withdrawalDue(w) ==
  CASE w.status = "Requested" -> w.requestedAt + WithdrawalApprovalDelay
    [] w.status = "Approved" -> w.approvedAt + BatchDelay + w.pickJitter
    [] w.status = "PickedForProcessing" ->
         IF w.signAttempts = 0 THEN w.pickedAt + SignDelay ELSE w.nextSignAttempt
    [] w.status = "Signed" -> w.signedAt + ConfirmDelay

\* Deposits come before withdrawals, each kind in the order it was requested.
pendingDeposits ==
  {[at |-> deposits[i].requestedAt + DepositApprovalDelay, order |-> i] :
     i \in {j \in DOMAIN deposits : deposits[j].status = "Requested"}}

pendingWithdrawals ==
  {[at |-> withdrawalDue(withdrawals[i]), order |-> MaxDeposits + i] :
     i \in {j \in DOMAIN withdrawals :
              /\ withdrawals[j].status \in InQueue \cup {"Signed"}
              /\ ~withdrawals[j].signAbandoned}}

due == {t \in pendingDeposits \cup pendingWithdrawals : t.at <= nowMs}
Quiet == due = {}

\* The transition the pump applies next, if it is t.
isNext(t) ==
  \A u \in due : t.at < u.at \/ (t.at = u.at /\ t.order <= u.order)

\* Withdrawal i falls due at time t, as status `s`, and it is its turn.
withdrawalFires(i, s, t) ==
  /\ withdrawals[i].status = s
  /\ [at |-> t, order |-> MaxDeposits + i] \in due
  /\ isNext([at |-> t, order |-> MaxDeposits + i])

------------------------------------------------------------------------
\* The transitions, stamped with the time they fell due (never with nowMs).

ApproveDeposit(i) ==
  LET at == deposits[i].requestedAt + DepositApprovalDelay IN
  /\ deposits[i].status = "Requested"
  /\ [at |-> at, order |-> i] \in due /\ isNext([at |-> at, order |-> i])
  /\ deposits' = [deposits EXCEPT ![i].status = "Approved", ![i].approvedAt = at]
  /\ events' = Append(events, Event("DepositApproved", i, deposits[i].sats, at))
  /\ UNCHANGED <<nowMs, limiter, withdrawals, balances, burned>>

ApproveWithdrawal(i) ==
  LET at == withdrawalDue(withdrawals[i]) IN
  /\ withdrawalFires(i, "Requested", at)
  /\ withdrawals' = [withdrawals EXCEPT ![i].status = "Approved", ![i].approvedAt = at]
  /\ events' = Append(events, Event("WithdrawalApproved", i, 0, at))
  /\ UNCHANGED <<nowMs, limiter, deposits, balances, burned>>

PickWithdrawal(i) ==
  LET at == withdrawalDue(withdrawals[i]) IN
  /\ withdrawalFires(i, "Approved", at)
  /\ withdrawals' = [withdrawals EXCEPT ![i].status = "PickedForProcessing", ![i].pickedAt = at]
  /\ events' = Append(events,
                 Event("WithdrawalPickedForProcessing", i, withdrawals[i].sats, at))
  /\ UNCHANGED <<nowMs, limiter, deposits, balances, burned>>

signError(w, at) == consumeError(limiter, limiter.nextSeq, msToSecs(at), w.sats)

\* attemptSign, accepted: the only step that debits the bucket.
SignWithdrawal(i) ==
  LET w == withdrawals[i]
      at == withdrawalDue(w) IN
  /\ withdrawalFires(i, "PickedForProcessing", at)
  /\ signError(w, at) = "none"
  /\ limiter' = consume(limiter, limiter.nextSeq, msToSecs(at), w.sats)
  /\ withdrawals' = [withdrawals EXCEPT ![i].status = "Signed", ![i].signedAt = at]
  /\ events' = events \o <<Event("WithdrawalInputsSigned", i, 0, at),
                           Event("WithdrawalSigned", i, w.sats, at),
                           Event("Burned", i, w.sats, at)>>
  /\ burned' = burned + w.sats
  /\ UNCHANGED <<nowMs, deposits, balances>>

\* Mutant: whatever was refused for lack of room is tried again.
retryable_always(w, at) == signError(w, at) = "RateLimitExceeded"

\* attemptSign, refused: no event and the bucket untouched; tried again later
\* while it can still fit and attempts remain, else dropped for good.
retryable(w, at) ==
  /\ signError(w, at) = "RateLimitExceeded"
  /\ w.sats <= BucketCap
  /\ w.signAttempts + 1 < MaxSignRetries

RetryLater(i) ==
  LET at == withdrawalDue(withdrawals[i]) IN
  /\ withdrawalFires(i, "PickedForProcessing", at)
  /\ signError(withdrawals[i], at) # "none" /\ retryable(withdrawals[i], at)
  /\ withdrawals' = [withdrawals EXCEPT ![i].signAttempts = @ + 1,
                                        ![i].nextSignAttempt = at + SignRetryInterval]
  /\ UNCHANGED <<nowMs, limiter, deposits, balances, events, burned>>

AbandonSign(i) ==
  LET at == withdrawalDue(withdrawals[i]) IN
  /\ withdrawalFires(i, "PickedForProcessing", at)
  /\ signError(withdrawals[i], at) # "none" /\ ~retryable(withdrawals[i], at)
  /\ withdrawals' = [withdrawals EXCEPT ![i].signAttempts = @ + 1,
                                        ![i].signAbandoned = TRUE]
  /\ UNCHANGED <<nowMs, limiter, deposits, balances, events, burned>>

ConfirmWithdrawal(i) ==
  LET at == withdrawalDue(withdrawals[i]) IN
  /\ withdrawalFires(i, "Signed", at)
  /\ withdrawals' = [withdrawals EXCEPT ![i].status = "Confirmed"]
  /\ events' = Append(events, Event("WithdrawalConfirmed", i, 0, at))
  /\ UNCHANGED <<nowMs, limiter, deposits, balances, burned>>

Pump ==
  \/ \E i \in DOMAIN deposits : ApproveDeposit(i)
  \/ \E i \in DOMAIN withdrawals :
       \/ ApproveWithdrawal(i) \/ PickWithdrawal(i) \/ SignWithdrawal(i)
       \/ RetryLater(i) \/ AbandonSign(i) \/ ConfirmWithdrawal(i)

------------------------------------------------------------------------
\* The calls.  Each one first drains the pump.

setNowMs(t) ==
  /\ Quiet /\ t <= MaxTime
  /\ nowMs' = t
  /\ UNCHANGED <<limiter, deposits, withdrawals, balances, events, burned>>

Advance == \E d \in Steps : setNowMs(nowMs + d)

deposit(user, sats) ==
  /\ Quiet /\ nowMs <= LastRequest /\ Len(deposits) < MaxDeposits
  /\ sats >= DepositMinimum
  /\ deposits' = Append(deposits, [recipient |-> user, sats |-> sats,
                          requestedAt |-> nowMs, status |-> "Requested", approvedAt |-> 0])
  /\ events' = Append(events, Event("DepositRequested", Len(deposits) + 1, sats, nowMs))
  /\ UNCHANGED <<nowMs, limiter, withdrawals, balances, burned>>

\* The permissionless crank: anybody, any time after the delay; the mint lands
\* at the recipient.  Confirming a confirmed deposit changes nothing.
confirmDeposit(i) ==
  /\ Quiet
  /\ deposits[i].status = "Approved"
  /\ nowMs >= deposits[i].approvedAt + DepositConfirmDelay
  /\ deposits' = [deposits EXCEPT ![i].status = "Confirmed"]
  /\ balances' = [balances EXCEPT ![deposits[i].recipient] = @ + deposits[i].sats]
  /\ events' = events \o <<Event("DepositConfirmed", i, deposits[i].sats, nowMs),
                           Event("Minted", i, deposits[i].sats, nowMs)>>
  /\ UNCHANGED <<nowMs, limiter, withdrawals, burned>>

\* The debit saturates: a request may exceed the balance.
requestWithdrawal(user, sats, jitter) ==
  /\ Quiet /\ nowMs <= LastRequest /\ Len(withdrawals) < MaxWithdrawals
  /\ sats >= WithdrawalMinimum
  /\ withdrawals' = Append(withdrawals,
       [requester |-> user, sats |-> sats, requestedAt |-> nowMs, pickJitter |-> jitter,
        status |-> "Requested", approvedAt |-> 0, pickedAt |-> 0, signedAt |-> 0,
        nextSignAttempt |-> 0, signAttempts |-> 0, signAbandoned |-> FALSE])
  /\ balances' = [balances EXCEPT ![user] = satSub(@, sats)]
  /\ events' = Append(events, Event("WithdrawalRequested", Len(withdrawals) + 1, sats, nowMs))
  /\ UNCHANGED <<nowMs, limiter, deposits, burned>>

\* Mutant: a request the leader has picked can still be cancelled.
cancelWithdrawal_picked(caller, i) ==
  LET w == withdrawals[i] IN
  /\ Quiet
  /\ caller = w.requester
  /\ w.status \in InQueue
  /\ nowMs >= w.requestedAt + CancelCooldown
  /\ withdrawals' = [withdrawals EXCEPT ![i].status = "Cancelled"]
  /\ balances' = [balances EXCEPT ![w.requester] = @ + w.sats]
  /\ events' = Append(events, Event("WithdrawalCancelled", i, w.sats, nowMs))
  /\ UNCHANGED <<nowMs, limiter, deposits, burned>>

\* Only its requester cancels, before the leader has picked it, after the cooldown.
cancelWithdrawal(caller, i) ==
  LET w == withdrawals[i] IN
  /\ Quiet
  /\ caller = w.requester
  /\ w.status \in {"Requested", "Approved"}
  /\ nowMs >= w.requestedAt + CancelCooldown
  /\ withdrawals' = [withdrawals EXCEPT ![i].status = "Cancelled"]
  /\ balances' = [balances EXCEPT ![w.requester] = @ + w.sats]
  /\ events' = Append(events, Event("WithdrawalCancelled", i, w.sats, nowMs))
  /\ UNCHANGED <<nowMs, limiter, deposits, burned>>

BridgeCall ==
  \/ \E u \in Users, s \in Amounts : deposit(u, s)
  \/ \E i \in DOMAIN deposits : confirmDeposit(i)
  \/ \E u \in Users, s \in Amounts, j \in PickJitters : requestWithdrawal(u, s, j)
  \/ \E u \in Users, i \in DOMAIN withdrawals : cancelWithdrawal(u, i)

BridgeNext == Pump \/ Advance \/ BridgeCall

\* guardian.limiterStatus().tokens, of a drained pump.
limiterStatusTokens == projectCapacityAtSecs(limiter, msToSecs(nowMs))

Spec == Init /\ [][BridgeNext]_bridgeVars

\* The wait loops keep moving the clock, and every call drains the pump.
BridgeFairness == WF_bridgeVars(Pump) /\ WF_bridgeVars(Advance)
FairSpec == Spec /\ BridgeFairness

------------------------------------------------------------------------
BridgeTypeOK ==
  /\ nowMs \in 0..MaxTime /\ limiter \in LimiterState /\ burned \in Nat
  /\ balances \in [Users -> Nat]
  /\ \A i \in DOMAIN deposits : deposits[i].status \in {"Requested", "Approved", "Confirmed"}
  /\ \A i \in DOMAIN withdrawals :
       withdrawals[i].status \in InQueue \cup {"Signed", "Confirmed", "Cancelled"}

Occurs(kind, i) == Cardinality({k \in DOMAIN events : events[k].kind = kind /\ events[k].id = i})

\* A withdrawal is never both refunded and signed, and never signed twice: the
\* cancel of its requester races the leader's pick (mock.ts cancelWithdrawal).
RefundedOrSigned ==
  \A i \in DOMAIN withdrawals :
    /\ Occurs("WithdrawalSigned", i) + Occurs("WithdrawalCancelled", i) <= 1
    /\ Occurs("WithdrawalPickedForProcessing", i) + Occurs("WithdrawalCancelled", i) <= 1

\* What has been burned never outruns the bucket: a full one and its refill up
\* to the last debit (limiter.ts consume, mock.ts attemptSign).
OutflowBounded == burned + limiter.tokens <= BucketCap + RefillRate * limiter.lastUpdated

\* The same over any window of the log: what is signed from one signing to
\* another is bounded by one full bucket and the refill of the window.
SignedSats(evs) ==
  [k \in DOMAIN evs |-> IF evs[k].kind = "WithdrawalSigned" THEN evs[k].sats ELSE 0]
WindowBounded ==
  LET signed == {k \in DOMAIN events : events[k].kind = "WithdrawalSigned"} IN
  \A i, j \in signed :
    i <= j => SumFunctionOnSet(SignedSats(events), i .. j)
                <= BucketCap + RefillRate * (msToSecs(events[j].atMs) - msToSecs(events[i].atMs))

\* What the requests of these statuses come to.
Sats(rs, S) ==
  SumFunctionOnSet([i \in DOMAIN rs |-> rs[i].sats], {i \in DOMAIN rs : rs[i].status \in S})

\* Every withdrawal ends: paid out, refunded, or dropped by the leader.
EveryWithdrawalEnds ==
  \A i \in 1..MaxWithdrawals :
    Len(withdrawals) >= i ~> /\ Len(withdrawals) >= i
                             /\ \/ withdrawals[i].status \in {"Confirmed", "Cancelled"}
                                \/ withdrawals[i].signAbandoned
========================================================================
