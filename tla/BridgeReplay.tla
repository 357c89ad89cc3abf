-------------------------- MODULE BridgeReplay --------------------------
(***************************************************************************)
(* The simulated bridge with the replay of its own log: what a keeper that *)
(* trusts only the events derives, against what the bridge holds.          *)
(***************************************************************************)
EXTENDS HashiBridge, LimiterReplay

\* All the withdrawals there can be, together, are an amount: far less bitcoin
\* exists than MaxU64 sats.
ASSUME AmountsFit ==
  MaxWithdrawals \in Nat /\ \A s \in Amounts : s * MaxWithdrawals <= MaxU64

\* How far a call moves the clock in the small instance.
Jumps == {1, 3}

\* The signed events alone, in log order.
keepSigned(stream, e) == IF e.kind = "WithdrawalSigned" THEN Append(stream, e) ELSE stream
signedStream(evs) == FoldLeft(keepSigned, <<>>, evs)

\* The replay of the log gives the live bucket and the live queue, with every
\* debit resolved and accepted, and so does the signed sub-stream alone for the
\* bucket (mock.ts invariant 3, verify/limiter.ts), between two calls and in
\* the middle of a pump.
ReplayParity ==
  LET whole == deriveLimiter(events)
      signedOnly == deriveLimiter(signedStream(events))
      now == limiterAt(whole, nowMs)
  IN /\ whole.state = limiter /\ whole.unresolved = 0 /\ whole.rejected = 0
     /\ signedOnly.state = limiter /\ signedOnly.rejected = 0
     /\ now.tokens = limiterStatusTokens
     /\ now.depth = Sats(withdrawals, InQueue)
=========================================================================
