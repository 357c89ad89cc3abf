---------------------------- MODULE Limiter ----------------------------
(***************************************************************************)
(* The Guardian's token bucket (keeper/src/hashi/limiter.ts): the pure     *)
(* functions that the simulated bridge (HashiBridge) and the replay of the *)
(* chain's events (LimiterReplay) both call.  Amounts are unsigned and     *)
(* saturate at MaxU64 (util/bigint.ts); the bucket counts SECONDS while    *)
(* every clock and event counts milliseconds.                              *)
(***************************************************************************)
EXTENDS Naturals

CONSTANTS
  RefillRate,   \* sats added per second (cfg.refillRateSatsPerSec)
  BucketCap,    \* the most the bucket holds (cfg.maxBucketCapacitySats)
  MaxU64,       \* the value amounts saturate at
  MsPerSec      \* clock ticks in a second

ASSUME LimiterAssumption ==
  /\ RefillRate \in Nat /\ BucketCap \in Nat /\ MaxU64 \in Nat
  /\ MsPerSec \in Nat \ {0}
  /\ BucketCap <= MaxU64

LimiterState == [tokens : 0..BucketCap, lastUpdated : Nat, nextSeq : Nat]

satAdd(a, b) == IF a + b > MaxU64 THEN MaxU64 ELSE a + b
satMul(a, b) == IF a * b > MaxU64 THEN MaxU64 ELSE a * b
satSub(a, b) == IF a > b THEN a - b ELSE 0
satMin(a, b) == IF a < b THEN a ELSE b

\* A fresh enclave: a full bucket that has signed nothing.
genesis == [tokens |-> BucketCap, lastUpdated |-> 0, nextSeq |-> 0]

msToSecs(ms) == ms \div MsPerSec

\* Mutant: an idle bucket goes on filling.
projectCapacityAtSecs_uncapped(s, ts) ==
  satAdd(s.tokens, satMul(satSub(ts, s.lastUpdated), RefillRate))

projectCapacityAtSecs(s, ts) ==
  satMin(satAdd(s.tokens, satMul(satSub(ts, s.lastUpdated), RefillRate)), BucketCap)

\* Why a debit of `amount` at second `ts` under sequence number `seq` is refused.
consumeError(s, seq, ts, amount) ==
  IF seq # s.nextSeq \/ ts < s.lastUpdated THEN "InvalidInputs"
  ELSE IF projectCapacityAtSecs(s, ts) < amount THEN "RateLimitExceeded"
  ELSE "none"

\* The bucket after the debit; a refused debit leaves it exactly as it was.
consume(s, seq, ts, amount) ==
  IF consumeError(s, seq, ts, amount) = "none"
  THEN [tokens |-> projectCapacityAtSecs(s, ts) - amount,
        lastUpdated |-> ts, nextSeq |-> s.nextSeq + 1]
  ELSE s
========================================================================
