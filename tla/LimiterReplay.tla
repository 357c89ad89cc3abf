------------------------- MODULE LimiterReplay -------------------------
(***************************************************************************)
(* The replay of the Guardian's bucket from a slice of the bridge's event  *)
(* log (keeper/src/verify/limiter.ts): pure, no state.  A signed batch     *)
(* holds one request, as the simulated bridge emits them, and an event is  *)
(* the record HashiBridge logs.                                            *)
(***************************************************************************)
EXTENDS Limiter, Sequences, SequencesExt

\* The first amount some event of `kind` gives request `id`, as a set: empty
\* when none does (indexRequestedSats, indexPickedSats: the first writer wins).
firstSats(evs, kind, id) ==
  LET at == {k \in DOMAIN evs : evs[k].kind = kind /\ evs[k].id = id}
  IN {evs[k].sats : k \in {j \in at : \A l \in at : j <= l}}

indexRequestedSats(evs, id) == firstSats(evs, "WithdrawalRequested", id)
indexPickedSats(evs, id) == firstSats(evs, "WithdrawalPickedForProcessing", id)

\* The debit of a signed event: what was requested, else what was picked, else
\* the amount the event carries, marked unresolved.
resolveDebit(evs, e) ==
  LET requested == indexRequestedSats(evs, e.id)
      picked == indexPickedSats(evs, e.id)
  IN [sats |-> CHOOSE s \in (IF requested # {} THEN requested
                             ELSE IF picked # {} THEN picked ELSE {e.sats}) : TRUE,
      resolved |-> requested # {} \/ picked # {}]

pushQueue(acc, e, depth) ==
  [acc EXCEPT !.queue = Append(@, [atMs |-> e.atMs, depth |-> depth]), !.depth = depth]

\* Every event with what it debits: a signed one what `resolveDebit` joins it
\* with, the others nothing.
NoDebit == [sats |-> 0, resolved |-> TRUE]
resolved(evs) ==
  [k \in DOMAIN evs |->
     [event |-> evs[k],
      debit |-> IF evs[k].kind = "WithdrawalSigned" THEN resolveDebit(evs, evs[k]) ELSE NoDebit]]

\* A signed event moves the bucket if the bucket accepts it; the queue clears
\* only for a batch that was accepted.
signedBoundary(acc, e, debit) ==
  LET ts == msToSecs(e.atMs)
      ok == consumeError(acc.state, acc.state.nextSeq, ts, debit.sats) = "none"
      next == consume(acc.state, acc.state.nextSeq, ts, debit.sats)
      queued == IF ok THEN pushQueue(acc, e, satSub(acc.depth, debit.sats)) ELSE acc
  IN [queued EXCEPT !.state = next,
                    !.samples = Append(@, [atMs |-> e.atMs, state |-> next]),
                    !.unresolved = @ + (IF debit.resolved THEN 0 ELSE 1),
                    !.rejected = @ + (IF ok THEN 0 ELSE 1)]

boundary(acc, r) ==
  LET e == r.event
  IN CASE e.kind = "WithdrawalRequested" -> pushQueue(acc, e, satAdd(acc.depth, e.sats))
       [] e.kind = "WithdrawalCancelled" -> pushQueue(acc, e, satSub(acc.depth, e.sats))
       [] e.kind = "WithdrawalSigned" -> signedBoundary(acc, e, r.debit)
       [] OTHER -> acc

replayStart == [state |-> genesis, depth |-> 0, unresolved |-> 0, rejected |-> 0,
                samples |-> <<>>, queue |-> <<>>]
deriveLimiter(evs) == FoldLeft(boundary, replayStart, resolved(evs))

\* Mutant: an entry counts only after its instant.
lastAtOrBefore_strict(trace, atMs) ==
  LET at == {k \in DOMAIN trace : trace[k].atMs < atMs}
  IN {trace[k] : k \in {j \in at : \A l \in at : l <= j}}

\* The last entry of a trace, in log order, at or before atMs, as a set.
lastAtOrBefore(trace, atMs) ==
  LET at == {k \in DOMAIN trace : trace[k].atMs <= atMs}
  IN {trace[k] : k \in {j \in at : \A l \in at : l <= j}}

\* The bucket and the queue at any instant between boundaries.
limiterAt(trajectory, atMs) ==
  LET samples == lastAtOrBefore(trajectory.samples, atMs)
      queue == lastAtOrBefore(trajectory.queue, atMs)
      state == IF samples = {} THEN genesis ELSE (CHOOSE s \in samples : TRUE).state
  IN [tokens |-> projectCapacityAtSecs(state, msToSecs(atMs)),
      depth |-> IF queue = {} THEN 0 ELSE (CHOOSE q \in queue : TRUE).depth]
========================================================================
