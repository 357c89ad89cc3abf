---------------------------- MODULE Watcher ----------------------------
(***************************************************************************)
(* The bridge watcher (keeper/src/hashi/watcher.ts) over the simulated     *)
(* bridge: it pages the event log from a cursor and folds what is new into *)
(* a flow summary (sats about to be minted, about to be burned, queued).   *)
(* poll() awaits its page, so a page is read and folded in two steps and   *)
(* several polls may be in flight; a watcher that stops resumes from its   *)
(* last checkpoint (without a retained log) or from the start (with one).  *)
(* The log only grows, so a page is the interval of positions it covers;   *)
(* event number n of the code (from 0) is position n + 1 here, and `seen`  *)
(* is the code's highWaterSeq + 1.                                         *)
(***************************************************************************)
EXTENDS HashiBridge, LimiterReplay

CONSTANTS
  WatchKinds,     \* the kinds the watcher subscribes to
  BatchLimit,     \* matching events a page holds at most
  MaxPolls,       \* bound: polls in flight
  MaxRestarts     \* bound: restarts

\* The kinds the flow summary is made of.
FlowKinds == {"DepositApproved", "DepositConfirmed", "WithdrawalRequested",
              "WithdrawalPickedForProcessing", "WithdrawalSigned",
              "WithdrawalConfirmed", "WithdrawalCancelled"}

\* A watcher is built with every kind unless told otherwise.
ASSUME WatcherAssumption == BatchLimit \in Nat \ {0} /\ FlowKinds \subseteq WatchKinds

VARIABLES
  retainLog,      \* option: keep the log and fold it anew at every page
  cursor, seen, retained, flow,
  pages,          \* the pages read and not folded yet
  checkpoint,     \* the last one saved
  restarts

watchVars == <<retainLog, cursor, seen, retained, flow, pages, checkpoint, restarts>>
vars == <<bridgeVars, watchVars>>

FlowZero == [pendingMint |-> 0, pendingBurn |-> 0, queueDepth |-> 0]

------------------------------------------------------------------------
\* A confirmed withdrawal carries no amount: it is joined with what the same
\* slice says was requested, else picked, and counts 0 when neither is there.
joinedSats(evs, id) ==
  LET said == IF indexRequestedSats(evs, id) # {} THEN indexRequestedSats(evs, id)
              ELSE indexPickedSats(evs, id)
  IN IF said = {} THEN 0 ELSE CHOOSE s \in said : TRUE

\* A slice with the amounts it is counted at.
joined(evs) ==
  [k \in DOMAIN evs |-> IF evs[k].kind = "WithdrawalConfirmed"
                        THEN [evs[k] EXCEPT !.sats = joinedSats(evs, evs[k].id)]
                        ELSE evs[k]]

\* Mutant: a cancelled request is forgotten.
counted_no_cancel(f, e) ==
  CASE e.kind = "DepositApproved" -> [f EXCEPT !.pendingMint = @ + e.sats]
    [] e.kind = "DepositConfirmed" -> [f EXCEPT !.pendingMint = satSub(@, e.sats)]
    [] e.kind = "WithdrawalRequested" ->
         [f EXCEPT !.pendingBurn = @ + e.sats, !.queueDepth = @ + e.sats]
    [] e.kind = "WithdrawalSigned" -> [f EXCEPT !.queueDepth = satSub(@, e.sats)]
    [] e.kind = "WithdrawalConfirmed" -> [f EXCEPT !.pendingBurn = satSub(@, e.sats)]
    [] OTHER -> f

\* What one event, at its amount, does to the summary.
counted(f, e) ==
  CASE e.kind = "DepositApproved" -> [f EXCEPT !.pendingMint = @ + e.sats]
    [] e.kind = "DepositConfirmed" -> [f EXCEPT !.pendingMint = satSub(@, e.sats)]
    [] e.kind = "WithdrawalRequested" ->
         [f EXCEPT !.pendingBurn = @ + e.sats, !.queueDepth = @ + e.sats]
    [] e.kind = "WithdrawalSigned" -> [f EXCEPT !.queueDepth = satSub(@, e.sats)]
    [] e.kind = "WithdrawalConfirmed" -> [f EXCEPT !.pendingBurn = satSub(@, e.sats)]
    [] e.kind = "WithdrawalCancelled" ->
         [f EXCEPT !.pendingBurn = satSub(@, e.sats), !.queueDepth = satSub(@, e.sats)]
    [] OTHER -> f

applyFlow(prev, evs) == FoldLeft(counted, prev, joined(evs))

watched(from, to) == {k \in (from + 1)..to : events[k].kind \in WatchKinds}

\* Mutant: a page with nothing to show does not move on.
pageEnd_shown(from) ==
  LET hits == watched(from, Len(events))
  IN IF hits = {} THEN from ELSE CHOOSE k \in hits : \A l \in hits : l <= k

\* adapter.eventsSince: where the page that starts after `from` ends.
pageEnd(from) ==
  LET hits == watched(from, Len(events))
      full == {k \in hits : Cardinality(watched(from, k)) = BatchLimit}
  IN IF full = {} THEN Len(events) ELSE CHOOSE k \in full : TRUE

eventsAt(positions) == [k \in DOMAIN positions |-> events[positions[k]]]

\* Positions in log order.
inOrder(positions) ==
  CHOOSE s \in [1..Cardinality(positions) -> positions] :
    /\ \A k, l \in DOMAIN s : k < l => s[k] < s[l]
    /\ \A p \in positions : \E k \in DOMAIN s : s[k] = p

\* The positions of a page the watcher has not folded yet.
freshOf(p) == inOrder({k \in watched(p.from, p.next) : k > seen})

max2(a, b) == IF a > b THEN a ELSE b

------------------------------------------------------------------------
WatchInit ==
  /\ retainLog \in BOOLEAN
  /\ cursor = 0 /\ seen = 0 /\ retained = <<>> /\ flow = FlowZero
  /\ pages = {} /\ checkpoint = [cursor |-> 0, flow |-> FlowZero] /\ restarts = 0

\* poll(), up to its await: the page the adapter answers with.
pollRead ==
  /\ Quiet /\ Cardinality(pages) < MaxPolls
  /\ pages' = pages \cup {[from |-> cursor, next |-> pageEnd(cursor)]}
  /\ UNCHANGED <<bridgeVars, retainLog, cursor, seen, retained, flow, checkpoint, restarts>>

\* poll(), after its await.
pollFold(p) ==
  LET fresh == freshOf(p) IN
  /\ Quiet
  /\ seen' = IF fresh = <<>> THEN seen ELSE Last(fresh)
  /\ retained' = IF retainLog THEN retained \o fresh ELSE retained
  /\ cursor' = max2(max2(p.next, cursor), seen')
  /\ flow' = IF fresh = <<>> THEN flow
             ELSE IF retainLog THEN applyFlow(FlowZero, eventsAt(retained'))
             ELSE applyFlow(flow, eventsAt(fresh))
  /\ pages' = pages \ {p}
  /\ UNCHANGED <<bridgeVars, retainLog, checkpoint, restarts>>

\* A saved summary means something only where no log is retained: a watcher
\* that retains its log folds it anew, and starts over.
saveCheckpoint ==
  /\ Quiet /\ ~retainLog
  /\ checkpoint' = [cursor |-> cursor, flow |-> flow]
  /\ UNCHANGED <<bridgeVars, retainLog, cursor, seen, retained, flow, pages, restarts>>

\* The process stops and another is built by createWatcher(startCursor, startFlow).
createWatcher ==
  /\ Quiet /\ restarts < MaxRestarts
  /\ restarts' = restarts + 1
  /\ cursor' = checkpoint.cursor /\ seen' = checkpoint.cursor
  /\ flow' = checkpoint.flow
  /\ retained' = <<>> /\ pages' = {}
  /\ UNCHANGED <<bridgeVars, retainLog, checkpoint>>

WatchNext == pollRead \/ (\E p \in pages : pollFold(p)) \/ saveCheckpoint \/ createWatcher

WatcherNext == (BridgeNext /\ UNCHANGED watchVars) \/ WatchNext
WatchSpec == Init /\ WatchInit /\ [][WatcherNext]_vars

\* A watcher is driven by a polling loop, and an answered poll is folded.
WatchFairness == WF_vars(Pump /\ UNCHANGED watchVars) /\ WF_vars(Advance /\ UNCHANGED watchVars)
            /\ WF_vars(pollRead) /\ WF_vars(\E p \in pages : pollFold(p))
WatchFairSpec == WatchSpec /\ WatchFairness

------------------------------------------------------------------------
WatchTypeOK ==
  /\ BridgeTypeOK
  /\ cursor \in 0..Len(events) /\ seen \in 0..cursor
  /\ \A p \in pages : p.from <= p.next /\ p.next <= Len(events)

\* A watcher that has caught up states the truth: what is queued, what is about
\* to be minted, and what is about to be burned; without a retained log the last
\* may only be too large (a confirmation whose request was folded before it).
FlowIsTruth ==
  cursor = Len(events) =>
    /\ flow.queueDepth = Sats(withdrawals, InQueue)
    /\ flow.pendingMint = Sats(deposits, {"Approved"})
    /\ flow.pendingBurn >= Sats(withdrawals, InQueue \cup {"Signed"})
    /\ retainLog => flow.pendingBurn = Sats(withdrawals, InQueue \cup {"Signed"})

\* A watcher that keeps polling catches up with the log.
WatcherCatchesUp == <>[](Quiet /\ cursor = Len(events))
========================================================================
