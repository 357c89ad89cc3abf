-------------------------- MODULE KeeperCrank --------------------------
(***************************************************************************)
(* Several keepers cranking the batches of Batch.tla (keeper/src/batch):   *)
(* open, close, reveal and drive are commands anybody may run.  A command  *)
(* reads the chain, decides locally, simulates its transaction and only    *)
(* then broadcasts it (keeper/src/sui/send.ts), and between any two of     *)
(* these the chain moves on: another keeper, the users or the clock.       *)
(* A command that throws ends; what it had sent stays sent.                *)
(*                                                                         *)
(* The clearing is the on-chain object clearing::begin shares: here the    *)
(* units of work it has left (Clearing.tla has its stages).                *)
(***************************************************************************)
EXTENDS Batch, FiniteSets

CONSTANTS
  Keepers,
  Unreadable,    \* what a lost or substituted blob decrypts to
  Encrypted,     \* what the ciphertext published with an order decrypts to
  Skews,         \* a keeper's clock minus the chain's
  ChunkSize,     \* reveals in one transaction (MAX_REVEALS_PER_TX)
  Work, Budget,  \* the units a clearing takes, and those of one step
  MaxSteps,      \* steps one drive sends (DEFAULT_MAX_STEPS)
  MaxFailures    \* bound: processes lost, with or without their transaction

(* A ciphertext opens to an order or to nothing one can read; a clearing    *)
(* has work to do, and a step and a chunk do some.                          *)
ASSUME KeeperAssumption ==
  /\ Encrypted \in [Orders -> Orders \cup {Unreadable}]
  /\ Work \in Nat \ {0} /\ Budget \in Nat \ {0} /\ ChunkSize \in Nat \ {0}
  /\ MaxSteps \in Nat /\ MaxFailures \in Nat /\ Skews \subseteq Int

VARIABLES
  work,          \* of each batch with a clearing, the units left
  cmd,           \* what each keeper is doing
  report,        \* how its last drive ended
  failures

crankVars == <<work, cmd, report, failures>>
allVars == <<vars, crankVars>>

idle == [run |-> "none", phase |-> "idle", batch |-> 0, rows |-> {}, todo |-> <<>>, steps |-> 0]

Min2(a, b) == IF a < b THEN a ELSE b
finish(k) == cmd' = [cmd EXCEPT ![k] = idle]

------------------------------------------------------------------------
\* The scheduler (keeper/src/schedule/index.ts): what is due on a batch, if any.

\* Mutant: a clearing is due as soon as the grace ends.
dueActions_at_deadline(b, nowMs) ==
  CASE b.state = STATE_OPEN -> IF nowMs >= b.close_ms THEN "close" ELSE "none"
    [] b.state = STATE_SEALED ->
         IF b.revealed_count < Len(b.orders) /\ nowMs < b.closed_at_ms + b.reveal_grace_ms
         THEN "reveal" ELSE "begin"
    [] b.state = STATE_CLEARING -> "step"
    [] b.state = STATE_SETTLED -> "open"

dueActions(b, nowMs) ==
  CASE b.state = STATE_OPEN -> IF nowMs >= b.close_ms THEN "close" ELSE "none"
    [] b.state = STATE_SEALED ->
         IF b.revealed_count < Len(b.orders) /\ nowMs <= b.closed_at_ms + b.reveal_grace_ms
         THEN "reveal" ELSE "begin"
    [] b.state = STATE_CLEARING -> "step"
    [] b.state = STATE_SETTLED -> "open"

------------------------------------------------------------------------
\* The commands, up to their first read of the chain.  A command whose read
\* says its transaction would abort throws: nothing has happened.

runOpen(k) ==
  /\ cmd[k] = idle /\ Len(batches) < MaxBatches /\ now <= MaxTime
  /\ registry.live_batches = 0
  /\ cmd' = [cmd EXCEPT ![k] = [idle EXCEPT !.run = "open", !.phase = "simulate",
                                            !.batch = Len(batches) + 1]]
  /\ UNCHANGED <<vars, work, report, failures>>

\* force sends a close the keeper's own clock finds early.
runClose(k, i, at, force) ==
  /\ cmd[k] = idle
  /\ batches[i].state = STATE_OPEN
  /\ at >= batches[i].close_ms \/ force
  /\ cmd' = [cmd EXCEPT ![k] = [idle EXCEPT !.run = "close", !.phase = "simulate",
                                            !.batch = i]]
  /\ UNCHANGED <<vars, work, report, failures>>

runReveal(k, i, at) ==
  /\ cmd[k] = idle
  /\ batches[i].state = STATE_SEALED
  /\ at <= grace_deadline(batches[i])
  /\ cmd' = [cmd EXCEPT ![k] = [idle EXCEPT !.run = "reveal", !.phase = "rows", !.batch = i]]
  /\ UNCHANGED <<vars, work, report, failures>>

\* Without --clearing a drive begins the clearing; with it, it steps it.
runDrive(k, i, clearing) ==
  /\ cmd[k] = idle
  /\ IF clearing THEN i \in DOMAIN work ELSE batches[i].state = STATE_SEALED
  /\ cmd' = [cmd EXCEPT ![k] = [idle EXCEPT
       !.run = IF clearing THEN "step" ELSE "begin",
       !.phase = IF clearing THEN "readClearing" ELSE "simulate", !.batch = i]]
  /\ report' = [report EXCEPT ![k] = [end |-> "none", batch |-> i]]
  /\ UNCHANGED <<vars, work, failures>>

------------------------------------------------------------------------
\* runReveal: which orders are fit to reveal.

\* Mutant: revealed rows are not skipped.
unrevealedRows_all(b) == DOMAIN b.orders

unrevealedRows(b) == {x \in DOMAIN b.orders : ~b.is_revealed[x]}

readSealedOrders(k) ==
  LET b == batches[cmd[k].batch] IN
  /\ cmd[k].phase = "rows"
  /\ cmd' = [cmd EXCEPT ![k] = [@ EXCEPT !.phase = "decrypt", !.rows = unrevealedRows(b)]]
  /\ UNCHANGED <<vars, work, report, failures>>

\* Mutant: a decoded order is taken as it is.
decodeOrder_unchecked(o) == o # Unreadable

\* decodeOrder, with the assertions of new_order and reveal_order.
decodeOrder(o) == o # Unreadable /\ o.qty_sats > 0 /\ o.limit_price > 0

\* What the key servers and Walrus give back for a row: its plaintext, when the
\* blob is the committed one and the policy grants the batch's identity.
plaintextOf(i, x) ==
  IF check_policy(identity_of(i), registry, now)
  THEN LET committed == batches[i].orders[x].commitment
       IN Encrypted[CHOOSE o \in Orders : order_commitment(o) = committed]
  ELSE Unreadable

verifyPlaintext(i, x) ==
  LET row == batches[i].orders[x]
      order == plaintextOf(i, x)
  IN /\ decodeOrder(order)
     /\ order.submitter = row.submitter
     /\ order_commitment(order) = row.commitment

\* The rows that pass, in index order; one that does not is skipped, and a
\* command with nothing to send is over.
ascending(S) ==
  [n \in 1..Cardinality(S) |-> CHOOSE x \in S : Cardinality({y \in S : y <= x}) = n]

verifyRows(k) ==
  LET c == cmd[k]
      fit == ascending({x \in c.rows : verifyPlaintext(c.batch, x)})
  IN /\ c.phase = "decrypt"
     /\ cmd' = [cmd EXCEPT ![k] = IF fit = <<>> THEN idle
                                  ELSE [c EXCEPT !.phase = "simulate", !.rows = {}, !.todo = fit]]
     /\ UNCHANGED <<vars, work, report, failures>>

chunk(c) == SubSeq(c.todo, 1, Min2(ChunkSize, Len(c.todo)))
rest(c) == SubSeq(c.todo, Min2(ChunkSize, Len(c.todo)) + 1, Len(c.todo))

------------------------------------------------------------------------
\* The transactions, as the chain would take them now.  MaxBatches bounds the
\* opens that land, one that lagged behind a whole pass included, and MaxU64
\* the instant of the last.

revealFits(i, x) ==
  LET b == batches[i]
      o == plaintextOf(i, x)
  IN /\ b.state = STATE_SEALED /\ ~b.is_revealed[x]
     /\ grace_deadline(b) <= MaxU64 /\ now <= grace_deadline(b)
     /\ o \in Orders /\ o.submitter = b.orders[x].submitter
     /\ order_commitment(o) = b.orders[x].commitment
     /\ o.qty_sats > 0 /\ o.limit_price > 0

succeeds(c) ==
  CASE c.run = "open" -> registry.live_batches = 0 /\ Len(batches) < MaxBatches
                        /\ now < MaxU64
    [] c.run = "close" -> batches[c.batch].state = STATE_OPEN /\ now >= batches[c.batch].close_ms
    [] c.run = "reveal" -> \A n \in DOMAIN chunk(c) : revealFits(c.batch, chunk(c)[n])
    [] c.run = "begin" -> batches[c.batch].state = STATE_SEALED /\ book_decided(batches[c.batch])
    [] c.run = "step" -> TRUE

\* A transaction is all of its reveals or none.
revealChunk(c) ==
  LET mine == {chunk(c)[n] : n \in DOMAIN chunk(c)}
      b == batches[c.batch]
  IN
  /\ batches' = [batches EXCEPT ![c.batch] = [b EXCEPT
       !.revealed = [x \in DOMAIN b.revealed |->
                       IF x \in mine THEN plaintextOf(c.batch, x) ELSE b.revealed[x]],
       !.is_revealed = [x \in DOMAIN b.is_revealed |-> x \in mine \/ b.is_revealed[x]],
       !.revealed_count = b.revealed_count + Cardinality(mine)]]
  /\ UNCHANGED <<now, registry, work>>

\* One clearing::step; the last one settles the batch, and a finished clearing
\* takes a step as a no-op.
clearingStep(i) ==
  /\ work' = [work EXCEPT ![i] = IF @ > Budget THEN @ - Budget ELSE 0]
  /\ IF work[i] > 0 /\ work[i] <= Budget THEN to_settled(i) ELSE UNCHANGED vars

land(c) ==
  CASE c.run = "open" -> open_batch /\ UNCHANGED work
    [] c.run = "close" -> close_batch(c.batch) /\ UNCHANGED work
    [] c.run = "reveal" -> revealChunk(c)
    [] c.run = "begin" -> to_clearing(c.batch)
                          /\ work' = [i \in DOMAIN work \cup {c.batch} |->
                                        IF i = c.batch THEN Work ELSE work[i]]
    [] c.run = "step" -> clearingStep(c.batch)

------------------------------------------------------------------------
\* sendChecked: a simulation that reverts throws, and so does a broadcast the
\* chain refuses because its state has moved since.

preflight(k) ==
  /\ cmd[k].phase = "simulate"
  /\ cmd' = [cmd EXCEPT ![k] = IF succeeds(cmd[k]) THEN [@ EXCEPT !.phase = "broadcast"]
                               ELSE idle]
  /\ UNCHANGED <<vars, work, report, failures>>

executionFailed(k) ==
  /\ cmd[k].phase = "broadcast" /\ ~succeeds(cmd[k])
  /\ finish(k)
  /\ UNCHANGED <<vars, work, report, failures>>

\* What a command does next once its transaction has succeeded.
afterLanding(c) ==
  CASE c.run = "reveal" /\ rest(c) # <<>> -> [c EXCEPT !.phase = "simulate", !.todo = rest(c)]
    [] c.run = "begin" -> [c EXCEPT !.run = "step", !.phase = "readClearing"]
    [] c.run = "step" -> [c EXCEPT !.phase = "readClearing", !.steps = @ + 1]
    [] OTHER -> idle

sendChecked(k) ==
  /\ cmd[k].phase = "broadcast" /\ succeeds(cmd[k])
  /\ land(cmd[k])
  /\ cmd' = [cmd EXCEPT ![k] = afterLanding(cmd[k])]
  /\ UNCHANGED <<report, failures>>

\* How a drive ends, if it does: `exhausted` is the bound reached with work left.
driveReport(c) ==
  IF work[c.batch] = 0 THEN "done"
  ELSE IF c.steps >= MaxSteps THEN "exhausted" ELSE "none"

readClearing(k) ==
  LET c == cmd[k] IN
  /\ c.phase = "readClearing"
  /\ report' = [report EXCEPT ![k].end = driveReport(c)]
  /\ cmd' = [cmd EXCEPT ![k] = IF driveReport(c) # "none" THEN idle
                               ELSE [c EXCEPT !.phase = "simulate"]]
  /\ UNCHANGED <<vars, work, failures>>

\* The process dies, or the answer to its broadcast is lost: the transaction
\* may have landed, and what the process knew is gone.
lost(k) ==
  /\ cmd[k].phase # "idle" /\ failures < MaxFailures
  /\ failures' = failures + 1
  /\ finish(k)
  /\ UNCHANGED <<vars, work, report>>

answerLost(k) ==
  /\ cmd[k].phase = "broadcast" /\ succeeds(cmd[k]) /\ failures < MaxFailures
  /\ land(cmd[k])
  /\ failures' = failures + 1
  /\ finish(k)
  /\ UNCHANGED report

------------------------------------------------------------------------
CrankInit ==
  /\ Init
  /\ work = [i \in {} |-> 0]
  /\ cmd = [k \in Keepers |-> idle]
  /\ report = [k \in Keepers |-> [end |-> "none", batch |-> 0]]
  /\ failures = 0

Continue(k) ==
  \/ readSealedOrders(k) \/ verifyRows(k) \/ preflight(k)
  \/ executionFailed(k) \/ sendChecked(k) \/ readClearing(k)

\* The command the schedule says is due, by the keeper's own clock.
RunDue(k, at) ==
  \/ runOpen(k)
  \/ \E i \in DOMAIN batches :
       LET due == dueActions(batches[i], at) IN
       \/ due = "close" /\ runClose(k, i, at, FALSE)
       \/ due = "reveal" /\ runReveal(k, i, at)
       \/ due = "begin" /\ runDrive(k, i, FALSE)
       \/ due = "step" /\ runDrive(k, i, TRUE)

\* Any other command somebody may run by hand.
RunAny(k) ==
  \E i \in DOMAIN batches : runClose(k, i, now, TRUE)

\* The grace is long against a keeper's work: the clock does not pass it while
\* an order somebody could still reveal is not revealed.
fitToReveal(i) ==
  {x \in DOMAIN batches[i].orders : ~batches[i].is_revealed[x] /\ verifyPlaintext(i, x)}
CrankTick ==
  /\ Tick
  /\ \A i \in DOMAIN batches :
       batches[i].state = STATE_SEALED /\ now = grace_deadline(batches[i]) => fitToReveal(i) = {}
  /\ UNCHANGED crankVars

CrankNext ==
  \/ CrankTick
  \/ Submit /\ UNCHANGED crankVars
  \/ \E k \in Keepers : (\E skew \in Skews : RunDue(k, now + skew))
                      \/ RunAny(k) \/ Continue(k) \/ lost(k) \/ answerLost(k)

CrankSpec == CrankInit /\ [][CrankNext]_allVars

\* A keeper finishes what it runs, and keeps running what is due; its clock may
\* be off, but not for ever.
CrankFairness ==
  /\ WF_allVars(CrankTick)
  /\ \A k \in Keepers : SF_allVars(RunDue(k, now)) /\ WF_allVars(Continue(k))

FairCrankSpec == CrankSpec /\ CrankFairness

------------------------------------------------------------------------
Phases == {"idle", "rows", "decrypt", "simulate", "broadcast", "readClearing"}

CommandType ==
  [run : {"none", "open", "close", "reveal", "begin", "step"}, phase : Phases,
   batch : Nat, rows : SUBSET Nat, todo : Seq(Nat), steps : 0..MaxSteps]

CrankTypeOK ==
  /\ cmd \in [Keepers -> CommandType]
  /\ work \in [DOMAIN work -> 0..Work] /\ DOMAIN work \subseteq DOMAIN batches

\* One bad order costs its own index and never the others of its transaction:
\* the local checks leave nothing for reveal_order to refuse but a race
\* (reveal.ts invariant 1, index.ts cmdReveal), or a grace that takes the
\* deadline past u64.
OnlyARaceFailsAChunk ==
  \A k \in Keepers :
    LET c == cmd[k]
        b == batches[c.batch]
    IN (c.run = "reveal" /\ c.phase \in {"simulate", "broadcast"}) =>
         \/ succeeds(c)
         \/ b.state # STATE_SEALED
         \/ now > grace_deadline(b) \/ grace_deadline(b) > MaxU64
         \/ \E n \in DOMAIN chunk(c) : b.is_revealed[chunk(c)[n]]

\* What the scheduler says is due on a batch read now is what the chain accepts
\* now, and it never waits for something that can already be done.
DueIsWhatTheChainAccepts ==
  \A i \in DOMAIN batches :
    LET b == batches[i]
        due == dueActions(b, now)
    IN /\ due = "close" <=> (b.state = STATE_OPEN /\ now >= b.close_ms)
       /\ due = "begin" <=> (b.state = STATE_SEALED /\ book_decided(b))
       /\ due = "open" /\ i = Len(batches) => registry.live_batches = 0
       /\ due = "step" <=> (b.state = STATE_CLEARING /\ i \in DOMAIN work /\ work[i] > 0)
========================================================================
