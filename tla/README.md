# A TLA+ model of Aphotic

Aphotic is a sealed-bid batch auction for BTC-backed assets on Sui, with a vault
around it.  Orders are sealed under a time lock, opened together, cleared at one
price, and settled against escrowed balances.  The on-chain program is
`move/sources/*.move`; a keeper (`keeper/`) cranks it and follows the Hashi
bridge, an SDK (`sdk/`) repeats its arithmetic off-chain, and a web application
(`app/`) submits orders and keeps a user's escrow notes.

This directory holds TLA+ modules of that program, the TLC configurations that
check them on small instances, and TLAPS proofs.  `PROJECT.json` lists the runs,
the mutants each property is tested against, the hazards the properties are
for, and the source lines every definition stands for.

## The system

| Part | State | Operations | Talks to |
|---|---|---|---|
| `batch.move` | `BatchRegistry` (cadence, cutoff, grace, policy version, live counter), one `Batch` per pass | setters; `open_batch`, `submit_order`, `close_batch`, `reveal_order`; `to_clearing`, `to_settled`; `check_policy` | `caps` for the setters; `clearing` calls the two transitions; Seal key servers dry-run `check_policy` |
| `clearing.move` | one shared `Clearing`: stage, cursor, sorted entries, funding snapshots, price sweep, allocation, fills | `begin`, `step(budget)` through twelve stages, `verify_fill` | reads the `Batch`, debits and credits the vault's books |
| `balance.move` | a book per asset: custody, rows, running total | `top_up`, `withdraw`, `debit`, `credit` | owned by the vault |
| `vault.move` | the two books, notes, shares, request queues, NAV proposals, fee terms, `active_clearings` | escrow calls, `request_*`/`claim_*`, `propose_nav`/`approve_nav`, pause, setters | everything on chain |
| `notes.move` | commitment tree, ring of known roots, nullifiers, outstanding sats | `append_commitment`, `spend` | called by the vault's two note entry points |
| `caps.move` | admin, keeper, epochs, pause, allowlist | rotation, two-step handover | gates the setters |
| `allocate.move`, `carry.move`, `lending/` | per-venue principal and caps; a lending pool | tickets; deposit, borrow, liquidate | nothing calls them yet |
| `keeper/src/batch`, `schedule`, `sui/send.ts` | a process per command, no memory of its own | `open`, `close`, `reveal`, `drive`: read, decide, simulate, broadcast | the chain, Walrus and Seal |
| `keeper/src/hashi/mock.ts` | a simulated bridge: logical clock, requests, balances, bucket, event log | `deposit`, `confirmDeposit`, `requestWithdrawal`, `cancelWithdrawal`, `advance`, `eventsSince` | the token bucket of `limiter.ts` |
| `keeper/src/hashi/real.ts` | the live adapter: a cursor and a buffer per Move module, one merged log | `readEvents`, `digestFor` | the chain's event queries |
| `keeper/src/hashi/watcher.ts` | cursor, high-water mark, flow summary, checkpoint | `poll`, `checkpoint` | either adapter |
| `keeper/src/verify/limiter.ts` | none | `deriveLimiter`, `limiterAt`: the bucket from the events alone | an event log |
| `sdk/src/clearing.ts` | none | `clear`, the off-chain twin of the auction | the application and the keeper |
| `sdk/src/merkle.ts` | a client-side note tree | `append`, `proveFromLeaves` | whoever spends a note |
| `app/.../NotePanel.tsx`, `lib/notes.ts`, `lib/useAsyncAction.ts` | the notes this browser holds, the tree it has read, calls in flight | create, deposit, spend, discard, reload | `vault.move`, a mirror of its events |
| `clearing-rs/` | none | reference engine and simulator | tests |

Every on-chain call is one atomic transaction on shared objects: an assertion
that fails undoes it.  What is hard is between transactions.  A clearing is cut
into as many transactions as somebody likes, anybody may send any of them, and
deposits, withdrawals, fee changes, submits, reveals, key releases and the clock
interleave with them.  Values are read in one transaction and spent in another
(balances, fee terms, the reveal deadline, the policy version, a tree root).
Off-chain, each `await` is such a gap: the chain, another keeper or the user's
next click comes in between, answers arrive late, out of order or not at all,
and a process may stop at any of them.

What makes each part correct:

* **batch** - one batch alive; passes in order; the boundary of a live batch is
  its key release; no order accepted after it; a clearing sees a decided book;
  every batch settles.
* **clearing** - the result does not depend on how the work was split; price
  priority and equal treatment inside a price; the price maximises volume; the
  settlement cannot abort.
* **ledger** - rows add up to the running total, and to custody whenever no
  clearing is under way.
* **vault NAV** - what an approval prices is what the receipts promise; every
  receipt of a priced epoch can be claimed, in any order; the closing solvency
  assertion is never what stops an approval; the numbers approved are the
  numbers signed; a pause is as long as promised.
* **caps** - one live capability of each kind, in the right hands; a retired one
  stays retired; the admin seat moves by nomination and acceptance only.
* **notes** - custody is what was paid in less what was spent, and so the unspent
  notes while each was paid its worth; the incremental tree is the tree of the
  leaves; what a client proves is accepted; every note it holds can be spent.
* **bridge** - what leaves is bounded by the bucket over every window; nobody is
  paid and refunded; every request ends; the log alone gives back the bucket;
  a watcher that has caught up states what the bridge holds.
* **live log** - what is logged is what is on the chain, in order, whatever the
  page sizes and however calls overlap; nothing that was there is missed; "not
  found" means new.
* **keeper** - it sends what the chain accepts, except when it lost a race; its
  batches settle although processes and answers are lost.

## Modules

| Module | Models |
|---|---|
| `Batch` | `batch.move`, whole |
| `MCBatch` | values for its constants |
| `ClearingMath` | integer helpers and the two quote conversions |
| `BalanceBook` | `balance.move`, a book as a record |
| `ClearingStages` | each stage of `clearing.move`, a pure function of the object and a budget |
| `Clearing` | the machine of transactions over one batch, one vault, one `Clearing` |
| `ClearingProofs` | theorems about `Clearing`: the money is there |
| `PriorityProofs` | theorems about `Clearing`: whom it favours |
| `PriceProofs` | theorems about `Clearing` and, over it, `ClearingRefinement`: its price |
| `LoopRules` | induction for the shapes of loop `ClearingStages` is written with |
| `UniformPrice` | `clear` of `sdk/src/clearing.ts` as set expressions |
| `AtomicClearing` | the abstract specification: freeze, decide by `clear`, settle at once |
| `ClearingRefinement` | `Clearing` with the mapping onto `AtomicClearing` and the prices of the SDK |
| `MCClearing` | values for `Clearing`'s constants |
| `Caps` | `caps.move`: the registry and every capability object |
| `MCCaps` | values for its constants |
| `Vault` | `vault.move`'s NAV side: requests, valuations, claims, pause, setters |
| `MCVault` | values for its constants |
| `SumProofs` | lemmas on sums over finite sets and functions, used by all the proofs about money |
| `KeeperCrank` | keepers running `open`, `close`, `reveal` and `drive` over `Batch` |
| `MCKeeper` | values for its constants |
| `BatchProofs` | theorems about `Batch` and, over it, `KeeperCrank` |
| `Limiter` | the Guardian's token bucket, `keeper/src/hashi/limiter.ts` |
| `HashiBridge` | the simulated bridge, `mock.ts`, over `Limiter` |
| `BridgeAndCapsProofs` | theorems about `HashiBridge` with `BridgeReplay` and `Watcher`, and about `EventMerge` and `Caps`, which share no state with them |
| `LimiterReplay` | the replay of an event log, `verify/limiter.ts` |
| `BridgeReplay` | the bridge with the replay of its own log |
| `Watcher` | `watcher.ts` over the simulated bridge |
| `MCBridge` | values for its constants |
| `EventMerge` | the event log of the live adapter, `real.ts` |
| `MCMerge` | values for its constants |
| `Notes` | `notes.move` with `escrow_deposit_note` and `escrow_spend_note` |
| `SdkTree` | `sdk/src/merkle.ts`, under its own tags |
| `NotePanel` | one browser over `Notes` and a lagging mirror, and everybody else's deposits and spends |
| `SdkParity` | the SDK's tree beside the contract's |
| `VaultAndNoteProofs` | theorems about `Vault`, the receipts included, and about `Notes` and `NotePanel`; the two share no state |
| `MCNotes` | values for its constants |

### Batch

State: `now` (the `Clock`), `registry`, and the sequence of every batch opened.
There is one action per entry point.  The administrator acts at any time with
any input of the sets given, so nothing rests on governance behaving well.  A
submitter is committed to a digest only; the plaintext behind it may name
somebody else or be an order `reveal_order` refuses, and then is never revealed.
`to_clearing` and `to_settled`, which `clearing.move` calls, are actions here:
`Batch` alone does not say when a clearing ends.

### Clearing

A transaction is one action: `begin`, `Step` with a budget, a top-up, a
withdrawal, a fee change.  `stage_step` is the dispatch of `step`; each stage is
an operator of `ClearingStages`.  Loops over a vector are `Advance`, a recursive
function that runs a unit of work per index up to the budget, so a stage stops
and resumes exactly where the code does.  Inner scans that stop at the first
failing entry are `prefix`; accumulation loops are `total_over`.  The code keeps
`bids`/`asks` and a dozen `_bid`/`_ask` pairs; here each pair is a function of
`is_bid`.  A transaction that aborts (a debit not covered, `EFillOutsideLimit`,
`EValueNotPreserved`, `EOverflow`) is not enabled.

`frozen` is a history variable: the funding rows as they were taken.  The rows
themselves are drawn down by truncation.

### The refinement

`AtomicClearing` has no stages: accounts are frozen in any number of rounds,
then the outcome is `clear(orders, frozen, fee)` in one step, then the ledger
moves by the whole outcome in one step.  `Clearing` implements it under the
mapping of `ClearingRefinement`.  Two points of the mapping matter:

* the ledger somebody owns is what the books say *less* the fills already pushed
  by a settlement that is not finished, so that half a settlement is no
  settlement;
* the fee terms of the clearing are those of `begin`, whatever governance does
  later.

So one property, `ImplementsAtomicClearing`, says that the budgets, the
interleaving, top-ups during the clearing, and the choice of who cranks never
change price, fills or fee from what the SDK computes from the revealed orders
and the snapshots.

### Caps and Vault

A capability has the `key` ability alone, so it stays where it was minted and is
never destroyed: `admin_caps` and `keeper_caps` hold every one ever made, and any
of them may be presented to any call.  What retires one is the registry's epoch.

`Vault` takes the registry through `C == INSTANCE Caps`, with the allowlist
empty, and calls `C!set_paused`, `C!rotate_keeper_cap`,
`C!initiate_admin_transfer` and `C!accept_admin_transfer`, the four that vault
entry points reach.  Move lets no other module write the registry's fields, so the
vault's registry is that of `Caps` by construction, and the theorems of `Caps`
hold of it.

Receipts and shares belong to their bearer, so holders are not told apart.  The
receipts out are two bags.  `approve_nav` is one action; `pinned`, `legs_hold`,
`nav_jump_ok` and `price_deviation_ok` are its checks 1-3, 4-5 and 6, `coverable`
what else can abort it (division by zero, overflow, too few idle assets),
`approved` the vault after it, `solvent` the assertion at its end.  The admins
sign what they read (`sign`) and their transaction lands later, once: `signed` is
the proposal whose digest is under way.  `pause_mark` is a history variable.

### KeeperCrank

`KeeperCrank` extends `Batch`, so users and the clock act as there, and adds to
each keeper one command at a time.  A command is cut where the code awaits: the
read of the chain, the simulation, the broadcast.  What was read stays in `cmd`
and may be stale at each later step; a simulation that fails ends the command,
a broadcast that fails on chain is a lost race, and a command that throws leaves
what it had sent.  A process may be lost before its transaction, after it, or
after it with the answer.  The reveal command decrypts what Walrus holds, drops
what `reveal_order` would refuse, and sends chunks.  A clearing is the units of
work it has left; its stages are `Clearing`'s.  Each keeper's clock is off by one
of `Skews`.  The scheduler is `dueActions`.

### The bridge

In `mock.ts` every call first applies all transitions that have fallen due, in
order of time, stamped with the time they fell due.  In `HashiBridge` each such
transition is an action, and a call is enabled only when nothing is due
(`Quiet`); nobody observes the states in between, because the code is
single-threaded, and what is stated of the log holds there as well.  A refused
signing is `RetryLater` or `AbandonSign`.  `burned` is a history variable.

`Watcher` cuts `poll()` at its await: `pollRead` takes a page from the cursor as
it is, `pollFold` folds it later.  Two polls may be in flight from one cursor;
`freshOf` is the guard that keeps an event from being folded twice.  A restart
resumes from the last checkpoint; a watcher that retains its log saves none and
starts over, because `startFlow` means something only without a retained log
(`watcher.ts:79-83`).

### EventMerge

The chain is a sequence of events that grows; an event is its position.  A call
(`readEvents`, `digestFor`) is cut at its await: a query is sent for what follows
the cursor as it is then (`asking`), and answered later, from the chain of some
moment since (`answers`); one step, `fetchMore`, goes from an answer to the next
query or to the end of the round.  Nothing keeps a call from starting while
another awaits a page, and all of one keeper share the cursors, the held events
and the log, as in the code.  So a page may be pushed twice, and is held and
released twice (`holding` counts copies), and a late answer takes a cursor and
its high-water mark back.  A query may also reject, and its call with it; what
the call was handed stays.  The modules are asked in turn, and one whose page
has no next one is spent for good.  `orderable` is what `release` lets into the
log.  Each keeper has its page limit.  Two events may share a timestamp and a
transaction.  `MAX_FETCH_ROUNDS` is out of reach.

`overlapped` records who had two calls under way at once: what holds of the
others only (no event twice) is said of them only.

### Notes and NotePanel

Hashes are symbolic: a digest is the tuple of what it was computed from.  The
tree is kept as the code keeps it, one left node per level and a ring of roots,
beside the list of leaves, which is what the events publish.  `SdkTree` repeats
`sdk/src/merkle.ts` with the node tag and the empty leaf it has, which are not
the contract's.  `SdkTwin` says both things of every sequence of leaves the run
reaches: `retagged`, the roots, the window and the proofs of the two are the
same, so what is left to reconcile is the tags; as they are, no proof of the SDK
folds to a root the contract knows.

`NotePanel` is one browser.  A slot of `ops` is one call in flight; clicking,
sending, landing on chain, the answer, the refusal and the reload are steps of
their own.  The mirror of the leaves lags behind the chain.  `useAsyncAction`
drops an answer that a later call has superseded (`DeliverLate`).

The chain takes a commitment as opaque bytes: it compares the payment with the
tier named, appends the leaf, and learns the leaf's own tier only from the witness
of its spend.  So `OthersDeposit` pays for one tier and commits to any, or to a
leaf already published, and `OthersSpend` spends a note for what its commitment
says.  `noteLog` keeps, of each leaf, the tier paid (`PaidIn`) beside the
commitment, whose tier is what it is worth (`WorthOf`).

## Runs

| Run | Question | Bounds |
|---|---|---|
| `BatchGovern` | Does the schedule survive governance at any moment? | 2 batches, boundaries every 2-3 ticks, all setters with a legal and an illegal input |
| `ClearingEscrow` | Is the ledger right under any interleaving? | 2 books, 3 accounts, top-ups and withdrawals of 3, two fee terms, budget 2 |
| `ClearingBooks` | Is the auction right for every book? | 2592 books of 4 orders (3 prices, quantities 1 and 3, an account on either side), 2 fundings, budget 3 |
| `CapsHandover` | Who holds authority, through any rotations and handovers? | 3 addresses, 3 rotations and 3 handovers, 2 entries for an allowlist of 1 |
| `VaultShares` | Do the books back every receipt, can each be claimed, is what is approved what was signed? | 3 approvals, deposits of 2, redemptions of any number, a gain of 1 or none, 2 receipts out, the minimum deposit raised |
| `VaultGovern` | Does a pause shut the keeper out and last, and do proposals age? | 2 approvals, clock to 2, 2 addresses (symmetric), a rotation and a handover, reports passing and failing each check, the bounds and the delay lowered and raised |
| `BridgeBucket` | Is what leaves bounded, can anybody be paid and refunded, does every request end, does the log replay? | 1 user, amounts 2 and 4 against a bucket of 3 refilled by 1 a second of 2 ticks, 1 deposit, 2 withdrawals, pick jitter 0-1, 2 attempts, clock to 10 |
| `BridgeWatch` | Does a watcher that has caught up state what the bridge holds, and does it catch up? | 1 deposit, 1 withdrawal, pages of 2, 2 polls in flight, 1 restart, log retained or not |
| `MergePages` | Is the log in the chain's order, whatever the paging and the overlap of calls, and complete? | 2 modules, pages of 1 or 2, 2 calls at once, 3 events of one instant, 2 digests |
| `TwoKeepersAgree` | Do two keepers number the same events alike? | violated: 2 keepers, 2 events |
| `KeeperCrank` | Does a keeper send what the chain takes, and do batches settle although processes are lost? | 2 keepers, clocks off by -1, 0 or 1, 1 batch of up to 3 orders (fit, of quantity zero, blob lost), chunks of 2, 2 units of work, 1 a step, 1 step a drive, 1 failure |
| `NoteEscrow` | Do notes stay backed, does every proof the panel sends hold, can every note be spent? | depth 2, ring of 2 roots, 2 tiers, 1 note of the browser (of the larger tier) with 2 clicks, 1 deposit by others that pays for the smaller tier and commits to either or to a leaf published, their spends, 1 failure or pause |

Why the bounds are enough.  Two batches show everything a batch can do to the
next one, since at most one is live (proved).  In `ClearingBooks`, two prices
above and below a third, an account with orders on both sides, odd quantities
and a price scale of 2 make every rounding, tie, truncation, remainder and
no-cross case happen: each mutant in `PROJECT.json` is a bug of that kind and is
caught.  Small scales stand for the real ones (`PRICE_SCALE` is 10^8, fees are
in 10^4ths), and `MAX_U64` is out of reach.

For the vault, a deposit of 2 and a deployed leg of 0 or 1 give prices above and
below par, so that both roundings lose something, and three approvals let a
receipt of the first epoch wait while two others are priced.  In `VaultShares`
the price bound is as wide as the code permits, and time stands still: what
depends on time is in `VaultGovern`, where addresses are symmetric and no money
moves.

For the bridge, an amount of 4 never fits the bucket, two of 2 fit only one
after the other, and two ticks to a second make the seconds of two debits
coincide and differ; a withdrawal that was refused is retried, cancelled before
its pick, or dropped.  Nothing is requested after `LastRequest`, and the clock
then runs until all deadlines are past.  A watcher of two pages in flight shows
what a third could: pages are intervals from a cursor, folded in either order.
In the live log, two streams and three events give a stream that is spent before
its first event, one that is behind, and ties; two calls at once give a page
pushed twice and a cursor that goes back while another query is out.  The events
of `MergePages` share one instant, so their digests alone order the transactions,
with the chain or against it; `TwoKeepersAgree` has three modules.

For the keepers, a batch of three orders has one chunk filled and one half
filled, one that nobody can reveal and one nobody can read; two units of work
and one step a drive make a clearing take two commands, of the same keeper or of
two.  A tree of depth 2 has both sides at both levels and, with three leaves, a
ring of two that has rolled over.

Deadlock is not checked: a bounded instance stops when its last batch is
settled, its last request ended or no time is left.

### Fairness

`Clearing`: `begin` and `Step` are permissionless, weak fairness of both.  The
one for `Step` is written out as "always eventually not `can_step`, or always
eventually a `Step`", which is its definition with the enabling condition spelled
out: a step left to do and a budget that commits.

`KeeperCrank`: the clock advances (weak); a command under way goes on (weak); a
keeper whose schedule is right begins what is due, again and again (strong
fairness of `RunDue` at the true clock, since another command of the same keeper
may come first).  None for submits or governance.  The clock of that run does
not pass the grace deadline while an order somebody can reveal is unrevealed:
the grace is taken to be long against a keeper's work, which is what its default
is for.

`HashiBridge`: time passes, and what is due is applied (weak).  Whoever waits for
a request moves the clock by `advance` or polls it.

`Watcher`: polls are made and answered (weak).

`EventMerge`: until every module is spent, a keeper's rounds come to their end
again and again, whatever queries fail (the watcher polls for as long as it
runs, and the mirror answers in the end); and a call that has ended a round goes
on.  Both are written out as `[]<>`.

`NotePanel`: a handler ends, by its answer, its refusal or a reload
(`HandlersEnd`); the mirror catches up and is read (weak); an answer that is not
superseded is delivered, and the user goes on clicking a spend that is offered
(strong, since a read in flight may disable both for a while).

## Proofs

All theorems hold for every value of the constants under the named assumptions
of the modules.  Every inductive invariant was given to TLC on an instance
before it was proved.

`BatchProofs` proves from `BatchAssumption` alone (the clock is far from the end
of `u64`; the defaults are a schedule): `TypeCorrect`, `OneBatchAtATime`,
`PassesNeverOverlap`, `KeysReleasedOnTime`, `SubmitsStopBeforeKeys`.  None of
the invariants is inductive alone.  `IInv` is `TypeOK`, `ScheduleDefined`
(the cadence is positive and the offset below it, or `next_boundary` divides by
zero or gives a boundary in the past), `OneLiveBatch`, `PassesInOrder` and
`LivePolicyVersion`.  The argument: `OneLiveBatch` says that the batch a step
touches is the last, so nothing an earlier one said can change; setters of the
schedule and the policy act only when no batch is live; and a new batch's
boundary lies ahead of the clock (`BoundaryAhead`, from Euclidean division and
the saturating addition), which is past the close of all batches before it.
There is one lemma per action, most of them through `LiveBatchStep`.

`ClearingsOnDecidedBooks` is about slots, while `to_clearing` reads a counter,
`revealed_count`: `BookKept` says that the counter is the number of revealed
slots, so that when it reaches the number of orders no slot is left, and that
each holds what was committed.

The same module proves of `KeeperCrank`, from `BatchAssumption` and
`KeeperAssumption` (a ciphertext opens to an order or to nothing readable; work,
budget and chunk are positive): `CrankTypeCorrect`, `ScheduleAgreesWithChain`
(what a keeper's scheduler calls due is what the chain accepts at that moment),
`OnlyRacesFailChunks` (a chunk that passed its checks fails on chain only because
a slot of it was opened in between or the grace ran out) and
`KeepersClearDecidedBooks`.  A keeper's transaction is a step of `Batch`, or
several in one, so `IInv` and the books carry over.  What a keeper holds is
older than the chain it meets, and `CommandsKept` is what remains true of it:
the batch it read exists, and once closed keeps its orders, so a row read and
verified then is still the row's commitment.  `ChainMoves` lists what any step
of the chain grants to a keeper that looks on.  `WorkKept` says that work is left
exactly while a batch is clearing.  The order in which rows are revealed is
`ascending`, shown to list each row once by ranking (an injection of a finite
set into itself is onto).

`ClearingProofs` proves, from `ClearingAssumption`, `LockHolds`
(`LockedUntilSolvent`: the ledger is locked while custody differs from the rows,
and rows always add up to the running total) and `SettlementNeverAborts`
(`SettlementCovered`: every debit the settlement has left is covered by the row
it will be taken from).  The second is the long one.  Its invariant goes through
the stages in turn, saying of each what is done below the cursor and untouched
above it: the sort has permuted the entries; snapshots equal the rows, which
nobody can lower once the ledger is locked; truncation leaves each account's
promises within its snapshot; allocation fills nobody above the truncated
quantity; fills are within the limits, so what an account pays is within what it
promised.  Each stage's loop is one of the shapes of `LoopRules`, which turns
"one unit of work keeps it" into "any budget of units keeps it".  A slot never
revealed holds a placeholder, of which nothing but its type is assumed.

`PriorityProofs` proves, from the same assumption (whose orders have prices and
quantities of a `u64`, none of them zero), `PriceHasPriority` (`PricePriority`)
and `NobodyIsFirst` (`NoFirstInBatch`).  Both speak of the end, and neither
follows from one pass alone: an order the first pass filled may have been cut,
and the second pass shares again what was cut.  `FairInv` says, stage by stage,
what is kept of the book:

* while it is read, each side is ranked by price and holds one entry, uncut, for
  every order read that was revealed (`Book`, `Uncut`); the snapshots of the
  accounts are those taken at the start;
* during a pass, eligible prefixes end where a price ends; whoever is not in the
  marginal level got all or nothing; within it no smaller fraction was served
  before a larger one (`AllOrNothing`, `LargestFirst`).  From these the fills of
  a pass follow `Rule`: who gets less than he asked leaves nothing to a worse
  price, and weights a sat apart at one price get fills a sat apart;
* during truncation, what was drawn from a row and what is left of it are the
  row (`Drawn`), so an order of a submitter whose row pays for all his orders is
  never cut: the costs of his fills, each at most that of its order, fit in
  what is left (`Survives`);
* in the second pass, the entries weigh what is left of the first one, and its
  `Rule` is of those weights.  Composed with the first pass's, of what was
  ordered, it gives the two properties of the entries (`Outcome`): that a first
  pass may leave two like orders a sat apart is why `Rule` speaks of weights a
  sat apart and not of equal ones;
* while the fills are made, and after, there is one for each filled entry
  (`FillsOf`), and the book does not change.

`PriceProofs` proves, from the same assumption, `PriceIsBest`
(`PriceMaximisesVolume`).  It needs to know the search, which is incremental:
each turn moves two scans to the next candidate and adjusts two totals.
`PriceInv` says that nothing is scanned while the book is read (`Fresh`); that
while prices are gone over the candidates are the prices the book names,
ascending, each scan is what trades at the candidate looked at last, its total
what that amounts to, and the best of the candidates seen so far is known
(`Known`); and that afterwards the price is the best of all (`BestPrice`), which
no later stage touches.  That a turn keeps the scans is `BidsLeave` and
`AsksJoin`, from the ranking of the book; that a strict improvement keeps the
best is `BeatsThrough`.  A price that no order names lets no more trade than the
next named one above it (`VolumeAbove`), so the candidates are enough:
`BestPrice` speaks of every price, where the run looks at those up to the
largest named.  `BookIsOrders` carries it from the book to the revealed orders.

`LoopRules` states induction over a loop's index with the predicate as a
constant of the module, so that each loop instantiates it; its only premise is
`Induction`, which every instance discharges from the natural numbers.  Its `FoldOneMore`
is another step: the fold over a sequence of one element more is the fold over
the sequence, and that element.  `SumProofs` does the same job for finite sets: the library's induction takes an operator as
parameter, so sums are shown by induction over subsets ordered by inclusion,
once, for the sum of a function over a set.

`BridgeAndCapsProofs` proves, from `LimiterAssumption` and `BridgeAssumption` (amounts,
delays and windows are naturals), `NeverRefundedAndSigned`,
`OutflowNeverOutrunsBucket` and `WindowsStayBounded`.  The first is about the
log, not the statuses: `History` says that the number of times a withdrawal was
picked, signed and cancelled in the log is what its status says, for every
identifier, those not yet requested included; an event is one more occurrence
(`AppendCounts`).  The second adds up the debits: a debit takes from the
projected bucket, which is at most the old one and the refill since
(`DebitBound`), whatever saturates or is capped.  The third says it of every
window: what is signed since any signing, plus what the bucket holds, is at most
one full bucket and the refill since that signing.  That is inductive, as the
bound between two signings is not.

`ReplayStaysInParity` (`ReplayParity`) says it of the log: a keeper that trusts
the events alone derives the bucket and the queue the bridge holds.  It needs
`AmountsFit` besides (all the withdrawals there can be are together an amount,
as all the bitcoin there is), without which the queue's depth saturates and the
subtractions that follow no longer undo the additions.  A log one event longer
replays as before, and then one boundary (`OneMoreBoundary`, by `FoldOneMore`),
only if the new event changes no earlier debit, and the debits are joined with
the whole log.  So the invariant (`InStep`) says also that every signed
withdrawal was asked for, at its amount (`Asked`), from which an earlier debit
settles as it did (`AskedSettles`); that the whole replay holds the bucket, the
sum of the queue, and traces that end in both (`WholeHolds`, `Tracks`); and that
the signed events alone, whose requests are not there to be joined, carry the
amounts that were asked (`StreamHolds`).

`WatcherTellsTruth` (`FlowIsTruth`) is the same kind of argument over pages
instead of events.  Besides `BridgeAssumption` it needs `WatcherAssumption`: a
page holds something, and the watcher subscribes to the kinds its summary is made
of, as it does unless told otherwise.  Three things are kept (`WatchInv`).  The
bridge's invariant; that the whole log, folded with every confirmation at the
amount its withdrawal has, gives what the bridge holds (`TellsTruth`: no
subtraction of that fold saturates, because what it takes away is in the sum);
and where the watcher stands (`WatchHere`): nothing it subscribes to lies between
the last position it has folded and its cursor, a page in flight started at or
before the cursor, and the summary, like the checkpoint's, is that of the log up
to its cursor (`Near`) in what is queued and about to be minted, and no less in
what is about to be burned, where a confirmation whose request lies in an earlier
page takes nothing away.  With a retained log it is equal, because the fold over
all of it finds every request (`FirstSays`).  So a page folded late, or twice,
adds exactly the positions that were missing (`FreshPositions`), whatever the
order of the polls.

Of `EventMerge` it proves, from `MergeAssumption` (a page holds something, there
is a module and none is listed twice, digests and bounds are naturals),
`MergeInvariance`, `PagingLeavesNoTrace` and `MissingMeansNew`, for any number of
keepers and modules, page limits and chains, whatever calls overlap and queries
fail.  None of the properties is inductive: they speak of the log, and what
decides is what has been fetched and not yet released.  `MergeInv` says of each
keeper that what its cursors have passed was handed to it, in the log or held
(`Handed`), and so was all that a module it is done with had when it began
(`Complete`); a request once looked for is therefore newer than the first query
if every module is spent.  Of each call it says that the query under way starts
after what was handed over and was sent no earlier than the first (`CallOK`), so
that its answer, however late, brings a cursor back only to a place that was
passed before.  While a keeper's calls do not overlap, what was handed over is
exactly what the cursors have passed, each event once (`Single`, `OneAtATime`).
A release takes what every module still read has passed: in a chain in key order
that did not grow, what is older is then logged already or released before it
(`Straight`), and no two events tie, since an event of a transaction has a key of
its own (`ChainOK`).

Of `Caps`, from `CapsAssumption` (nobody's address is `NoAddress`), it proves
`CapsTypeCorrect`, `OneAuthority`, `NoCapRevives` and `ConsentedHandover`.
`OneLiveCapEach` is not inductive: a new epoch is fresh only because no
capability is ahead of the registry, which `NoneAhead` adds.

`VaultAndNoteProofs` proves `VaultTypeCorrect`, `NobodyDiluted`, `PauseShutsKeeperOut`,
`ResumptionIsSlow`, `OpenReceiptsBacked`, `ClaimsAlwaysPay` and
`OnlyTheSignedIsApproved` from `VaultAssumption`: amounts are naturals, the
default delay is not below the minimum.  The inductive invariant adds to the
properties that the two pending counters are the money and the shares set aside
(`CountersMatch`, without which an approval could add more to the base than it
mints for), that an arm is not older than the last pause and the delay not below
the minimum (`PauseInv`), and that the registry is one (`KeepersKnown`).  The
heart is `RoundingNeverDilutes`: a mint `M` for deposits `D` and a release `R`
for `r` shares, both rounded down at price `T/S`, leave
`(S+M-r) T <= (T+D-R) S`, whatever the numbers.  The receipts are bags of any
size: that each can be claimed, in any order, rests on the sum of rounded claims
of an epoch being at most the rounded claim of the sum, and on a claim taking its
own part from both sides.

Of the notes it proves, from `PanelAssumption`, `NotesInvariance` and
`NotesBacked` (`BackingExact`: custody is what was paid for the leaves less
what the spent ones were worth, whatever others commit to; when each leaf was
paid its worth, it is the worth of the unspent ones).  A nullifier does not
name its note, so the invariant ties tags to leaves: each nullifier spent is
that of a leaf in the log, so a leaf that joins is unspent; and the leaf a
spend under way names still carries its note's commitment when it lands, since
the log of leaves only grows.

The type invariants (`TypeOK`, `CapsTypeOK`, `VaultTypeOK`, `CrankTypeOK`),
`OneLiveBatch` and `OutflowBounded` are proved and are in no run; they were
checked with TLC before they were proved.

Only model-checked:

* the refinement `ImplementsAtomicClearing`: it compares the outcome with the
  SDK's set expressions, to the sat and through both passes;
* `TreeIsLeaves`, `SdkTwin`, `CheckedPathHolds` and `PanelNeverGoesBack`: the
  trees are folds and recursive functions;
* every liveness property, which is beyond the prover: `EveryBatchSettles`,
  `EveryClearingSettles`, `EveryWithdrawalEnds`, `WatcherCatchesUp`,
  `NothingOldIsMissed`, `EveryNoteSpends`.

## What the code does not do as documented

Checked by a run:

* Two keepers number the events both have differently (`TwoKeepersAgree`).  The
  log is said to be a pure function of the chain (`real.ts:547-551`), but the
  modules are asked one after another and a module is spent for good as soon as
  one page has no next one (`real.ts:594-606`).

Met while modelling, and left as prose:

* `notes.move:104-110` states that the outstanding sats are the sum over the live
  commitments of their denominations, and that a note's value is what the ladder
  says.  The contract compares the payment with the tier named and appends any 32
  bytes (`vault.move:741-762`, `notes.move:384-402`); the leaf's tier enters at its
  spend only (`notes.move:548-550`).  If a leaf commits to a larger tier than was
  paid, the unspent leaves are worth more than the custody, and once it is spent a
  note that was paid in full may find too little left, for ever.  This is
  why `BackingExact` speaks of what was paid and what was spent, and
  `EveryNoteSpends` promises nothing once a leaf was underpaid (`Underpaid`).
* `sdk/src/merkle.ts` calls its state the shape `notes.move` keeps (`:80`) and its
  fold exactly what `notes.move` recomputes (`:261`).  The shape is the same; the
  digests are not: nodes are tagged 0x01 and not 0x03, and the empty leaf is 32
  zero bytes and not `blake2b(0x00)`, as `app/src/lib/notes.ts:12-33` records.
  Every proof of the SDK is refused on chain; `SdkTwin` says both.
* The live log is said to be append-only, `eventsSince` monotonic and idempotent
  (`real.ts:514-515`).  Two calls of one adapter that overlap, as two polls of a
  watcher in flight do, query after the same cursor and push the same page, and
  nothing drops the copies: the log then has an event twice, under two numbers
  (`real.ts:591-610`).  The watcher drops what it has folded by number only
  (`watcher.ts:254-258`), so it counts both.  `PagingInvisible` promises that no
  event comes twice only to a keeper whose calls never overlapped.
* `set_cadence` lowers the cadence below the submit cutoff
  (`batch.move:254`; the cutoff's setter refuses that at `batch.move:293`).
* A cutoff of 0 is accepted, and then an order can be submitted at the instant
  the keys are out (`batch.move:388-393`).
* A reveal grace near the end of `u64` is accepted (`batch.move:303`), and then
  neither a reveal nor a clearing of a book not wholly revealed can compute its
  deadline (`batch.move:452`).
* The ledger is frozen by `begin` (`vault.move:805` tests the lock), not by
  `close_batch` as `docs/DESIGN-V2.md:141`, `docs/FACTS.md:197` and
  `sdk/src/clearing.ts:85` say.
* Bids that overflow `u64` together stop the clearing for good
  (`clearing.move:337`), although "every pass settles".
* A vault everybody left cannot always start again: par is compared with the
  price they left at (`vault.move:585`), though the comments say a bootstrap is
  priced at par and its check skipped.  Below a last price of a half, no
  permitted bound is wide enough.
* A valuation of nothing passes any jump bound (`vault.move:586`), and the
  valuation after it too.
* `cancel_admin_transfer` has no entry point in the vault: a nomination cannot be
  withdrawn (`caps.move:262`).
* The exclusive borrow of the registry is said to keep a second deployment leg
  from opening before the first is closed (`allocate.move:436-438`); a ticket
  holds no borrow, so two may be open in one transaction, and the cap is tested
  only when they open.  No function of the packages opens one.
* `verify/index.ts:80` stops paging at an empty page, though an adapter may
  return one and have more to say (`real.ts:735`); a live adapter never sees
  events made after its modules are spent; transactions of one millisecond are
  ordered by their digest, not as the chain ordered them.
* A watcher resumes from the cursor and the flow of its checkpoint
  (`watcher.ts:123`), but while it retains its log, the default, the flow is
  folded from what it has retained since and the start flow is dropped
  (`watcher.ts:271`); the option says so (`watcher.ts:79`), the checkpoint does
  not.
* `nav/propose.ts:205` reads the digest of the current proposal after its own
  has landed; it may be somebody else's by then.
* `keeper/src/clearing/engine.ts` claims parity with the contract
  (`engine.ts:7`, `:13`, `:24`, `:237`) but keeps the rules of an older auction.
* A deposit whose answer was lost leaves its note on offer, and pressing again
  escrows the same commitment twice.  Each leaf has a nullifier of its own and
  stays backed (`BackingExact`), but the panel offers one of them only.
  Discarding a note while its deposit is under way (`NotePanel.tsx:372`) loses
  it.

## Not modelled

Hashes are injective: `blake2b256` has no collisions, and the Merkle root of the
fills is a function of them, so `compute_root` of `clearing.move` and
`verify_fill` are left out.  Object ids (`EWrongBatch`, `EWrongVault`) are left
out: there is one vault and each clearing is of its own batch.  `u128` products
never overflow within the bounds.  Events (other than the bridge's and the
notes'), formatting and logging are left out.

* `allocate.move`, `carry.move` and `lending/`: nothing deployed calls them.
* `oracle.move`: only its saturating addition is reached on chain (in `Batch`);
  its limiter replay has an off-chain twin, which is `LimiterReplay`.
* The keeper's valuation, claims and price sources: pure functions around HTTP
  and object reads, followed by one transaction that `Vault` models.
* Clients of Seal and Walrus: external services; `KeeperCrank` says what they
  may hand back.
* Views, transaction building, parsing and configuration of the keeper, the SDK
  and the application; the screens other than the note panel; the documentation
  screens; the deployment scripts.  They are most of the repository's lines and
  keep no state that outlives a call.
* `clearing-rs/`: a third engine, used by its own tests.
* `keeper/src/clearing/`: see above; comparing it with the contract would show
  what is already known of it.
* `set_denominations`, `mint_note` and `burn_note` of `notes.move`,
  `transfer_internal` and `destroy_empty_book` of `balance.move`: only tests
  call them.

## Plan

Proofs to add, in order: the steps of the refinement, from `BestPrice` and the
book `PriorityProofs` follows; `TreeIsLeaves`.

Models to add if the code grows towards them: tickets and caps of `allocate.move`
once the vault deploys, and `Batch` and `Clearing` composed over several passes
of one vault.
