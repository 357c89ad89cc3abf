------------------------------ MODULE Clearing ------------------------------
(***************************************************************************)
(* One clearing as a machine of transactions: begin takes the withdrawal   *)
(* lock and makes the Clearing object, every step is a transaction of      *)
(* anybody's with a budget of its own, and between any two of them         *)
(* participants top up (and, outside the lock, withdraw) and governance    *)
(* changes the fee.  A transaction whose assertion fails changes nothing.  *)
(*                                                                         *)
(* move/sources/clearing.move (through ClearingStages), the escrow surface *)
(* of move/sources/vault.move and its books (BalanceBook).  The batch is   *)
(* one that Batch's to_clearing accepts.                                   *)
(***************************************************************************)
EXTENDS ClearingStages

CONSTANTS
    Addresses,  \* accounts, as numbers
    Batches,    \* sealed batches: what was revealed, and where
    Funds,      \* what the accounts hold at first: sets of [base, quote]
    Fees,       \* fee terms: [bps, recipient]
    Budgets,    \* the budgets somebody may step with
    Amounts,    \* what one top-up or withdrawal moves
    MaxCustody  \* bound: top-ups stop when a book holds this much

VARIABLES
    batch,    \* the Batch: state, revealed, is_revealed
    vault,    \* the Vault: base_book, quote_book, active_clearings, fee terms
    clearing, \* the shared Clearing
    frozen    \* history: the funding rows as they were taken

vars == <<batch, vault, clearing, frozen>>

STATE_SEALED == 1
STATE_CLEARING == 2
STATE_SETTLED == 3

(* What reveal_order accepts; a slot never revealed holds a placeholder.    *)
Order ==
    [submitter : Addresses, is_bid : BOOLEAN, limit_price : 1..MAX_U64, qty_sats : 1..MAX_U64]

ASSUME ClearingAssumption ==
    /\ Addresses \subseteq Nat /\ IsFiniteSet(Addresses) /\ MaxCustody \in Nat
    /\ \A b \in Batches :
          /\ b.revealed \in Seq([submitter : Nat, is_bid : BOOLEAN,
                                 limit_price : Nat, qty_sats : Nat])
          /\ b.is_revealed \in [DOMAIN b.revealed -> BOOLEAN]
          /\ \A i \in DOMAIN b.revealed : b.is_revealed[i] => b.revealed[i] \in Order
    /\ Budgets \subseteq Nat \ {0} /\ Amounts \subseteq Nat \ {0}
    /\ Fees \subseteq [bps : 0..BPS_DENOMINATOR, recipient : Addresses]
    /\ Funds \subseteq [Addresses -> [base : Nat, quote : Nat]]

(* Before begin there is no object, so nothing at any stage.                *)
NoClearing == [stage |-> "none"]

(* An account with nothing has no row, as after new_book.                   *)
funded_book(amounts) ==
    FoldFunctionOnSet(LAMBDA who, book : top_up_for(book, who[1], who[2]), new_book,
                      [a \in Addresses |-> <<a, amounts[a]>>],
                      {a \in Addresses : amounts[a] > 0})

Init ==
    /\ \E b \in Batches : batch = [state |-> STATE_SEALED, revealed |-> b.revealed,
                                   is_revealed |-> b.is_revealed]
    /\ \E f \in Funds, fee \in Fees :
          vault = [base_book |-> funded_book([a \in Addresses |-> f[a].base]),
                   quote_book |-> funded_book([a \in Addresses |-> f[a].quote]),
                   active_clearings |-> 0,
                   fee_matched_bps |-> fee.bps, fee_recipient |-> fee.recipient]
    /\ clearing = NoClearing
    /\ frozen = [who \in {} |-> 0]

-----------------------------------------------------------------------------
(* The escrow surface. *)

TopUpBase(who, n) ==
    /\ vault.base_book.custody + n <= MaxCustody
    /\ vault' = [vault EXCEPT !.base_book = top_up_for(@, who, n)]
    /\ UNCHANGED <<batch, clearing, frozen>>

TopUpQuote(who, n) ==
    /\ vault.quote_book.custody + n <= MaxCustody
    /\ vault' = [vault EXCEPT !.quote_book = top_up_for(@, who, n)]
    /\ UNCHANGED <<batch, clearing, frozen>>

WithdrawBase(who, n) ==
    /\ vault.active_clearings = 0
    /\ can_debit(vault.base_book, who, n)
    /\ vault' = [vault EXCEPT !.base_book = withdraw(@, who, n)]
    /\ UNCHANGED <<batch, clearing, frozen>>

\* Mutant: the lock is not looked at.
WithdrawQuote_anytime(who, n) ==
    /\ can_debit(vault.quote_book, who, n)
    /\ vault' = [vault EXCEPT !.quote_book = withdraw(@, who, n)]
    /\ UNCHANGED <<batch, clearing, frozen>>

WithdrawQuote(who, n) ==
    /\ vault.active_clearings = 0
    /\ can_debit(vault.quote_book, who, n)
    /\ vault' = [vault EXCEPT !.quote_book = withdraw(@, who, n)]
    /\ UNCHANGED <<batch, clearing, frozen>>

set_fee_params(fee) ==
    /\ vault' = [vault EXCEPT !.fee_matched_bps = fee.bps, !.fee_recipient = fee.recipient]
    /\ UNCHANGED <<batch, clearing, frozen>>

-----------------------------------------------------------------------------
(* The clearing. *)

\* Mutant: the lock is not taken.
begin_unlocked ==
    /\ batch.state = STATE_SEALED
    /\ batch' = [batch EXCEPT !.state = STATE_CLEARING]
    /\ clearing' = new_clearing(vault)
    /\ UNCHANGED <<vault, frozen>>

begin ==
    /\ batch.state = STATE_SEALED
    /\ vault.active_clearings = 0
    /\ batch' = [batch EXCEPT !.state = STATE_CLEARING]
    /\ vault' = [vault EXCEPT !.active_clearings = 1]
    /\ clearing' = new_clearing(vault)
    /\ UNCHANGED frozen

at_stage(stage) == clearing # NoClearing /\ clearing.stage = stage

(* The dispatch of step on the stage of c: the object and the vault after a *)
(* transaction with this budget, and whether what it asserts holds.         *)
stage_step(c, budget) ==
    LET alone(d) == [clearing |-> d, vault |-> vault, ok |-> TRUE]
    IN  CASE c.stage = STAGE_LOADING -> alone(load_step(c, batch, vault, budget))
          [] c.stage = STAGE_PRICING -> alone(price_step(c, budget))
          [] c.stage = STAGE_ALLOC_FULL -> alone(alloc_full_step(c, budget, STAGE_ALLOC_PRORATA))
          [] c.stage = STAGE_ALLOC_PRORATA ->
                alone(alloc_prorata_step(c, budget, STAGE_ALLOC_REMAINDER))
          [] c.stage = STAGE_ALLOC_REMAINDER ->
                alone(alloc_remainder_step(c, budget, STAGE_TRUNCATE))
          [] c.stage = STAGE_TRUNCATE -> alone(truncate_step(c, vault, budget))
          [] c.stage = STAGE_REALLOC_FULL ->
                alone(alloc_full_step(c, budget, STAGE_REALLOC_PRORATA))
          [] c.stage = STAGE_REALLOC_PRORATA ->
                alone(alloc_prorata_step(c, budget, STAGE_REALLOC_REMAINDER))
          [] c.stage = STAGE_REALLOC_REMAINDER ->
                alone(alloc_remainder_step(c, budget, STAGE_ROOTING))
          [] c.stage = STAGE_ROOTING ->
                [alone(rooting_step(c, budget)) EXCEPT !.ok = rooting_asserts(c, budget)]
          [] c.stage = STAGE_SETTLING -> settle_step(c, vault, budget)
          [] c.stage = STAGE_DONE -> alone(c)

commits(after) == after.ok /\ no_overflow(after.clearing)

step(budget) ==
    /\ clearing # NoClearing
    /\ \E after \in {stage_step(clearing, budget)} :
          /\ commits(after)
          /\ clearing' = after.clearing
          /\ vault' = after.vault
          /\ batch' = IF after.clearing.stage = STAGE_DONE
                      THEN [batch EXCEPT !.state = STATE_SETTLED] ELSE batch
          /\ frozen' = IF clearing.stage = STAGE_LOADING THEN after.clearing.funding ELSE frozen

Step == \E budget \in Budgets : step(budget)

TopUp == \E who \in Addresses, n \in Amounts : TopUpBase(who, n) \/ TopUpQuote(who, n)

Withdraw == \E who \in Addresses, n \in Amounts : WithdrawBase(who, n) \/ WithdrawQuote(who, n)

SetFee == \E fee \in Fees : set_fee_params(fee)

Next == begin \/ Step \/ TopUp \/ Withdraw \/ SetFee

Spec == Init /\ [][Next]_vars

(* begin and step are permissionless, and whoever wants the outcome cranks: *)
(* weak fairness of both, with the condition under which a step changes     *)
(* something written out (a stage left to do, and a budget that commits).   *)
can_step ==
    /\ clearing # NoClearing /\ clearing.stage # STAGE_DONE
    /\ \E budget \in Budgets : commits(stage_step(clearing, budget))

FairSpec == Spec /\ WF_vars(begin) /\ ([]<>~can_step \/ []<><<Step>>_vars)
-----------------------------------------------------------------------------
(* What the properties speak of. *)

settling == at_stage(STAGE_SETTLING)
finished == at_stage(STAGE_DONE)

(* The fills are final: the stages in which verify_fill answers.            *)
decided == settling \/ finished

revealed == {i \in DOMAIN batch.revealed : batch.is_revealed[i]}

order_at(i) ==
    [order_index |-> i, submitter |-> batch.revealed[i].submitter,
     is_bid |-> batch.revealed[i].is_bid, limit_price |-> batch.revealed[i].limit_price,
     qty_sats |-> batch.revealed[i].qty_sats]

fills_at(i) == {k \in DOMAIN clearing.fills : clearing.fills[k].order_index = i}

filled(i) == total_over(fills_at(i), LAMBDA k : clearing.fills[k].base_sats)

(* The snapshot pays for everything this submitter asked for at this price, *)
(* so truncation cut none of their orders.                                  *)
paid_in_full(who) ==
    LET p == clearing.alloc.clearing_price
        asked(is_bid) == {i \in revealed : /\ order_at(i).submitter = who
                                           /\ order_at(i).is_bid = is_bid}
    IN  /\ total_over(asked(TRUE), LAMBDA i : quote_of_bid(order_at(i).qty_sats, p))
              <= frozen[who].quote
        /\ total_over(asked(FALSE), LAMBDA i : order_at(i).qty_sats) <= frozen[who].base

not_pushed == SubSeq(clearing.fills, clearing.cursor + 1, Len(clearing.fills))

-----------------------------------------------------------------------------
(* Properties. *)

RowsAddUp(book) ==
    /\ DOMAIN book.accounts \subseteq Addresses
    /\ \A a \in DOMAIN book.accounts : book.accounts[a] \in Nat
    /\ book.total_credited = total_over(DOMAIN book.accounts, LAMBDA a : book.accounts[a])
    /\ book.accounts_opened = Cardinality(DOMAIN book.accounts)

(* The shape of the state: no row of a book is ever negative and the        *)
(* running total is the sum of the rows, so is no accumulator of the        *)
(* clearing negative and its scans stay within its entries.                 *)
TypeOK ==
    /\ batch.state \in {STATE_SEALED, STATE_CLEARING, STATE_SETTLED}
    /\ RowsAddUp(vault.base_book) /\ RowsAddUp(vault.quote_book)
    /\ vault.base_book.custody \in Nat /\ vault.quote_book.custody \in Nat
    /\ clearing # NoClearing =>
          /\ clearing.stage \in STAGE_LOADING..STAGE_REALLOC_REMAINDER
          /\ clearing.pricing.demand_remaining \in Nat /\ clearing.fee_quote \in Nat
          /\ \A s \in BOOLEAN : clearing.alloc.elig[s] \in 0..Len(clearing.entries[s])
          /\ \A who \in DOMAIN clearing.funding :
                clearing.funding[who].base \in Nat /\ clearing.funding[who].quote \in Nat

(* The withdrawal lock is held exactly while the batch is being cleared,    *)
(* and whenever it is not, each book is solvent: the coin it holds is what  *)
(* its accounts are owed, to the sat.  Between two settling transactions    *)
(* the books are not solvent one by one.                                    *)
LockedUntilSolvent ==
    /\ (vault.active_clearings = 1) <=> (batch.state = STATE_CLEARING)
    /\ (batch.state = STATE_SETTLED) <=> finished
    /\ vault.active_clearings = 0 => solvent(vault.base_book) /\ solvent(vault.quote_book)

(* Once the fills are final, whatever happened to the books since the       *)
(* snapshots were taken, pushing the rest of them cannot abort: every debit *)
(* is covered at the moment it is made.                                     *)
SettlementCovered == settling => push_fills(vault, not_pushed).ok

(* Price priority survives truncation and the second pass: when an order    *)
(* whose submitter could pay is not filled completely, no order of its side *)
(* with a worse price is filled at all.                                     *)
PricePriority ==
    decided => \A i, j \in revealed :
        LET a == order_at(i)
            b == order_at(j)
        IN  /\ a.is_bid = b.is_bid
            /\ IF a.is_bid THEN a.limit_price > b.limit_price ELSE a.limit_price < b.limit_price
            /\ paid_in_full(a.submitter)
            /\ filled(i) < a.qty_sats
            => filled(j) = 0

(* There is no first in a batch: two orders of one side with the same price *)
(* and quantity, both paid for, are filled alike up to one sat, whoever     *)
(* submitted first and however the two passes rounded.                      *)
NoFirstInBatch ==
    decided => \A i, j \in revealed :
        LET a == order_at(i)
            b == order_at(j)
        IN  /\ a.is_bid = b.is_bid /\ a.limit_price = b.limit_price /\ a.qty_sats = b.qty_sats
            /\ paid_in_full(a.submitter) /\ paid_in_full(b.submitter)
            => abs_diff_u64(filled(i), filled(j)) <= 1

(* Once begun, a clearing is settled, however its work is split.            *)
EveryClearingSettles == (batch.state = STATE_CLEARING) ~> (batch.state = STATE_SETTLED)
=============================================================================
