--------------------------- MODULE ClearingStages ---------------------------
(***************************************************************************)
(* The stages of move/sources/clearing.move, each as a pure function of    *)
(* the Clearing object c and the budget of one transaction (and, where the *)
(* code reads them, of the batch or the vault).  A transaction does at     *)
(* most budget units of work and leaves the rest to the next one.          *)
(*                                                                         *)
(* The code's pairs of fields for the two sides are functions of is_bid,   *)
(* and its half-open ranges [lo, hi) over 0-based vectors are lo+1..hi.    *)
(* Addresses are numbers: key, their big-endian value, orders them.  The   *)
(* Merkle root of the fills is left out (it is a function of c.fills).     *)
(***************************************************************************)
EXTENDS ClearingMath, BalanceBook, SequencesExt

STAGE_LOADING == 0
STAGE_PRICING == 1
STAGE_ALLOC_FULL == 2
STAGE_ALLOC_PRORATA == 3
STAGE_ALLOC_REMAINDER == 4
STAGE_ROOTING == 5
STAGE_SETTLING == 6
STAGE_DONE == 7
STAGE_TRUNCATE == 8
STAGE_REALLOC_FULL == 9
STAGE_REALLOC_PRORATA == 10
STAGE_REALLOC_REMAINDER == 11

SIDE_BID == 0
SIDE_ASK == 1
SIDE_NONE == 2

both(x) == [is_bid \in BOOLEAN |-> x]

new_allocation(price, matched, elig) ==
    [clearing_price |-> price, matched_base |-> matched, elig |-> elig,
     filled |-> both(0), pro_qty |-> both(0), residual |-> both(0),
     awarded |-> both(0), remainder_side |-> SIDE_BID]

(* The object begin returns: the fee terms are those of this moment.        *)
new_clearing(vault) ==
    [stage |-> STAGE_LOADING, cursor |-> 0,
     funding |-> [who \in {} |-> 0], entries |-> both(<<>>),
     pricing |-> [candidates |-> <<>>, demand_remaining |-> 0, bid_scan |-> 0,
                  supply_acc |-> 0, ask_scan |-> 0, found |-> FALSE,
                  best_price |-> 0, best_vol |-> 0, best_gap |-> 0],
     alloc |-> new_allocation(0, 0, both(0)),
     fills |-> <<>>, quote_paid |-> 0, quote_recv |-> 0, fee_quote |-> 0,
     total_debits |-> 0, total_credits |-> 0,
     fee_bps |-> vault.fee_matched_bps, fee_recipient |-> vault.fee_recipient]

(* A budgeted loop: Unit is the work at the cursor, total where it stops.   *)
Advance(c, total, budget, Unit(_)) ==
    LET after[k \in Nat] ==
            IF k = 0 THEN c
            ELSE LET d == after[k - 1] IN [Unit(d) EXCEPT !.cursor = d.cursor + 1]
    IN  after[min_u64(budget, total - c.cursor)]

enter(c, next) == [c EXCEPT !.cursor = 0, !.stage = next]

(* How far into s a scan goes that stops at the first entry failing Test.   *)
prefix(s, Test(_)) == Max({n \in 0..Len(s) : \A j \in 1..n : Test(s[j])})

qty_over(s, I) == total_over(I, LAMBDA i : s[i].qty_sats)

-----------------------------------------------------------------------------
(* STAGE_PRICING, the end of it: the eligible prefixes at the best price.   *)

finish_pricing(c) ==
    LET p == c.pricing.best_price
        elig == [is_bid \in BOOLEAN |->
                   prefix(c.entries[is_bid], LAMBDA e : IF is_bid THEN e.limit_price >= p
                                                        ELSE e.limit_price <= p)]
        offered(is_bid) == qty_over(c.entries[is_bid], 1..elig[is_bid])
    IN  IF c.pricing.found
        THEN enter([c EXCEPT !.alloc = [@ EXCEPT
                      !.clearing_price = p, !.elig = elig,
                      !.matched_base = min_u64(offered(TRUE), offered(FALSE))]],
                   STAGE_ALLOC_FULL)
        ELSE enter(c, STAGE_ROOTING)

\* Mutant: the first price that crosses is kept.
improves_first_cross(q, vol, gap) == vol > 0 /\ ~q.found

(* Strict improvement only: the lowest price wins a tie.                    *)
improves(q, vol, gap) ==
    /\ vol > 0
    /\ \/ ~q.found \/ vol > q.best_vol
       \/ vol = q.best_vol /\ gap < q.best_gap

price_unit(c) ==
    LET q == c.pricing
        p == q.candidates[c.cursor + 1]
        bids == c.entries[TRUE]
        asks == c.entries[FALSE]
        bid_scan == Max({0} \cup {i \in 1..q.bid_scan : bids[i].limit_price >= p})
        ask_scan == q.ask_scan + prefix(SubSeq(asks, q.ask_scan + 1, Len(asks)),
                                        LAMBDA e : e.limit_price <= p)
        demand == q.demand_remaining - qty_over(bids, bid_scan + 1..q.bid_scan)
        supply == q.supply_acc + qty_over(asks, q.ask_scan + 1..ask_scan)
        vol == min_u64(demand, supply)
        gap == abs_diff_u64(demand, supply)
        scanned == [q EXCEPT !.demand_remaining = demand, !.bid_scan = bid_scan,
                             !.supply_acc = supply, !.ask_scan = ask_scan]
    IN  [c EXCEPT !.pricing =
           IF improves(q, vol, gap) THEN [scanned EXCEPT !.found = TRUE, !.best_vol = vol,
                                          !.best_gap = gap, !.best_price = p]
           ELSE scanned]

price_step(c, budget) ==
    LET total == Len(c.pricing.candidates)
        d == Advance(c, total, budget, price_unit)
    IN  IF d.cursor >= total THEN finish_pricing(d) ELSE d

-----------------------------------------------------------------------------
(* STAGE_LOADING: the revealed orders at their submitted quantity, and one  *)
(* snapshot of each submitter's balances as their first order loads.        *)

snapshot_of(vault, who) ==
    [base |-> balance_of(vault.base_book, who), quote |-> balance_of(vault.quote_book, who)]

\* Mutant: the snapshot is taken again for every order.
ensure_funding_row_again(c, vault, who) ==
    [c EXCEPT !.funding = [a \in DOMAIN @ \cup {who} |->
        IF a = who THEN snapshot_of(vault, who) ELSE c.funding[a]]]

ensure_funding_row(c, vault, who) ==
    IF who \in DOMAIN c.funding THEN c
    ELSE [c EXCEPT !.funding = [a \in DOMAIN @ \cup {who} |->
            IF a = who THEN snapshot_of(vault, who) ELSE c.funding[a]]]

\* Mutant: price, then time.
precedes_by_index(a, b) ==
    IF a.limit_price # b.limit_price
    THEN IF a.is_bid THEN a.limit_price > b.limit_price ELSE a.limit_price < b.limit_price
    ELSE a.order_index < b.order_index

(* bid_precedes and ask_precedes *)
precedes(a, b) ==
    IF a.limit_price # b.limit_price
    THEN IF a.is_bid THEN a.limit_price > b.limit_price ELSE a.limit_price < b.limit_price
    ELSE IF a.submitter # b.submitter THEN a.submitter < b.submitter
    ELSE a.order_index < b.order_index

insert_canonical(c, e) ==
    [c EXCEPT !.entries[e.is_bid] =
       InsertAt(@, prefix(@, LAMBDA x : ~precedes(e, x)) + 1, e)]

load_unit(c, batch, vault) ==
    LET i == c.cursor + 1
        o == batch.revealed[i]
        e == [order_index |-> i, submitter |-> o.submitter, is_bid |-> o.is_bid,
              limit_price |-> o.limit_price, qty_sats |-> o.qty_sats,
              fill_base |-> 0, frac |-> 0, bumped |-> FALSE]
        funded == ensure_funding_row(c, vault, o.submitter)
    IN  IF ~batch.is_revealed[i] THEN c
        ELSE IF o.qty_sats > 0 THEN insert_canonical(funded, e) ELSE funded

(* The members of a set of numbers, smallest first.                         *)
ascending(S) ==
    [k \in 1..Cardinality(S) |-> CHOOSE x \in S : Cardinality({y \in S : y < x}) = k - 1]

finish_loading(c) ==
    LET prices == UNION {{e.limit_price : e \in ToSet(c.entries[s])} : s \in BOOLEAN}
        bids == c.entries[TRUE]
        d == [enter(c, STAGE_PRICING) EXCEPT !.pricing = [@ EXCEPT
                !.candidates = ascending(prices),
                !.demand_remaining = qty_over(bids, DOMAIN bids),
                !.bid_scan = Len(bids)]]
    IN  IF prices = {} THEN finish_pricing(d) ELSE d

load_step(c, batch, vault, budget) ==
    LET total == Len(batch.revealed)
        d == Advance(c, total, budget, LAMBDA x : load_unit(x, batch, vault))
    IN  IF d.cursor >= total THEN finish_loading(d) ELSE d

-----------------------------------------------------------------------------
(* The allocation rule, run twice: over the submitted quantities, and again *)
(* over what survived truncation.                                           *)

(* Where the price levels among the first n of s end.                       *)
level_ends(s, n) == {i \in 1..n : i = n \/ s[i + 1].limit_price # s[i].limit_price}

(* The levels that fit in room, and the marginal one after them, which does *)
(* not (there is none when all of them do).                                 *)
level_of(s, n, room) ==
    LET lo == Max({0} \cup {i \in level_ends(s, n) : qty_over(s, 1..i) <= room})
        hi == Min({n} \cup {i \in level_ends(s, n) : i > lo})
    IN  [lo |-> lo, hi |-> hi, cum |-> qty_over(s, 1..lo), lvl |-> qty_over(s, lo + 1..hi)]

\* Mutant: the whole eligible side shares, as if it were one level.
marginal_level_pooled(c, is_bid) ==
    [lo |-> 0, hi |-> c.alloc.elig[is_bid], cum |-> 0,
     lvl |-> qty_over(c.entries[is_bid], 1..c.alloc.elig[is_bid])]

(* Entries up to lo fill fully, lo+1..hi share what is left, the rest get   *)
(* nothing; cum and lvl are the quantities below lo and at the level.       *)
marginal_level(c, is_bid) ==
    level_of(c.entries[is_bid], c.alloc.elig[is_bid], c.alloc.matched_base)

eligible_count(c) == c.alloc.elig[TRUE] + c.alloc.elig[FALSE]

(* The eligible entry under the cursor: the bids come first.                *)
at_bid(c) == c.cursor < c.alloc.elig[TRUE]
at_index(c) == IF at_bid(c) THEN c.cursor + 1 ELSE c.cursor - c.alloc.elig[TRUE] + 1

full_unit(c) ==
    LET i == at_index(c)
    IN  [c EXCEPT !.entries[at_bid(c)][i] =
           [@ EXCEPT !.fill_base = IF i <= marginal_level(c, at_bid(c)).lo
                                   THEN c.entries[at_bid(c)][i].qty_sats ELSE 0]]

alloc_full_step(c, budget, next) ==
    LET d == Advance(c, eligible_count(c), budget, full_unit)
        m == [is_bid \in BOOLEAN |-> marginal_level(c, is_bid)]
    IN  IF d.cursor < eligible_count(c) THEN d
        ELSE enter([d EXCEPT !.alloc = [@ EXCEPT
               !.filled = [s \in BOOLEAN |-> m[s].cum],
               !.pro_qty = [s \in BOOLEAN |-> m[s].lvl],
               !.residual = [s \in BOOLEAN |-> c.alloc.matched_base - m[s].cum]]], next)

prorata_share(residual, qty, pool) == floor_mul_div(residual, qty, pool)

prorated(e, residual, pool) ==
    LET base == prorata_share(residual, e.qty_sats, pool)
    IN  [e EXCEPT !.fill_base = base, !.bumped = FALSE,
                  !.frac = residual * e.qty_sats - base * pool]

prorata_entry(c, is_bid, i, e) ==
    [c EXCEPT !.entries[is_bid][i] = e,
              !.alloc = [@ EXCEPT !.awarded[is_bid] = c.alloc.awarded[is_bid] + e.fill_base]]

prorata_at(c, is_bid, i, m) ==
    IF i \in m.lo + 1..m.hi /\ m.lvl > 0
    THEN prorata_entry(c, is_bid, i,
                       prorated(c.entries[is_bid][i], c.alloc.matched_base - m.cum, m.lvl))
    ELSE c

prorata_unit(c) == prorata_at(c, at_bid(c), at_index(c), marginal_level(c, at_bid(c)))

alloc_prorata_step(c, budget, next) ==
    LET d == Advance(c, eligible_count(c), budget, prorata_unit)
    IN  IF d.cursor < eligible_count(c) THEN d
        ELSE enter([d EXCEPT !.alloc = [@ EXCEPT !.remainder_side = SIDE_BID]], next)

(* The unbumped entries of the marginal level, and the first of those with  *)
(* the largest fraction.                                                    *)
unbumped_of(s, m) == {i \in m.lo + 1..m.hi : ~s[i].bumped}

unbumped(c, is_bid) == unbumped_of(c.entries[is_bid], marginal_level(c, is_bid))

first_largest(s, I) == Min({i \in I : \A j \in I : s[i].frac >= s[j].frac})

best_fraction(c, is_bid) == first_largest(c.entries[is_bid], unbumped(c, is_bid))

side_done(c, is_bid) ==
    c.alloc.awarded[is_bid] >= c.alloc.residual[is_bid] \/ unbumped(c, is_bid) = {}

\* Mutant: the entry is not marked, and is the best again.
bump_unmarked(e) == [e EXCEPT !.fill_base = e.fill_base + 1]

bump(e) == [e EXCEPT !.fill_base = e.fill_base + 1, !.bumped = TRUE]

award(c, is_bid) ==
    [c EXCEPT !.entries[is_bid][best_fraction(c, is_bid)] = bump(@),
              !.alloc = [@ EXCEPT !.remainder_side = IF is_bid THEN SIDE_BID ELSE SIDE_ASK,
                                  !.awarded[is_bid] = c.alloc.awarded[is_bid] + 1]]

(* Bids first; passing to the other side costs no budget.                   *)
remainder_unit(c) ==
    IF c.alloc.remainder_side = SIDE_BID /\ ~side_done(c, TRUE) THEN award(c, TRUE)
    ELSE IF c.alloc.remainder_side # SIDE_NONE /\ ~side_done(c, FALSE) THEN award(c, FALSE)
    ELSE [c EXCEPT !.alloc = [@ EXCEPT !.remainder_side = SIDE_NONE]]

alloc_remainder_step(c, budget, next) ==
    LET after[k \in Nat] == IF k = 0 THEN c ELSE remainder_unit(after[k - 1])
        d == after[budget]
    IN  IF d.alloc.remainder_side = SIDE_NONE THEN enter(d, next) ELSE d

-----------------------------------------------------------------------------
(* STAGE_TRUNCATE: each fill cut to what the rest of its submitter's        *)
(* snapshot covers, in canonical order.                                     *)

truncate_unit(c, vault) ==
    LET s == at_bid(c)
        i == at_index(c)
        p == c.alloc.clearing_price
        want == c.entries[s][i].fill_base
        who == c.entries[s][i].submitter
        d == ensure_funding_row(c, vault, who)
        row == d.funding[who]
        afford == IF s THEN min_u64(floor_mul_div(row.quote, PRICE_SCALE, p), MAX_U64)
                  ELSE row.base
        granted == min_u64(want, afford)
        left == IF s THEN [row EXCEPT !.quote = @ - quote_of_bid(granted, p)]
                ELSE [row EXCEPT !.base = @ - granted]
    IN  IF want = 0 THEN c
        ELSE [d EXCEPT !.funding[who] = left,
                       !.entries[s][i] = [c.entries[s][i] EXCEPT !.fill_base = granted]]

(* What survived is the weight of the second pass, over the same prefixes.  *)
finish_truncation(c) ==
    LET survived(s) == total_over(1..c.alloc.elig[s], LAMBDA i : c.entries[s][i].fill_base)
        reset(s) == [i \in DOMAIN c.entries[s] |->
            IF i > c.alloc.elig[s] THEN c.entries[s][i]
            ELSE [c.entries[s][i] EXCEPT !.qty_sats = c.entries[s][i].fill_base,
                                         !.fill_base = 0, !.frac = 0, !.bumped = FALSE]]
    IN  enter([c EXCEPT
          !.entries = [s \in BOOLEAN |-> reset(s)],
          !.alloc = new_allocation(c.alloc.clearing_price,
                                   min_u64(survived(TRUE), survived(FALSE)), c.alloc.elig)],
          STAGE_REALLOC_FULL)

truncate_step(c, vault, budget) ==
    LET d == Advance(c, eligible_count(c), budget, LAMBDA x : truncate_unit(x, vault))
    IN  IF d.cursor < eligible_count(c) THEN d ELSE finish_truncation(d)

-----------------------------------------------------------------------------
(* STAGE_ROOTING: the fills, bids first, each in canonical order.           *)

fill_for(c, e) ==
    LET p == c.alloc.clearing_price
    IN  [order_index |-> e.order_index, submitter |-> e.submitter, is_bid |-> e.is_bid,
         base_sats |-> e.fill_base, price |-> p,
         quote_sats |-> IF e.is_bid THEN quote_of_bid(e.fill_base, p)
                        ELSE quote_of_ask(e.fill_base, p, c.fee_bps)]

all_entries(c) == c.entries[TRUE] \o c.entries[FALSE]

root_unit(c) ==
    LET e == all_entries(c)[c.cursor + 1]
        f == fill_for(c, e)
    IN  IF e.fill_base = 0 THEN c
        ELSE [c EXCEPT !.fills = Append(@, f),
                       !.quote_paid = @ + (IF e.is_bid THEN f.quote_sats ELSE 0),
                       !.quote_recv = @ + (IF e.is_bid THEN 0 ELSE f.quote_sats)]

rooting_step(c, budget) ==
    LET total == Len(all_entries(c))
        d == Advance(c, total, budget, root_unit)
    IN  IF d.cursor < total THEN d
        ELSE enter([d EXCEPT !.fee_quote = d.quote_paid - d.quote_recv], STAGE_SETTLING)

(* EFillOutsideLimit, asserted as each fill is made, and EValueNotPreserved *)
(* once all are.                                                            *)
rooting_asserts(c, budget) ==
    /\ \A k \in c.cursor + 1..min_u64(c.cursor + budget, Len(all_entries(c))) :
          LET e == all_entries(c)[k]
          IN  e.fill_base > 0 => IF e.is_bid THEN c.alloc.clearing_price <= e.limit_price
                                 ELSE c.alloc.clearing_price >= e.limit_price
    /\ rooting_step(c, budget).fee_quote >= 0

-----------------------------------------------------------------------------
(* STAGE_SETTLING: the fills pushed into the two books.                     *)

can_push(vault, f) ==
    IF f.is_bid
    THEN /\ f.quote_sats > 0 => can_debit(vault.quote_book, f.submitter, f.quote_sats)
         /\ can_credit(f.base_sats)
    ELSE can_debit(vault.base_book, f.submitter, f.base_sats)

credit_quote(vault, who, sats) ==
    IF sats > 0 THEN [vault EXCEPT !.quote_book = credit(@, who, sats)] ELSE vault

push_fill(vault, f) ==
    IF f.is_bid
    THEN [vault EXCEPT
            !.quote_book = IF f.quote_sats > 0 THEN debit(@, f.submitter, f.quote_sats) ELSE @,
            !.base_book = credit(@, f.submitter, f.base_sats)]
    ELSE credit_quote([vault EXCEPT !.base_book = debit(@, f.submitter, f.base_sats)],
                      f.submitter, f.quote_sats)

(* ok: no debit or credit on the way aborts.                                *)
push_fills(vault, fills) ==
    FoldLeft(LAMBDA s, f : IF s.ok /\ can_push(s.vault, f)
                           THEN [s EXCEPT !.vault = push_fill(s.vault, f)]
                           ELSE [s EXCEPT !.ok = FALSE],
             [vault |-> vault, ok |-> TRUE], fills)

debit_of(f) == IF f.is_bid THEN f.quote_sats ELSE f.base_sats
credit_of(f) == IF f.is_bid THEN f.base_sats ELSE f.quote_sats

(* The object and the vault after one settling transaction; a finished one  *)
(* has paid the fee and released the withdrawal lock.                       *)
settle_step(c, vault, budget) ==
    LET n == min_u64(budget, Len(c.fills) - c.cursor)
        now == SubSeq(c.fills, c.cursor + 1, c.cursor + n)
        pushed == push_fills(vault, now)
        last == c.cursor + n >= Len(c.fills)
        fee == IF last THEN c.fee_quote ELSE 0
        d == [c EXCEPT !.cursor = @ + n,
                       !.total_debits = @ + total_over(1..n, LAMBDA i : debit_of(now[i])),
                       !.total_credits =
                           @ + total_over(1..n, LAMBDA i : credit_of(now[i])) + fee]
        paid == credit_quote(pushed.vault, c.fee_recipient, fee)
    IN  [clearing |-> IF last THEN [d EXCEPT !.stage = STAGE_DONE] ELSE d,
         vault |-> IF last THEN [paid EXCEPT !.active_clearings = 0] ELSE paid,
         ok |-> /\ pushed.ok
                /\ last => /\ d.total_debits = d.total_credits
                           /\ solvent(paid.base_book) /\ solvent(paid.quote_book)]

(* EOverflow: no accumulator of the object outgrows a u64.                  *)
no_overflow(c) ==
    /\ fits_u64(c.pricing.demand_remaining) /\ fits_u64(c.pricing.supply_acc)
    /\ fits_u64(c.quote_paid) /\ fits_u64(c.quote_recv)
    /\ fits_u64(c.total_debits) /\ fits_u64(c.total_credits)
=============================================================================
