---------------------------- MODULE UniformPrice ----------------------------
(***************************************************************************)
(* The off-chain clearing of sdk/src/clearing.ts, as a pure operator: what *)
(* the front end and the keeper predict from the revealed orders and the   *)
(* frozen balances.  It is stated by what it returns (sets, sums, a best   *)
(* price), not by its sweeps, and is the reference for clearing.move.      *)
(*                                                                         *)
(* An order is [order_index, submitter, is_bid, limit_price, qty_sats];    *)
(* submitters are numbers, ordered as the addresses are.                   *)
(***************************************************************************)
EXTENDS ClearingMath, SequencesExt

-----------------------------------------------------------------------------
(* Canonical order. *)

(* Price priority (dearest bid, cheapest ask), then address, then index.    *)
compareOrders(a, b) ==
    IF a.limit_price # b.limit_price
    THEN IF a.is_bid THEN a.limit_price > b.limit_price ELSE a.limit_price < b.limit_price
    ELSE IF a.submitter # b.submitter THEN a.submitter < b.submitter
    ELSE a.order_index < b.order_index

canonicalOrder(side) == SetToSortSeq(side, compareOrders)

-----------------------------------------------------------------------------
(* Price discovery. *)

crosses(o, p) == IF o.is_bid THEN o.limit_price >= p ELSE o.limit_price <= p

(* The orders of one side that can trade at p. *)
eligible(orders, is_bid, p) == {o \in orders : o.is_bid = is_bid /\ crosses(o, p)}

quantity(orders) == total_over(orders, LAMBDA o : o.qty_sats)

demand(orders, p) == quantity(eligible(orders, TRUE, p))
supply(orders, p) == quantity(eligible(orders, FALSE, p))
volume(orders, p) == min_u64(demand(orders, p), supply(orders, p))
imbalance(orders, p) == abs_diff_u64(demand(orders, p), supply(orders, p))

candidates(orders) == {o.limit_price : o \in orders}

(* Most volume, then least imbalance, then the lowest price.                *)
better_price(orders, p, q) ==
    \/ volume(orders, p) > volume(orders, q)
    \/ /\ volume(orders, p) = volume(orders, q)
       /\ \/ imbalance(orders, p) < imbalance(orders, q)
          \/ imbalance(orders, p) = imbalance(orders, q) /\ p < q

crossing_prices(orders) == {p \in candidates(orders) : volume(orders, p) > 0}

(* 0 when nothing crosses. *)
discoverPrice(orders) ==
    IF crossing_prices(orders) = {} THEN 0
    ELSE CHOOSE p \in crossing_prices(orders) :
            \A q \in crossing_prices(orders) \ {p} : better_price(orders, p, q)

-----------------------------------------------------------------------------
(* Allocation: price priority, then largest remainder at the margin. *)

(* Share total out in proportion to the weights, the sats lost to rounding  *)
(* going one each to the largest remainders, the earlier first.             *)
largestRemainder(total, weights) ==
    LET I == DOMAIN weights
        sum == total_over(I, LAMBDA i : weights[i])
        rem(i) == (total * weights[i]) % sum
        floors == [i \in I |-> (total * weights[i]) \div sum]
        leftover == total - total_over(I, LAMBDA i : floors[i])
        rank(i) == Cardinality({j \in I : rem(j) > rem(i) \/ (rem(j) = rem(i) /\ j < i)})
    IN  [i \in I |-> IF rem(i) > 0 /\ rank(i) < leftover THEN floors[i] + 1 ELSE floors[i]]

(* What each slot of one side, in canonical order, gets of target: levels   *)
(* that fit fill fully, the first that does not is shared out, later ones   *)
(* get nothing.                                                             *)
allocateSide(slots, target) ==
    LET I == DOMAIN slots
        level == [i \in I |-> {j \in I : slots[j].limit_price = slots[i].limit_price}]
        weight(J) == total_over(J, LAMBDA j : slots[j].qty_sats)
        earlier == [i \in I |-> weight({j \in I : j < Min(level[i])})]
        share(i) ==
            LET lo == Min(level[i]) - 1
                weights == [k \in 1..Cardinality(level[i]) |-> slots[lo + k].qty_sats]
            IN  largestRemainder(target - earlier[i], weights)[i - lo]
    IN  [i \in I |->
            IF earlier[i] + weight(level[i]) <= target THEN slots[i].qty_sats
            ELSE IF earlier[i] < target THEN share(i)
            ELSE 0]

with_quantities(slots, q) == [i \in DOMAIN slots |-> [slots[i] EXCEPT !.qty_sats = q[i]]]

-----------------------------------------------------------------------------
(* Truncation to the frozen balances, drawn down in canonical order. *)

(* The largest quantity a budget covers at p, the buyer rounding up.        *)
affordable(is_bid, budget, p) ==
    IF is_bid THEN floor_mul_div(budget, PRICE_SCALE, p) ELSE budget

cost(is_bid, qty, p) == IF is_bid THEN quote_of_bid(qty, p) ELSE qty

truncateSide(slots, budgets, is_bid, p) ==
    LET Take(s, slot) ==
            LET who == slot.submitter
                got == min_u64(slot.qty_sats, affordable(is_bid, s.left[who], p))
            IN  [left |-> [s.left EXCEPT ![who] = @ - cost(is_bid, got, p)],
                 qty  |-> Append(s.qty, got)]
    IN  with_quantities(slots, FoldLeft(Take, [left |-> budgets, qty |-> <<>>], slots).qty)

-----------------------------------------------------------------------------
(* clear *)

fill_of(o, p, fee_bps) ==
    [order_index |-> o.order_index, submitter |-> o.submitter, is_bid |-> o.is_bid,
     base_sats |-> o.qty_sats, price |-> p,
     quote_sats |-> IF o.is_bid THEN quote_of_bid(o.qty_sats, p)
                    ELSE quote_of_ask(o.qty_sats, p, fee_bps)]

fills_of(slots, p, fee_bps) ==
    LET filled == SelectSeq(slots, LAMBDA o : o.qty_sats > 0)
    IN  [i \in DOMAIN filled |-> fill_of(filled[i], p, fee_bps)]

quote_total(fills) == total_over(DOMAIN fills, LAMBDA i : fills[i].quote_sats)

nothing_cleared == [price |-> 0, matched_base |-> 0, fills |-> <<>>, fee_quote |-> 0]

(* balances: what each submitter's account held, as [base, quote].          *)
clear(orders, balances, fee_bps) ==
    LET p == discoverPrice(orders)
        side == [is_bid \in BOOLEAN |-> canonicalOrder(eligible(orders, is_bid, p))]
        allocated == [is_bid \in BOOLEAN |->
            with_quantities(side[is_bid], allocateSide(side[is_bid], volume(orders, p)))]
        budgets == [is_bid \in BOOLEAN |-> [a \in DOMAIN balances |->
            IF is_bid THEN balances[a].quote ELSE balances[a].base]]
        funded == [is_bid \in BOOLEAN |->
            truncateSide(allocated[is_bid], budgets[is_bid], is_bid, p)]
        total(slots) == total_over(DOMAIN slots, LAMBDA i : slots[i].qty_sats)
        matched == min_u64(total(funded[TRUE]), total(funded[FALSE]))
        fills == [is_bid \in BOOLEAN |->
            fills_of(with_quantities(funded[is_bid], allocateSide(funded[is_bid], matched)),
                     p, fee_bps)]
    IN  IF p = 0 THEN nothing_cleared
        ELSE [price |-> p, matched_base |-> matched,
              fills |-> fills[TRUE] \o fills[FALSE],
              fee_quote |-> quote_total(fills[TRUE]) - quote_total(fills[FALSE])]
=============================================================================
