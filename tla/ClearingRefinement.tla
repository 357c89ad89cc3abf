-------------------------- MODULE ClearingRefinement --------------------------
(***************************************************************************)
(* Refinement: the staged, budgeted, interruptible clearing implements the *)
(* atomic one.  The ledger people own is what the books say less the fills *)
(* pushed by a settlement that is still under way.                         *)
(***************************************************************************)
EXTENDS Clearing

pushed == IF settling THEN SubSeq(clearing.fills, 1, clearing.cursor) ELSE <<>>

orders_of(b) ==
    LET kept == {i \in DOMAIN b.revealed : b.is_revealed[i]}
    IN  {[order_index |-> i, submitter |-> b.revealed[i].submitter,
          is_bid |-> b.revealed[i].is_bid, limit_price |-> b.revealed[i].limit_price,
          qty_sats |-> b.revealed[i].qty_sats] : i \in kept}

Books == {orders_of(b) : b \in Batches}

fee_terms == [bps |-> vault.fee_matched_bps, recipient |-> vault.fee_recipient]

side_net(who, gains(_)) ==
    total_over({k \in DOMAIN pushed : pushed[k].submitter = who}, LAMBDA k : gains(pushed[k]))

owned(who) ==
    [base |-> balance_of(vault.base_book, who)
                - side_net(who, LAMBDA f : IF f.is_bid THEN f.base_sats ELSE -f.base_sats),
     quote |-> balance_of(vault.quote_book, who)
                - side_net(who, LAMBDA f : IF f.is_bid THEN -f.quote_sats ELSE f.quote_sats)]

Atomic == INSTANCE AtomicClearing WITH
    orders  <- orders_of(batch),
    ledger  <- [who \in Addresses |-> owned(who)],
    fee     <- fee_terms,
    phase   <- IF batch.state = STATE_SEALED THEN "sealed"
               ELSE IF batch.state = STATE_SETTLED THEN "settled"
               ELSE IF settling THEN "decided" ELSE "clearing",
    terms   <- IF clearing # NoClearing
               THEN [bps |-> clearing.fee_bps, recipient |-> clearing.fee_recipient]
               ELSE fee_terms,
    outcome <- IF decided
               THEN [price |-> clearing.alloc.clearing_price,
                     matched_base |-> clearing.alloc.matched_base,
                     fills |-> clearing.fills, fee_quote |-> clearing.fee_quote]
               ELSE [price |-> 0, matched_base |-> 0, fills |-> <<>>, fee_quote |-> 0]

-----------------------------------------------------------------------------
(* Properties. *)

(* The price is the submitted book's alone, funded or not: no price at all, *)
(* named by an order or not, would have let more of it trade; none that an  *)
(* order names as much with less left over, nor, on a tie, for less; and    *)
(* there is no price only when nothing crosses.                             *)
PriceMaximisesVolume ==
    decided =>
        LET submitted == orders_of(batch)
            best == clearing.alloc.clearing_price
            named == {o.limit_price : o \in submitted}
            vol(p) == Atomic!volume(submitted, p)
            gap(p) == Atomic!imbalance(submitted, p)
        IN  IF best = 0 THEN \A p \in named : vol(p) = 0
            ELSE /\ \A p \in 1..Max(named) + 1 : vol(p) <= vol(best)
                 /\ \A p \in named \ {best} : vol(p) = vol(best) =>
                       (gap(p) > gap(best) \/ (gap(p) = gap(best) /\ p > best))

(* Whatever the budgets, the interleaving and the top-ups, the published    *)
(* price, fills and fee are what sdk/src/clearing.ts computes from the      *)
(* revealed orders and the snapshots, and the balances move by exactly that.*)
ImplementsAtomicClearing == Atomic!Spec
==============================================================================
