----------------------------- MODULE MCClearing -----------------------------
(***************************************************************************)
(* Values for Clearing's constants.  A price is quote per two base, so     *)
(* odd products round; accounts 1..3, of which 3 also takes the fee.       *)
(***************************************************************************)
EXTENDS ClearingRefinement

ThreeAddresses == 1..3

bid(who, price, qty) ==
    [submitter |-> who, is_bid |-> TRUE, limit_price |-> price, qty_sats |-> qty]
ask(who, price, qty) == [bid(who, price, qty) EXCEPT !.is_bid = FALSE]

(* What a slot holds until its order is revealed.                           *)
placeholder_order == [submitter |-> 0, is_bid |-> FALSE, limit_price |-> 0, qty_sats |-> 0]

all_revealed(book) ==
    [revealed |-> book, is_revealed |-> [i \in DOMAIN book |-> TRUE]]

(* A marginal level with a remainder and nobody funded in full; an account  *)
(* on both sides, one of whose orders is never revealed.                    *)
Chosen ==
    {all_revealed(<<bid(2, 3, 2), bid(1, 3, 2), ask(3, 1, 3)>>),
     [revealed |-> <<placeholder_order, bid(2, 3, 3), bid(1, 2, 1), ask(2, 2, 2), ask(1, 1, 1)>>,
      is_revealed |-> <<FALSE, TRUE, TRUE, TRUE, TRUE>>]}

ChosenFunds ==
    {<<[base |-> 1, quote |-> 3], [base |-> 2, quote |-> 2], [base |-> 2, quote |-> 0]>>}

(* Every book of four such orders: two bids, an order of account 1 on either*)
(* side, and an ask.                                                        *)
Prices == 1..3
Quantities == {1, 3}

EveryBook ==
    {all_revealed(<<bid(1, p[1], q[1]), bid(2, p[2], q[2]),
                    [bid(1, p[3], q[3]) EXCEPT !.is_bid = third], ask(3, p[4], q[4])>>) :
       p \in [1..4 -> Prices], q \in [1..4 -> Quantities], third \in BOOLEAN}

EveryBookFunds ==
    {<<[base |-> 2, quote |-> 4], [base |-> 0, quote |-> 5], [base |-> 2, quote |-> 0]>>,
     <<[base |-> 3, quote |-> 9], [base |-> 0, quote |-> 3], [base |-> 3, quote |-> 0]>>}

TwoFees == {[bps |-> 1, recipient |-> 3], [bps |-> 0, recipient |-> 1]}
OneFee == {[bps |-> 1, recipient |-> 3]}
Nothing == {}
=============================================================================
