--------------------------- MODULE AtomicClearing ---------------------------
(***************************************************************************)
(* What a clearing promises, with no stages and no budgets: the submitters'*)
(* balances are frozen, the outcome is the one sdk/src/clearing.ts computes*)
(* from the revealed orders, those balances and the fee of the moment the  *)
(* clearing began, and the ledger moves by that outcome in one step.       *)
(* Deposits are free at all times; withdrawals stop while it runs.         *)
(***************************************************************************)
EXTENDS UniformPrice

CONSTANTS
    Addresses, \* accounts, as numbers
    Books,     \* the sets of orders that may have been revealed
    Funds,     \* what the accounts may hold at first
    Amounts,   \* what a top-up or a withdrawal may move
    Fees       \* the fee terms governance may set: [bps, recipient]

VARIABLES
    orders,  \* the revealed orders
    ledger,  \* what each account holds: [base, quote]
    fee,     \* the vault's fee terms
    phase,   \* "sealed", "clearing", "decided", "settled"
    terms,   \* the fee terms of this clearing
    frozen,  \* the balances taken so far
    outcome  \* what clear returns

vars == <<orders, ledger, fee, phase, terms, frozen, outcome>>

submitters == {o.submitter : o \in orders}

(* What an account gains over the fills; negative for a loss.               *)
net_base(fills, who) ==
    LET mine == {i \in DOMAIN fills : fills[i].submitter = who}
    IN  total_over(mine, LAMBDA i :
            IF fills[i].is_bid THEN fills[i].base_sats ELSE -fills[i].base_sats)

net_quote(fills, who) ==
    LET mine == {i \in DOMAIN fills : fills[i].submitter = who}
    IN  total_over(mine, LAMBDA i :
            IF fills[i].is_bid THEN -fills[i].quote_sats ELSE fills[i].quote_sats)

Init ==
    /\ phase = "sealed"
    /\ orders \in Books /\ ledger \in Funds
    /\ fee \in Fees /\ terms = fee
    /\ frozen = [who \in {} |-> 0]
    /\ outcome = nothing_cleared

TopUp ==
    /\ \E who \in Addresses, n \in Amounts :
          \/ ledger' = [ledger EXCEPT ![who].base = @ + n]
          \/ ledger' = [ledger EXCEPT ![who].quote = @ + n]
    /\ UNCHANGED <<orders, fee, phase, terms, frozen, outcome>>

Withdraw ==
    /\ phase \notin {"clearing", "decided"}
    /\ \E who \in Addresses, n \in Amounts :
          \/ /\ ledger[who].base >= n
             /\ ledger' = [ledger EXCEPT ![who].base = @ - n]
          \/ /\ ledger[who].quote >= n
             /\ ledger' = [ledger EXCEPT ![who].quote = @ - n]
    /\ UNCHANGED <<orders, fee, phase, terms, frozen, outcome>>

SetFee ==
    /\ fee' \in Fees
    /\ terms' = IF phase = "sealed" THEN fee' ELSE terms
    /\ UNCHANGED <<orders, ledger, phase, frozen, outcome>>

Begin ==
    /\ phase = "sealed"
    /\ phase' = "clearing"
    /\ UNCHANGED <<orders, ledger, fee, terms, frozen, outcome>>

(* One transaction may take several accounts' balances.                     *)
Freeze ==
    /\ phase = "clearing"
    /\ \E A \in SUBSET (submitters \ DOMAIN frozen) :
          frozen' = [who \in DOMAIN frozen \cup A |->
                        IF who \in A THEN ledger[who] ELSE frozen[who]]
    /\ UNCHANGED <<orders, ledger, fee, phase, terms, outcome>>

Decide ==
    /\ phase = "clearing"
    /\ submitters \subseteq DOMAIN frozen
    /\ phase' = "decided"
    /\ outcome' = clear(orders, frozen, terms.bps)
    /\ UNCHANGED <<orders, ledger, fee, terms, frozen>>

Settle ==
    /\ phase = "decided"
    /\ phase' = "settled"
    /\ ledger' = [who \in Addresses |->
         [base  |-> ledger[who].base + net_base(outcome.fills, who),
          quote |-> ledger[who].quote + net_quote(outcome.fills, who)
                      + (IF who = terms.recipient THEN outcome.fee_quote ELSE 0)]]
    /\ UNCHANGED <<orders, fee, terms, frozen, outcome>>

Next == TopUp \/ Withdraw \/ SetFee \/ Begin \/ Freeze \/ Decide \/ Settle

Spec == Init /\ [][Next]_vars
=============================================================================
