---------------------------- MODULE BalanceBook ----------------------------
(***************************************************************************)
(* move/sources/balance.move: the persistent internal ledger of one asset. *)
(* A book is the coin it holds (custody), a row per account ever opened,   *)
(* and the running sum of the rows.  Each entry point is a pure function   *)
(* of the book; what it asserts is the can_ predicate beside it.           *)
(***************************************************************************)
EXTENDS Integers

new_book ==
    [custody |-> 0, accounts |-> [a \in {} |-> 0], total_credited |-> 0, accounts_opened |-> 0]

has_account(book, who) == who \in DOMAIN book.accounts

(* An address with no row has a zero balance. *)
balance_of(book, who) == IF has_account(book, who) THEN book.accounts[who] ELSE 0

open_account(book, who) ==
    IF has_account(book, who) THEN book
    ELSE [book EXCEPT
            !.accounts = [a \in DOMAIN book.accounts \cup {who} |-> balance_of(book, a)],
            !.accounts_opened = @ + 1]

can_credit(amount_sats) == amount_sats > 0

credit(book, who, amount_sats) ==
    LET opened == open_account(book, who)
    IN  [opened EXCEPT !.accounts[who] = @ + amount_sats, !.total_credited = @ + amount_sats]

top_up_for(book, who, amount_sats) ==
    LET credited == credit(book, who, amount_sats)
    IN  [credited EXCEPT !.custody = @ + amount_sats]

can_debit(book, who, amount_sats) ==
    amount_sats > 0 /\ has_account(book, who) /\ balance_of(book, who) >= amount_sats

debit(book, who, amount_sats) ==
    [book EXCEPT !.accounts[who] = @ - amount_sats, !.total_credited = @ - amount_sats]

(* Pays the sender, so custody leaves with the credit. *)
withdraw(book, who, amount_sats) ==
    LET debited == debit(book, who, amount_sats)
    IN  [debited EXCEPT !.custody = @ - amount_sats]

(* assert_solvent *)
solvent(book) == book.total_credited = book.custody
=============================================================================
