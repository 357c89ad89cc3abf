------------------------------- MODULE MCVault -------------------------------
(***************************************************************************)
(* Values for Vault's constants.  The "Shares" run follows money and       *)
(* shares over several epochs; the "Govern" run the ages, the pause, the   *)
(* setters and the capabilities around proposals.                          *)
(***************************************************************************)
EXTENDS Vault, TLC

AddressSymmetry == Permutations(Addresses)

NothingOut ==
    [deployed_sats |-> 0, in_flight_sats |-> 0, native_btc_sats |-> 0,
     hashi_claims_sats |-> 0, clearing_price |-> 0, book_mid |-> 0]
Deployed(n) == [NothingOut EXCEPT !.deployed_sats = n]

(* Gains and losses of a deployed leg, with a price bound as wide as it     *)
(* may be.                                                                  *)
ShareReports == {NothingOut, Deployed(1)}
WideParams ==
    [max_nav_jump_bps |-> 10, max_price_dev_bps |-> 2, max_proposal_age_ms |-> 1,
     unpause_delay_ms |-> 1, min_deposit_sats |-> 1]

(* Reports that pass and fail each check, and a delay to lower.             *)
Native(n, claims) ==
    [NothingOut EXCEPT !.native_btc_sats = n, !.hashi_claims_sats = claims]
Priced(price, mid) == [NothingOut EXCEPT !.clearing_price = price, !.book_mid = mid]
GovernReports == {NothingOut, Native(1, 1), Priced(9, 11)}
GovernParams == [WideParams EXCEPT !.unpause_delay_ms = 2]
=============================================================================
