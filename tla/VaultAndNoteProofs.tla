------------------------- MODULE VaultAndNoteProofs -------------------------
(***************************************************************************)
(* What holds of the vault's NAV side for every value of the constants: its*)
(* balances never go below zero, its supply is exactly accounted for, an   *)
(* approval never dilutes the holders that stay, a pause is as long as     *)
(* promised and keeps the keeper out.                                      *)
(*                                                                         *)
(* Then the vault's promises, for any number of receipts of any amounts:   *)
(* what the next approval prices is what the open receipts promise, every  *)
(* receipt of a priced epoch can be claimed, in any order, and what is     *)
(* approved is what was signed.                                            *)
(*                                                                         *)
(* Last, of the notes the same vault escrows: the custody behind them is   *)
(* exactly what was paid for the leaves less what the spent ones were      *)
(* worth, for any ladder of values, any tree and ring, any number of       *)
(* notes, clicks, failures and reloads, whatever the mirror has shown by   *)
(* when, and whatever the others pay, commit to and spend.  Every tag of   *)
(* the nullifier set names a leaf of the log, so that a leaf that joins is *)
(* unspent; and a spend that has been sent names a leaf that carries the   *)
(* commitment of its note, however long ago the panel looked it up, since  *)
(* the log only grows.  Vault and NotePanel share no state.                *)
(***************************************************************************)
EXTENDS Vault, NotePanel, SumProofs

(* The history of the pause: the arm in force is of the current pause, the  *)
(* delay in force no shorter than the minimum, and the pause in the past.   *)
PauseInv ==
    /\ vault.unpause_armed_at_ms # None => vault.unpause_armed_at_ms >= pause_mark.at
    /\ vault.params.unpause_delay_ms >= MinUnpauseDelay
    /\ pause_mark.at <= now

(* The registry is one, and keeper capabilities are held by addresses: a    *)
(* proposal names one.                                                      *)
KeepersKnown ==
    /\ reg \in C!CapRegistry
    /\ \A c \in keeper_caps : c.holder \in Addresses

(* The two counters an approval prices are the money and the shares set     *)
(* aside: undiluted is preserved only because nothing else joins the base.  *)
CountersMatch ==
    /\ vault.pending_deposit = vault.pending_deposit_assets
    /\ vault.redeem_escrow = vault.pending_redeem_shares
    /\ vault.redeem_escrow <= vault.lp_supply

(* The inductive invariant.                                                 *)
IInv ==
    /\ TypeOK
    /\ CountersMatch
    /\ KeepersKnown
    /\ undiluted(vault)
    /\ KeeperOutWhilePaused
    /\ PauseInv

-----------------------------------------------------------------------------
(* Arithmetic of prices, over the naturals. *)

(* Division rounds down.                                                    *)
LEMMA RoundsDown ==
    ASSUME NEW a \in Nat, NEW b \in Nat, NEW c \in Nat, c > 0
    PROVE  mul_div(a, b, c) \in Nat /\ mul_div(a, b, c) * c <= a * b
<1>1. ASSUME NEW x \in Nat
      PROVE  (x \div c) \in Nat /\ (x \div c) * c <= x
  BY SMT
<1>2. a * b \in Nat
  BY SMT
<1>3. QED
  BY <1>1, <1>2 DEF mul_div

(* A mint M for deposits D and a release R for r shares, both rounded down  *)
(* at the price T / S, leave the supply S + M - r worth no more than the    *)
(* assets T + D - R.                                                        *)
LEMMA RoundingNeverDilutes ==
    ASSUME NEW S \in Nat, NEW T \in Nat, NEW D \in Nat, NEW M \in Nat,
           NEW R \in Nat, NEW r \in Nat,
           M * T <= D * S, R * S <= r * T
    PROVE  (S + M - r) * T <= (T + D - R) * S
<1>1. (S + M - r) * T = S * T + M * T - r * T
  BY SMT
<1>2. (T + D - R) * S = T * S + D * S - R * S
  BY SMT
<1>3. S * T = T * S
  BY SMT
<1>4. /\ M * T \in Int /\ D * S \in Int /\ R * S \in Int /\ r * T \in Int
      /\ S * T \in Int
  BY SMT
<1>5. ASSUME NEW st \in Int, NEW mt \in Int, NEW ds \in Int, NEW rs \in Int, NEW rt \in Int,
             mt <= ds, rs <= rt
      PROVE  st + mt - rt <= st + ds - rs
  BY <1>5, SMT
<1>6. QED
  BY <1>1, <1>2, <1>3, <1>4, <1>5

-----------------------------------------------------------------------------
(* The step that moves everything: an approval. *)

(* The price of an approval and what it mints and releases.                 *)
LEMMA PricedLegs ==
    ASSUME vault \in VaultType, NEW p \in NavProposal, coverable(price_of(p))
    PROVE  LET price == price_of(p)
               D == vault.pending_deposit_assets
               r == vault.pending_redeem_shares
           IN  /\ price \in EpochPrice
               /\ shares_to_mint(price) \in Nat /\ assets_to_release(price) \in Nat
               /\ shares_to_mint(price) * price.nav_assets <= D * price.nav_supply
               /\ assets_to_release(price) * price.nav_supply <= r * price.nav_assets
               /\ assets_to_release(price) <= vault.base + vault.pending_deposit
<1> DEFINE price == price_of(p)
<1> DEFINE D == vault.pending_deposit_assets
<1> DEFINE r == vault.pending_redeem_shares
<1>1. /\ D \in Nat /\ r \in Nat /\ vault.committed_supply \in Nat
      /\ vault.base \in Nat /\ vault.pending_deposit \in Nat
  BY DEF VaultType
<1>2. nav_assets_of(p) \in Nat
  BY DEF nav_assets_of, NavProposal, Report
<1>3. price \in EpochPrice /\ price.nav_assets \in Nat /\ price.nav_supply \in Nat
  BY <1>1, <1>2 DEF price_of, EpochPrice
<1>4. D > 0 => price.nav_assets > 0
  BY DEF coverable
<1>5. r > 0 => price.nav_supply > 0 /\ assets_to_release(price) <= vault.base + vault.pending_deposit
  BY DEF coverable, payable
<1> HIDE DEF price
<1>6. shares_to_mint(price) \in Nat /\ shares_to_mint(price) * price.nav_assets <= D * price.nav_supply
  <2>1. CASE D = 0
    BY <1>1, <1>3, <2>1 DEF shares_to_mint
  <2>2. CASE D > 0
    <3>1. shares_to_mint(price) = mul_div(D, price.nav_supply, price.nav_assets)
      BY <1>1, <2>2 DEF shares_to_mint
    <3>2. price.nav_assets > 0
      BY <1>4, <2>2
    <3> HIDE DEF D
    <3>3. /\ mul_div(D, price.nav_supply, price.nav_assets) \in Nat
          /\ mul_div(D, price.nav_supply, price.nav_assets) * price.nav_assets <= D * price.nav_supply
      BY <1>1, <1>3, <3>2, RoundsDown
    <3>4. QED
      BY <3>1, <3>3
  <2>3. QED
    BY <1>1, <2>1, <2>2
<1>7. assets_to_release(price) \in Nat /\ assets_to_release(price) * price.nav_supply <= r * price.nav_assets
  <2>1. CASE r = 0
    BY <1>1, <1>3, <2>1 DEF assets_to_release
  <2>2. CASE r > 0
    <3>1. assets_to_release(price) = mul_div(r, price.nav_assets, price.nav_supply)
      BY <1>1, <2>2 DEF assets_to_release
    <3>2. price.nav_supply > 0
      BY <1>5, <2>2
    <3> HIDE DEF r
    <3>3. /\ mul_div(r, price.nav_assets, price.nav_supply) \in Nat
          /\ mul_div(r, price.nav_assets, price.nav_supply) * price.nav_supply <= r * price.nav_assets
      BY <1>1, <1>3, <3>2, RoundsDown
    <3>4. QED
      BY <3>1, <3>3
  <2>3. QED
    BY <1>1, <2>1, <2>2
<1>8. assets_to_release(price) <= vault.base + vault.pending_deposit
  <2>1. CASE r = 0
    BY <1>1, <2>1 DEF assets_to_release
  <2>2. QED
    BY <1>1, <1>5, <2>1
<1>9. QED
  BY <1>3, <1>6, <1>7, <1>8 DEF price

(* Whatever the numbers, an approval whose checks pass leaves the vault     *)
(* undiluted: assert_solvent has nothing to stop.                           *)
LEMMA ApprovalUndiluted ==
    ASSUME vault \in VaultType, NEW p \in NavProposal, undiluted(vault),
           legs_hold(p), coverable(price_of(p)),
           vault.pending_deposit = vault.pending_deposit_assets
    PROVE  undiluted(approved(p))
<1> DEFINE price == price_of(p)
<1> DEFINE D == vault.pending_deposit_assets
<1> DEFINE r == vault.pending_redeem_shares
<1> DEFINE M == shares_to_mint(price)
<1> DEFINE R == assets_to_release(price)
<1> DEFINE legs == p.report.deployed_sats + p.report.in_flight_sats + p.report.native_btc_sats
<1>1. /\ D \in Nat /\ r \in Nat /\ vault.committed_supply \in Nat /\ vault.base \in Nat
      /\ vault.lp_supply \in Nat /\ vault.unminted_shares \in Nat
  BY DEF VaultType
<1>2. /\ price.nav_assets \in Nat /\ price.nav_supply \in Nat /\ M \in Nat /\ R \in Nat
      /\ M * price.nav_assets <= D * price.nav_supply
      /\ R * price.nav_supply <= r * price.nav_assets
  BY PricedLegs DEF EpochPrice
<1>3. legs \in Nat /\ nav_assets_of(p) = vault.base + legs
  BY <1>1 DEF NavProposal, Report, nav_assets_of, legs_hold
<1>4. /\ approved(p).committed_supply = vault.committed_supply + M - r
      /\ approved(p).last = price
      /\ approved(p).lp_supply = vault.lp_supply - burned
      /\ approved(p).unminted_shares = vault.unminted_shares + M
      /\ nav_assets(approved(p)) = vault.base + D - R + legs
  <2> DEFINE w == approved(p)
  <2>1. /\ w.committed_supply = vault.committed_supply + M - r
        /\ w.last = price /\ w.lp_supply = vault.lp_supply - burned
        /\ w.unminted_shares = vault.unminted_shares + M
        /\ w.base = vault.base + D - R
    BY DEF approved, VaultType
  <2>2. /\ w.deployed_sats = p.report.deployed_sats
        /\ w.in_flight_sats = p.report.in_flight_sats
        /\ w.native_btc_sats = p.report.native_btc_sats
    BY DEF approved, VaultType
  <2>3. /\ p.report.deployed_sats \in Nat /\ p.report.in_flight_sats \in Nat
        /\ p.report.native_btc_sats \in Nat
    BY DEF NavProposal, Report
  <2> HIDE DEF w, M, R
  <2>4. QED
    BY <1>1, <1>2, <2>1, <2>2, <2>3 DEF w, nav_assets
<1>5. burned = r
  BY <1>1 DEF burned, coverable
<1>6. approved(p).lp_supply + approved(p).unminted_shares = approved(p).committed_supply
  <2> HIDE DEF M
  <2>1. vault.lp_supply + vault.unminted_shares = vault.committed_supply
    BY DEF undiluted
  <2>2. QED
    BY <1>1, <1>2, <1>4, <1>5, <2>1
<1>7. (vault.committed_supply + M - r) * price.nav_assets
         <= (vault.base + D - R + legs) * price.nav_supply
  <2>1. CASE vault.committed_supply = 0
    <3>1. price.nav_assets = 1 /\ price.nav_supply = 1
      BY <2>1 DEF price_of
    <3>2. M = D /\ R = r
      BY <1>1, <3>1 DEF shares_to_mint, assets_to_release, mul_div
    <3> HIDE DEF M, R, legs
    <3>3. QED
      BY <1>1, <1>3, <2>1, <3>1, <3>2
  <2>2. CASE vault.committed_supply # 0
    <3>1. price.nav_assets = vault.base + legs /\ price.nav_supply = vault.committed_supply
      BY <1>3, <2>2 DEF price_of
    <3> HIDE DEF M, R, legs, price
    <3>2. vault.base + D - R + legs = price.nav_assets + D - R
      BY <1>1, <1>2, <1>3, <3>1
    <3>3. (price.nav_supply + M - r) * price.nav_assets
             <= (price.nav_assets + D - R) * price.nav_supply
      BY <1>1, <1>2, RoundingNeverDilutes
    <3>4. QED
      BY <3>1, <3>2, <3>3
  <2>3. QED
    BY <2>1, <2>2
<1>8. QED
  BY <1>4, <1>6, <1>7 DEF undiluted

-----------------------------------------------------------------------------
(* Receipts. *)

(* A bag gains and loses one element at a time.                             *)
LEMMA OneReceipt ==
    ASSUME NEW B, NEW S, NEW x, BagToSet(B) \subseteq S
    PROVE  /\ x \in S => BagToSet(B (+) SetToBag({x})) \subseteq S
           /\ BagToSet(B (-) SetToBag({x})) \subseteq S
  BY DEF BagToSet, (+), (-), SetToBag

(* What a step that leaves prices, supply, pause and capabilities alone     *)
(* keeps of the invariant.                                                  *)
BooksKept ==
    /\ vault'.base = vault.base /\ vault'.last = vault.last /\ vault'.epoch = vault.epoch
    /\ vault'.deployed_sats = vault.deployed_sats /\ vault'.in_flight_sats = vault.in_flight_sats
    /\ vault'.native_btc_sats = vault.native_btc_sats /\ vault'.proposal = vault.proposal
    /\ vault'.committed_supply = vault.committed_supply
    /\ vault'.lp_supply + vault'.unminted_shares = vault.lp_supply + vault.unminted_shares
    /\ vault'.params = vault.params /\ vault'.unpause_armed_at_ms = vault.unpause_armed_at_ms
    /\ UNCHANGED <<now, pause_mark, capVars>>

LEMMA BooksKeptInv ==
    ASSUME IInv, BooksKept
    PROVE  KeepersKnown' /\ undiluted(vault)' /\ KeeperOutWhilePaused' /\ PauseInv'
<1>1. KeepersKnown' /\ KeeperOutWhilePaused' /\ PauseInv'
  BY DEF IInv, BooksKept, KeepersKnown, KeeperOutWhilePaused, PauseInv, capVars
<1>2. undiluted(vault)'
  BY DEF IInv, BooksKept, undiluted, nav_assets
<1>3. QED
  BY <1>1, <1>2

(* A deposit joins the queue of the current epoch.                          *)
LEMMA RequestDepositStep ==
    ASSUME IInv, NEW n \in Nat, request_deposit(n)
    PROVE  IInv'
<1> DEFINE a == vault.pending_deposit + n
<1> DEFINE b == vault.pending_deposit_assets + n
<1>1. /\ vault \in VaultType /\ vault.pending_deposit \in Nat
      /\ vault.pending_deposit_assets \in Nat /\ vault.epoch \in Nat
  BY DEF IInv, TypeOK, VaultType
<1>2. vault' = [vault EXCEPT !.pending_deposit = a, !.pending_deposit_assets = b]
  BY DEF request_deposit
<1>3. a \in Nat /\ b \in Nat /\ a = b
  BY <1>1 DEF IInv, CountersMatch
<1> HIDE DEF a, b
<1>4. vault' \in VaultType
  BY <1>1, <1>2, <1>3 DEF VaultType
<1>5. BagToSet(deposit_receipts') \subseteq DepositReceipt
  <2>1. [epoch |-> vault.epoch, assets_sats |-> n] \in DepositReceipt
    BY <1>1 DEF DepositReceipt
  <2>2. deposit_receipts' = deposit_receipts (+) SetToBag({[epoch |-> vault.epoch, assets_sats |-> n]})
    BY DEF request_deposit
  <2>3. BagToSet(deposit_receipts) \subseteq DepositReceipt
    BY DEF IInv, TypeOK
  <2>4. QED
    BY <2>1, <2>2, <2>3, OneReceipt
<1>6. UNCHANGED <<now, redeem_receipts, signed, pause_mark, capVars>>
  BY DEF request_deposit
<1>7. BooksKept
  BY <1>1, <1>2, <1>6 DEF VaultType, BooksKept
<1>8. /\ vault'.epoch_prices = vault.epoch_prices /\ vault'.lp_supply = vault.lp_supply
      /\ vault'.redeem_escrow = vault.redeem_escrow
      /\ vault'.pending_redeem_shares = vault.pending_redeem_shares
      /\ vault'.pending_deposit = a /\ vault'.pending_deposit_assets = b
  BY <1>1, <1>2 DEF VaultType
<1>9. TypeOK' /\ CountersMatch'
  BY <1>3, <1>4, <1>5, <1>6, <1>7, <1>8 DEF IInv, TypeOK, CountersMatch, BooksKept
<1>10. QED
  BY <1>7, <1>9, BooksKeptInv DEF IInv

(* So does a redemption, of shares that are in circulation.                 *)
LEMMA RequestRedeemStep ==
    ASSUME IInv, NEW n \in Nat, request_redeem(n)
    PROVE  IInv'
<1> DEFINE a == vault.redeem_escrow + n
<1> DEFINE b == vault.pending_redeem_shares + n
<1>1. /\ vault \in VaultType /\ vault.redeem_escrow \in Nat /\ vault.lp_supply \in Nat
      /\ vault.pending_redeem_shares \in Nat /\ vault.epoch \in Nat
  BY DEF IInv, TypeOK, VaultType
<1>2. vault' = [vault EXCEPT !.redeem_escrow = a, !.pending_redeem_shares = b]
  BY DEF request_redeem
<1>3. a \in Nat /\ b \in Nat /\ a = b /\ a <= vault.lp_supply
  BY <1>1 DEF IInv, CountersMatch, request_redeem
<1> HIDE DEF a, b
<1>4. vault' \in VaultType
  BY <1>1, <1>2, <1>3 DEF VaultType
<1>5. BagToSet(redeem_receipts') \subseteq RedeemReceipt
  <2>1. [epoch |-> vault.epoch, shares |-> n] \in RedeemReceipt
    BY <1>1 DEF RedeemReceipt
  <2>2. redeem_receipts' = redeem_receipts (+) SetToBag({[epoch |-> vault.epoch, shares |-> n]})
    BY DEF request_redeem
  <2>3. BagToSet(redeem_receipts) \subseteq RedeemReceipt
    BY DEF IInv, TypeOK
  <2>4. QED
    BY <2>1, <2>2, <2>3, OneReceipt
<1>6. UNCHANGED <<now, deposit_receipts, signed, pause_mark, capVars>>
  BY DEF request_redeem
<1>7. BooksKept
  BY <1>1, <1>2, <1>6 DEF VaultType, BooksKept
<1>8. /\ vault'.epoch_prices = vault.epoch_prices /\ vault'.lp_supply = vault.lp_supply
      /\ vault'.pending_deposit = vault.pending_deposit
      /\ vault'.pending_deposit_assets = vault.pending_deposit_assets
      /\ vault'.redeem_escrow = a /\ vault'.pending_redeem_shares = b
  BY <1>1, <1>2 DEF VaultType
<1>9. TypeOK' /\ CountersMatch'
  BY <1>3, <1>4, <1>5, <1>6, <1>7, <1>8 DEF IInv, TypeOK, CountersMatch, BooksKept
<1>10. QED
  BY <1>7, <1>9, BooksKeptInv DEF IInv

(* Claiming a deposit turns owed shares into minted ones.                   *)
LEMMA ClaimDepositStep ==
    ASSUME IInv, NEW r \in BagToSet(deposit_receipts), claim_deposit(r)
    PROVE  IInv'
<1> DEFINE n == shares_for(r)
<1> DEFINE a == vault.unminted_shares - n
<1> DEFINE b == vault.lp_supply + n
<1>1. /\ vault \in VaultType /\ vault.unminted_shares \in Nat /\ vault.lp_supply \in Nat
      /\ vault.redeem_escrow \in Nat /\ vault.epoch \in Nat
      /\ vault.epoch_prices \in Seq(EpochPrice) /\ Len(vault.epoch_prices) = vault.epoch
      /\ r \in DepositReceipt
  BY DEF IInv, TypeOK, VaultType
<1>2. n \in Nat
  <2>1. r.epoch + 1 \in 1..Len(vault.epoch_prices) /\ r.assets_sats \in Nat
    BY <1>1 DEF claim_deposit, priced, DepositReceipt
  <2>2. price_of_epoch(r.epoch) \in EpochPrice
    BY <1>1, <2>1 DEF price_of_epoch
  <2>3. /\ price_of_epoch(r.epoch).nav_assets \in Nat /\ price_of_epoch(r.epoch).nav_supply \in Nat
        /\ price_of_epoch(r.epoch).nav_assets > 0
    BY <2>2 DEF EpochPrice, claim_deposit
  <2>4. n = mul_div(r.assets_sats, price_of_epoch(r.epoch).nav_supply,
                    price_of_epoch(r.epoch).nav_assets)
    BY DEF shares_for
  <2>5. QED
    BY <2>1, <2>3, <2>4, RoundsDown
<1>3. vault' = [vault EXCEPT !.unminted_shares = a, !.lp_supply = b] /\ n <= vault.unminted_shares
  BY DEF claim_deposit
<1> HIDE DEF n
<1>4. /\ a \in Nat /\ b \in Nat /\ b >= vault.lp_supply
      /\ b + a = vault.lp_supply + vault.unminted_shares
  BY <1>1, <1>2, <1>3
<1> HIDE DEF a, b
<1>5. vault' \in VaultType
  BY <1>1, <1>3, <1>4 DEF VaultType
<1>6. BagToSet(deposit_receipts') \subseteq DepositReceipt
  BY OneReceipt DEF claim_deposit, IInv, TypeOK
<1>7. UNCHANGED <<now, redeem_receipts, signed, pause_mark, capVars>>
  BY DEF claim_deposit
<1>8. /\ vault'.epoch_prices = vault.epoch_prices
      /\ vault'.lp_supply = b /\ vault'.unminted_shares = a
      /\ vault'.redeem_escrow = vault.redeem_escrow
      /\ vault'.pending_redeem_shares = vault.pending_redeem_shares
      /\ vault'.pending_deposit = vault.pending_deposit
      /\ vault'.pending_deposit_assets = vault.pending_deposit_assets
  BY <1>1, <1>3 DEF VaultType
<1>9. BooksKept
  BY <1>1, <1>3, <1>4, <1>7, <1>8 DEF VaultType, BooksKept
<1>10. TypeOK' /\ CountersMatch'
  BY <1>1, <1>4, <1>5, <1>6, <1>7, <1>8, <1>9 DEF IInv, TypeOK, CountersMatch, BooksKept
<1>11. QED
  BY <1>9, <1>10, BooksKeptInv DEF IInv

(* Claiming a redemption pays from what was set aside.                      *)
LEMMA ClaimRedeemStep ==
    ASSUME IInv, NEW r \in BagToSet(redeem_receipts), claim_redeem(r)
    PROVE  IInv'
<1> DEFINE n == assets_for(r)
<1> DEFINE a == vault.claimable - n
<1>1. /\ vault \in VaultType /\ vault.claimable \in Nat /\ vault.epoch \in Nat
      /\ vault.epoch_prices \in Seq(EpochPrice) /\ Len(vault.epoch_prices) = vault.epoch
      /\ r \in RedeemReceipt
  BY DEF IInv, TypeOK, VaultType
<1>2. n \in Nat
  <2>1. r.epoch + 1 \in 1..Len(vault.epoch_prices) /\ r.shares \in Nat
    BY <1>1 DEF claim_redeem, priced, RedeemReceipt
  <2>2. price_of_epoch(r.epoch) \in EpochPrice
    BY <1>1, <2>1 DEF price_of_epoch
  <2>3. /\ price_of_epoch(r.epoch).nav_assets \in Nat /\ price_of_epoch(r.epoch).nav_supply \in Nat
        /\ price_of_epoch(r.epoch).nav_supply > 0
    BY <2>2 DEF EpochPrice, claim_redeem
  <2>4. n = mul_div(r.shares, price_of_epoch(r.epoch).nav_assets,
                    price_of_epoch(r.epoch).nav_supply)
    BY DEF assets_for
  <2>5. QED
    BY <2>1, <2>3, <2>4, RoundsDown
<1>3. vault' = [vault EXCEPT !.claimable = a] /\ n <= vault.claimable
  BY DEF claim_redeem
<1> HIDE DEF n
<1>4. a \in Nat
  BY <1>1, <1>2, <1>3
<1> HIDE DEF a
<1>5. vault' \in VaultType
  BY <1>1, <1>3, <1>4 DEF VaultType
<1>6. BagToSet(redeem_receipts') \subseteq RedeemReceipt
  BY OneReceipt DEF claim_redeem, IInv, TypeOK
<1>7. UNCHANGED <<now, deposit_receipts, signed, pause_mark, capVars>>
  BY DEF claim_redeem
<1>8. /\ vault'.epoch_prices = vault.epoch_prices /\ vault'.lp_supply = vault.lp_supply
      /\ vault'.redeem_escrow = vault.redeem_escrow
      /\ vault'.pending_redeem_shares = vault.pending_redeem_shares
      /\ vault'.pending_deposit = vault.pending_deposit
      /\ vault'.pending_deposit_assets = vault.pending_deposit_assets
  BY <1>1, <1>3 DEF VaultType
<1>9. BooksKept
  BY <1>1, <1>3, <1>7 DEF VaultType, BooksKept
<1>10. TypeOK' /\ CountersMatch'
  BY <1>5, <1>6, <1>7, <1>8, <1>9 DEF IInv, TypeOK, CountersMatch, BooksKept
<1>11. QED
  BY <1>9, <1>10, BooksKeptInv DEF IInv

-----------------------------------------------------------------------------
(* Valuations. *)

(* A proposal is recorded, and only while the keeper is not shut out.       *)
LEMMA ProposeStep ==
    ASSUME IInv, NEW cap \in keeper_caps, NEW idle \in Nat, NEW report \in Report,
           propose_nav(cap, idle, report)
    PROVE  IInv'
<1> DEFINE p == [epoch |-> vault.epoch, idle_sats |-> idle, report |-> report,
                 proposed_at_ms |-> now, proposer |-> cap.holder]
<1>1. /\ vault \in VaultType /\ vault.epoch \in Nat /\ now \in Nat /\ cap.holder \in Addresses
  BY VaultAssumption DEF IInv, TypeOK, VaultType, KeepersKnown
<1>2. p \in NavProposal
  BY <1>1 DEF NavProposal
<1>3. /\ vault' = [vault EXCEPT !.proposal = p] /\ ~reg.paused
      /\ UNCHANGED <<now, receiptVars, signed, pause_mark, capVars>>
  BY DEF propose_nav, C!assert_keeper
<1> HIDE DEF p
<1>4. vault' \in VaultType
  BY <1>1, <1>2, <1>3 DEF VaultType
<1>5. /\ vault'.base = vault.base /\ vault'.last = vault.last /\ vault'.epoch = vault.epoch
      /\ vault'.deployed_sats = vault.deployed_sats /\ vault'.in_flight_sats = vault.in_flight_sats
      /\ vault'.native_btc_sats = vault.native_btc_sats
      /\ vault'.committed_supply = vault.committed_supply
      /\ vault'.lp_supply = vault.lp_supply /\ vault'.unminted_shares = vault.unminted_shares
      /\ vault'.params = vault.params /\ vault'.unpause_armed_at_ms = vault.unpause_armed_at_ms
      /\ vault'.epoch_prices = vault.epoch_prices
      /\ vault'.redeem_escrow = vault.redeem_escrow
      /\ vault'.pending_redeem_shares = vault.pending_redeem_shares
      /\ vault'.pending_deposit = vault.pending_deposit
      /\ vault'.pending_deposit_assets = vault.pending_deposit_assets
  BY <1>1, <1>3 DEF VaultType
<1>6. TypeOK' /\ CountersMatch'
  BY <1>3, <1>4, <1>5 DEF IInv, TypeOK, CountersMatch, receiptVars
<1>7. KeepersKnown' /\ KeeperOutWhilePaused' /\ PauseInv'
  BY <1>3, <1>5 DEF IInv, KeepersKnown, KeeperOutWhilePaused, PauseInv, capVars
<1>8. undiluted(vault)'
  BY <1>5 DEF IInv, undiluted, nav_assets
<1>9. QED
  BY <1>6, <1>7, <1>8 DEF IInv

(* An approval, of whichever proposal is pending.                           *)
LEMMA ApproveStep ==
    ASSUME IInv, NEW cap, NEW digest, approve_nav(cap, digest)
    PROVE  IInv'
<1> DEFINE p == vault.proposal
<1> DEFINE price == price_of(p)
<1> DEFINE M == shares_to_mint(price)
<1> DEFINE R == assets_to_release(price)
<1>1. /\ vault \in VaultType /\ p \in NavProposal /\ p # None
      /\ vault.epoch \in Nat /\ vault.epoch_prices \in Seq(EpochPrice)
      /\ Len(vault.epoch_prices) = vault.epoch
      /\ vault.base \in Nat /\ vault.pending_deposit \in Nat /\ vault.claimable \in Nat
      /\ vault.committed_supply \in Nat /\ vault.unminted_shares \in Nat
      /\ vault.lp_supply \in Nat /\ vault.redeem_escrow \in Nat
      /\ vault.pending_redeem_shares \in Nat
  BY DEF IInv, TypeOK, VaultType, approve_nav
<1>2. /\ coverable(price_of(p)) /\ legs_hold(p)
      /\ vault' = approved(p) /\ signed' = None
      /\ UNCHANGED <<now, receiptVars, pause_mark, capVars>>
  BY DEF approve_nav, approvable
<1>3. undiluted(vault)'
  <2>1. undiluted(approved(p))
    BY <1>1, <1>2, ApprovalUndiluted DEF IInv, CountersMatch
  <2>2. QED
    BY <1>2, <2>1 DEF undiluted, nav_assets
<1>4. /\ price \in EpochPrice /\ M \in Nat /\ R \in Nat
      /\ R <= vault.base + vault.pending_deposit
  BY <1>1, <1>2, PricedLegs
<1>5. /\ burned = vault.pending_redeem_shares /\ vault.redeem_escrow = vault.pending_redeem_shares
      /\ vault.redeem_escrow <= vault.lp_supply
      /\ vault.committed_supply + M >= vault.pending_redeem_shares
  BY <1>1, <1>2 DEF burned, coverable, IInv, CountersMatch
<1> DEFINE n1 == vault.base + vault.pending_deposit - R
<1> DEFINE n2 == vault.redeem_escrow - burned
<1> DEFINE n3 == vault.claimable + R
<1> DEFINE n4 == vault.lp_supply - burned
<1> DEFINE n5 == vault.committed_supply + M - vault.pending_redeem_shares
<1> DEFINE n6 == vault.unminted_shares + M
<1> DEFINE ps == Append(vault.epoch_prices, price)
<1> DEFINE n7 == vault.epoch + 1
<1>6. vault' = [vault EXCEPT
           !.base = n1, !.pending_deposit = 0, !.redeem_escrow = n2, !.claimable = n3,
           !.lp_supply = n4, !.committed_supply = n5, !.unminted_shares = n6,
           !.epoch_prices = ps, !.last = price, !.epoch = n7,
           !.pending_deposit_assets = 0, !.pending_redeem_shares = 0,
           !.deployed_sats = p.report.deployed_sats,
           !.in_flight_sats = p.report.in_flight_sats,
           !.native_btc_sats = p.report.native_btc_sats,
           !.last_hashi_claims_sats = p.report.hashi_claims_sats,
           !.proposal = None]
  BY <1>2 DEF approved
<1> HIDE DEF M, R, price
<1>7. /\ n1 \in Nat /\ n2 = 0 /\ n3 \in Nat /\ n4 \in Nat /\ n5 \in Nat /\ n6 \in Nat /\ n7 \in Nat
      /\ n7 = vault.epoch + 1
  <2>1. n1 \in Nat /\ n3 \in Nat /\ n6 \in Nat /\ n7 \in Nat /\ n7 = vault.epoch + 1
    <3>1. n1 \in Nat
      BY <1>1, <1>4
    <3>2. n3 \in Nat
      BY <1>1, <1>4
    <3>3. n6 \in Nat
      BY <1>1, <1>4
    <3>4. n7 \in Nat /\ n7 = vault.epoch + 1
      BY <1>1
    <3>5. QED
      BY <3>1, <3>2, <3>3, <3>4
  <2>2. n2 = 0 /\ n4 \in Nat
    BY <1>1, <1>5
  <2>3. n5 \in Nat
    BY <1>1, <1>4, <1>5
  <2>4. QED
    BY <2>1, <2>2, <2>3
<1>8. ps \in Seq(EpochPrice) /\ Len(ps) = n7
  BY <1>1, <1>4
<1>9. p.report \in Report
  BY <1>1 DEF NavProposal
<1> DEFINE d == p.report.deployed_sats
<1> DEFINE f == p.report.in_flight_sats
<1> DEFINE b == p.report.native_btc_sats
<1> DEFINE h == p.report.hashi_claims_sats
<1> HIDE DEF n1, n2, n3, n4, n5, n6, n7, ps, p
<1>10. vault' \in VaultType
  <2>1. d \in Nat /\ f \in Nat /\ b \in Nat /\ h \in Nat
    BY <1>9 DEF Report
  <2> HIDE DEF d, f, b, h
  <2>2. vault' = [vault EXCEPT
           !.base = n1, !.pending_deposit = 0, !.redeem_escrow = n2, !.claimable = n3,
           !.lp_supply = n4, !.committed_supply = n5, !.unminted_shares = n6,
           !.epoch_prices = ps, !.last = price, !.epoch = n7,
           !.pending_deposit_assets = 0, !.pending_redeem_shares = 0,
           !.deployed_sats = d, !.in_flight_sats = f, !.native_btc_sats = b,
           !.last_hashi_claims_sats = h, !.proposal = None]
    BY <1>6 DEF d, f, b, h
  <2>3. n2 \in Nat /\ 0 \in Nat
    BY <1>7
  <2> DEFINE u == [vault EXCEPT !.base = n1, !.pending_deposit = 0, !.redeem_escrow = n2,
                     !.claimable = n3, !.lp_supply = n4, !.committed_supply = n5,
                     !.unminted_shares = n6]
  <2> DEFINE w == [u EXCEPT !.epoch_prices = ps, !.last = price, !.epoch = n7,
                     !.pending_deposit_assets = 0, !.pending_redeem_shares = 0]
  <2>4. vault \in VaultType
    BY <1>1
  <2>5. u \in VaultType
    BY <1>7, <2>3, <2>4 DEF VaultType
  <2> HIDE DEF u
  <2>6. w \in VaultType
    BY <1>4, <1>7, <1>8, <2>3, <2>5 DEF VaultType
  <2> HIDE DEF w
  <2>7. [w EXCEPT !.deployed_sats = d, !.in_flight_sats = f, !.native_btc_sats = b,
           !.last_hashi_claims_sats = h, !.proposal = None] \in VaultType
    BY <2>1, <2>6 DEF VaultType
  <2>8. QED
    BY <2>2, <2>4, <2>7 DEF u, w, VaultType
<1>11. /\ vault'.epoch = n7 /\ vault'.epoch_prices = ps /\ vault'.proposal = None
       /\ vault'.pending_deposit = 0 /\ vault'.pending_deposit_assets = 0
       /\ vault'.redeem_escrow = n2 /\ vault'.pending_redeem_shares = 0
       /\ vault'.lp_supply = n4 /\ vault'.params = vault.params
       /\ vault'.unpause_armed_at_ms = vault.unpause_armed_at_ms
  BY <1>1, <1>6 DEF VaultType
<1>12. TypeOK'
  BY <1>2, <1>8, <1>10, <1>11 DEF IInv, TypeOK, receiptVars
<1>13. CountersMatch'
  BY <1>7, <1>11 DEF CountersMatch
<1>14. KeepersKnown' /\ PauseInv'
  BY <1>2, <1>11 DEF IInv, KeepersKnown, PauseInv, capVars
<1>15. KeeperOutWhilePaused'
  <2>1. pause_mark \in [at : Nat, epoch : Nat]
    BY DEF IInv, TypeOK
  <2>2. pause_mark.epoch \in Nat
    BY <2>1
  <2>3. reg.paused => vault.epoch <= pause_mark.epoch /\ vault.epoch # pause_mark.epoch + 1
    BY <1>1, <2>2 DEF IInv, KeeperOutWhilePaused, p
  <2>4. QED
    BY <1>1, <1>2, <1>7, <1>11, <2>2, <2>3 DEF KeeperOutWhilePaused, capVars
<1>16. QED
  BY <1>3, <1>12, <1>13, <1>14, <1>15 DEF IInv

-----------------------------------------------------------------------------
(* Governance. *)

(* Rotations and handovers keep the registry one, and its pause.            *)
LEMMA RegistryStep ==
    ASSUME KeepersKnown, NEW cap, NEW a \in Addresses,
           \/ C!rotate_keeper_cap(cap, a)
           \/ C!initiate_admin_transfer(cap, a)
           \/ C!accept_admin_transfer(a)
    PROVE  KeepersKnown' /\ reg'.paused = reg.paused
<1>0. reg \in C!CapRegistry /\ reg.keeper_epoch \in Nat /\ reg.admin_epoch \in Nat
  BY DEF KeepersKnown, C!CapRegistry
<1>1. CASE C!rotate_keeper_cap(cap, a)
  <2> DEFINE e == reg.keeper_epoch + 1
  <2>1. /\ reg' = [reg EXCEPT !.keeper = a, !.keeper_epoch = e]
        /\ keeper_caps' = keeper_caps \cup {[holder |-> a, epoch |-> e]}
    BY <1>1 DEF C!rotate_keeper_cap
  <2>2. e \in Nat
    BY <1>0
  <2> HIDE DEF e
  <2>3. reg' \in C!CapRegistry /\ reg'.paused = reg.paused
    BY <1>0, <2>1, <2>2 DEF C!CapRegistry
  <2>4. QED
    BY <2>1, <2>3 DEF KeepersKnown
<1>2. CASE C!initiate_admin_transfer(cap, a)
  BY <1>0, <1>2 DEF C!initiate_admin_transfer, KeepersKnown, C!CapRegistry
<1>3. CASE C!accept_admin_transfer(a)
  <2> DEFINE e == reg.admin_epoch + 1
  <2>1. /\ reg' = [reg EXCEPT !.admin = a, !.admin_epoch = e, !.pending_admin = NoAddress]
        /\ keeper_caps' = keeper_caps
    BY <1>3 DEF C!accept_admin_transfer
  <2>2. e \in Nat
    BY <1>0
  <2> HIDE DEF e
  <2>3. reg' \in C!CapRegistry /\ reg'.paused = reg.paused
    BY <1>0, <2>1, <2>2 DEF C!CapRegistry
  <2>4. QED
    BY <2>1, <2>3 DEF KeepersKnown
<1>4. QED
  BY <1>1, <1>2, <1>3

(* A step that changes only the arm or the parameters of the vault.         *)
LEMMA LifecycleFrame ==
    ASSUME IInv, NEW arm \in Nat \cup {None}, NEW params \in VaultParams,
           vault' = [vault EXCEPT !.unpause_armed_at_ms = arm, !.params = params],
           UNCHANGED <<now, receiptVars, signed>>,
           pause_mark' \in [at : Nat, epoch : Nat]
    PROVE  /\ TypeOK' /\ CountersMatch' /\ undiluted(vault)'
           /\ vault'.unpause_armed_at_ms = arm /\ vault'.params = params
           /\ vault'.epoch = vault.epoch /\ vault'.proposal = vault.proposal
<1>1. vault \in VaultType
  BY DEF IInv, TypeOK
<1>2. vault' \in VaultType
  BY <1>1 DEF VaultType
<1>3. /\ vault'.base = vault.base /\ vault'.last = vault.last /\ vault'.epoch = vault.epoch
      /\ vault'.deployed_sats = vault.deployed_sats /\ vault'.in_flight_sats = vault.in_flight_sats
      /\ vault'.native_btc_sats = vault.native_btc_sats /\ vault'.proposal = vault.proposal
      /\ vault'.committed_supply = vault.committed_supply
      /\ vault'.lp_supply = vault.lp_supply /\ vault'.unminted_shares = vault.unminted_shares
      /\ vault'.epoch_prices = vault.epoch_prices
      /\ vault'.redeem_escrow = vault.redeem_escrow
      /\ vault'.pending_redeem_shares = vault.pending_redeem_shares
      /\ vault'.pending_deposit = vault.pending_deposit
      /\ vault'.pending_deposit_assets = vault.pending_deposit_assets
      /\ vault'.unpause_armed_at_ms = arm /\ vault'.params = params
  BY <1>1 DEF VaultType
<1>4. TypeOK'
  BY <1>2, <1>3 DEF IInv, TypeOK, receiptVars
<1>5. CountersMatch' /\ undiluted(vault)'
  BY <1>3 DEF IInv, CountersMatch, undiluted, nav_assets
<1>6. QED
  BY <1>3, <1>4, <1>5

(* Pausing, arming and resuming.                                            *)
LEMMA PauseStep ==
    ASSUME IInv, NEW cap, pause(cap) \/ arm_unpause(cap) \/ unpause(cap)
    PROVE  IInv'
<1>1. /\ vault \in VaultType /\ vault.params \in VaultParams /\ now \in Nat
      /\ vault.epoch \in Nat /\ pause_mark \in [at : Nat, epoch : Nat]
      /\ pause_mark.at \in Nat /\ pause_mark.epoch \in Nat
      /\ KeepersKnown
  BY VaultAssumption DEF IInv, TypeOK, VaultType
<1>2. ASSUME NEW arm \in Nat \cup {None}
      PROVE  [vault EXCEPT !.unpause_armed_at_ms = arm]
               = [vault EXCEPT !.unpause_armed_at_ms = arm, !.params = vault.params]
  BY <1>1 DEF VaultType
<1>3. CASE pause(cap)
  <2> DEFINE e == IF reg.paused THEN pause_mark.epoch ELSE vault.epoch
  <2>1. /\ vault' = [vault EXCEPT !.unpause_armed_at_ms = None, !.params = vault.params]
        /\ pause_mark' = [at |-> now, epoch |-> e] /\ e \in Nat
        /\ UNCHANGED <<now, receiptVars, signed>>
    BY <1>1, <1>2, <1>3 DEF pause
  <2>2. KeepersKnown' /\ reg'.paused
    <3>1. reg' = [reg EXCEPT !.paused = TRUE] /\ keeper_caps' = keeper_caps
      BY <1>3 DEF pause, C!set_paused
    <3>2. QED
      BY <1>1, <3>1 DEF KeepersKnown, C!CapRegistry
  <2>3. /\ TypeOK' /\ CountersMatch' /\ undiluted(vault)'
        /\ vault'.unpause_armed_at_ms = None /\ vault'.params = vault.params
        /\ vault'.epoch = vault.epoch /\ vault'.proposal = vault.proposal
    BY <1>1, <2>1, LifecycleFrame
  <2>4. KeeperOutWhilePaused' /\ PauseInv'
    BY <1>1, <2>1, <2>3 DEF IInv, KeeperOutWhilePaused, PauseInv
  <2>5. QED
    BY <2>2, <2>3, <2>4 DEF IInv
<1>4. CASE arm_unpause(cap)
  <2>1. /\ vault' = [vault EXCEPT !.unpause_armed_at_ms = now, !.params = vault.params]
        /\ UNCHANGED <<now, receiptVars, signed, pause_mark, capVars>>
    BY <1>1, <1>2, <1>4 DEF arm_unpause
  <2>2. /\ TypeOK' /\ CountersMatch' /\ undiluted(vault)'
        /\ vault'.unpause_armed_at_ms = now /\ vault'.params = vault.params
        /\ vault'.epoch = vault.epoch /\ vault'.proposal = vault.proposal
    BY <1>1, <2>1, LifecycleFrame
  <2>3. KeeperOutWhilePaused' /\ KeepersKnown'
    BY <2>1, <2>2 DEF IInv, KeeperOutWhilePaused, KeepersKnown, capVars
  <2>4. PauseInv'
    BY <2>1, <2>2 DEF IInv, PauseInv
  <2>5. QED
    BY <2>2, <2>3, <2>4 DEF IInv
<1>5. CASE unpause(cap)
  <2>1. /\ vault' = [vault EXCEPT !.unpause_armed_at_ms = None, !.params = vault.params]
        /\ UNCHANGED <<now, receiptVars, signed, pause_mark>>
    BY <1>1, <1>2, <1>5 DEF unpause
  <2>2. KeepersKnown' /\ ~reg'.paused
    <3>1. reg' = [reg EXCEPT !.paused = FALSE] /\ keeper_caps' = keeper_caps
      BY <1>5 DEF unpause, C!set_paused
    <3>2. QED
      BY <1>1, <3>1 DEF KeepersKnown, C!CapRegistry
  <2>3. /\ TypeOK' /\ CountersMatch' /\ undiluted(vault)'
        /\ vault'.unpause_armed_at_ms = None /\ vault'.params = vault.params
    BY <1>1, <2>1, LifecycleFrame
  <2>4. KeeperOutWhilePaused' /\ PauseInv'
    BY <2>1, <2>2, <2>3 DEF IInv, KeeperOutWhilePaused, PauseInv
  <2>5. QED
    BY <2>2, <2>3, <2>4 DEF IInv
<1>6. QED
  BY <1>3, <1>4, <1>5

(* The setters: no delay shorter than the minimum.                          *)
LEMMA SetterStep ==
    ASSUME IInv, NEW cap,
           \/ \E jump \in Nat, dev \in Nat, age \in Nat : set_nav_bounds(cap, jump, dev, age)
           \/ \E delay \in Nat : set_unpause_delay(cap, delay)
           \/ \E n \in Nat : set_min_deposit(cap, n)
    PROVE  IInv'
<1>1. /\ vault \in VaultType /\ vault.params \in VaultParams
      /\ vault.unpause_armed_at_ms \in Nat \cup {None}
      /\ pause_mark \in [at : Nat, epoch : Nat]
  BY DEF IInv, TypeOK, VaultType
<1>2. PICK q \in VaultParams :
        /\ vault' = [vault EXCEPT !.params = q]
        /\ q.unpause_delay_ms >= MinUnpauseDelay
        /\ UNCHANGED <<now, receiptVars, signed, pause_mark, capVars>>
  <2>0. /\ vault.params.unpause_delay_ms >= MinUnpauseDelay
    BY DEF IInv, PauseInv
  <2>1. ASSUME NEW jump \in Nat, NEW dev \in Nat, NEW age \in Nat,
               set_nav_bounds(cap, jump, dev, age)
        PROVE  \E q \in VaultParams :
                  /\ vault' = [vault EXCEPT !.params = q]
                  /\ q.unpause_delay_ms >= MinUnpauseDelay
                  /\ UNCHANGED <<now, receiptVars, signed, pause_mark, capVars>>
    <3> DEFINE q == [vault.params EXCEPT !.max_nav_jump_bps = jump,
                       !.max_price_dev_bps = dev, !.max_proposal_age_ms = age]
    <3>1. q \in VaultParams /\ q.unpause_delay_ms = vault.params.unpause_delay_ms
      BY <1>1 DEF VaultParams
    <3>2. /\ vault' = [vault EXCEPT !.params = q]
          /\ UNCHANGED <<now, receiptVars, signed, pause_mark, capVars>>
      BY <1>1, <2>1 DEF set_nav_bounds, VaultType
    <3>3. QED
      BY <2>0, <3>1, <3>2
  <2>2. ASSUME NEW delay \in Nat, set_unpause_delay(cap, delay)
        PROVE  \E q \in VaultParams :
                  /\ vault' = [vault EXCEPT !.params = q]
                  /\ q.unpause_delay_ms >= MinUnpauseDelay
                  /\ UNCHANGED <<now, receiptVars, signed, pause_mark, capVars>>
    <3> DEFINE q == [vault.params EXCEPT !.unpause_delay_ms = delay]
    <3>1. q \in VaultParams /\ q.unpause_delay_ms = delay
      BY <1>1 DEF VaultParams
    <3>2. /\ vault' = [vault EXCEPT !.params = q] /\ delay >= MinUnpauseDelay
          /\ UNCHANGED <<now, receiptVars, signed, pause_mark, capVars>>
      BY <1>1, <2>2 DEF set_unpause_delay, VaultType
    <3>3. QED
      BY <3>1, <3>2
  <2>3. ASSUME NEW n \in Nat, set_min_deposit(cap, n)
        PROVE  \E q \in VaultParams :
                  /\ vault' = [vault EXCEPT !.params = q]
                  /\ q.unpause_delay_ms >= MinUnpauseDelay
                  /\ UNCHANGED <<now, receiptVars, signed, pause_mark, capVars>>
    <3> DEFINE q == [vault.params EXCEPT !.min_deposit_sats = n]
    <3>1. q \in VaultParams /\ q.unpause_delay_ms = vault.params.unpause_delay_ms
      BY <1>1 DEF VaultParams
    <3>2. /\ vault' = [vault EXCEPT !.params = q]
          /\ UNCHANGED <<now, receiptVars, signed, pause_mark, capVars>>
      BY <1>1, <2>3 DEF set_min_deposit, VaultType
    <3>3. QED
      BY <2>0, <3>1, <3>2
  <2>4. QED
    BY <2>1, <2>2, <2>3
<1>3. vault' = [vault EXCEPT !.unpause_armed_at_ms = vault.unpause_armed_at_ms, !.params = q]
  BY <1>1, <1>2 DEF VaultType
<1>4. /\ TypeOK' /\ CountersMatch' /\ undiluted(vault)'
      /\ vault'.unpause_armed_at_ms = vault.unpause_armed_at_ms /\ vault'.params = q
      /\ vault'.epoch = vault.epoch /\ vault'.proposal = vault.proposal
  BY <1>1, <1>2, <1>3, LifecycleFrame
<1>5. KeepersKnown' /\ KeeperOutWhilePaused' /\ PauseInv'
  BY <1>2, <1>4 DEF IInv, KeepersKnown, KeeperOutWhilePaused, PauseInv, capVars
<1>6. QED
  BY <1>4, <1>5 DEF IInv

(* Rotations and handovers touch the registry alone.                        *)
LEMMA RegistryOnlyStep ==
    ASSUME IInv, NEW a \in Addresses,
           \/ \E cap \in admin_caps : rotate_keeper(cap, a) \/ initiate_admin_transfer(cap, a)
           \/ accept_admin_transfer(a)
    PROVE  IInv'
<1>1. KeepersKnown
  BY DEF IInv
<1>2. KeepersKnown' /\ reg'.paused = reg.paused
  <2>1. \/ \E cap \in admin_caps : \/ C!rotate_keeper_cap(cap, a)
                                  \/ C!initiate_admin_transfer(cap, a)
        \/ C!accept_admin_transfer(a)
    BY DEF rotate_keeper, initiate_admin_transfer, accept_admin_transfer
  <2>2. QED
    BY <1>1, <2>1, RegistryStep
<1>3. UNCHANGED <<now, vault, receiptVars, signed, pause_mark>>
  BY DEF rotate_keeper, initiate_admin_transfer, accept_admin_transfer
<1>4. TypeOK' /\ CountersMatch' /\ PauseInv'
  BY <1>3 DEF IInv, TypeOK, CountersMatch, PauseInv, receiptVars
<1>5. undiluted(vault)'
  BY <1>3 DEF IInv, undiluted, nav_assets
<1>6. KeeperOutWhilePaused'
  BY <1>2, <1>3 DEF IInv, KeeperOutWhilePaused
<1>7. QED
  BY <1>2, <1>4, <1>5, <1>6 DEF IInv

(* Time passing and the admins' signature touch neither vault nor registry. *)
LEMMA TickSignStep ==
    ASSUME IInv, Tick \/ sign \/ UNCHANGED vars
    PROVE  IInv'
<1>1. /\ UNCHANGED <<vault, receiptVars, pause_mark, capVars>>
      /\ now' \in 0..MaxTime /\ now' >= now
      /\ signed' \in NavProposal \cup {None}
  <2>1. /\ now \in 0..MaxTime /\ signed \in NavProposal \cup {None}
        /\ vault.proposal \in NavProposal \cup {None}
    BY DEF IInv, TypeOK, VaultType
  <2>2. CASE Tick
    BY <2>1, <2>2, VaultAssumption DEF Tick
  <2>3. CASE sign
    BY <2>1, <2>3, VaultAssumption DEF sign
  <2>4. CASE UNCHANGED vars
    BY <2>1, <2>4, VaultAssumption DEF vars
  <2>5. QED
    BY <2>2, <2>3, <2>4
<1>2. TypeOK' /\ CountersMatch'
  BY <1>1 DEF IInv, TypeOK, CountersMatch, receiptVars
<1>3. KeepersKnown' /\ KeeperOutWhilePaused'
  BY <1>1 DEF IInv, KeepersKnown, KeeperOutWhilePaused, capVars
<1>4. undiluted(vault)'
  BY <1>1 DEF IInv, undiluted, nav_assets
<1>5. PauseInv'
  <2>1. now \in Nat /\ now' \in Nat /\ pause_mark.at \in Nat
    BY <1>1, VaultAssumption DEF IInv, TypeOK
  <2>2. QED
    BY <1>1, <2>1 DEF IInv, PauseInv
<1>6. QED
  BY <1>2, <1>3, <1>4, <1>5 DEF IInv

-----------------------------------------------------------------------------
(* The theorems. *)

(* A new vault satisfies the invariant.                                     *)
LEMMA InitInv == Init => IInv
<1> SUFFICES ASSUME Init
             PROVE  IInv
  OBVIOUS
<1> USE VaultAssumption
<1>1. vault \in VaultType
  <2>1. [nav_assets |-> 0, nav_supply |-> 0] \in EpochPrice /\ <<>> \in Seq(EpochPrice)
    BY DEF EpochPrice
  <2>2. QED
    BY <2>1 DEF Init, VaultType
<1>2. TypeOK
  <2>1. BagToSet(EmptyBag) = {}
    BY DEF BagToSet, EmptyBag, SetToBag
  <2>2. pause_mark \in [at : Nat, epoch : Nat]
    BY DEF Init
  <2>3. Len(vault.epoch_prices) = vault.epoch
    BY DEF Init
  <2>4. QED
    BY <1>1, <2>1, <2>2, <2>3 DEF Init, TypeOK
<1>3. CountersMatch /\ undiluted(vault) /\ PauseInv
  BY DEF Init, CountersMatch, undiluted, PauseInv
<1>4. KeepersKnown
  BY DEF Init, C!new_registry, KeepersKnown, C!CapRegistry
<1>5. KeeperOutWhilePaused
  BY DEF Init, C!new_registry, KeeperOutWhilePaused
<1>6. QED
  BY <1>2, <1>3, <1>4, <1>5 DEF IInv

(* Every step preserves it.                                                 *)
LEMMA NextInv == IInv /\ [Next]_vars => IInv'
<1> SUFFICES ASSUME IInv, [Next]_vars
             PROVE  IInv'
  OBVIOUS
<1>0. vault \in VaultType /\ vault.base \in Nat /\ vault.lp_supply \in Nat
  BY DEF IInv, TypeOK, VaultType
<1>1. CASE Tick \/ sign \/ UNCHANGED vars
  BY <1>1, TickSignStep
<1>2. CASE Holders
  <2>1. CASE \E n \in Deposits : request_deposit(n)
    BY <2>1, RequestDepositStep, VaultAssumption
  <2>2. CASE \E n \in 1..vault.lp_supply : request_redeem(n)
    <3>1. PICK n \in 1..vault.lp_supply : request_redeem(n)
      BY <2>2
    <3>2. n \in Nat
      BY <1>0
    <3>3. QED
      BY <3>1, <3>2, RequestRedeemStep
  <2>3. CASE \E r \in BagToSet(deposit_receipts) : claim_deposit(r)
    BY <2>3, ClaimDepositStep
  <2>4. CASE \E r \in BagToSet(redeem_receipts) : claim_redeem(r)
    BY <2>4, ClaimRedeemStep
  <2>5. QED
    BY <1>2, <2>1, <2>2, <2>3, <2>4 DEF Holders
<1>3. CASE Valuations
  <2>1. ASSUME NEW cap \in keeper_caps, NEW idle \in {vault.base} \cup Idles,
               NEW report \in Reports, propose_nav(cap, idle, report)
        PROVE  IInv'
    <3>1. idle \in Nat /\ report \in Report
      BY <1>0, VaultAssumption
    <3>2. QED
      BY <2>1, <3>1, ProposeStep
  <2>2. ASSUME NEW cap \in admin_caps, approve_nav(cap, proposal_digest(signed))
        PROVE  IInv'
    BY <2>2, ApproveStep
  <2>3. QED
    BY <1>3, <2>1, <2>2, TickSignStep DEF Valuations
<1>4. CASE Governance
  <2>1. ASSUME NEW cap, pause(cap) \/ arm_unpause(cap) \/ unpause(cap)
        PROVE  IInv'
    BY <2>1, PauseStep
  <2>2. ASSUME NEW cap,
               \/ \E jump \in JumpBounds, dev \in PriceBounds, age \in Ages :
                     set_nav_bounds(cap, jump, dev, age)
               \/ \E delay \in Delays : set_unpause_delay(cap, delay)
               \/ \E n \in MinDeposits : set_min_deposit(cap, n)
        PROVE  IInv'
    <3>1. \/ \E jump \in Nat, dev \in Nat, age \in Nat : set_nav_bounds(cap, jump, dev, age)
          \/ \E delay \in Nat : set_unpause_delay(cap, delay)
          \/ \E n \in Nat : set_min_deposit(cap, n)
      BY <2>2, VaultAssumption, Zenon
    <3>2. QED
      BY <3>1, SetterStep
  <2>3. ASSUME NEW a \in Addresses,
               \/ \E cap \in admin_caps : rotate_keeper(cap, a) \/ initiate_admin_transfer(cap, a)
               \/ accept_admin_transfer(a)
        PROVE  IInv'
    BY <2>3, RegistryOnlyStep
  <2>4. QED
    BY <1>4, <2>1, <2>2, <2>3 DEF Governance
<1>5. QED
  BY <1>1, <1>2, <1>3, <1>4 DEF Next

(* The inductive invariant holds of every behaviour of the vault.           *)
THEOREM VaultInvariance == Spec => []IInv
  BY InitInv, NextInv, PTL DEF Spec

(* No path takes out of a balance or a counter more than it holds, and      *)
(* every epoch that is over has its price.                                  *)
THEOREM VaultTypeCorrect == Spec => []TypeOK
<1>1. IInv => TypeOK
  BY DEF IInv
<1>2. QED
  BY VaultInvariance, <1>1, PTL

(* For any amounts, valuations, bounds and order of requests, claims and    *)
(* approvals, the committed supply is worth no more than the vault has, and *)
(* an approval that passes its checks never fails its solvency assertion.   *)
THEOREM NobodyDiluted == Spec => []SolventUnasked
<1>1. IInv => SolventUnasked
  <2> SUFFICES ASSUME IInv
               PROVE  SolventUnasked
    OBVIOUS
  <2>1. /\ vault \in VaultType /\ undiluted(vault)
        /\ vault.proposal \in NavProposal \cup {None}
        /\ vault.pending_deposit = vault.pending_deposit_assets
    BY DEF IInv, TypeOK, VaultType, CountersMatch
  <2>2. ASSUME vault.proposal # None, legs_hold(vault.proposal),
               coverable(price_of(vault.proposal))
        PROVE  undiluted(approved(vault.proposal))
    BY <2>1, <2>2, ApprovalUndiluted
  <2>3. QED
    BY <2>1, <2>2 DEF SolventUnasked
<1>2. QED
  BY VaultInvariance, <1>1, PTL

(* While the vault is paused no valuation is approved but one the keeper    *)
(* had proposed before the pause, and no second one.                        *)
THEOREM PauseShutsKeeperOut == Spec => []KeeperOutWhilePaused
<1>1. IInv => KeeperOutWhilePaused
  BY DEF IInv
<1>2. QED
  BY VaultInvariance, <1>1, PTL

(* Whatever the delays set and however often the vault is paused and armed, *)
(* it resumes no sooner than MIN_UNPAUSE_DELAY_MS after the last pause.     *)
THEOREM ResumptionIsSlow == Spec => UnpauseIsSlow
<1> DEFINE A == reg.paused /\ ~reg'.paused => now >= pause_mark.at + MinUnpauseDelay
<1>1. IInv /\ [Next]_vars => [A]_vars
  <2> SUFFICES ASSUME IInv, Next, reg.paused, ~reg'.paused
               PROVE  now >= pause_mark.at + MinUnpauseDelay
    BY DEF vars, capVars
  <2>0. reg \in C!CapRegistry /\ KeepersKnown
    BY DEF IInv, KeepersKnown
  <2>1. PICK cap : unpause(cap)
    <3>1. ASSUME NEW cap, pause(cap) PROVE FALSE
      BY <2>0, <3>1 DEF pause, C!set_paused, C!CapRegistry
    <3>2. ASSUME NEW a \in Addresses, NEW cap,
                 \/ rotate_keeper(cap, a) \/ initiate_admin_transfer(cap, a)
                 \/ accept_admin_transfer(a)
          PROVE  FALSE
      BY <2>0, <3>2, RegistryStep
         DEF rotate_keeper, initiate_admin_transfer, accept_admin_transfer
    <3>3. ~ UNCHANGED capVars
      BY DEF capVars
    <3>4. QED
      BY <3>1, <3>2, <3>3 DEF Next, Holders, Valuations, Governance, Tick, sign,
         request_deposit, request_redeem, claim_deposit, claim_redeem, propose_nav,
         approve_nav, arm_unpause, set_nav_bounds, set_unpause_delay, set_min_deposit
  <2>2. /\ vault.unpause_armed_at_ms # None /\ now >= vault.unpause_armed_at_ms
        /\ now - vault.unpause_armed_at_ms >= vault.params.unpause_delay_ms
    BY <2>1 DEF unpause
  <2>3. /\ vault.unpause_armed_at_ms \in Nat /\ vault.params.unpause_delay_ms \in Nat
        /\ now \in Nat /\ pause_mark.at \in Nat /\ MinUnpauseDelay \in Nat
    BY <2>2, VaultAssumption DEF IInv, TypeOK, VaultType, VaultParams
  <2>4. QED
    BY <2>2, <2>3 DEF IInv, PauseInv
<1>2. Spec => [][A]_vars
  BY VaultInvariance, <1>1, PTL DEF Spec
<1>3. QED
  BY <1>2 DEF UnpauseIsSlow

-----------------------------------------------------------------------------
(* Receipts and what they weigh. *)

DepositsOf(e) == {r \in DepositReceipt : r.epoch = e}
DepositsBefore(e) == {r \in DepositReceipt : r.epoch < e}
RedeemsOf(e) == {r \in RedeemReceipt : r.epoch = e}
RedeemsBefore(e) == {r \in RedeemReceipt : r.epoch < e}

Brought == [r \in DepositReceipt |-> r.assets_sats]
Returned == [r \in RedeemReceipt |-> r.shares]
SharesDue == [r \in DepositReceipt |-> shares_for(r)]
AssetsDue == [r \in RedeemReceipt |-> assets_for(r)]

(* Deposits: the open ones are the money waiting, the priced ones are worth *)
(* no more than the shares still to be minted.                              *)
DepositsBacked ==
    /\ FiniteBag(deposit_receipts)
    /\ \A r \in BagToSet(deposit_receipts) :
          /\ r.assets_sats > 0 /\ r.epoch <= vault.epoch
          /\ priced(r) => price_of_epoch(r.epoch).nav_assets > 0
    /\ vault.pending_deposit = BagWeight(Brought, deposit_receipts, DepositsOf(vault.epoch))
    /\ BagWeight(SharesDue, deposit_receipts, DepositsBefore(vault.epoch))
          <= vault.unminted_shares

(* Redemptions, likewise, of the shares in escrow and the assets set aside. *)
RedeemsBacked ==
    /\ FiniteBag(redeem_receipts)
    /\ \A r \in BagToSet(redeem_receipts) :
          /\ r.shares > 0 /\ r.epoch <= vault.epoch
          /\ priced(r) => price_of_epoch(r.epoch).nav_supply > 0
    /\ vault.redeem_escrow = BagWeight(Returned, redeem_receipts, RedeemsOf(vault.epoch))
    /\ BagWeight(AssetsDue, redeem_receipts, RedeemsBefore(vault.epoch)) <= vault.claimable

ReceiptInv == IInv /\ DepositsBacked /\ RedeemsBacked

(* A receipt joins a bag, and leaves one that has it.                       *)
LEMMA ReceiptJoins ==
    ASSUME NEW B, FiniteBag(B), NEW x
    PROVE  OneMoreOf(B, B (+) SetToBag({x}), x)
<1>1. B = [r \in DOMAIN B |-> B[r]]
  BY BagCounts
<1> DEFINE Joined == B (+) SetToBag({x})
           count(r) == (IF r \in DOMAIN B THEN B[r] ELSE 0) + (IF r \in {x} THEN 1 ELSE 0)
<1>2. Joined = [r \in DOMAIN B \cup {x} |-> count(r)]
  <2>1. DOMAIN SetToBag({x}) = {x} /\ SetToBag({x})[x] = 1
    BY DEF SetToBag
  <2>2. \A r \in {x} : SetToBag({x})[r] = 1
    BY <2>1
  <2>3. Joined = [r \in DOMAIN B \cup {x} |->
                (IF r \in DOMAIN B THEN B[r] ELSE 0) + (IF r \in {x} THEN SetToBag({x})[r] ELSE 0)]
    BY <2>1 DEF (+)
  <2>4. QED
    BY <2>2, <2>3
<1> HIDE DEF Joined
<1>3. Joined = [r \in DOMAIN B \cup {x} |-> Joined[r]]
  BY <1>2
<1>4. Joined[x] = IF x \in DOMAIN B THEN B[x] + 1 ELSE 1
  BY <1>1, <1>2, BagCounts
<1>5. \A r \in DOMAIN B \ {x} : Joined[r] = B[r]
  BY <1>1, <1>2, BagCounts
<1>6. OneMoreOf(B, Joined, x)
  BY <1>3, <1>4, <1>5 DEF OneMoreOf
<1>7. QED
  BY <1>6 DEF Joined

(* What is left is a bag of which the old one is one more.                  *)
LEMMA ReceiptLeaves ==
    ASSUME NEW B, FiniteBag(B), NEW x \in DOMAIN B
    PROVE  /\ FiniteBag(B (-) SetToBag({x}))
           /\ DOMAIN (B (-) SetToBag({x})) \subseteq DOMAIN B
           /\ OneMoreOf(B (-) SetToBag({x}), B, x)
<1> DEFINE R == B (-) SetToBag({x})
<1>1. B = [r \in DOMAIN B |-> B[r]] /\ \A r \in DOMAIN B : B[r] \in Nat \ {0}
  BY BagCounts
<1>2. /\ DOMAIN R \subseteq DOMAIN B
      /\ DOMAIN R = IF B[x] = 1 THEN DOMAIN B \ {x} ELSE DOMAIN B
      /\ \A r \in DOMAIN B \ {x} : R[r] = B[r]
      /\ B[x] # 1 => R[x] = B[x] - 1
      /\ R = [r \in DOMAIN R |-> R[r]]
  <2> DEFINE left(d) == IF d = x THEN B[d] - 1 ELSE B[d]
             Kept == {d \in DOMAIN B : left(d) > 0}
  <2>1. R = [d \in Kept |-> left(d)]
    BY DEF (-), SetToBag
  <2>2. Kept = IF B[x] = 1 THEN DOMAIN B \ {x} ELSE DOMAIN B
    BY <1>1
  <2> HIDE DEF R, Kept
  <2>3. QED
    BY <1>1, <2>1, <2>2
<1> HIDE DEF R
<1>3. \A r \in DOMAIN R : R[r] \in Nat \ {0}
  BY <1>1, <1>2
<1>4. FiniteBag(R)
  BY <1>2, <1>3, PartIsFinite
<1>5. OneMoreOf(R, B, x)
  BY <1>1, <1>2 DEF OneMoreOf
<1>6. QED
  BY <1>2, <1>4, <1>5 DEF R

(* The price of an epoch that is over.                                      *)
LEMMA PricedEpoch ==
    ASSUME vault \in VaultType, Len(vault.epoch_prices) = vault.epoch,
           NEW r, r.epoch \in Nat, priced(r)
    PROVE  /\ price_of_epoch(r.epoch) \in EpochPrice
           /\ price_of_epoch(r.epoch).nav_assets \in Nat
           /\ price_of_epoch(r.epoch).nav_supply \in Nat
<1>1. vault.epoch_prices \in Seq(EpochPrice) /\ vault.epoch \in Nat
  BY DEF VaultType
<1>2. r.epoch + 1 \in 1..Len(vault.epoch_prices)
  BY <1>1 DEF priced
<1>3. price_of_epoch(r.epoch) \in EpochPrice
  BY <1>1, <1>2 DEF price_of_epoch
<1>4. QED
  BY <1>3 DEF EpochPrice

(* What a receipt is due is a natural number, once it is priced.            *)
LEMMA DueNat ==
    ASSUME ReceiptInv
    PROVE  /\ \A r \in BagToSet(deposit_receipts) \cap DepositsBefore(vault.epoch) :
                 SharesDue[r] \in Nat
           /\ \A r \in BagToSet(redeem_receipts) \cap RedeemsBefore(vault.epoch) :
                 AssetsDue[r] \in Nat
<1>0. vault \in VaultType /\ Len(vault.epoch_prices) = vault.epoch
  BY DEF ReceiptInv, IInv, TypeOK
<1>1. ASSUME NEW r \in BagToSet(deposit_receipts) \cap DepositsBefore(vault.epoch)
      PROVE  SharesDue[r] \in Nat
  <2>1. r \in DepositReceipt /\ r.epoch \in Nat /\ r.assets_sats \in Nat /\ priced(r)
    BY DEF DepositsBefore, DepositReceipt, priced
  <2>2. /\ price_of_epoch(r.epoch).nav_assets \in Nat /\ price_of_epoch(r.epoch).nav_supply \in Nat
        /\ price_of_epoch(r.epoch).nav_assets > 0
    BY <1>0, <2>1, PricedEpoch DEF ReceiptInv, DepositsBacked
  <2>3. shares_for(r) = mul_div(r.assets_sats, price_of_epoch(r.epoch).nav_supply,
                                price_of_epoch(r.epoch).nav_assets)
    BY DEF shares_for
  <2>4. QED
    BY <2>1, <2>2, <2>3, RoundsDown DEF SharesDue
<1>2. ASSUME NEW r \in BagToSet(redeem_receipts) \cap RedeemsBefore(vault.epoch)
      PROVE  AssetsDue[r] \in Nat
  <2>1. r \in RedeemReceipt /\ r.epoch \in Nat /\ r.shares \in Nat /\ priced(r)
    BY DEF RedeemsBefore, RedeemReceipt, priced
  <2>2. /\ price_of_epoch(r.epoch).nav_assets \in Nat /\ price_of_epoch(r.epoch).nav_supply \in Nat
        /\ price_of_epoch(r.epoch).nav_supply > 0
    BY <1>0, <2>1, PricedEpoch DEF ReceiptInv, RedeemsBacked
  <2>3. assets_for(r) = mul_div(r.shares, price_of_epoch(r.epoch).nav_assets,
                                price_of_epoch(r.epoch).nav_supply)
    BY DEF assets_for
  <2>4. QED
    BY <2>1, <2>2, <2>3, RoundsDown DEF AssetsDue
<1>3. QED
  BY <1>1, <1>2

-----------------------------------------------------------------------------
(* The steps, bag by bag. *)

SameDeposits ==
    /\ deposit_receipts' = deposit_receipts
    /\ vault'.epoch = vault.epoch /\ vault'.epoch_prices = vault.epoch_prices
    /\ vault'.pending_deposit = vault.pending_deposit
    /\ vault'.unminted_shares = vault.unminted_shares

SameRedeems ==
    /\ redeem_receipts' = redeem_receipts
    /\ vault'.epoch = vault.epoch /\ vault'.epoch_prices = vault.epoch_prices
    /\ vault'.redeem_escrow = vault.redeem_escrow
    /\ vault'.claimable = vault.claimable

(* A step that leaves a bag, and what backs it, alone.                      *)
LEMMA SameBacked ==
    ASSUME ReceiptInv
    PROVE  (SameDeposits => DepositsBacked') /\ (SameRedeems => RedeemsBacked')
<1>1. ASSUME SameDeposits
      PROVE  DepositsBacked'
  <2>1. SharesDue' = SharesDue
    BY <1>1 DEF SameDeposits, SharesDue, shares_for, price_of_epoch
  <2>2. QED
    BY <1>1, <2>1 DEF SameDeposits, ReceiptInv, DepositsBacked, priced, price_of_epoch
<1>2. ASSUME SameRedeems
      PROVE  RedeemsBacked'
  <2>1. AssetsDue' = AssetsDue
    BY <1>2 DEF SameRedeems, AssetsDue, assets_for, price_of_epoch
  <2>2. QED
    BY <1>2, <2>1 DEF SameRedeems, ReceiptInv, RedeemsBacked, priced, price_of_epoch
<1>3. QED
  BY <1>1, <1>2

(* A deposit that is requested is money that waits.                         *)
LEMMA RequestDepositBacked ==
    ASSUME ReceiptInv, NEW n \in Nat, request_deposit(n)
    PROVE  DepositsBacked' /\ RedeemsBacked'
<1> DEFINE x == [epoch |-> vault.epoch, assets_sats |-> n]
<1>1. /\ vault \in VaultType /\ vault.epoch \in Nat /\ vault.pending_deposit \in Nat
      /\ BagToSet(deposit_receipts) \subseteq DepositReceipt
  BY DEF ReceiptInv, IInv, TypeOK, VaultType
<1>2. /\ vault' = [vault EXCEPT !.pending_deposit = @ + n, !.pending_deposit_assets = @ + n]
      /\ deposit_receipts' = deposit_receipts (+) SetToBag({x}) /\ redeem_receipts' = redeem_receipts /\ n > 0
  BY DEF request_deposit
<1>3. /\ vault'.epoch = vault.epoch /\ vault'.epoch_prices = vault.epoch_prices
      /\ vault'.pending_deposit = vault.pending_deposit + n
      /\ vault'.unminted_shares = vault.unminted_shares
      /\ vault'.redeem_escrow = vault.redeem_escrow /\ vault'.claimable = vault.claimable
  BY <1>1, <1>2 DEF VaultType
<1>4. x \in DepositReceipt /\ x.epoch = vault.epoch /\ x.assets_sats = n
  BY <1>1 DEF DepositReceipt
<1>5. FiniteBag(deposit_receipts) /\ OneMoreOf(deposit_receipts, deposit_receipts', x)
  BY <1>2, ReceiptJoins DEF ReceiptInv, DepositsBacked
<1> HIDE DEF x
<1>6. \A r \in DepositReceipt : r.epoch \in Nat /\ r.assets_sats \in Nat /\ Brought[r] = r.assets_sats
  BY DEF DepositReceipt, Brought
<1>7. DOMAIN deposit_receipts' = DOMAIN deposit_receipts \cup {x}
  BY <1>5 DEF OneMoreOf
<1>8. /\ x \in DepositsOf(vault.epoch) /\ x \notin DepositsBefore(vault.epoch)
  BY <1>1, <1>4 DEF DepositsOf, DepositsBefore
<1>9. /\ FiniteBag(deposit_receipts')
      /\ BagWeight(Brought, deposit_receipts', DepositsOf(vault.epoch))
           = BagWeight(Brought, deposit_receipts, DepositsOf(vault.epoch)) + n
  <2>1. Weighable(Brought, deposit_receipts', DepositsOf(vault.epoch))
    BY <1>6 DEF DepositsOf, Weighable
  <2>2. Brought[x] = n
    BY <1>4, <1>6
  <2>3. FiniteBag(deposit_receipts')
    BY <1>5, StaysFinite
  <2>4. BagWeight(Brought, deposit_receipts', DepositsOf(vault.epoch))
          = BagWeight(Brought, deposit_receipts, DepositsOf(vault.epoch)) + n
    BY <1>5, <1>8, <2>1, <2>2, WeightJoins
  <2>5. QED
    BY <2>3, <2>4
<1>10. BagWeight(SharesDue, deposit_receipts', DepositsBefore(vault.epoch))
         = BagWeight(SharesDue, deposit_receipts, DepositsBefore(vault.epoch))
  BY <1>5, <1>8, WeightStays
<1>11. SharesDue' = SharesDue
  BY <1>3 DEF SharesDue, shares_for, price_of_epoch
<1>12. DepositsBacked'
  <2>1. \A r \in BagToSet(deposit_receipts') :
           /\ r.assets_sats > 0 /\ r.epoch <= vault.epoch
           /\ priced(r) => price_of_epoch(r.epoch).nav_assets > 0
    <3>1. \A r \in BagToSet(deposit_receipts) :
           /\ r.assets_sats > 0 /\ r.epoch <= vault.epoch
           /\ priced(r) => price_of_epoch(r.epoch).nav_assets > 0
      BY DEF ReceiptInv, DepositsBacked
    <3>2. x.assets_sats > 0 /\ x.epoch <= vault.epoch /\ ~ priced(x)
      BY <1>1, <1>2, <1>4 DEF priced
    <3>3. QED
      BY <1>7, <3>1, <3>2 DEF BagToSet
  <2>2. vault.pending_deposit = BagWeight(Brought, deposit_receipts, DepositsOf(vault.epoch))
        /\ BagWeight(SharesDue, deposit_receipts, DepositsBefore(vault.epoch)) <= vault.unminted_shares
    BY DEF ReceiptInv, DepositsBacked
  <2>3. /\ FiniteBag(deposit_receipts')
        /\ \A r \in BagToSet(deposit_receipts') :
              /\ r.assets_sats > 0 /\ r.epoch <= vault'.epoch
              /\ priced(r)' => (price_of_epoch(r.epoch)').nav_assets > 0
    BY <1>2, <1>3, <1>9, <2>1 DEF priced, price_of_epoch
  <2>4. /\ vault'.pending_deposit = BagWeight(Brought, deposit_receipts', DepositsOf(vault'.epoch))
        /\ BagWeight(SharesDue', deposit_receipts', DepositsBefore(vault'.epoch))
             <= vault'.unminted_shares
    BY <1>2, <1>3, <1>9, <1>10, <1>11, <2>2
  <2>5. QED
    BY <2>3, <2>4 DEF DepositsBacked
<1>13. RedeemsBacked'
  BY <1>2, <1>3, SameBacked DEF SameRedeems
<1>14. QED
  BY <1>12, <1>13

(* So are shares that are returned.                                         *)
LEMMA RequestRedeemBacked ==
    ASSUME ReceiptInv, NEW n \in Nat, request_redeem(n)
    PROVE  DepositsBacked' /\ RedeemsBacked'
<1> DEFINE x == [epoch |-> vault.epoch, shares |-> n]
<1>1. vault \in VaultType /\ vault.epoch \in Nat /\ vault.redeem_escrow \in Nat
  BY DEF ReceiptInv, IInv, TypeOK, VaultType
<1>2. /\ vault' = [vault EXCEPT !.redeem_escrow = @ + n, !.pending_redeem_shares = @ + n]
      /\ redeem_receipts' = redeem_receipts (+) SetToBag({x}) /\ deposit_receipts' = deposit_receipts /\ n > 0
  BY DEF request_redeem
<1>3. /\ vault'.epoch = vault.epoch /\ vault'.epoch_prices = vault.epoch_prices
      /\ vault'.redeem_escrow = vault.redeem_escrow + n
      /\ vault'.claimable = vault.claimable
      /\ vault'.pending_deposit = vault.pending_deposit
      /\ vault'.unminted_shares = vault.unminted_shares
  BY <1>1, <1>2 DEF VaultType
<1>4. x \in RedeemReceipt /\ x.epoch = vault.epoch /\ x.shares = n
  BY <1>1 DEF RedeemReceipt
<1>5. FiniteBag(redeem_receipts) /\ OneMoreOf(redeem_receipts, redeem_receipts', x)
  BY <1>2, ReceiptJoins DEF ReceiptInv, RedeemsBacked
<1> HIDE DEF x
<1>6. \A r \in RedeemReceipt : r.epoch \in Nat /\ r.shares \in Nat /\ Returned[r] = r.shares
  BY DEF RedeemReceipt, Returned
<1>7. DOMAIN redeem_receipts' = DOMAIN redeem_receipts \cup {x} /\ FiniteBag(redeem_receipts')
  BY <1>5, StaysFinite DEF OneMoreOf
<1>8. x \in RedeemsOf(vault.epoch) /\ x \notin RedeemsBefore(vault.epoch)
  BY <1>1, <1>4 DEF RedeemsOf, RedeemsBefore
<1>9. BagWeight(Returned, redeem_receipts', RedeemsOf(vault.epoch))
        = BagWeight(Returned, redeem_receipts, RedeemsOf(vault.epoch)) + n
  <2>1. Weighable(Returned, redeem_receipts', RedeemsOf(vault.epoch))
    BY <1>6 DEF RedeemsOf, Weighable
  <2>2. Returned[x] = n
    BY <1>4, <1>6
  <2>3. QED
    BY <1>5, <1>8, <2>1, <2>2, WeightJoins
<1>10. BagWeight(AssetsDue, redeem_receipts', RedeemsBefore(vault.epoch))
         = BagWeight(AssetsDue, redeem_receipts, RedeemsBefore(vault.epoch))
  BY <1>5, <1>8, WeightStays
<1>11. AssetsDue' = AssetsDue
  BY <1>3 DEF AssetsDue, assets_for, price_of_epoch
<1>12. RedeemsBacked'
  <2>1. \A r \in BagToSet(redeem_receipts') :
           /\ r.shares > 0 /\ r.epoch <= vault.epoch
           /\ priced(r) => price_of_epoch(r.epoch).nav_supply > 0
    <3>1. \A r \in BagToSet(redeem_receipts) :
           /\ r.shares > 0 /\ r.epoch <= vault.epoch
           /\ priced(r) => price_of_epoch(r.epoch).nav_supply > 0
      BY DEF ReceiptInv, RedeemsBacked
    <3>2. x.shares > 0 /\ x.epoch <= vault.epoch /\ ~ priced(x)
      BY <1>1, <1>2, <1>4 DEF priced
    <3>3. QED
      BY <1>7, <3>1, <3>2 DEF BagToSet
  <2>2. vault.redeem_escrow = BagWeight(Returned, redeem_receipts, RedeemsOf(vault.epoch))
        /\ BagWeight(AssetsDue, redeem_receipts, RedeemsBefore(vault.epoch)) <= vault.claimable
    BY DEF ReceiptInv, RedeemsBacked
  <2>3. \A r \in BagToSet(redeem_receipts') :
           /\ r.shares > 0 /\ r.epoch <= vault'.epoch
           /\ priced(r)' => (price_of_epoch(r.epoch)').nav_supply > 0
    BY <1>2, <1>3, <2>1 DEF priced, price_of_epoch
  <2>4. /\ vault'.redeem_escrow = BagWeight(Returned, redeem_receipts', RedeemsOf(vault'.epoch))
        /\ BagWeight(AssetsDue', redeem_receipts', RedeemsBefore(vault'.epoch)) <= vault'.claimable
    BY <1>2, <1>3, <1>9, <1>10, <1>11, <2>2
  <2>5. QED
    BY <1>7, <2>3, <2>4 DEF RedeemsBacked
<1>13. DepositsBacked'
  BY <1>2, <1>3, SameBacked DEF SameDeposits
<1>14. QED
  BY <1>12, <1>13

(* A deposit that is claimed takes what it is due, and no other's.          *)
LEMMA ClaimDepositBacked ==
    ASSUME ReceiptInv, NEW r \in BagToSet(deposit_receipts), claim_deposit(r)
    PROVE  DepositsBacked' /\ RedeemsBacked'
<1> DEFINE n == shares_for(r)
           B == deposit_receipts
           R == deposit_receipts (-) SetToBag({r})
<1>1. /\ vault \in VaultType /\ vault.epoch \in Nat /\ vault.unminted_shares \in Nat
      /\ BagToSet(deposit_receipts) \subseteq DepositReceipt
  BY DEF ReceiptInv, IInv, TypeOK, VaultType
<1>2. /\ vault' = [vault EXCEPT !.unminted_shares = @ - n, !.lp_supply = @ + n]
      /\ deposit_receipts' = R /\ redeem_receipts' = redeem_receipts /\ priced(r)
  BY DEF claim_deposit
<1> HIDE DEF n
<1>3. /\ vault'.epoch = vault.epoch /\ vault'.epoch_prices = vault.epoch_prices
      /\ vault'.pending_deposit = vault.pending_deposit
      /\ vault'.unminted_shares = vault.unminted_shares - n
      /\ vault'.redeem_escrow = vault.redeem_escrow /\ vault'.claimable = vault.claimable
  BY <1>1, <1>2 DEF VaultType
<1>4. /\ FiniteBag(B) /\ FiniteBag(R) /\ DOMAIN R \subseteq DOMAIN B /\ OneMoreOf(R, B, r)
  BY ReceiptLeaves DEF ReceiptInv, DepositsBacked, BagToSet
<1> HIDE DEF R
<1>5. r \in DepositsBefore(vault.epoch) /\ r \notin DepositsOf(vault.epoch)
  BY <1>1, <1>2 DEF priced, DepositsBefore, DepositsOf, DepositReceipt
<1>6. BagWeight(Brought, B, DepositsOf(vault.epoch)) = BagWeight(Brought, R, DepositsOf(vault.epoch))
  BY <1>4, <1>5, WeightStays
<1>7. /\ Weighable(SharesDue, B, DepositsBefore(vault.epoch)) /\ n \in Nat
      /\ SharesDue[r] = n
  BY <1>5, DueNat DEF BagToSet, Weighable, SharesDue, DepositsBefore, n
<1>8. BagWeight(SharesDue, B, DepositsBefore(vault.epoch))
        = BagWeight(SharesDue, R, DepositsBefore(vault.epoch)) + n
  BY <1>4, <1>5, <1>7, WeightJoins
<1>9. Weighable(SharesDue, R, DepositsBefore(vault.epoch))
  BY <1>4, <1>7 DEF Weighable
<1>10. BagWeight(SharesDue, R, DepositsBefore(vault.epoch)) \in Nat
  BY <1>4, <1>9, WeightNat
<1>11. SharesDue' = SharesDue
  BY <1>3 DEF SharesDue, shares_for, price_of_epoch
<1>12. /\ \A s \in BagToSet(B) :
             /\ s.assets_sats > 0 /\ s.epoch <= vault.epoch
             /\ priced(s) => price_of_epoch(s.epoch).nav_assets > 0
       /\ vault.pending_deposit = BagWeight(Brought, B, DepositsOf(vault.epoch))
       /\ BagWeight(SharesDue, B, DepositsBefore(vault.epoch)) <= vault.unminted_shares
  BY DEF ReceiptInv, DepositsBacked
<1> HIDE DEF B
<1>13. DepositsBacked'
  <2>1. \A s \in BagToSet(R) :
           /\ s.assets_sats > 0 /\ s.epoch <= vault'.epoch
           /\ priced(s)' => (price_of_epoch(s.epoch)').nav_assets > 0
    BY <1>3, <1>4, <1>12 DEF BagToSet, priced, price_of_epoch
  <2>2. vault'.pending_deposit = BagWeight(Brought, R, DepositsOf(vault'.epoch))
    BY <1>3, <1>6, <1>12
  <2>3. BagWeight(SharesDue', R, DepositsBefore(vault'.epoch)) <= vault'.unminted_shares
    BY <1>1, <1>3, <1>7, <1>8, <1>10, <1>11, <1>12
  <2>4. QED
    BY <1>2, <1>4, <2>1, <2>2, <2>3 DEF DepositsBacked
<1>14. RedeemsBacked'
  BY <1>2, <1>3, SameBacked DEF SameRedeems
<1>15. QED
  BY <1>13, <1>14

(* So does a redemption.                                                    *)
LEMMA ClaimRedeemBacked ==
    ASSUME ReceiptInv, NEW r \in BagToSet(redeem_receipts), claim_redeem(r)
    PROVE  DepositsBacked' /\ RedeemsBacked'
<1> DEFINE n == assets_for(r)
           B == redeem_receipts
           R == redeem_receipts (-) SetToBag({r})
<1>1. /\ vault \in VaultType /\ vault.epoch \in Nat /\ vault.claimable \in Nat
      /\ BagToSet(redeem_receipts) \subseteq RedeemReceipt
  BY DEF ReceiptInv, IInv, TypeOK, VaultType
<1>2. /\ vault' = [vault EXCEPT !.claimable = @ - n]
      /\ redeem_receipts' = R /\ deposit_receipts' = deposit_receipts /\ priced(r)
  BY DEF claim_redeem
<1> HIDE DEF n
<1>3. /\ vault'.epoch = vault.epoch /\ vault'.epoch_prices = vault.epoch_prices
      /\ vault'.redeem_escrow = vault.redeem_escrow
      /\ vault'.claimable = vault.claimable - n
      /\ vault'.pending_deposit = vault.pending_deposit
      /\ vault'.unminted_shares = vault.unminted_shares
  BY <1>1, <1>2 DEF VaultType
<1>4. /\ FiniteBag(B) /\ FiniteBag(R) /\ DOMAIN R \subseteq DOMAIN B /\ OneMoreOf(R, B, r)
  BY ReceiptLeaves DEF ReceiptInv, RedeemsBacked, BagToSet
<1> HIDE DEF R
<1>5. r \in RedeemsBefore(vault.epoch) /\ r \notin RedeemsOf(vault.epoch)
  BY <1>1, <1>2 DEF priced, RedeemsBefore, RedeemsOf, RedeemReceipt
<1>6. BagWeight(Returned, B, RedeemsOf(vault.epoch)) = BagWeight(Returned, R, RedeemsOf(vault.epoch))
  BY <1>4, <1>5, WeightStays
<1>7. /\ Weighable(AssetsDue, B, RedeemsBefore(vault.epoch)) /\ n \in Nat
      /\ AssetsDue[r] = n
  BY <1>5, DueNat DEF BagToSet, Weighable, AssetsDue, RedeemsBefore, n
<1>8. BagWeight(AssetsDue, B, RedeemsBefore(vault.epoch))
        = BagWeight(AssetsDue, R, RedeemsBefore(vault.epoch)) + n
  BY <1>4, <1>5, <1>7, WeightJoins
<1>9. Weighable(AssetsDue, R, RedeemsBefore(vault.epoch))
  BY <1>4, <1>7 DEF Weighable
<1>10. BagWeight(AssetsDue, R, RedeemsBefore(vault.epoch)) \in Nat
  BY <1>4, <1>9, WeightNat
<1>11. AssetsDue' = AssetsDue
  BY <1>3 DEF AssetsDue, assets_for, price_of_epoch
<1>12. /\ \A s \in BagToSet(B) :
             /\ s.shares > 0 /\ s.epoch <= vault.epoch
             /\ priced(s) => price_of_epoch(s.epoch).nav_supply > 0
       /\ vault.redeem_escrow = BagWeight(Returned, B, RedeemsOf(vault.epoch))
       /\ BagWeight(AssetsDue, B, RedeemsBefore(vault.epoch)) <= vault.claimable
  BY DEF ReceiptInv, RedeemsBacked
<1> HIDE DEF B
<1>13. RedeemsBacked'
  <2>1. \A s \in BagToSet(R) :
           /\ s.shares > 0 /\ s.epoch <= vault'.epoch
           /\ priced(s)' => (price_of_epoch(s.epoch)').nav_supply > 0
    BY <1>3, <1>4, <1>12 DEF BagToSet, priced, price_of_epoch
  <2>2. vault'.redeem_escrow = BagWeight(Returned, R, RedeemsOf(vault'.epoch))
    BY <1>3, <1>6, <1>12
  <2>3. BagWeight(AssetsDue', R, RedeemsBefore(vault'.epoch)) <= vault'.claimable
    BY <1>1, <1>3, <1>7, <1>8, <1>10, <1>11, <1>12
  <2>4. QED
    BY <1>2, <1>4, <2>1, <2>2, <2>3 DEF RedeemsBacked
<1>14. DepositsBacked'
  BY <1>2, <1>3, SameBacked DEF SameDeposits
<1>15. QED
  BY <1>13, <1>14

-----------------------------------------------------------------------------
(* The approval: one price for all receipts of the epoch. *)

(* What the receipts of Q bring is w, and u is what each is due for it, at  *)
(* a to b and rounded down.                                                 *)
PaidAt(u, w, B, Q, a, b) ==
    \A r \in DOMAIN B \cap Q : w[r] \in Nat \ {0} /\ (b > 0 => u[r] = mul_div(w[r], a, b))

(* What was due before stays due.                                           *)
StaysDue(u, v, B, P) == \A r \in DOMAIN B \cap P : v[r] \in Nat /\ u[r] = v[r]

(* A product that is within another is within it when divided.              *)
LEMMA DividesWithin ==
    ASSUME NEW x \in Nat, NEW y \in Nat, NEW b \in Nat \ {0}, x * b <= y
    PROVE  x <= y \div b
  BY SMT

(* Receipts that join those that are priced are due no more than what is    *)
(* minted, or set aside, for all they bring together.                       *)
LEMMA PricedTogether ==
    ASSUME NEW B, FiniteBag(B), NEW P, NEW Q, P \cap Q = {}, NEW u, NEW v, NEW w,
           NEW a \in Nat, NEW b \in Nat, StaysDue(u, v, B, P), PaidAt(u, w, B, Q, a, b),
           NEW D, D = BagWeight(w, B, Q), D > 0 => b > 0,
           NEW U \in Nat, BagWeight(v, B, P) <= U
    PROVE  /\ D = 0 => DOMAIN B \cap Q = {}
           /\ BagWeight(u, B, P \cup Q) <= U + (IF D = 0 THEN 0 ELSE mul_div(D, a, b))
<1>1. Weighable(w, B, Q)
  BY DEF PaidAt, Weighable
<1>2. D \in Nat
  BY <1>1, WeightNat
<1>3. D = 0 => DOMAIN B \cap Q = {}
  BY WeighsNothing DEF PaidAt
<1>4. BagWeight(u, B, P) = BagWeight(v, B, P)
  BY WeightSame DEF StaysDue
<1>5. DOMAIN B \cap Q # {} => b > 0
  BY <1>2, <1>3
<1>6. ASSUME NEW r \in DOMAIN B \cap Q
      PROVE  w[r] \in Nat /\ u[r] \in Nat /\ u[r] * b <= w[r] * a
  <2> DEFINE n == w[r]
  <2>1. n \in Nat /\ b > 0 /\ u[r] = mul_div(n, a, b)
    BY <1>5 DEF PaidAt
  <2> HIDE DEF n
  <2>2. mul_div(n, a, b) \in Nat /\ mul_div(n, a, b) * b <= n * a
    BY <2>1, RoundsDown
  <2>3. QED
    BY <2>1, <2>2 DEF n
<1>7. Weighable(u, B, P) /\ Weighable(u, B, Q) /\ Weighable(u, B, P \cup Q)
  BY <1>6 DEF StaysDue, Weighable
<1>8. BagWeight(u, B, P \cup Q) = BagWeight(u, B, P) + BagWeight(u, B, Q)
  BY <1>7, WeightSplits
<1>9. BagWeight(u, B, P) \in Nat /\ BagWeight(u, B, Q) \in Nat
  BY <1>7, WeightNat
<1>10. BagWeight(u, B, Q) <= (IF D = 0 THEN 0 ELSE mul_div(D, a, b))
  <2>1. CASE D = 0
    BY <1>3, <2>1, NoWeight
  <2>2. CASE D # 0
    <3>1. b \in Nat \ {0}
      BY <1>2, <2>2
    <3>2. BagWeight(u, B, Q) * b <= BagWeight(w, B, Q) * a
      BY <1>6, <3>1, WeightWithin
    <3>3. D * a \in Nat /\ BagWeight(u, B, Q) * b <= D * a
      BY <1>2, <3>2
    <3>4. BagWeight(u, B, Q) <= (D * a) \div b
      BY <1>9, <3>1, <3>3, DividesWithin
    <3>5. QED
      BY <2>2, <3>4 DEF mul_div
  <2>3. QED
    BY <2>1, <2>2
<1>11. (IF D = 0 THEN 0 ELSE mul_div(D, a, b)) \in Nat
  <2>1. ASSUME D # 0
        PROVE  mul_div(D, a, b) \in Nat
    <3>1. D > 0 /\ b > 0
      BY <1>2, <2>1
    <3>2. QED
      BY <1>2, <3>1, RoundsDown
  <2> HIDE DEF mul_div
  <2>2. QED
    BY <2>1
<1> HIDE DEF mul_div
<1>12. BagWeight(u, B, P \cup Q) <= U + (IF D = 0 THEN 0 ELSE mul_div(D, a, b))
  BY <1>4, <1>8, <1>9, <1>10, <1>11
<1>13. QED
  BY <1>3, <1>12

(* What the vault and the prices are after an approval.                     *)
LEMMA ApprovedVault ==
    ASSUME ReceiptInv, NEW cap, NEW digest, approve_nav(cap, digest)
    PROVE  LET price == price_of(vault.proposal)
           IN  /\ vault.epoch \in Nat /\ price.nav_assets \in Nat /\ price.nav_supply \in Nat
               /\ price \in EpochPrice /\ Len(vault.epoch_prices) = vault.epoch
               /\ vault.epoch_prices \in Seq(EpochPrice)
               /\ vault'.epoch = vault.epoch + 1
               /\ vault'.epoch_prices = Append(vault.epoch_prices, price)
               /\ vault'.pending_deposit = 0 /\ vault'.redeem_escrow = 0
               /\ vault'.unminted_shares = vault.unminted_shares + shares_to_mint(price)
               /\ vault'.claimable = vault.claimable + assets_to_release(price)
               /\ deposit_receipts' = deposit_receipts /\ redeem_receipts' = redeem_receipts
<1> DEFINE p == vault.proposal
           price == price_of(p)
<1>1. /\ vault \in VaultType /\ p \in NavProposal /\ vault.epoch \in Nat
      /\ vault.epoch_prices \in Seq(EpochPrice) /\ Len(vault.epoch_prices) = vault.epoch
      /\ vault.redeem_escrow \in Nat /\ vault.pending_redeem_shares \in Nat
      /\ vault.redeem_escrow = vault.pending_redeem_shares
  BY DEF ReceiptInv, IInv, TypeOK, VaultType, approve_nav, CountersMatch
<1>2. coverable(price) /\ vault' = approved(p) /\ UNCHANGED receiptVars
  BY DEF approve_nav
<1>3. price \in EpochPrice
  BY <1>1, <1>2, PricedLegs
<1>4. price.nav_assets \in Nat /\ price.nav_supply \in Nat
  BY <1>3 DEF EpochPrice
<1> HIDE DEF price
<1>5. burned = vault.redeem_escrow
  BY <1>1 DEF burned
<1>6. /\ vault'.epoch = vault.epoch + 1
      /\ vault'.epoch_prices = Append(vault.epoch_prices, price)
      /\ vault'.pending_deposit = 0 /\ vault'.redeem_escrow = vault.redeem_escrow - burned
      /\ vault'.unminted_shares = vault.unminted_shares + shares_to_mint(price)
      /\ vault'.claimable = vault.claimable + assets_to_release(price)
  BY <1>1, <1>2 DEF approved, VaultType, price
<1>7. QED
  BY <1>1, <1>2, <1>3, <1>4, <1>5, <1>6 DEF price, receiptVars

(* An approval prices every deposit that waits, and mints enough for all.   *)
LEMMA ApproveDeposits ==
    ASSUME ReceiptInv, NEW cap, NEW digest, approve_nav(cap, digest)
    PROVE  DepositsBacked'
<1> DEFINE e == vault.epoch
           price == price_of(vault.proposal)
           B == deposit_receipts
           D == vault.pending_deposit
           M == shares_to_mint(price)
           a == price.nav_supply
           b == price.nav_assets
<1>1. /\ e \in Nat /\ a \in Nat /\ b \in Nat /\ Len(vault.epoch_prices) = e
      /\ vault.epoch_prices \in Seq(EpochPrice) /\ price \in EpochPrice
      /\ vault'.epoch = e + 1 /\ vault'.epoch_prices = Append(vault.epoch_prices, price)
      /\ vault'.pending_deposit = 0
      /\ vault'.unminted_shares = vault.unminted_shares + M
      /\ deposit_receipts' = B
  BY ApprovedVault
<1>2. /\ vault.unminted_shares \in Nat /\ D \in Nat /\ vault.pending_deposit_assets = D
      /\ BagToSet(B) \subseteq DepositReceipt
  BY DEF ReceiptInv, IInv, TypeOK, VaultType, CountersMatch
<1>3. D > 0 => b > 0
  BY <1>2 DEF approve_nav, coverable
<1>4. M = IF D = 0 THEN 0 ELSE mul_div(D, a, b)
  BY <1>2 DEF shares_to_mint
<1>5. /\ FiniteBag(B) /\ D = BagWeight(Brought, B, DepositsOf(e))
      /\ BagWeight(SharesDue, B, DepositsBefore(e)) <= vault.unminted_shares
      /\ \A r \in BagToSet(B) : /\ r.assets_sats > 0 /\ r.epoch <= e
                                /\ priced(r) => price_of_epoch(r.epoch).nav_assets > 0
  BY DEF ReceiptInv, DepositsBacked
<1> HIDE DEF price, D, M, B, a, b, e
<1>6. \A r \in BagToSet(B) : r \in DepositReceipt /\ r.epoch \in 0..e /\ r.assets_sats \in Nat \ {0}
  BY <1>1, <1>2, <1>5 DEF DepositReceipt
<1>7. /\ \A i \in Nat : i < e => price_of_epoch(i)' = price_of_epoch(i)
      /\ vault'.epoch_prices[e + 1] = price
  BY <1>1 DEF price_of_epoch
<1>8. StaysDue(SharesDue', SharesDue, B, DepositsBefore(e))
  <2>1. ASSUME NEW r \in DOMAIN B \cap DepositsBefore(e)
        PROVE  SharesDue[r] \in Nat /\ SharesDue'[r] = SharesDue[r]
    <3>1. r \in DepositReceipt /\ r.epoch \in Nat /\ r.epoch < e
      BY <1>6 DEF BagToSet, DepositsBefore
    <3>2. SharesDue[r] \in Nat
      BY DueNat DEF BagToSet, B, e
    <3>3. price_of_epoch(r.epoch)' = price_of_epoch(r.epoch)
      BY <1>7, <3>1
    <3>4. shares_for(r)' = shares_for(r)
      BY <3>3 DEF shares_for
    <3>5. QED
      BY <3>1, <3>2, <3>4 DEF SharesDue
  <2>2. QED
    BY <2>1 DEF StaysDue
<1>9. PaidAt(SharesDue', Brought, B, DepositsOf(e), a, b)
  <2>1. ASSUME NEW r \in DOMAIN B \cap DepositsOf(e)
        PROVE  Brought[r] \in Nat \ {0} /\ SharesDue'[r] = mul_div(Brought[r], a, b)
    <3>1. r \in DepositReceipt /\ r.epoch = e /\ r.assets_sats \in Nat \ {0}
      BY <1>6 DEF BagToSet, DepositsOf
    <3>2. price_of_epoch(r.epoch)' = price
      BY <1>7, <3>1 DEF price_of_epoch
    <3>3. shares_for(r)' = mul_div(r.assets_sats, a, b)
      BY <3>2 DEF shares_for, a, b
    <3>4. QED
      BY <3>1, <3>3 DEF SharesDue, Brought
  <2>2. QED
    BY <2>1 DEF PaidAt
<1>10. DepositsBefore(e) \cap DepositsOf(e) = {}
  BY <1>1 DEF DepositsBefore, DepositsOf
<1>11. DepositsBefore(e + 1) = DepositsBefore(e) \cup DepositsOf(e)
  BY <1>1 DEF DepositsBefore, DepositsOf, DepositReceipt
<1>12. /\ D = 0 => DOMAIN B \cap DepositsOf(e) = {}
       /\ BagWeight(SharesDue', B, DepositsBefore(e) \cup DepositsOf(e))
            <= vault.unminted_shares + (IF D = 0 THEN 0 ELSE mul_div(D, a, b))
  BY <1>1, <1>2, <1>3, <1>5, <1>8, <1>9, <1>10, PricedTogether
<1>13. BagWeight(SharesDue', B, DepositsBefore(e + 1)) <= vault'.unminted_shares
  BY <1>1, <1>4, <1>11, <1>12
<1>14. BagWeight(Brought, B, DepositsOf(e + 1)) = 0
  <2>1. DOMAIN B \cap DepositsOf(e + 1) = {}
    BY <1>1, <1>6 DEF BagToSet, DepositsOf
  <2>2. QED
    BY <2>1, NoWeight
<1>15. ASSUME NEW r \in BagToSet(B)
       PROVE  /\ r.assets_sats > 0 /\ r.epoch <= e + 1
              /\ (price_of_epoch(r.epoch)').nav_assets > 0
  <2>1. r.epoch \in 0..e /\ r.assets_sats > 0 /\ r \in DepositReceipt
    BY <1>6
  <2>2. CASE r.epoch < e
    BY <1>1, <1>5, <1>7, <2>1, <2>2 DEF priced, e
  <2>3. CASE r.epoch = e
    <3>1. r \in DOMAIN B \cap DepositsOf(e)
      BY <2>1, <2>3 DEF DepositsOf, BagToSet
    <3>2. b > 0
      BY <1>2, <1>3, <1>12, <3>1
    <3>3. QED
      BY <1>1, <1>7, <2>1, <2>3, <3>2 DEF b, price_of_epoch
  <2>4. QED
    BY <1>1, <2>1, <2>2, <2>3
<1>16. QED
  BY <1>1, <1>5, <1>13, <1>14, <1>15 DEF DepositsBacked
(* It prices every redemption that waits, and sets enough aside for all.    *)
LEMMA ApproveRedeems ==
    ASSUME ReceiptInv, NEW cap, NEW digest, approve_nav(cap, digest)
    PROVE  RedeemsBacked'
<1> DEFINE e == vault.epoch
           price == price_of(vault.proposal)
           B == redeem_receipts
           D == vault.redeem_escrow
           M == assets_to_release(price)
           a == price.nav_assets
           b == price.nav_supply
<1>1. /\ e \in Nat /\ a \in Nat /\ b \in Nat /\ Len(vault.epoch_prices) = e
      /\ vault.epoch_prices \in Seq(EpochPrice) /\ price \in EpochPrice
      /\ vault'.epoch = e + 1 /\ vault'.epoch_prices = Append(vault.epoch_prices, price)
      /\ vault'.redeem_escrow = 0
      /\ vault'.claimable = vault.claimable + M
      /\ redeem_receipts' = B
  BY ApprovedVault
<1>2. /\ vault.claimable \in Nat /\ D \in Nat /\ vault.pending_redeem_shares = D
      /\ BagToSet(B) \subseteq RedeemReceipt
  BY DEF ReceiptInv, IInv, TypeOK, VaultType, CountersMatch
<1>3. D > 0 => b > 0
  BY <1>2 DEF approve_nav, coverable
<1>4. M = IF D = 0 THEN 0 ELSE mul_div(D, a, b)
  BY <1>2 DEF assets_to_release
<1>5. /\ FiniteBag(B) /\ D = BagWeight(Returned, B, RedeemsOf(e))
      /\ BagWeight(AssetsDue, B, RedeemsBefore(e)) <= vault.claimable
      /\ \A r \in BagToSet(B) : /\ r.shares > 0 /\ r.epoch <= e
                                /\ priced(r) => price_of_epoch(r.epoch).nav_supply > 0
  BY DEF ReceiptInv, RedeemsBacked
<1> HIDE DEF price, D, M, B, a, b, e
<1>6. \A r \in BagToSet(B) : r \in RedeemReceipt /\ r.epoch \in 0..e /\ r.shares \in Nat \ {0}
  BY <1>1, <1>2, <1>5 DEF RedeemReceipt
<1>7. /\ \A i \in Nat : i < e => price_of_epoch(i)' = price_of_epoch(i)
      /\ vault'.epoch_prices[e + 1] = price
  BY <1>1 DEF price_of_epoch
<1>8. StaysDue(AssetsDue', AssetsDue, B, RedeemsBefore(e))
  <2>1. ASSUME NEW r \in DOMAIN B \cap RedeemsBefore(e)
        PROVE  AssetsDue[r] \in Nat /\ AssetsDue'[r] = AssetsDue[r]
    <3>1. r \in RedeemReceipt /\ r.epoch \in Nat /\ r.epoch < e
      BY <1>6 DEF BagToSet, RedeemsBefore
    <3>2. AssetsDue[r] \in Nat
      BY DueNat DEF BagToSet, B, e
    <3>3. price_of_epoch(r.epoch)' = price_of_epoch(r.epoch)
      BY <1>7, <3>1
    <3>4. assets_for(r)' = assets_for(r)
      BY <3>3 DEF assets_for
    <3>5. QED
      BY <3>1, <3>2, <3>4 DEF AssetsDue
  <2>2. QED
    BY <2>1 DEF StaysDue
<1>9. PaidAt(AssetsDue', Returned, B, RedeemsOf(e), a, b)
  <2>1. ASSUME NEW r \in DOMAIN B \cap RedeemsOf(e)
        PROVE  Returned[r] \in Nat \ {0} /\ AssetsDue'[r] = mul_div(Returned[r], a, b)
    <3>1. r \in RedeemReceipt /\ r.epoch = e /\ r.shares \in Nat \ {0}
      BY <1>6 DEF BagToSet, RedeemsOf
    <3>2. price_of_epoch(r.epoch)' = price
      BY <1>7, <3>1 DEF price_of_epoch
    <3>3. assets_for(r)' = mul_div(r.shares, a, b)
      BY <3>2 DEF assets_for, a, b
    <3>4. QED
      BY <3>1, <3>3 DEF AssetsDue, Returned
  <2>2. QED
    BY <2>1 DEF PaidAt
<1>10. RedeemsBefore(e) \cap RedeemsOf(e) = {}
  BY <1>1 DEF RedeemsBefore, RedeemsOf
<1>11. RedeemsBefore(e + 1) = RedeemsBefore(e) \cup RedeemsOf(e)
  BY <1>1 DEF RedeemsBefore, RedeemsOf, RedeemReceipt
<1>12. /\ D = 0 => DOMAIN B \cap RedeemsOf(e) = {}
       /\ BagWeight(AssetsDue', B, RedeemsBefore(e) \cup RedeemsOf(e))
            <= vault.claimable + (IF D = 0 THEN 0 ELSE mul_div(D, a, b))
  BY <1>1, <1>2, <1>3, <1>5, <1>8, <1>9, <1>10, PricedTogether
<1>13. BagWeight(AssetsDue', B, RedeemsBefore(e + 1)) <= vault'.claimable
  BY <1>1, <1>4, <1>11, <1>12
<1>14. BagWeight(Returned, B, RedeemsOf(e + 1)) = 0
  <2>1. DOMAIN B \cap RedeemsOf(e + 1) = {}
    BY <1>1, <1>6 DEF BagToSet, RedeemsOf
  <2>2. QED
    BY <2>1, NoWeight
<1>15. ASSUME NEW r \in BagToSet(B)
       PROVE  /\ r.shares > 0 /\ r.epoch <= e + 1
              /\ (price_of_epoch(r.epoch)').nav_supply > 0
  <2>1. r.epoch \in 0..e /\ r.shares > 0 /\ r \in RedeemReceipt
    BY <1>6
  <2>2. CASE r.epoch < e
    BY <1>1, <1>5, <1>7, <2>1, <2>2 DEF priced, e
  <2>3. CASE r.epoch = e
    <3>1. r \in DOMAIN B \cap RedeemsOf(e)
      BY <2>1, <2>3 DEF RedeemsOf, BagToSet
    <3>2. b > 0
      BY <1>2, <1>3, <1>12, <3>1
    <3>3. QED
      BY <1>1, <1>7, <2>1, <2>3, <3>2 DEF b, price_of_epoch
  <2>4. QED
    BY <1>1, <2>1, <2>2, <2>3
<1>16. QED
  BY <1>1, <1>5, <1>13, <1>14, <1>15 DEF RedeemsBacked

-----------------------------------------------------------------------------
(* The theorems. *)

(* A new vault has no receipts.                                             *)
LEMMA InitReceipts == Init => ReceiptInv
<1> SUFFICES ASSUME Init
             PROVE  ReceiptInv
  OBVIOUS
<1>1. IInv
  BY InitInv
<1>2. /\ vault.pending_deposit = 0 /\ vault.redeem_escrow = 0
      /\ vault.unminted_shares = 0 /\ vault.claimable = 0
  BY DEF Init
<1>3. /\ FiniteBag(deposit_receipts) /\ DOMAIN deposit_receipts = {}
      /\ FiniteBag(redeem_receipts) /\ DOMAIN redeem_receipts = {}
  BY EmptyIsFinite DEF Init, EmptyBag, SetToBag
<1>4. DepositsBacked
  <2>1. /\ BagWeight(Brought, deposit_receipts, DepositsOf(vault.epoch)) = 0
        /\ BagWeight(SharesDue, deposit_receipts, DepositsBefore(vault.epoch)) = 0
    BY <1>3, NoWeight
  <2>2. QED
    BY <1>2, <1>3, <2>1 DEF DepositsBacked, BagToSet
<1>5. RedeemsBacked
  <2>1. /\ BagWeight(Returned, redeem_receipts, RedeemsOf(vault.epoch)) = 0
        /\ BagWeight(AssetsDue, redeem_receipts, RedeemsBefore(vault.epoch)) = 0
    BY <1>3, NoWeight
  <2>2. QED
    BY <1>2, <1>3, <2>1 DEF RedeemsBacked, BagToSet
<1>6. QED
  BY <1>1, <1>4, <1>5 DEF ReceiptInv

(* Time, signatures, proposals and governance leave receipts and what backs *)
(* them alone.                                                              *)
LEMMA GovernanceBacked ==
    ASSUME ReceiptInv, Tick \/ sign \/ Governance \/ UNCHANGED vars
           \/ \E cap, idle, report : propose_nav(cap, idle, report)
    PROVE  SameDeposits /\ SameRedeems
<1>1. vault \in VaultType
  BY DEF ReceiptInv, IInv, TypeOK
<1>2. UNCHANGED vault /\ UNCHANGED receiptVars => SameDeposits /\ SameRedeems
  BY DEF SameDeposits, SameRedeems, receiptVars
<1>3. ASSUME Tick \/ sign \/ UNCHANGED vars
             \/ \E cap, a : \/ rotate_keeper(cap, a) \/ initiate_admin_transfer(cap, a)
                            \/ accept_admin_transfer(a)
      PROVE  SameDeposits /\ SameRedeems
  BY <1>2, <1>3 DEF Tick, sign, vars, rotate_keeper, initiate_admin_transfer, accept_admin_transfer
<1>4. ASSUME NEW cap, NEW idle, NEW report, propose_nav(cap, idle, report)
      PROVE  SameDeposits /\ SameRedeems
  BY <1>1, <1>4 DEF propose_nav, SameDeposits, SameRedeems, receiptVars, VaultType
<1>5. ASSUME NEW cap, pause(cap) \/ arm_unpause(cap) \/ unpause(cap)
      PROVE  SameDeposits /\ SameRedeems
  <2>1. /\ \E at : vault' = [vault EXCEPT !.unpause_armed_at_ms = at]
        /\ UNCHANGED receiptVars
    BY <1>5 DEF pause, arm_unpause, unpause, receiptVars
  <2>2. QED
    BY <1>1, <2>1 DEF SameDeposits, SameRedeems, receiptVars, VaultType
<1>6. ASSUME NEW cap, NEW jump, NEW dev, NEW age,
             \/ set_nav_bounds(cap, jump, dev, age)
             \/ set_unpause_delay(cap, jump) \/ set_min_deposit(cap, jump)
      PROVE  SameDeposits /\ SameRedeems
  BY <1>1, <1>6 DEF set_nav_bounds, set_unpause_delay, set_min_deposit,
     SameDeposits, SameRedeems, receiptVars, VaultType
<1>7. Governance => SameDeposits /\ SameRedeems
  BY <1>3, <1>5, <1>6, Zenon DEF Governance
<1>8. QED
  BY <1>3, <1>4, <1>7

(* Every step keeps the receipts backed.                                    *)
LEMMA NextReceipts == ReceiptInv /\ [Next]_vars => ReceiptInv'
<1> SUFFICES ASSUME ReceiptInv, [Next]_vars
             PROVE  ReceiptInv'
  OBVIOUS
<1>0. IInv /\ vault.lp_supply \in Nat
  BY DEF ReceiptInv, IInv, TypeOK, VaultType
<1>1. IInv'
  BY <1>0, NextInv
<1>2. ASSUME Tick \/ sign \/ Governance \/ UNCHANGED vars
             \/ \E cap, idle, report : propose_nav(cap, idle, report)
      PROVE  DepositsBacked' /\ RedeemsBacked'
  BY <1>2, GovernanceBacked, SameBacked
<1>3. ASSUME Holders
      PROVE  DepositsBacked' /\ RedeemsBacked'
  <2>1. CASE \E n \in Deposits : request_deposit(n)
    BY <2>1, RequestDepositBacked, VaultAssumption
  <2>2. CASE \E n \in 1..vault.lp_supply : request_redeem(n)
    <3>1. PICK n \in 1..vault.lp_supply : request_redeem(n)
      BY <2>2
    <3>2. n \in Nat
      BY <1>0
    <3>3. QED
      BY <3>1, <3>2, RequestRedeemBacked
  <2>3. CASE \E r \in BagToSet(deposit_receipts) : claim_deposit(r)
    BY <2>3, ClaimDepositBacked
  <2>4. CASE \E r \in BagToSet(redeem_receipts) : claim_redeem(r)
    BY <2>4, ClaimRedeemBacked
  <2>5. QED
    BY <1>3, <2>1, <2>2, <2>3, <2>4 DEF Holders
<1>4. ASSUME NEW cap, approve_nav(cap, proposal_digest(signed))
      PROVE  DepositsBacked' /\ RedeemsBacked'
  BY <1>4, ApproveDeposits, ApproveRedeems
<1>5. DepositsBacked' /\ RedeemsBacked'
  BY <1>2, <1>3, <1>4 DEF Next, Valuations
<1>6. QED
  BY <1>1, <1>5 DEF ReceiptInv

(* The receipts are backed in every state of every behaviour.               *)
THEOREM ReceiptInvariance == Spec => []ReceiptInv
  BY InitReceipts, NextReceipts, PTL DEF Spec

(* Whatever is requested, replaced and approved, by any number of holders,  *)
(* the next approval prices exactly what the open receipts promise.         *)
THEOREM OpenReceiptsBacked == Spec => []RequestsBacked
<1>1. ReceiptInv => RequestsBacked
  <2> SUFFICES ASSUME ReceiptInv
               PROVE  RequestsBacked
    OBVIOUS
  <2>1. /\ FiniteBag(deposit_receipts) /\ FiniteBag(redeem_receipts)
        /\ BagToSet(deposit_receipts) \subseteq DepositReceipt
        /\ BagToSet(redeem_receipts) \subseteq RedeemReceipt
        /\ vault.pending_deposit = vault.pending_deposit_assets
        /\ vault.redeem_escrow = vault.pending_redeem_shares
    BY DEF ReceiptInv, IInv, TypeOK, CountersMatch, DepositsBacked, RedeemsBacked
  <2>2. total_assets_of(vault.epoch) = BagWeight(Brought, deposit_receipts, DepositsOf(vault.epoch))
    <3> DEFINE f == [r \in BagToSet(deposit_receipts) |-> r.assets_sats * deposit_receipts[r]]
               S == {r \in BagToSet(deposit_receipts) : r.epoch = vault.epoch}
    <3>1. S = DOMAIN deposit_receipts \cap DepositsOf(vault.epoch)
      BY <2>1 DEF BagToSet, DepositsOf
    <3>2. \A r \in S : f[r] = Brought[r] * deposit_receipts[r]
      BY <2>1 DEF Brought
    <3> HIDE DEF f, S
    <3>3. SumFunctionOnSet(f, S) = BagWeight(Brought, deposit_receipts, DepositsOf(vault.epoch))
      BY <2>1, <3>1, <3>2, WeighsAs
    <3>4. QED
      BY <3>3 DEF total_assets_of, f, S
  <2>3. total_shares_of(vault.epoch) = BagWeight(Returned, redeem_receipts, RedeemsOf(vault.epoch))
    <3> DEFINE f == [r \in BagToSet(redeem_receipts) |-> r.shares * redeem_receipts[r]]
               S == {r \in BagToSet(redeem_receipts) : r.epoch = vault.epoch}
    <3>1. S = DOMAIN redeem_receipts \cap RedeemsOf(vault.epoch)
      BY <2>1 DEF BagToSet, RedeemsOf
    <3>2. \A r \in S : f[r] = Returned[r] * redeem_receipts[r]
      BY <2>1 DEF Returned
    <3> HIDE DEF f, S
    <3>3. SumFunctionOnSet(f, S) = BagWeight(Returned, redeem_receipts, RedeemsOf(vault.epoch))
      BY <2>1, <3>1, <3>2, WeighsAs
    <3>4. QED
      BY <3>3 DEF total_shares_of, f, S
  <2>4. QED
    BY <2>1, <2>2, <2>3 DEF ReceiptInv, DepositsBacked, RedeemsBacked, RequestsBacked
<1>2. QED
  BY ReceiptInvariance, <1>1, PTL

(* Every receipt of every priced epoch can be claimed, in any order and at  *)
(* any time: what all of them are due is still to be minted, or set aside.  *)
THEOREM ClaimsAlwaysPay == Spec => []EveryClaimPays
<1>1. ReceiptInv => EveryClaimPays
  <2> SUFFICES ASSUME ReceiptInv
               PROVE  EveryClaimPays
    OBVIOUS
  <2> DEFINE deposits == {r \in BagToSet(deposit_receipts) : priced(r)}
             redeems == {r \in BagToSet(redeem_receipts) : priced(r)}
  <2>1. /\ FiniteBag(deposit_receipts) /\ FiniteBag(redeem_receipts)
        /\ BagToSet(deposit_receipts) \subseteq DepositReceipt
        /\ BagToSet(redeem_receipts) \subseteq RedeemReceipt
    BY DEF ReceiptInv, IInv, TypeOK, DepositsBacked, RedeemsBacked
  <2>2. SumFunctionOnSet([r \in deposits |-> shares_for(r) * deposit_receipts[r]], deposits)
          = BagWeight(SharesDue, deposit_receipts, DepositsBefore(vault.epoch))
    <3> DEFINE f == [r \in deposits |-> shares_for(r) * deposit_receipts[r]]
    <3>1. deposits = DOMAIN deposit_receipts \cap DepositsBefore(vault.epoch)
      BY <2>1 DEF BagToSet, DepositsBefore, priced
    <3>2. \A r \in deposits : f[r] = SharesDue[r] * deposit_receipts[r]
      BY <2>1 DEF SharesDue
    <3> HIDE DEF f, deposits
    <3>3. QED
      BY <2>1, <3>1, <3>2, WeighsAs DEF f
  <2>3. SumFunctionOnSet([r \in redeems |-> assets_for(r) * redeem_receipts[r]], redeems)
          = BagWeight(AssetsDue, redeem_receipts, RedeemsBefore(vault.epoch))
    <3> DEFINE f == [r \in redeems |-> assets_for(r) * redeem_receipts[r]]
    <3>1. redeems = DOMAIN redeem_receipts \cap RedeemsBefore(vault.epoch)
      BY <2>1 DEF BagToSet, RedeemsBefore, priced
    <3>2. \A r \in redeems : f[r] = AssetsDue[r] * redeem_receipts[r]
      BY <2>1 DEF AssetsDue
    <3> HIDE DEF f, redeems
    <3>3. QED
      BY <2>1, <3>1, <3>2, WeighsAs DEF f
  <2>4. /\ \A r \in deposits : price_of_epoch(r.epoch).nav_assets > 0
        /\ \A r \in redeems : price_of_epoch(r.epoch).nav_supply > 0
        /\ BagWeight(SharesDue, deposit_receipts, DepositsBefore(vault.epoch))
              <= vault.unminted_shares
        /\ BagWeight(AssetsDue, redeem_receipts, RedeemsBefore(vault.epoch)) <= vault.claimable
    BY DEF ReceiptInv, DepositsBacked, RedeemsBacked
  <2>5. QED
    BY <2>2, <2>3, <2>4 DEF EveryClaimPays
<1>2. QED
  BY ReceiptInvariance, <1>1, PTL

(* Whoever signs what and whenever the keeper replaces its proposal, only   *)
(* the numbers that were signed, for this epoch and in time, are approved.  *)
THEOREM OnlyTheSignedIsApproved == Spec => ApprovesWhatWasSigned
<1> DEFINE A == vault'.epoch # vault.epoch =>
          /\ signed # None /\ signed.epoch = vault.epoch
          /\ now - signed.proposed_at_ms <= vault.params.max_proposal_age_ms
          /\ vault'.deployed_sats = signed.report.deployed_sats
          /\ vault'.in_flight_sats = signed.report.in_flight_sats
          /\ vault'.native_btc_sats = signed.report.native_btc_sats
          /\ vault.committed_supply > 0 => vault'.last.nav_assets = nav_assets_of(signed)
<1>1. ReceiptInv /\ [Next]_vars => [A]_vars
  <2> SUFFICES ASSUME ReceiptInv, Next, vault'.epoch # vault.epoch
               PROVE  A
    OBVIOUS
  <2>1. vault \in VaultType /\ vault.committed_supply \in Nat
    BY DEF ReceiptInv, IInv, TypeOK, VaultType
  <2>2. ~ SameDeposits
    BY DEF SameDeposits
  <2>3. ~ Holders
    BY <2>1 DEF Holders, request_deposit, request_redeem, claim_deposit, claim_redeem, VaultType
  <2>4. PICK cap : signed # None /\ approve_nav(cap, proposal_digest(signed))
    BY <2>2, <2>3, GovernanceBacked DEF Next, Valuations
  <2>5. /\ vault' = approved(vault.proposal)
        /\ vault.proposal = signed
        /\ signed.epoch = vault.epoch
        /\ now - signed.proposed_at_ms <= vault.params.max_proposal_age_ms
    BY <2>4 DEF approve_nav, approvable, pinned, proposal_digest
  <2>6. /\ vault'.deployed_sats = signed.report.deployed_sats
        /\ vault'.in_flight_sats = signed.report.in_flight_sats
        /\ vault'.native_btc_sats = signed.report.native_btc_sats
        /\ vault'.last = price_of(signed)
    BY <2>1, <2>5 DEF approved, VaultType
  <2>7. vault.committed_supply > 0 => vault'.last.nav_assets = nav_assets_of(signed)
    BY <2>1, <2>6 DEF price_of
  <2>8. QED
    BY <2>4, <2>5, <2>6, <2>7
<1>2. Spec => [][A]_vars
  BY ReceiptInvariance, <1>1, PTL DEF Spec
<1>3. QED
  BY <1>2 DEF ApprovesWhatWasSigned

-----------------------------------------------------------------------------
AnySecret == 0 .. MaxNotes

(* What an event of the log may be.                                         *)
Leaves == {[commitment |-> commitment(d, s), denom |-> paid] :
              d \in Tiers, s \in AnySecret, paid \in Tiers}

Logged == noteLog \in Seq(Leaves)

(* Every tag names a leaf.                                                  *)
Tags(log) == {nullifier(s, i - 1) : s \in AnySecret, i \in DOMAIN log}
Tagged == nulls \subseteq Tags(noteLog)

(* What a leaf adds to the custody: what was paid for it, less its worth if *)
(* it is spent.                                                             *)
Kept(log, un) ==
    [i \in DOMAIN log |->
        Ladder[log[i].denom] - (IF i \in un THEN 0 ELSE Ladder[log[i].commitment[2]])]

CustodyKept == noteCustody = SumOf(Kept(noteLog, Unspent), DOMAIN noteLog)

Ledger == Logged /\ Tagged /\ CustodyKept

(* In this log, with these tiers chosen: the leaf carries the commitment of *)
(* note s, if it names one at all.                                          *)
Known(log, m, leaf, s) ==
    leaf = NoLeaf \/ ( /\ leaf \in Nat /\ leaf + 1 \in DOMAIN log
                       /\ log[leaf + 1].commitment = commitment(m[s], s))

DepositFields == {"kind", "at", "note", "page"}
SpendFields == {"kind", "at", "note", "page", "leaf", "root", "path"}

IsDeposit(op) == DOMAIN op = DepositFields /\ op.kind = "deposit"
IsSpend(log, m, op) ==
    /\ DOMAIN op = SpendFields /\ op.kind = "spend"
    /\ op.at \in {"leaves", "sent", "confirming"}
    /\ Known(log, m, op.leaf, op.note)
    /\ op.at # "leaves" => op.leaf # NoLeaf

OpOK(log, m, op) ==
    op = Idle \/ (op.note \in DOMAIN m /\ (IsDeposit(op) \/ IsSpend(log, m, op)))

(* What the browser keeps.                                                  *)
Stored == [held : BOOLEAN, leaf : Int, spent : BOOLEAN]

WalletOK(log, m, w) ==
    /\ w \in Seq(Stored) /\ Len(w) = Len(m)
    /\ \A s \in DOMAIN w : Known(log, m, w[s].leaf, s)

MintedOK == minted \in Seq(Tiers) /\ Len(minted) <= MaxNotes

OpsOK ==
    /\ ops = [slot \in Slots |-> ops[slot]]
    /\ \A slot \in Slots : OpOK(noteLog, minted, ops[slot])

PanelOK ==
    /\ mirrored \in 0 .. Len(noteLog)
    /\ MintedOK
    /\ WalletOK(noteLog, minted, wallet)
    /\ fresh \in 0 .. Len(minted)
    /\ OpsOK

(* The inductive invariant.                                                 *)
NotesIInv == Ledger /\ PanelOK

-----------------------------------------------------------------------------
(* The ledger. *)

(* What an event of the log says.                                           *)
LEMMA LeafFacts ==
    ASSUME Logged, NEW i \in DOMAIN noteLog
    PROVE  /\ noteLog[i].denom \in Tiers /\ noteLog[i].commitment[2] \in Tiers
           /\ noteLog[i].commitment[3] \in AnySecret
           /\ noteLog[i].commitment =
                  commitment(noteLog[i].commitment[2], noteLog[i].commitment[3])
<1>1. noteLog[i] \in Leaves
  BY DEF Logged
<1>2. PICK d \in Tiers, s \in AnySecret, paid \in Tiers :
        noteLog[i] = [commitment |-> commitment(d, s), denom |-> paid]
  BY <1>1 DEF Leaves
<1>3. noteLog[i].denom = paid /\ noteLog[i].commitment = commitment(d, s)
  BY <1>2
<1>4. commitment(d, s)[2] = d /\ commitment(d, s)[3] = s
  BY DEF commitment
<1>5. QED
  BY <1>3, <1>4

(* Two notes have one tag only if they have one secret and one leaf.        *)
LEMMA TagsDiffer ==
    ASSUME NEW s, NEW i, NEW r, NEW j, nullifier(s, i) = nullifier(r, j)
    PROVE  s = r /\ i = j
  BY DEF nullifier

(* Leaves are finite in number; each was paid, and is worth, a natural.     *)
LEMMA LeavesCount ==
    ASSUME Logged
    PROVE  /\ DOMAIN noteLog = 1..Len(noteLog) /\ Len(noteLog) \in Nat
           /\ IsFiniteSet(DOMAIN noteLog)
           /\ \A i \in DOMAIN noteLog :
                 /\ Ladder[noteLog[i].denom] \in Nat
                 /\ Ladder[noteLog[i].commitment[2]] \in Nat
<1>1. DOMAIN noteLog = 1..Len(noteLog) /\ Len(noteLog) \in Nat
  BY DEF Logged
<1>2. IsFiniteSet(1..Len(noteLog))
  BY <1>1, FS_Interval
<1>3. ASSUME NEW i \in DOMAIN noteLog
      PROVE  Ladder[noteLog[i].denom] \in Nat /\ Ladder[noteLog[i].commitment[2]] \in Nat
  <2>1. noteLog[i].denom \in DOMAIN Ladder /\ noteLog[i].commitment[2] \in DOMAIN Ladder
    BY LeafFacts DEF Tiers
  <2>2. QED
    BY <2>1, PanelAssumption
<1>4. QED
  BY <1>1, <1>2, <1>3

(* So what it adds to the custody is an integer, which is what was paid for *)
(* it while it is unspent.                                                  *)
LEMMA KeptInt ==
    ASSUME NEW log, NEW un, NEW i \in DOMAIN log,
           Ladder[log[i].denom] \in Nat, Ladder[log[i].commitment[2]] \in Nat
    PROVE  /\ Kept(log, un)[i] \in Int
           /\ i \in un => Kept(log, un)[i] = Ladder[log[i].denom]
           /\ i \notin un =>
                 Kept(log, un)[i] = Ladder[log[i].denom] - Ladder[log[i].commitment[2]]
<1> DEFINE a == Ladder[log[i].denom]
           b == Ladder[log[i].commitment[2]]
<1>1. Kept(log, un)[i] = a - (IF i \in un THEN 0 ELSE b)
  BY DEF Kept
<1>2. a \in Nat /\ b \in Nat
  OBVIOUS
<1> HIDE DEF a, b
<1>3. i \notin un => Kept(log, un)[i] = a - b
  BY <1>1, <1>2
<1>4. Kept(log, un)[i] \in Int
  BY <1>1, <1>2
<1>5. i \in un => Kept(log, un)[i] = a
  BY <1>1, <1>2
<1>6. QED
  BY <1>3, <1>4, <1>5 DEF a, b

(* The leaf of a deposit joins the log.                                     *)
Grown(leaf) == noteLog' = Append(noteLog, leaf)

(* A leaf that joins is unspent, and adds what came in for it.              *)
LEMMA DepositBacks ==
    ASSUME Ledger, NEW paid \in Tiers, NEW d \in Tiers, NEW s \in AnySecret,
           escrow_deposit_note(paid, commitment(d, s))
    PROVE  Ledger' /\ Grown([commitment |-> commitment(d, s), denom |-> paid])
<1> DEFINE leaf == [commitment |-> commitment(d, s), denom |-> paid]
           n == Len(noteLog)
           D == DOMAIN noteLog
           f == Kept(noteLog, Unspent)
           g == Kept(noteLog', Unspent')
<1>1. /\ noteLog' = Append(noteLog, leaf) /\ nulls' = nulls
      /\ noteCustody' = noteCustody + Ladder[paid]
  BY DEF escrow_deposit_note
<1>2. leaf \in Leaves
  BY DEF Leaves
<1>3. leaf.denom = paid /\ leaf.commitment[2] = d /\ leaf.commitment[3] = s
  BY DEF commitment
<1> HIDE DEF leaf
<1>4. Logged'
  BY <1>1, <1>2 DEF Ledger, Logged
<1>5. /\ n \in Nat /\ D = 1..n /\ DOMAIN noteLog' = 1..(n + 1)
      /\ noteLog'[n + 1] = leaf /\ \A i \in 1..n : noteLog'[i] = noteLog[i]
  BY <1>1, <1>2 DEF Ledger, Logged
<1>6. Tagged'
  <2> SUFFICES ASSUME NEW t \in nulls
               PROVE  t \in Tags(noteLog')
    BY <1>1 DEF Tagged
  <2>1. PICK r \in AnySecret, i \in DOMAIN noteLog : t = nullifier(r, i - 1)
    BY DEF Ledger, Tagged, Tags
  <2>2. i \in DOMAIN noteLog'
    BY <1>5, <2>1
  <2>3. QED
    BY <2>1, <2>2 DEF Tags
<1>7. nullifier(s, n) \notin nulls
  <2> SUFFICES ASSUME nullifier(s, n) \in nulls
               PROVE  FALSE
    OBVIOUS
  <2>1. PICK r \in AnySecret, i \in DOMAIN noteLog : nullifier(s, n) = nullifier(r, i - 1)
    BY DEF Ledger, Tagged, Tags
  <2>2. n = i - 1
    BY <2>1, TagsDiffer
  <2>3. QED
    BY <1>5, <2>1, <2>2
<1>8. n + 1 \in Unspent'
  <2>1. (n + 1) - 1 = n /\ n + 1 \in DOMAIN noteLog' /\ noteLog'[n + 1].commitment[3] = s
    BY <1>3, <1>5
  <2>2. QED
    BY <1>1, <1>7, <2>1 DEF Unspent
<1>9. \A i \in D : i \in Unspent' <=> i \in Unspent
  <2>1. \A i \in D : i \in DOMAIN noteLog' /\ noteLog'[i] = noteLog[i]
    BY <1>5
  <2>2. QED
    BY <1>1, <2>1 DEF Unspent
<1>10. DOMAIN noteLog' = D \cup {n + 1} /\ n + 1 \notin D
  BY <1>5
<1>11. Ladder[paid] \in Nat /\ Ladder[d] \in Nat
  BY PanelAssumption DEF Tiers
<1>12. /\ IsFiniteSet(D)
       /\ \A i \in D : Ladder[noteLog[i].denom] \in Nat
                       /\ Ladder[noteLog[i].commitment[2]] \in Nat
  BY LeavesCount DEF Ledger
<1>13. \A i \in D : f[i] \in Int /\ g[i] = f[i]
  <2>1. TAKE i \in D
  <2>2. f[i] \in Int
    BY <1>12, KeptInt
  <2>3. noteLog'[i] = noteLog[i] /\ i \in DOMAIN noteLog' /\ (i \in Unspent' <=> i \in Unspent)
    BY <1>5, <1>9
  <2>4. g[i] = f[i]
    BY <2>3 DEF Kept
  <2>5. QED
    BY <2>2, <2>4
<1>14. g[n + 1] = Ladder[paid]
  <2>1. noteLog'[n + 1].denom = paid /\ noteLog'[n + 1].commitment[2] = d
        /\ n + 1 \in DOMAIN noteLog'
    BY <1>3, <1>5
  <2> DEFINE k == n + 1
             log == noteLog'
             un == Unspent'
  <2>2. k \in DOMAIN log /\ Ladder[log[k].denom] \in Nat /\ Ladder[log[k].commitment[2]] \in Nat
        /\ k \in un /\ log[k].denom = paid
    BY <1>8, <1>11, <2>1
  <2> HIDE DEF k, log, un
  <2>3. Kept(log, un)[k] = Ladder[log[k].denom]
    BY <2>2, KeptInt
  <2>4. QED
    BY <2>2, <2>3 DEF k, log, un
<1>15. noteCustody = SumOf(f, D) /\ (CustodyKept' <=> noteCustody' = SumOf(g, D \cup {n + 1}))
  BY <1>10 DEF Ledger, CustodyKept
<1> DEFINE k == n + 1
<1> HIDE DEF f, g, D, n, k
<1>16. SumOf(g, D \cup {k}) = Ladder[paid] + SumOf(f, D) /\ SumOf(f, D) \in Int
  <2>1. \A i \in D \cup {k} : g[i] \in Int
    BY <1>11, <1>13, <1>14 DEF k
  <2>2. SumOf(g, D \cup {k}) = g[k] + SumOf(g, D)
    BY <1>10, <1>12, <2>1, SumPutsIn DEF k
  <2>3. SumOf(g, D) = SumOf(f, D)
    BY <1>12, <1>13, SumSame
  <2>4. SumOf(f, D) \in Int
    BY <1>12, <1>13, SumInt
  <2>5. QED
    BY <1>14, <2>2, <2>3, <2>4 DEF k
<1>17. CustodyKept'
  BY <1>1, <1>11, <1>15, <1>16 DEF k
<1>18. QED
  BY <1>1, <1>4, <1>6, <1>17 DEF Ledger, Grown, leaf

(* A spend takes its leaf's worth, which is what the commitment says.       *)
LEMMA SpendBacks ==
    ASSUME Ledger, NEW d \in Tiers, NEW s \in AnySecret, NEW l \in Nat, NEW path,
           l + 1 \in DOMAIN noteLog, noteLog[l + 1].commitment = commitment(d, s),
           escrow_spend_note(d, s, l, path)
    PROVE  Ledger' /\ UNCHANGED noteLog
<1> DEFINE D == DOMAIN noteLog
           f == Kept(noteLog, Unspent)
           g == Kept(noteLog, Unspent')
           k == l + 1
<1>1. /\ noteLog' = noteLog /\ nulls' = nulls \cup {nullifier(s, l)}
      /\ noteCustody' = noteCustody - Ladder[d] /\ nullifier(s, l) \notin nulls
  BY DEF escrow_spend_note, spendAllowed
<1>2. Logged'
  BY <1>1 DEF Ledger, Logged
<1>3. k \in D /\ noteLog[k].commitment[2] = d /\ noteLog[k].commitment[3] = s /\ k - 1 = l
  BY DEF commitment
<1>4. Tagged'
  <2>1. nullifier(s, l) \in Tags(noteLog)
    BY <1>3 DEF Tags
  <2>2. QED
    BY <1>1, <2>1 DEF Ledger, Tagged
<1>5. k \in Unspent /\ k \notin Unspent'
  BY <1>1, <1>3 DEF Unspent
<1>6. ASSUME NEW i \in D, i # k
      PROVE  i \in Unspent' <=> i \in Unspent
  <2>1. i \in Nat /\ k \in Nat
    BY LeavesCount DEF Ledger
  <2>2. i - 1 # l
    BY <1>6, <2>1
  <2>3. nullifier(noteLog[i].commitment[3], i - 1) # nullifier(s, l)
    BY <2>2, TagsDiffer
  <2>4. QED
    BY <1>1, <2>3 DEF Unspent
<1>7. /\ IsFiniteSet(D)
      /\ \A i \in D : Ladder[noteLog[i].denom] \in Nat
                      /\ Ladder[noteLog[i].commitment[2]] \in Nat
  BY LeavesCount DEF Ledger
<1>8. \A i \in D : f[i] \in Int
  BY <1>7, KeptInt
<1>9. \A i \in D : g[i] \in Int
  <2> DEFINE un == Unspent'
  <2> HIDE DEF un
  <2>1. \A i \in D : Kept(noteLog, un)[i] \in Int
    BY <1>7, KeptInt
  <2>2. QED
    BY <2>1 DEF un
<1>10. \A i \in D \ {k} : g[i] = f[i]
  BY <1>6 DEF Kept
<1>11. g[k] = f[k] - Ladder[d] /\ Ladder[d] \in Nat
  <2> DEFINE un == Unspent'
             a == Ladder[noteLog[k].denom]
  <2>1. a \in Nat /\ Ladder[d] \in Nat /\ k \in D /\ k \notin un
    BY <1>3, <1>5, <1>7
  <2> HIDE DEF un, k
  <2>2. f[k] = a
    BY <1>5, <1>7, <2>1, KeptInt
  <2>3. Kept(noteLog, un)[k] = a - Ladder[noteLog[k].commitment[2]]
    BY <1>7, <2>1, KeptInt
  <2>4. Kept(noteLog, un)[k] = f[k] - Ladder[d]
    BY <1>3, <2>2, <2>3
  <2>5. QED
    BY <2>1, <2>4 DEF un
<1>12. noteCustody = SumOf(f, D) /\ (CustodyKept' <=> noteCustody' = SumOf(g, D))
  BY <1>1 DEF Ledger, CustodyKept
<1> HIDE DEF f, g, D, k
<1>13. SumOf(f, D) = f[k] + SumOf(f, D \ {k}) /\ SumOf(g, D) = g[k] + SumOf(g, D \ {k})
  BY <1>3, <1>7, <1>8, <1>9, SumTakesOut
<1>14. SumOf(g, D \ {k}) = SumOf(f, D \ {k}) /\ SumOf(f, D \ {k}) \in Int /\ f[k] \in Int
  <2>1. IsFiniteSet(D \ {k})
    BY <1>7, FS_Subset
  <2>2. \A i \in D \ {k} : f[i] \in Int /\ g[i] = f[i]
    BY <1>8, <1>10
  <2>3. SumOf(g, D \ {k}) = SumOf(f, D \ {k})
    BY <2>1, <2>2, SumSame
  <2>4. SumOf(f, D \ {k}) \in Int
    BY <2>1, <2>2, SumInt
  <2>5. QED
    BY <1>3, <1>8, <2>3, <2>4
<1>15. CustodyKept'
  BY <1>1, <1>11, <1>12, <1>13, <1>14
<1>16. QED
  BY <1>1, <1>2, <1>4, <1>15 DEF Ledger

(* When every leaf was paid its worth, what one adds is its worth while it  *)
(* is unspent and nothing after.                                            *)
LEMMA KeptIsBacking ==
    ASSUME Ledger
    PROVE  BackingExact
<1> DEFINE D == DOMAIN noteLog
           f == Kept(noteLog, Unspent)
           h == [i \in D |-> IF i \in Unspent THEN WorthOf(i) ELSE 0]
<1>1. f = [i \in D |-> PaidIn(i) - (IF i \in Unspent THEN 0 ELSE WorthOf(i))]
  BY DEF Kept, PaidIn, WorthOf
<1>2. noteCustody = SumOf(f, D)
  BY DEF Ledger, CustodyKept
<1>3. /\ IsFiniteSet(D)
      /\ \A i \in D : PaidIn(i) \in Nat /\ WorthOf(i) \in Nat
  BY LeavesCount DEF Ledger, PaidIn, WorthOf
<1>4. ASSUME PaidInFull
      PROVE  SumOf(f, D) = SumOf(h, D)
  <2>1. ASSUME NEW i \in D
        PROVE  f[i] = h[i]
    <3>1. PaidIn(i) = WorthOf(i) /\ PaidIn(i) \in Nat
      BY <1>3, <1>4 DEF PaidInFull
    <3>2. f[i] = PaidIn(i) - (IF i \in Unspent THEN 0 ELSE WorthOf(i))
      BY <1>1
    <3>3. h[i] = IF i \in Unspent THEN WorthOf(i) ELSE 0
      OBVIOUS
    <3> HIDE DEF f, h
    <3>4. QED
      BY <3>1, <3>2, <3>3
  <2> HIDE DEF f, h, D
  <2>2. QED
    BY <1>3, <2>1, SumSame
<1>5. QED
  BY <1>1, <1>2, <1>4 DEF BackingExact, SumOf

-----------------------------------------------------------------------------
(* The panel. *)

(* What f says, g says.                                                     *)
Keeps(f, g) == \A i \in DOMAIN f : i \in DOMAIN g /\ g[i] = f[i]

(* A leaf looked up once still carries the commitment: the log only grows.  *)
LEMMA KnownStays ==
    ASSUME NEW log, NEW log2, NEW m, NEW m2, Keeps(log, log2), Keeps(m, m2),
           NEW l, NEW s \in DOMAIN m, Known(log, m, l, s)
    PROVE  Known(log2, m2, l, s)
  BY DEF Known, Keeps

(* So a handler in flight stays what it was.                                *)
LEMMA OpStays ==
    ASSUME NEW log, NEW log2, NEW m, NEW m2, Keeps(log, log2), Keeps(m, m2),
           NEW op, OpOK(log, m, op)
    PROVE  OpOK(log2, m2, op)
<1>1. CASE op = Idle
  BY <1>1 DEF OpOK
<1>2. CASE op.note \in DOMAIN m /\ IsDeposit(op)
  BY <1>2 DEF OpOK, Keeps
<1>3. CASE op.note \in DOMAIN m /\ IsSpend(log, m, op)
  <2>1. Known(log2, m2, op.leaf, op.note)
    BY <1>3, KnownStays DEF IsSpend
  <2>2. IsSpend(log2, m2, op)
    BY <1>3, <2>1 DEF IsSpend
  <2>3. QED
    BY <1>3, <2>2 DEF OpOK, Keeps
<1>4. QED
  BY <1>1, <1>2, <1>3 DEF OpOK

(* And so does what the note wallet has recorded.                           *)
LEMMA WalletStays ==
    ASSUME NEW log, NEW log2, NEW m, Keeps(log, log2), NEW w, WalletOK(log, m, w)
    PROVE  WalletOK(log2, m, w)
  <1>1. Keeps(m, m)
    BY DEF Keeps
  <1>2. ASSUME NEW s \in DOMAIN w
        PROVE  Known(log2, m, w[s].leaf, s)
    <2>1. Known(log, m, w[s].leaf, s)
      BY DEF WalletOK
    <2>2. QED
      BY <2>1 DEF Known, Keeps
  <1>3. QED
    BY <1>2 DEF WalletOK

(* One slot changes hands, the other keeps its handler.                     *)
LEMMA OneOp ==
    ASSUME OpsOK, Keeps(noteLog, noteLog'), Keeps(minted, minted'),
           NEW slot \in Slots, NEW op, OpOK(noteLog', minted', op),
           ops' = [ops EXCEPT ![slot] = op]
    PROVE  OpsOK'
<1>1. ops' = [x \in Slots |-> ops'[x]]
  BY DEF OpsOK
<1>2. ASSUME NEW x \in Slots
      PROVE  OpOK(noteLog', minted', ops'[x])
  <2>1. CASE x = slot
    <3>1. ops'[x] = op
      BY <2>1 DEF OpsOK
    <3>2. QED
      BY <3>1
  <2>2. CASE x # slot
    <3>1. ops'[x] = ops[x] /\ OpOK(noteLog, minted, ops[x])
      BY <2>2 DEF OpsOK
    <3>2. QED
      BY <3>1, OpStays
  <2>3. QED
    BY <2>1, <2>2
<1>3. QED
  BY <1>1, <1>2 DEF OpsOK

(* No handler moved.                                                        *)
LEMMA OpsStay ==
    ASSUME OpsOK, Keeps(noteLog, noteLog'), Keeps(minted, minted'), UNCHANGED ops
    PROVE  OpsOK'
<1>1. ASSUME NEW x \in Slots
      PROVE  OpOK(noteLog', minted', ops'[x])
  <2>1. OpOK(noteLog, minted, ops[x]) /\ ops'[x] = ops[x]
    BY DEF OpsOK
  <2>2. QED
    BY <2>1, OpStays
<1>2. QED
  BY <1>1 DEF OpsOK

(* A slot that is free is one.                                              *)
LEMMA FreeSlot ==
    ASSUME freeSlots # {}
    PROVE  Min(freeSlots) \in Slots
<1>1. IsFiniteSet(Slots)
  <2>1. IsFiniteSet({1})
    BY FS_Singleton
  <2>2. IsFiniteSet({1} \cup {2})
    BY <2>1, FS_AddElement
  <2>3. Slots = {1} \cup {2}
    BY DEF Slots
  <2>4. QED
    BY <2>2, <2>3
<1>2. freeSlots \in SUBSET Slots /\ Slots \subseteq Int
  BY DEF freeSlots, Slots
<1>3. IsFiniteSet(freeSlots)
  BY <1>1, <1>2, FS_Subset
<1>4. QED
  BY <1>2, <1>3, MinOfSet

(* The first leaf the mirror shows for a note carries its commitment.       *)
LEMMA LeafOfKnown ==
    ASSUME Logged, mirrored \in 0 .. Len(noteLog), NEW s
    PROVE  Known(noteLog, minted, leafOf(s), s)
<1> DEFINE at == {i \in DOMAIN readNoteLeaves : readNoteLeaves[i] = commitmentOf(s)}
<1>1. CASE at = {}
  BY <1>1 DEF leafOf, Known
<1>2. CASE at # {}
  <2>1. noteLog \in Seq(Leaves) /\ mirrored \in Nat /\ mirrored <= Len(noteLog)
    BY DEF Logged
  <2>2. /\ DOMAIN SubSeq(noteLog, 1, mirrored) = 1..mirrored
        /\ \A i \in 1..mirrored : SubSeq(noteLog, 1, mirrored)[i] = noteLog[i]
    BY <2>1
  <2>3. /\ DOMAIN readNoteLeaves = 1..mirrored
        /\ \A i \in 1..mirrored : readNoteLeaves[i] = noteLog[i].commitment
    BY <2>2 DEF readNoteLeaves, Commitments
  <2>4. at \in SUBSET (1..mirrored)
    BY <2>3
  <2>5. IsFiniteSet(at) /\ at \subseteq Int
    <3>1. IsFiniteSet(1..mirrored)
      BY <2>1, FS_Interval
    <3>2. 1..mirrored \subseteq Int
      OBVIOUS
    <3> HIDE DEF at
    <3>3. QED
      BY <2>4, <3>1, <3>2, FS_Subset
  <2>6. Min(at) \in at
    <3> HIDE DEF at
    <3>1. QED
      BY <1>2, <2>5, MinOfSet
  <2> DEFINE k == Min(at)
  <2>7. k \in 1..mirrored /\ noteLog[k].commitment = commitment(minted[s], s)
    BY <2>3, <2>4, <2>6 DEF commitmentOf
  <2>8. leafOf(s) = k - 1
    BY <1>2 DEF leafOf
  <2> HIDE DEF k
  <2>9. k - 1 \in Nat /\ (k - 1) + 1 = k /\ k \in DOMAIN noteLog
    BY <2>1, <2>7
  <2>10. QED
    BY <2>7, <2>8, <2>9 DEF Known
<1>3. QED
  BY <1>1, <1>2

-----------------------------------------------------------------------------
(* Steps. *)

(* What is left alone is kept.                                              *)
LEMMA KeepsAll ==
    ASSUME NEW f
    PROVE  Keeps(f, f)
  BY DEF Keeps

(* What is appended to is kept.                                             *)
LEMMA KeepsAppended ==
    ASSUME NEW S, NEW f \in Seq(S), NEW x \in S
    PROVE  Keeps(f, Append(f, x))
  BY DEF Keeps

(* Nothing happened to the ledger.                                          *)
LEMMA LedgerStays ==
    ASSUME Ledger, UNCHANGED chain
    PROVE  Ledger' /\ noteLog' = noteLog
  BY DEF Ledger, Logged, Tagged, CustodyKept, Unspent, chain

(* Nothing happened to what the browser keeps.                              *)
SameBrowser == UNCHANGED <<mirrored, minted, wallet, fresh>>

(* A step of one handler, which the ledger may have moved with.             *)
LEMMA HandlerStep ==
    ASSUME NotesIInv, Ledger', Keeps(noteLog, noteLog'), noteLog' \in Seq(Leaves),
           Len(noteLog') >= Len(noteLog), SameBrowser,
           NEW slot \in Slots, NEW op, OpOK(noteLog', minted', op),
           ops' = [ops EXCEPT ![slot] = op]
    PROVE  NotesIInv'
<1>1. Keeps(minted, minted') /\ minted' = minted
  BY KeepsAll DEF SameBrowser
<1>2. OpsOK'
  BY <1>1, OneOp DEF NotesIInv, PanelOK
<1>3. WalletOK(noteLog', minted', wallet')
  BY <1>1, WalletStays DEF NotesIInv, PanelOK, SameBrowser
<1>4. mirrored' \in 0 .. Len(noteLog') /\ fresh' \in 0 .. Len(minted') /\ MintedOK'
  <2>1. mirrored \in 0 .. Len(noteLog) /\ Len(noteLog) \in Nat /\ Len(noteLog') \in Nat
    BY DEF NotesIInv, PanelOK, Ledger, Logged
  <2>2. QED
    BY <1>1, <2>1 DEF NotesIInv, PanelOK, SameBrowser, MintedOK
<1>5. QED
  BY <1>2, <1>3, <1>4 DEF NotesIInv, PanelOK

(* A slot is free again.                                                    *)
LEMMA IdleIsOK ==
    ASSUME NEW log, NEW m
    PROVE  OpOK(log, m, Idle)
  BY DEF OpOK

(* Whatever else of the panel moved, the chain and the browser did not.     *)
LEMMA NothingKept ==
    ASSUME NotesIInv, UNCHANGED chain, SameBrowser, UNCHANGED ops
    PROVE  NotesIInv'
<1>1. Ledger' /\ noteLog' = noteLog /\ minted' = minted
  BY LedgerStays DEF NotesIInv, SameBrowser
<1>2. OpsOK'
  BY <1>1, OpsStay, KeepsAll DEF NotesIInv, PanelOK
<1>3. QED
  BY <1>1, <1>2 DEF NotesIInv, PanelOK, SameBrowser, MintedOK

(* The answer comes, is lost, or nobody waits for it.                       *)
LEMMA LandedOps ==
    ASSUME OpsOK, NEW slot \in Slots, ops[slot].at = "sent", ops[slot] # Idle, landed(slot)
    PROVE  \E op : ops' = [ops EXCEPT ![slot] = op] /\ OpOK(noteLog, minted, op)
<1> DEFINE op == [ops[slot] EXCEPT !.at = "confirming"]
<1>1. OpOK(noteLog, minted, ops[slot])
  BY DEF OpsOK
<1>2. CASE ops' = [ops EXCEPT ![slot].at = "confirming"]
  <2>1. ops' = [ops EXCEPT ![slot] = op]
    BY <1>2 DEF OpsOK
  <2>2. CASE ops[slot].note \in DOMAIN minted /\ IsDeposit(ops[slot])
    <3>1. DOMAIN op = DepositFields /\ op.kind = "deposit" /\ op.note = ops[slot].note
      BY <2>2 DEF IsDeposit, DepositFields
    <3> HIDE DEF op
    <3>2. OpOK(noteLog, minted, op)
      BY <2>2, <3>1 DEF OpOK, IsDeposit
    <3>3. QED
      BY <2>1, <3>2
  <2>3. CASE ops[slot].note \in DOMAIN minted /\ IsSpend(noteLog, minted, ops[slot])
    <3>1. /\ DOMAIN op = SpendFields /\ op.kind = "spend" /\ op.note = ops[slot].note
          /\ op.leaf = ops[slot].leaf /\ op.at = "confirming"
      BY <2>3 DEF IsSpend, SpendFields
    <3>2. ops[slot].leaf # NoLeaf
      BY <2>3 DEF IsSpend
    <3> HIDE DEF op
    <3>3. IsSpend(noteLog, minted, op)
      BY <2>3, <3>1, <3>2 DEF IsSpend
    <3>4. OpOK(noteLog, minted, op)
      BY <2>3, <3>1, <3>3 DEF OpOK
    <3>5. QED
      BY <2>1, <3>4
  <2>4. QED
    BY <1>1, <2>2, <2>3 DEF OpOK
<1>3. CASE ops' = [ops EXCEPT ![slot] = Idle]
  BY <1>3, IdleIsOK
<1>4. QED
  BY <1>2, <1>3 DEF landed

(* The note in flight is one of the browser's own, so a deposit is backed.  *)
LEMMA DepositLands ==
    ASSUME NotesIInv, NEW slot \in Slots, LandDeposit(slot)
    PROVE  NotesIInv'
<1> DEFINE s == ops[slot].note
           leaf == [commitment |-> commitment(minted[s], s), denom |-> minted[s]]
<1>1. ops[slot].kind = "deposit" /\ ops[slot].at = "sent" /\ ops[slot] # Idle
  BY DEF LandDeposit, Idle
<1>2. s \in DOMAIN minted
  BY <1>1 DEF NotesIInv, PanelOK, OpsOK, OpOK
<1>3. minted[s] \in Tiers /\ s \in AnySecret
  BY <1>2, PanelAssumption DEF NotesIInv, PanelOK, MintedOK, AnySecret
<1>4. escrow_deposit_note(minted[s], commitment(minted[s], s)) /\ SameBrowser /\ landed(slot)
  BY DEF LandDeposit, commitmentOf, SameBrowser
<1> HIDE DEF s
<1>5. Ledger' /\ noteLog' = Append(noteLog, leaf)
  BY <1>3, <1>4, DepositBacks DEF NotesIInv, Grown
<1>6. leaf \in Leaves
  BY <1>3 DEF Leaves
<1> HIDE DEF leaf
<1>7. Keeps(noteLog, noteLog') /\ noteLog' \in Seq(Leaves) /\ Len(noteLog') >= Len(noteLog)
  BY <1>5, <1>6, KeepsAppended DEF NotesIInv, Ledger, Logged
<1>8. PICK op : ops' = [ops EXCEPT ![slot] = op] /\ OpOK(noteLog, minted, op)
  BY <1>1, <1>4, LandedOps DEF NotesIInv, PanelOK
<1>9. OpOK(noteLog', minted', op)
  BY <1>4, <1>7, <1>8, OpStays, KeepsAll DEF SameBrowser
<1>10. QED
  BY <1>4, <1>5, <1>7, <1>8, <1>9, HandlerStep

(* A spend that was sent names a leaf of its note, so it takes its own worth. *)
LEMMA SpendLands ==
    ASSUME NotesIInv, NEW slot \in Slots, LandSpend(slot)
    PROVE  NotesIInv'
<1> DEFINE o == ops[slot]
<1>1. o.kind = "spend" /\ o.at = "sent" /\ o # Idle
  BY DEF LandSpend, Idle
<1>2. o.note \in DOMAIN minted /\ IsSpend(noteLog, minted, o)
  <2>1. OpOK(noteLog, minted, o)
    BY DEF NotesIInv, PanelOK, OpsOK
  <2> HIDE DEF o
  <2>2. QED
    BY <1>1, <2>1 DEF OpOK, IsDeposit
<1>3. minted[o.note] \in Tiers /\ o.note \in AnySecret
  <2> HIDE DEF o
  <2>1. QED
    BY <1>2, PanelAssumption DEF NotesIInv, PanelOK, MintedOK, AnySecret
<1>4. /\ escrow_spend_note(minted[o.note], o.note, o.leaf, o.path)
      /\ SameBrowser /\ landed(slot)
  BY DEF LandSpend, SameBrowser
<1>5. /\ o.leaf \in Nat /\ o.leaf + 1 \in DOMAIN noteLog
      /\ noteLog[o.leaf + 1].commitment = commitment(minted[o.note], o.note)
  <2> HIDE DEF o
  <2>1. QED
    BY <1>1, <1>2 DEF IsSpend, Known
<1>6. Ledger' /\ noteLog' = noteLog
  <2> HIDE DEF o
  <2>1. QED
    BY <1>3, <1>4, <1>5, SpendBacks DEF NotesIInv
<1>7. Keeps(noteLog, noteLog') /\ noteLog' \in Seq(Leaves) /\ Len(noteLog') >= Len(noteLog)
  BY <1>6, KeepsAll DEF NotesIInv, Ledger, Logged
<1>8. PICK op : ops' = [ops EXCEPT ![slot] = op] /\ OpOK(noteLog, minted, op)
  BY <1>1, <1>4, LandedOps DEF NotesIInv, PanelOK
<1>9. OpOK(noteLog', minted', op)
  BY <1>4, <1>6, <1>8 DEF SameBrowser
<1> HIDE DEF o
<1>10. QED
  BY <1>4, <1>6, <1>7, <1>8, <1>9, HandlerStep

-----------------------------------------------------------------------------
(* The clicks and the awaits of the handlers. *)

(* What the browser keeps may move while the chain does not.                *)
LEMMA BrowserStep ==
    ASSUME NotesIInv, UNCHANGED chain, UNCHANGED <<minted, mirrored>>,
           fresh' \in {0, fresh}, WalletOK(noteLog, minted, wallet'), OpsOK'
    PROVE  NotesIInv'
<1>1. Ledger' /\ noteLog' = noteLog /\ minted' = minted /\ mirrored' = mirrored
  BY LedgerStays DEF NotesIInv
<1>2. fresh' \in 0 .. Len(minted')
  BY <1>1 DEF NotesIInv, PanelOK, MintedOK
<1>3. QED
  BY <1>1, <1>2 DEF NotesIInv, PanelOK, MintedOK

(* One handler moves, and nothing else of what the invariant is about.      *)
LEMMA OneHandler ==
    ASSUME NotesIInv, UNCHANGED chain, SameBrowser,
           NEW slot \in Slots, NEW op, OpOK(noteLog, minted, op),
           ops' = [ops EXCEPT ![slot] = op]
    PROVE  NotesIInv'
<1>1. Ledger' /\ noteLog' = noteLog /\ minted' = minted
  BY LedgerStays DEF NotesIInv, SameBrowser
<1>2. Keeps(noteLog, noteLog') /\ noteLog' \in Seq(Leaves) /\ Len(noteLog') >= Len(noteLog)
  BY <1>1, KeepsAll DEF NotesIInv, Ledger, Logged
<1>3. QED
  BY <1>1, <1>2, HandlerStep

(* What a note records may change, as long as it stays known.               *)
LEMMA NoteUpdated ==
    ASSUME NotesIInv, NEW s, NEW leaf, NEW spent \in BOOLEAN,
           Known(noteLog, minted, leaf, s)
    PROVE  WalletOK(noteLog, minted, updateNote(s, leaf, spent))
<1> DEFINE w == updateNote(s, leaf, spent)
<1>1. WalletOK(noteLog, minted, wallet)
  BY DEF NotesIInv, PanelOK
<1>2. CASE held(s)
  <2>1. s \in DOMAIN wallet /\ leaf \in Int
    BY <1>2 DEF held, Known, NoLeaf
  <2>2. wallet[s] \in Stored
    BY <1>1, <2>1 DEF WalletOK
  <2> DEFINE new == [wallet[s] EXCEPT !.leaf = leaf, !.spent = spent]
  <2>3. new \in Stored /\ new.leaf = leaf
    BY <2>1, <2>2 DEF Stored
  <2>4. w = [wallet EXCEPT ![s] = new]
    BY <1>2, <2>1 DEF updateNote
  <2> HIDE DEF new, w
  <2>5. /\ w \in Seq(Stored) /\ Len(w) = Len(wallet)
        /\ DOMAIN w = DOMAIN wallet /\ w[s] = new
        /\ \A x \in DOMAIN wallet : x # s => w[x] = wallet[x]
    BY <1>1, <2>1, <2>3, <2>4 DEF WalletOK
  <2>6. \A x \in DOMAIN w : Known(noteLog, minted, w[x].leaf, x)
    BY <1>1, <2>3, <2>5 DEF WalletOK
  <2>7. QED
    BY <1>1, <2>5, <2>6 DEF WalletOK, w
<1>3. CASE ~held(s)
  BY <1>1, <1>3 DEF updateNote
<1>4. QED
  BY <1>2, <1>3

(* A note is made: it joins the wallet, with no leaf of its own yet.        *)
LEMMA NoteCreated ==
    ASSUME NotesIInv, NEW d \in OwnTiers, create(d)
    PROVE  NotesIInv'
<1> DEFINE new == [held |-> TRUE, leaf |-> NoLeaf, spent |-> FALSE]
<1>1. /\ minted' = Append(minted, d) /\ Len(minted) < MaxNotes
      /\ wallet' = Append(wallet, new) /\ fresh' = Len(minted')
      /\ UNCHANGED chain /\ UNCHANGED ops /\ mirrored' = mirrored
  BY DEF create
<1>2. Ledger' /\ noteLog' = noteLog
  BY <1>1, LedgerStays DEF NotesIInv
<1>3. minted \in Seq(Tiers) /\ d \in Tiers /\ MaxNotes \in Nat
  BY PanelAssumption DEF NotesIInv, PanelOK, MintedOK, Tiers
<1>4. MintedOK' /\ Len(minted') = Len(minted) + 1 /\ Len(minted) \in Nat
  BY <1>1, <1>3 DEF MintedOK
<1>5. Keeps(minted, minted') /\ Keeps(noteLog, noteLog')
  BY <1>1, <1>2, <1>3, KeepsAppended, KeepsAll
<1>6. OpsOK'
  BY <1>1, <1>5, OpsStay DEF NotesIInv, PanelOK
<1>7. new \in Stored /\ new.leaf = NoLeaf
  BY DEF Stored, NoLeaf
<1> HIDE DEF new
<1>8. WalletOK(noteLog', minted', wallet')
  <2>1. wallet \in Seq(Stored) /\ Len(wallet) = Len(minted)
    BY DEF NotesIInv, PanelOK, WalletOK
  <2>2. /\ wallet' \in Seq(Stored) /\ Len(wallet') = Len(minted')
        /\ DOMAIN wallet' = 1..(Len(wallet) + 1) /\ wallet'[Len(wallet) + 1] = new
        /\ \A x \in 1..Len(wallet) : x \in DOMAIN wallet /\ wallet'[x] = wallet[x]
    BY <1>1, <1>4, <1>7, <2>1
  <2>3. ASSUME NEW x \in DOMAIN wallet'
        PROVE  Known(noteLog', minted', wallet'[x].leaf, x)
    <3>1. CASE x = Len(wallet) + 1
      BY <1>7, <2>2, <3>1 DEF Known
    <3>2. CASE x \in 1..Len(wallet)
      <4>1. x \in DOMAIN minted /\ Known(noteLog, minted, wallet[x].leaf, x)
        BY <1>3, <2>1, <2>2, <3>2 DEF NotesIInv, PanelOK, WalletOK
      <4>2. QED
        BY <1>5, <2>2, <3>2, <4>1, KnownStays
    <3>3. QED
      BY <2>1, <2>2, <3>1, <3>2
  <2>4. QED
    BY <2>2, <2>3 DEF WalletOK
<1>9. fresh' \in 0 .. Len(minted')
  BY <1>1, <1>4
<1>10. QED
  BY <1>1, <1>2, <1>4, <1>6, <1>8, <1>9 DEF NotesIInv, PanelOK

(* The note on screen is forgotten.                                         *)
LEMMA NoteDiscarded ==
    ASSUME NotesIInv, Discard
    PROVE  NotesIInv'
<1>1. /\ fresh # 0 /\ wallet' = [wallet EXCEPT ![fresh].held = FALSE] /\ fresh' = 0
      /\ UNCHANGED chain /\ UNCHANGED <<minted, mirrored>> /\ UNCHANGED ops
  BY DEF Discard
<1>2. WalletOK(noteLog, minted, wallet) /\ fresh \in 0 .. Len(minted) /\ minted \in Seq(Tiers)
  BY DEF NotesIInv, PanelOK, MintedOK
<1>3. fresh \in DOMAIN wallet
  BY <1>1, <1>2 DEF WalletOK
<1> DEFINE new == [wallet[fresh] EXCEPT !.held = FALSE]
<1>4. wallet[fresh] \in Stored
  BY <1>2, <1>3 DEF WalletOK
<1>5. new \in Stored /\ new.leaf = wallet[fresh].leaf
  BY <1>4 DEF Stored
<1>6. wallet' = [wallet EXCEPT ![fresh] = new]
  BY <1>1, <1>3
<1> HIDE DEF new
<1>7. /\ wallet' \in Seq(Stored) /\ Len(wallet') = Len(wallet)
      /\ DOMAIN wallet' = DOMAIN wallet
      /\ \A x \in DOMAIN wallet : wallet'[x].leaf = wallet[x].leaf
  BY <1>2, <1>3, <1>5, <1>6 DEF WalletOK
<1>8. WalletOK(noteLog, minted, wallet')
  BY <1>2, <1>7 DEF WalletOK
<1>9. OpsOK'
  <2>1. minted' = minted /\ noteLog' = noteLog
    BY <1>1 DEF chain
  <2>2. QED
    BY <1>1, <2>1, OpsStay, KeepsAll DEF NotesIInv, PanelOK
<1>10. QED
  BY <1>1, <1>8, <1>9, BrowserStep

(* The page goes; a transaction already sent stays in its slot.             *)
LEMMA PageReloaded ==
    ASSUME NotesIInv, Reload
    PROVE  NotesIInv'
<1>1. /\ fresh' = 0 /\ UNCHANGED chain /\ UNCHANGED <<minted, mirrored>> /\ UNCHANGED wallet
      /\ ops' = [slot \in Slots |->
                    IF ops[slot].kind # "none" /\ ops[slot].at = "sent"
                    THEN [ops[slot] EXCEPT !.page = FALSE] ELSE Idle]
  BY DEF Reload
<1>2. minted' = minted /\ noteLog' = noteLog
  BY <1>1 DEF chain
<1>3. ASSUME NEW slot \in Slots
      PROVE  OpOK(noteLog, minted, ops'[slot])
  <2> DEFINE o == ops[slot]
             op == [o EXCEPT !.page = FALSE]
  <2>1. OpOK(noteLog, minted, o)
    BY DEF NotesIInv, PanelOK, OpsOK
  <2>2. ops'[slot] = op \/ ops'[slot] = Idle
    BY <1>1
  <2>3. ops'[slot] = op => (o.kind # "none" \/ ops'[slot] = Idle)
    BY <1>1
  <2>4. CASE ops'[slot] = Idle
    BY <2>4, IdleIsOK
  <2>5. CASE ops'[slot] = op /\ ops'[slot] # Idle /\ o.note \in DOMAIN minted /\ IsDeposit(o)
    <3>1. DOMAIN op = DepositFields /\ op.kind = "deposit" /\ op.note = o.note
      <4> HIDE DEF o
      <4>1. QED
        BY <2>5 DEF IsDeposit, DepositFields
    <3> HIDE DEF op, o
    <3>2. QED
      BY <2>5, <3>1 DEF OpOK, IsDeposit
  <2>6. CASE ops'[slot] = op /\ ops'[slot] # Idle /\ o.note \in DOMAIN minted
             /\ IsSpend(noteLog, minted, o)
    <3>1. /\ DOMAIN op = SpendFields /\ op.kind = "spend" /\ op.note = o.note
          /\ op.leaf = o.leaf /\ op.at = o.at
      <4> HIDE DEF o
      <4>1. QED
        BY <2>6 DEF IsSpend, SpendFields
    <3> HIDE DEF op, o
    <3>2. IsSpend(noteLog, minted, op)
      BY <2>6, <3>1 DEF IsSpend
    <3>3. QED
      BY <2>6, <3>1, <3>2 DEF OpOK
  <2>7. CASE ops'[slot] = op /\ ops'[slot] # Idle /\ o = Idle
    <3>1. o.kind = "none"
      BY <2>7 DEF Idle
    <3>2. QED
      BY <2>3, <2>7, <3>1
  <2> HIDE DEF o, op
  <2>8. QED
    BY <2>1, <2>2, <2>4, <2>5, <2>6, <2>7 DEF OpOK
<1>4. OpsOK'
  <2>1. ops' = [slot \in Slots |-> ops'[slot]]
    BY <1>1
  <2>2. QED
    BY <1>2, <1>3, <2>1 DEF OpsOK
<1>5. QED
  BY <1>1, <1>4, BrowserStep DEF NotesIInv, PanelOK

(* A click or an await hands a slot its next operation, and touches nothing *)
(* else.  A deposit starts with the note on screen ...                      *)
LEMMA DepositClicked ==
    ASSUME NotesIInv, ClickDeposit
    PROVE  NotesIInv'
<1> DEFINE op == [kind |-> "deposit", at |-> "coins", note |-> fresh, page |-> TRUE]
           slot == Min(freeSlots)
<1>1. /\ fresh # 0 /\ freeSlots # {} /\ ops' = [ops EXCEPT ![slot] = op]
      /\ UNCHANGED chain /\ SameBrowser
  BY DEF ClickDeposit, SameBrowser
<1>2. slot \in Slots
  BY <1>1, FreeSlot
<1>3. fresh \in DOMAIN minted
  BY <1>1 DEF NotesIInv, PanelOK, MintedOK
<1>4. op.note = fresh /\ IsDeposit(op)
  BY DEF IsDeposit, DepositFields
<1> HIDE DEF op, slot
<1>5. OpOK(noteLog, minted, op)
  BY <1>3, <1>4 DEF OpOK
<1>6. QED
  BY <1>1, <1>2, <1>5, OneHandler

(* ... and is sent for it.                                                  *)
LEMMA DepositSent ==
    ASSUME NotesIInv, NEW slot \in Slots, SendDeposit(slot)
    PROVE  NotesIInv'
<1> DEFINE o == ops[slot]
           op == [o EXCEPT !.at = "sent"]
<1>1. /\ o.kind = "deposit" /\ ops' = [ops EXCEPT ![slot] = op]
      /\ UNCHANGED chain /\ SameBrowser /\ o # Idle
  BY DEF SendDeposit, SameBrowser, Idle, NotesIInv, PanelOK, OpsOK
<1>2. OpOK(noteLog, minted, o)
  BY DEF NotesIInv, PanelOK, OpsOK
<1>3. o.note \in DOMAIN minted /\ IsDeposit(o)
  <2> HIDE DEF o
  <2>1. QED
    BY <1>1, <1>2 DEF OpOK, IsSpend
<1>4. op.note = o.note /\ IsDeposit(op)
  <2> HIDE DEF o
  <2>1. QED
    BY <1>3 DEF IsDeposit, DepositFields
<1> HIDE DEF op, o
<1>5. OpOK(noteLog, minted, op)
  BY <1>3, <1>4 DEF OpOK
<1>6. QED
  BY <1>1, <1>5, OneHandler

(* A spend starts with the leaf the note recorded ...                       *)
LEMMA SpendClicked ==
    ASSUME NotesIInv, NEW s, ClickSpend(s)
    PROVE  NotesIInv'
<1> DEFINE op == [kind |-> "spend", at |-> "leaves", note |-> s, page |-> TRUE,
                  leaf |-> wallet[s].leaf, root |-> noteRoot, path |-> <<>>]
           slot == Min(freeSlots)
<1>1. /\ s \in DOMAIN wallet /\ freeSlots # {} /\ ops' = [ops EXCEPT ![slot] = op]
      /\ UNCHANGED chain /\ SameBrowser
  BY DEF ClickSpend, held, SameBrowser
<1>2. slot \in Slots
  BY <1>1, FreeSlot
<1>3. s \in DOMAIN minted /\ Known(noteLog, minted, wallet[s].leaf, s)
  BY <1>1 DEF NotesIInv, PanelOK, MintedOK, WalletOK
<1>4. /\ DOMAIN op = SpendFields /\ op.kind = "spend" /\ op.at = "leaves"
      /\ op.note = s /\ op.leaf = wallet[s].leaf
  BY DEF SpendFields
<1> HIDE DEF op, slot
<1>5. OpOK(noteLog, minted, op)
  BY <1>3, <1>4 DEF OpOK, IsSpend
<1>6. QED
  BY <1>1, <1>2, <1>5, OneHandler

(* ... or looks one up in what the mirror shows.                            *)
LEMMA SpendSent ==
    ASSUME NotesIInv, NEW slot \in Slots, SendSpend(slot)
    PROVE  NotesIInv'
<1> DEFINE o == ops[slot]
           leaf == indexFor(o)
           path == siblingsFor(readNoteLeaves, leaf)
           op == [o EXCEPT !.at = "sent", !.leaf = leaf, !.path = path]
<1>1. /\ o.kind = "spend" /\ o # Idle /\ provable(o)
      /\ UNCHANGED chain /\ SameBrowser
  BY DEF SendSpend, SameBrowser, Idle
<1>2. ops' = [ops EXCEPT ![slot] = op]
  <2>1. ops' = [ops EXCEPT ![slot].at = "sent", ![slot].leaf = leaf, ![slot].path = path]
    BY DEF SendSpend
  <2>2. slot \in DOMAIN ops
    BY DEF NotesIInv, PanelOK, OpsOK
  <2> HIDE DEF leaf, path
  <2>3. QED
    BY <2>1, <2>2
<1>3. OpOK(noteLog, minted, o)
  BY DEF NotesIInv, PanelOK, OpsOK
<1>4. o.note \in DOMAIN minted /\ IsSpend(noteLog, minted, o)
  <2> HIDE DEF o
  <2>1. QED
    BY <1>1, <1>3 DEF OpOK, IsDeposit
<1>5. Known(noteLog, minted, leaf, o.note) /\ leaf # NoLeaf
  <2> HIDE DEF o
  <2>1. Known(noteLog, minted, leafOf(o.note), o.note)
    BY LeafOfKnown DEF NotesIInv, Ledger, PanelOK
  <2>2. leaf = o.leaf \/ leaf = leafOf(o.note)
    BY DEF indexFor
  <2>3. Known(noteLog, minted, leaf, o.note)
    BY <1>4, <2>1, <2>2 DEF IsSpend
  <2>4. leaf >= 0
    BY <1>1 DEF provable
  <2>5. QED
    BY <2>3, <2>4 DEF NoLeaf
<1> HIDE DEF leaf, path
<1>6. /\ DOMAIN op = SpendFields /\ op.kind = "spend" /\ op.at = "sent"
      /\ op.note = o.note /\ op.leaf = leaf
  <2> HIDE DEF o
  <2>1. QED
    BY <1>4 DEF IsSpend, SpendFields
<1> HIDE DEF op, o
<1>7. OpOK(noteLog, minted, op)
  BY <1>4, <1>5, <1>6 DEF OpOK, IsSpend
<1>8. QED
  BY <1>1, <1>2, <1>7, OneHandler

(* A handler ends without having moved the chain.                           *)
LEMMA HandlerEnds ==
    ASSUME NotesIInv, NEW slot \in Slots, Refuse(slot) \/ SpendThrows(slot)
    PROVE  NotesIInv'
<1>1. UNCHANGED chain /\ SameBrowser /\ ops' = [ops EXCEPT ![slot] = Idle]
  BY DEF Refuse, SpendThrows, SameBrowser
<1>2. OpOK(noteLog, minted, Idle)
  BY IdleIsOK
<1>3. QED
  BY <1>1, <1>2, OneHandler

(* What the deposit finds in the mirror is what the wallet records.         *)
LEMMA DepositFinishes ==
    ASSUME NotesIInv, NEW slot \in Slots, FinishDeposit(slot)
    PROVE  NotesIInv'
<1> DEFINE s == ops[slot].note
           found == leafOf(s)
<1>1. /\ UNCHANGED chain /\ UNCHANGED <<minted, mirrored>> /\ fresh' = 0
      /\ ops' = [ops EXCEPT ![slot] = Idle]
      /\ wallet' = IF found = NoLeaf THEN wallet ELSE updateNote(s, found, wallet[s].spent)
      /\ ops[slot].kind = "deposit"
  BY DEF FinishDeposit
<1>2. s \in DOMAIN wallet
  <2>1. OpOK(noteLog, minted, ops[slot])
    BY DEF NotesIInv, PanelOK, OpsOK
  <2>2. s \in DOMAIN minted
    BY <1>1, <2>1 DEF OpOK, Idle
  <2>3. QED
    BY <2>2 DEF NotesIInv, PanelOK, WalletOK, MintedOK
<1>3. wallet[s].spent \in BOOLEAN
  <2>1. wallet[s] \in Stored
    BY <1>2 DEF NotesIInv, PanelOK, WalletOK
  <2>2. QED
    BY <2>1 DEF Stored
<1>4. Known(noteLog, minted, found, s)
  BY LeafOfKnown DEF NotesIInv, Ledger, PanelOK
<1> HIDE DEF s, found
<1>5. WalletOK(noteLog, minted, wallet')
  <2>1. CASE found = NoLeaf
    BY <1>1, <2>1 DEF NotesIInv, PanelOK
  <2>2. CASE found # NoLeaf
    BY <1>1, <1>3, <1>4, <2>2, NoteUpdated
  <2>3. QED
    BY <2>1, <2>2
<1>6. OpsOK'
  <2>1. noteLog' = noteLog /\ minted' = minted
    BY <1>1 DEF chain
  <2>2. OpOK(noteLog', minted', Idle)
    BY IdleIsOK
  <2>3. QED
    BY <1>1, <2>1, <2>2, OneOp, KeepsAll DEF NotesIInv, PanelOK
<1>7. QED
  BY <1>1, <1>5, <1>6, BrowserStep

(* And so does the leaf a spend used.                                       *)
LEMMA SpendFinishes ==
    ASSUME NotesIInv, NEW slot \in Slots, FinishSpend(slot)
    PROVE  NotesIInv'
<1> DEFINE o == ops[slot]
<1>1. /\ UNCHANGED chain /\ UNCHANGED <<minted, mirrored>> /\ UNCHANGED fresh
      /\ ops' = [ops EXCEPT ![slot] = Idle]
      /\ wallet' = updateNote(o.note, o.leaf, TRUE)
      /\ o.kind = "spend" /\ o # Idle
  BY DEF FinishSpend, Idle
<1>2. Known(noteLog, minted, o.leaf, o.note)
  <2>1. OpOK(noteLog, minted, o)
    BY DEF NotesIInv, PanelOK, OpsOK
  <2> HIDE DEF o
  <2>2. QED
    BY <1>1, <2>1 DEF OpOK, IsDeposit, IsSpend
<1> HIDE DEF o
<1>3. WalletOK(noteLog, minted, wallet')
  BY <1>1, <1>2, NoteUpdated
<1>4. OpsOK'
  <2>1. noteLog' = noteLog /\ minted' = minted
    BY <1>1 DEF chain
  <2>2. OpOK(noteLog', minted', Idle)
    BY IdleIsOK
  <2>3. QED
    BY <1>1, <2>1, <2>2, OneOp, KeepsAll DEF NotesIInv, PanelOK
<1>5. QED
  BY <1>1, <1>3, <1>4, BrowserStep

-----------------------------------------------------------------------------
(* The mirror, the others, the steward. *)

(* The mirror never shows more than the chain has.                          *)
LEMMA MirrorMoves ==
    ASSUME NotesIInv, MirrorCatchesUp
    PROVE  NotesIInv'
<1>1. /\ UNCHANGED chain /\ UNCHANGED <<minted, wallet, fresh>> /\ UNCHANGED ops
      /\ mirrored < Len(noteLog) /\ mirrored' = mirrored + 1
  BY DEF MirrorCatchesUp
<1>2. Ledger' /\ noteLog' = noteLog /\ minted' = minted
  BY <1>1, LedgerStays DEF NotesIInv
<1>3. OpsOK'
  BY <1>1, <1>2, OpsStay, KeepsAll DEF NotesIInv, PanelOK
<1>4. mirrored' \in 0 .. Len(noteLog')
  <2>1. mirrored \in 0 .. Len(noteLog) /\ Len(noteLog) \in Nat
    BY DEF NotesIInv, PanelOK, Ledger, Logged
  <2>2. QED
    BY <1>1, <1>2, <2>1
<1>5. QED
  BY <1>1, <1>2, <1>3, <1>4 DEF NotesIInv, PanelOK, MintedOK

(* The log grew or stayed, and nothing of what the browser keeps moved.     *)
LEMMA BrowserWaits ==
    ASSUME NotesIInv, Ledger', Keeps(noteLog, noteLog'), noteLog' \in Seq(Leaves),
           Len(noteLog') >= Len(noteLog), SameBrowser, UNCHANGED ops
    PROVE  NotesIInv'
<1>1. OpsOK'
  BY OpsStay, KeepsAll DEF NotesIInv, PanelOK, SameBrowser
<1>2. WalletOK(noteLog', minted', wallet')
  BY WalletStays DEF NotesIInv, PanelOK, SameBrowser
<1>3. mirrored' \in 0 .. Len(noteLog') /\ fresh' \in 0 .. Len(minted') /\ MintedOK'
  <2>1. mirrored \in 0 .. Len(noteLog) /\ Len(noteLog) \in Nat /\ Len(noteLog') \in Nat
    BY DEF NotesIInv, PanelOK, Ledger, Logged
  <2>2. QED
    BY <2>1 DEF NotesIInv, PanelOK, SameBrowser, MintedOK
<1>4. QED
  BY <1>1, <1>2, <1>3 DEF NotesIInv, PanelOK

(* Somebody else's leaf joins, whatever it commits to.                      *)
LEMMA OthersBack ==
    ASSUME NotesIInv, OthersDeposit
    PROVE  NotesIInv'
<1>1. PICK paid \in Tiers,
           c \in {commitment(d, OthersSecret) : d \in Tiers} \cup ToSet(Commitments(noteLog)) :
        escrow_deposit_note(paid, c)
  BY DEF OthersDeposit
<1>2. SameBrowser /\ UNCHANGED ops
  BY DEF OthersDeposit, panelOwn, SameBrowser
<1>3. \E d \in Tiers, s \in AnySecret : c = commitment(d, s)
  <2>1. CASE c \in {commitment(d, OthersSecret) : d \in Tiers}
    <3>1. OthersSecret \in AnySecret
      BY PanelAssumption DEF OthersSecret, AnySecret
    <3>2. QED
      BY <2>1, <3>1
  <2>2. CASE c \in ToSet(Commitments(noteLog))
    <3>1. PICK i \in DOMAIN noteLog : c = noteLog[i].commitment
      BY <2>2 DEF ToSet, Commitments
    <3>2. QED
      BY <3>1, LeafFacts DEF NotesIInv, Ledger
  <2>3. QED
    BY <1>1, <2>1, <2>2
<1>4. PICK d \in Tiers, s \in AnySecret : c = commitment(d, s)
  BY <1>3
<1> DEFINE leaf == [commitment |-> commitment(d, s), denom |-> paid]
<1>5. Ledger' /\ noteLog' = Append(noteLog, leaf)
  BY <1>1, <1>4, DepositBacks DEF NotesIInv, Grown
<1>6. leaf \in Leaves
  BY <1>4 DEF Leaves
<1> HIDE DEF leaf
<1>7. Keeps(noteLog, noteLog') /\ noteLog' \in Seq(Leaves) /\ Len(noteLog') >= Len(noteLog)
  BY <1>5, <1>6, KeepsAppended DEF NotesIInv, Ledger, Logged
<1>8. QED
  BY <1>2, <1>5, <1>7, BrowserWaits

(* Somebody else's leaf is spent, for its own worth.                        *)
LEMMA OthersTake ==
    ASSUME NotesIInv, OthersSpend
    PROVE  NotesIInv'
<1>1. PICK i \in DOMAIN noteLog :
        /\ noteLog[i].commitment[3] = OthersSecret
        /\ escrow_spend_note(noteLog[i].commitment[2], OthersSecret, i - 1,
                             siblingsFor(Commitments(noteLog), i - 1))
  BY DEF OthersSpend
<1>2. SameBrowser /\ UNCHANGED ops
  BY DEF OthersSpend, panelVars, panelOwn, SameBrowser
<1> DEFINE d == noteLog[i].commitment[2]
           l == i - 1
           path == siblingsFor(Commitments(noteLog), l)
<1>3. /\ d \in Tiers /\ OthersSecret \in AnySecret
      /\ noteLog[i].commitment = commitment(d, OthersSecret)
  BY <1>1, LeafFacts DEF NotesIInv, Ledger
<1>4. l \in Nat /\ l + 1 = i
  BY LeavesCount DEF NotesIInv, Ledger
<1>5. escrow_spend_note(d, OthersSecret, l, path)
  BY <1>1
<1> HIDE DEF d, l, path
<1>6. l + 1 \in DOMAIN noteLog /\ noteLog[l + 1].commitment = commitment(d, OthersSecret)
  BY <1>3, <1>4
<1>7. Ledger' /\ noteLog' = noteLog
  BY <1>3, <1>4, <1>5, <1>6, SpendBacks DEF NotesIInv
<1>8. Keeps(noteLog, noteLog') /\ noteLog' \in Seq(Leaves) /\ Len(noteLog') >= Len(noteLog)
  BY <1>7, KeepsAll DEF NotesIInv, Ledger, Logged
<1>9. QED
  BY <1>2, <1>7, <1>8, BrowserWaits

(* A pause stops what comes, and moves nothing.                             *)
LEMMA PauseStops ==
    ASSUME NotesIInv, Pause
    PROVE  NotesIInv'
<1>1. UNCHANGED <<noteLog, nulls, noteCustody>> /\ SameBrowser /\ UNCHANGED ops
  BY DEF Pause, set_paused, SameBrowser
<1>2. Ledger' /\ noteLog' = noteLog /\ minted' = minted
  BY <1>1 DEF NotesIInv, Ledger, Logged, Tagged, CustodyKept, Unspent, SameBrowser
<1>3. OpsOK'
  BY <1>1, <1>2, OpsStay, KeepsAll DEF NotesIInv, PanelOK
<1>4. QED
  BY <1>1, <1>2, <1>3 DEF NotesIInv, PanelOK, SameBrowser, MintedOK

-----------------------------------------------------------------------------
(* The invariant. *)

(* Nothing is escrowed and nothing is kept, and nothing backs nothing.      *)
LEMMA NotesBegin == NotesPanelInit => NotesIInv
<1> SUFFICES ASSUME NotesPanelInit
             PROVE  NotesIInv
  OBVIOUS
<1>1. /\ noteLog = <<>> /\ nulls = {} /\ noteCustody = 0
      /\ mirrored = 0 /\ minted = <<>> /\ wallet = <<>> /\ fresh = 0
      /\ ops = [slot \in Slots |-> Idle]
  BY DEF NotesPanelInit, NotesInit
<1>2. Logged /\ Tagged
  BY <1>1 DEF Logged, Tagged
<1>3. CustodyKept
  <2>1. SumOf(Kept(noteLog, Unspent), {}) = 0
    BY SumPicks, FS_EmptySet
  <2>2. DOMAIN noteLog = {}
    BY <1>1
  <2>3. QED
    BY <1>1, <2>1, <2>2 DEF CustodyKept
<1>4. MintedOK /\ WalletOK(noteLog, minted, wallet)
  BY <1>1, PanelAssumption DEF MintedOK, WalletOK
<1>5. OpsOK
  BY <1>1, IdleIsOK DEF OpsOK
<1>6. QED
  BY <1>1, <1>2, <1>3, <1>4, <1>5 DEF NotesIInv, Ledger, PanelOK

(* A step of the handler in one slot.                                       *)
LEMMA HandlersKeep ==
    ASSUME NotesIInv, NEW slot \in Slots, OwnStep(slot)
    PROVE  NotesIInv'
<1>1. CASE SendDeposit(slot)
  BY <1>1, DepositSent
<1>2. CASE LandDeposit(slot)
  BY <1>2, DepositLands
<1>3. CASE Refuse(slot) \/ SpendThrows(slot)
  BY <1>3, HandlerEnds
<1>4. CASE FinishDeposit(slot)
  BY <1>4, DepositFinishes
<1>5. CASE SendSpend(slot)
  BY <1>5, SpendSent
<1>6. CASE LandSpend(slot)
  BY <1>6, SpendLands
<1>7. CASE FinishSpend(slot)
  BY <1>7, SpendFinishes
<1>8. QED
  BY <1>1, <1>2, <1>3, <1>4, <1>5, <1>6, <1>7 DEF OwnStep

(* Every step keeps the ledger backed and what is in flight true of it.     *)
LEMMA NotesContinue == NotesIInv /\ [NotesNext]_notesVars => NotesIInv'
<1> SUFFICES ASSUME NotesIInv, [NotesNext]_notesVars
             PROVE  NotesIInv'
  OBVIOUS
<1>1. CASE Read \/ DeliverLive \/ DeliverLate \/ ReadFails
  <2>1. UNCHANGED chain /\ SameBrowser /\ UNCHANGED ops
    BY <1>1 DEF Read, DeliverLive, DeliverLate, Deliver, ReadFails, SameBrowser
  <2>2. QED
    BY <2>1, NothingKept
<1>2. CASE \E d \in OwnTiers : create(d)
  BY <1>2, NoteCreated
<1>3. CASE OthersDeposit \/ OthersSpend
  BY <1>3, OthersBack, OthersTake
<1>4. CASE Discard
  BY <1>4, NoteDiscarded
<1>5. CASE Reload
  BY <1>5, PageReloaded
<1>6. CASE ClickDeposit
  BY <1>6, DepositClicked
<1>7. CASE \E slot \in Slots : OwnStep(slot)
  BY <1>7, HandlersKeep
<1>8. CASE \E s \in Secrets : ClickSpend(s)
  BY <1>8, SpendClicked
<1>9. CASE MirrorCatchesUp
  BY <1>9, MirrorMoves
<1>10. CASE Pause
  BY <1>10, PauseStops
<1>11. CASE UNCHANGED notesVars
  <2>1. UNCHANGED chain /\ SameBrowser /\ UNCHANGED ops
    BY <1>11 DEF notesVars, noteVars, panelVars, panelOwn, chain, SameBrowser
  <2>2. QED
    BY <2>1, NothingKept
<1>12. QED
  BY <1>1, <1>2, <1>3, <1>4, <1>5, <1>6, <1>7, <1>8, <1>9, <1>10, <1>11 DEF NotesNext

(* The ledger of notes is well formed, every tag names a leaf, and whatever *)
(* a handler or the wallet says of a leaf is true of the log, at all times. *)
THEOREM NotesInvariance == NotesSpec => []NotesIInv
<1>1. QED
  BY NotesBegin, NotesContinue, PTL DEF NotesSpec

(* The custody behind the notes is what was paid for the leaves less what   *)
(* the spent ones were worth, whatever was clicked, reloaded, lost or       *)
(* escrowed twice and whatever the others commit to; and what the unspent   *)
(* leaves are worth, when each was paid its worth (notes.move, invariants 1 *)
(* and 3: nothing is spent that was not deposited, and nothing twice).      *)
THEOREM NotesBacked == NotesSpec => []BackingExact
<1>1. NotesIInv => BackingExact
  BY KeptIsBacking DEF NotesIInv
<1>2. QED
  BY <1>1, NotesInvariance, PTL

=============================================================================
