-------------------------------- MODULE Vault --------------------------------
(***************************************************************************)
(* move/sources/vault.move, the NAV side: deposits and redemptions are     *)
(* requested against receipts, priced together when the admin approves the *)
(* keeper's valuation, and claimed at that price at any later time; and    *)
(* the pause that stops new money and new valuations.  The capabilities    *)
(* are those of Caps, reached through the vault's entry points alone.      *)
(*                                                                         *)
(* A receipt, and a share, belongs to whoever holds it, so holders are not *)
(* told apart: the shares in circulation are the minted ones that are not  *)
(* in redeem_escrow.  A failed assertion aborts and changes nothing.  The  *)
(* escrow side of the vault is Clearing's; fee terms are left to it too.   *)
(***************************************************************************)
EXTENDS Integers, Sequences, Bags, FiniteSetsExt

CONSTANTS
    Addresses,    \* who may hold a capability
    NoAddress,    \* no nominee
    None,         \* option::none()
    MaxU64,       \* the largest u64
    Bps,          \* BPS_DENOMINATOR
    MinUnpauseDelay, \* MIN_UNPAUSE_DELAY_MS
    Defaults,     \* default_params
    Deposits,     \* what one deposit brings
    Reports,      \* the legs a keeper may report
    Idles,        \* idle balances it may report beside the true one
    JumpBounds, PriceBounds, Ages, Delays, MinDeposits, \* setter inputs
    MaxTime,      \* bound: the clock stops here
    MaxEpoch,     \* bound: epochs that are priced
    MaxReceipts,  \* bound: receipts outstanding at once
    MaxCapEpoch   \* bound: rotations and handovers

VARIABLES
    now,              \* Clock.timestamp_ms
    vault,            \* the shared Vault
    deposit_receipts, \* the bag of DepositReceipts outstanding
    redeem_receipts,  \* the bag of RedeemReceipts outstanding
    signed,           \* the proposal whose digest the admins last signed
    pause_mark,       \* history: instant and epoch of the last pause
    reg, admin_caps, keeper_caps

C == INSTANCE Caps WITH Entries <- {}, MaxAllowlist <- 0

receiptVars == <<deposit_receipts, redeem_receipts>>
capVars == <<reg, admin_caps, keeper_caps>>
vars == <<now, vault, receiptVars, signed, pause_mark, capVars>>

-----------------------------------------------------------------------------
(* Types. *)

VaultParams ==
    [max_nav_jump_bps : Nat, max_price_dev_bps : Nat, max_proposal_age_ms : Nat,
     unpause_delay_ms : Nat, min_deposit_sats : Nat]

Report ==
    [deployed_sats : Nat, in_flight_sats : Nat, native_btc_sats : Nat,
     hashi_claims_sats : Nat, clearing_price : Nat, book_mid : Nat]

NavProposal ==
    [epoch : Nat, idle_sats : Nat, report : Report, proposed_at_ms : Nat,
     proposer : Addresses]

(* When an epoch was priced is recorded by the code and read by nobody.     *)
EpochPrice == [nav_assets : Nat, nav_supply : Nat]

VaultType ==
    [base : Nat, pending_deposit : Nat, claimable : Nat, redeem_escrow : Nat,
     lp_supply : Nat, epoch : Nat, last : EpochPrice,
     committed_supply : Nat, unminted_shares : Nat,
     pending_deposit_assets : Nat, pending_redeem_shares : Nat,
     epoch_prices : Seq(EpochPrice), proposal : NavProposal \cup {None},
     last_hashi_claims_sats : Nat, deployed_sats : Nat, in_flight_sats : Nat,
     native_btc_sats : Nat, params : VaultParams,
     unpause_armed_at_ms : Nat \cup {None}]

ASSUME VaultAssumption ==
    /\ MaxU64 \in Nat /\ Bps \in Nat \ {0} /\ MinUnpauseDelay \in Nat
    /\ Defaults \in VaultParams /\ Defaults.unpause_delay_ms >= MinUnpauseDelay
    /\ Deposits \subseteq Nat /\ Idles \subseteq Nat /\ Reports \subseteq Report
    /\ JumpBounds \subseteq Nat /\ PriceBounds \subseteq Nat /\ Ages \subseteq Nat
    /\ Delays \subseteq Nat /\ MinDeposits \subseteq Nat
    /\ MaxTime \in Nat /\ MaxEpoch \in Nat /\ MaxReceipts \in Nat
    /\ None \notin Nat /\ None \notin NavProposal

-----------------------------------------------------------------------------
(* Integers. *)

fits(x) == x <= MaxU64

mul_div(a, b, c) == (a * b) \div c

abs_diff(a, b) == IF a >= b THEN a - b ELSE b - a

-----------------------------------------------------------------------------
(* Genesis. *)

Init ==
    /\ now = 0
    /\ \E admin, keeper \in Addresses : C!new_registry(admin, keeper)
    /\ vault = [base |-> 0, pending_deposit |-> 0, claimable |-> 0, redeem_escrow |-> 0,
                lp_supply |-> 0, epoch |-> 0, last |-> [nav_assets |-> 0, nav_supply |-> 0],
                committed_supply |-> 0, unminted_shares |-> 0,
                pending_deposit_assets |-> 0, pending_redeem_shares |-> 0,
                epoch_prices |-> <<>>, proposal |-> None,
                last_hashi_claims_sats |-> 0, deployed_sats |-> 0, in_flight_sats |-> 0,
                native_btc_sats |-> 0, params |-> Defaults,
                unpause_armed_at_ms |-> None]
    /\ deposit_receipts = EmptyBag /\ redeem_receipts = EmptyBag
    /\ signed = None
    /\ pause_mark = [at |-> 0, epoch |-> 0]

Tick ==
    /\ now < MaxTime
    /\ now' = now + 1
    /\ UNCHANGED <<vault, receiptVars, signed, pause_mark, capVars>>

-----------------------------------------------------------------------------
(* Requests.  The coin a caller brings, and the receipt he gets, are his.   *)

receipts_out == BagCardinality(deposit_receipts) + BagCardinality(redeem_receipts)

\* Mutant: the receipt is of the epoch that is priced next.
request_deposit_next(assets_sats) ==
    /\ ~reg.paused
    /\ assets_sats > 0 /\ assets_sats >= vault.params.min_deposit_sats
    /\ fits(vault.pending_deposit_assets + assets_sats)
    /\ receipts_out < MaxReceipts
    /\ vault' = [vault EXCEPT !.pending_deposit = @ + assets_sats,
                              !.pending_deposit_assets = @ + assets_sats]
    /\ deposit_receipts' =
          deposit_receipts (+) SetToBag({[epoch |-> vault.epoch + 1, assets_sats |-> assets_sats]})
    /\ UNCHANGED <<now, redeem_receipts, signed, pause_mark, capVars>>

request_deposit(assets_sats) ==
    /\ ~reg.paused
    /\ assets_sats > 0 /\ assets_sats >= vault.params.min_deposit_sats
    /\ fits(vault.pending_deposit_assets + assets_sats)
    /\ receipts_out < MaxReceipts
    /\ vault' = [vault EXCEPT !.pending_deposit = @ + assets_sats,
                              !.pending_deposit_assets = @ + assets_sats]
    /\ deposit_receipts' =
          deposit_receipts (+) SetToBag({[epoch |-> vault.epoch, assets_sats |-> assets_sats]})
    /\ UNCHANGED <<now, redeem_receipts, signed, pause_mark, capVars>>

(* Not gated by the pause.                                                  *)
request_redeem(shares) ==
    /\ shares > 0 /\ shares <= vault.lp_supply - vault.redeem_escrow
    /\ fits(vault.pending_redeem_shares + shares)
    /\ receipts_out < MaxReceipts
    /\ vault' = [vault EXCEPT !.redeem_escrow = @ + shares,
                              !.pending_redeem_shares = @ + shares]
    /\ redeem_receipts' =
          redeem_receipts (+) SetToBag({[epoch |-> vault.epoch, shares |-> shares]})
    /\ UNCHANGED <<now, deposit_receipts, signed, pause_mark, capVars>>

-----------------------------------------------------------------------------
(* Claims: at the price of the receipt's epoch, rounded down.               *)

price_of_epoch(epoch) == vault.epoch_prices[epoch + 1]

priced(receipt) == receipt.epoch < vault.epoch

shares_for(r) ==
    LET price == price_of_epoch(r.epoch)
    IN  mul_div(r.assets_sats, price.nav_supply, price.nav_assets)

\* Mutant: assets are rounded up.
assets_for_up(r) ==
    LET price == price_of_epoch(r.epoch)
    IN  (r.shares * price.nav_assets + price.nav_supply - 1) \div price.nav_supply

assets_for(r) ==
    LET price == price_of_epoch(r.epoch)
    IN  mul_div(r.shares, price.nav_assets, price.nav_supply)

claim_deposit(r) ==
    /\ priced(r)
    /\ price_of_epoch(r.epoch).nav_assets > 0
    /\ vault.unminted_shares >= shares_for(r)
    /\ vault' = [vault EXCEPT !.unminted_shares = @ - shares_for(r),
                              !.lp_supply = @ + shares_for(r)]
    /\ deposit_receipts' = deposit_receipts (-) SetToBag({r})
    /\ UNCHANGED <<now, redeem_receipts, signed, pause_mark, capVars>>

(* Not gated by the pause.                                                  *)
claim_redeem(r) ==
    /\ priced(r)
    /\ price_of_epoch(r.epoch).nav_supply > 0
    /\ vault.claimable >= assets_for(r)
    /\ vault' = [vault EXCEPT !.claimable = @ - assets_for(r)]
    /\ redeem_receipts' = redeem_receipts (-) SetToBag({r})
    /\ UNCHANGED <<now, deposit_receipts, signed, pause_mark, capVars>>

-----------------------------------------------------------------------------
(* NAV, first leg: the keeper's report.                                     *)

nav_assets_of(p) ==
    p.idle_sats + p.report.deployed_sats + p.report.in_flight_sats + p.report.native_btc_sats

(* A later proposal replaces an earlier one; an event totals it, so a total *)
(* that overflows aborts.                                                   *)
propose_nav(cap, idle_sats, report) ==
    LET p == [epoch |-> vault.epoch, idle_sats |-> idle_sats, report |-> report,
              proposed_at_ms |-> now, proposer |-> cap.holder]
    IN  /\ C!assert_keeper(cap)
        /\ fits(nav_assets_of(p))
        /\ vault' = [vault EXCEPT !.proposal = p]
        /\ UNCHANGED <<now, receiptVars, signed, pause_mark, capVars>>

(* blake2b256 of the proposal's BCS bytes: injective.                       *)
proposal_digest(p) == <<"blake2b256", p>>

(* The admin multisig signs what it reads; its transaction lands later, and *)
(* once.                                                                    *)
sign ==
    /\ vault.proposal # None
    /\ signed' = vault.proposal
    /\ UNCHANGED <<now, vault, receiptVars, pause_mark, capVars>>

-----------------------------------------------------------------------------
(* NAV, second leg: the admin's approval. *)

(* The price of an approval: par while no share is committed.               *)
price_of(p) ==
    IF vault.committed_supply = 0
    THEN [nav_assets |-> 1, nav_supply |-> 1]
    ELSE [nav_assets |-> nav_assets_of(p), nav_supply |-> vault.committed_supply]

nav_jump_ok(price) ==
    LET last == vault.last
    IN  \/ last.nav_supply = 0 \/ last.nav_assets = 0
        \/ price.nav_supply = 0 \/ price.nav_assets = 0
        \/ abs_diff(price.nav_assets * last.nav_supply,
                    last.nav_assets * price.nav_supply) * Bps
           <= vault.params.max_nav_jump_bps * last.nav_assets * price.nav_supply

price_deviation_ok(report) ==
    \/ report.clearing_price = 0 \/ report.book_mid = 0
    \/ abs_diff(report.clearing_price, report.book_mid) * Bps
       <= vault.params.max_price_dev_bps * report.book_mid

\* Mutant: any digest will do.
pinned_unsigned(p, expected_digest) ==
    /\ now >= p.proposed_at_ms
    /\ now - p.proposed_at_ms <= vault.params.max_proposal_age_ms
    /\ p.epoch = vault.epoch

(* Checks 1 to 3: the numbers that were signed, in time, for this epoch.    *)
pinned(p, expected_digest) ==
    /\ proposal_digest(p) = expected_digest
    /\ now >= p.proposed_at_ms
    /\ now - p.proposed_at_ms <= vault.params.max_proposal_age_ms
    /\ p.epoch = vault.epoch

(* Checks 4 and 5: the idle leg is the balance, the native leg is covered.  *)
legs_hold(p) ==
    /\ p.idle_sats = vault.base
    /\ p.report.native_btc_sats <= p.report.hashi_claims_sats
    /\ p.report.hashi_claims_sats >= vault.last_hashi_claims_sats

(* All six.                                                                 *)
approvable(p, expected_digest) ==
    /\ pinned(p, expected_digest)
    /\ legs_hold(p)
    /\ nav_jump_ok(price_of(p))
    /\ price_deviation_ok(p.report)

\* Mutant: the mint is rounded up.
shares_to_mint_up(price) ==
    IF vault.pending_deposit_assets = 0 THEN 0
    ELSE (vault.pending_deposit_assets * price.nav_supply + price.nav_assets - 1)
             \div price.nav_assets

shares_to_mint(price) ==
    IF vault.pending_deposit_assets = 0 THEN 0
    ELSE mul_div(vault.pending_deposit_assets, price.nav_supply, price.nav_assets)

assets_to_release(price) ==
    IF vault.pending_redeem_shares = 0 THEN 0
    ELSE mul_div(vault.pending_redeem_shares, price.nav_assets, price.nav_supply)

payable(price) == assets_to_release(price) <= vault.base + vault.pending_deposit

(* What must hold for the money to move: no division by zero, results that  *)
(* fit, an escrow that is all of the requests, and idle assets enough.      *)
coverable(price) ==
    /\ vault.pending_deposit_assets > 0 => price.nav_assets > 0
    /\ vault.pending_redeem_shares > 0 =>
          /\ price.nav_supply > 0
          /\ vault.redeem_escrow = vault.pending_redeem_shares
          /\ payable(price)
    /\ fits(shares_to_mint(price)) /\ fits(assets_to_release(price))
    /\ fits(vault.committed_supply + shares_to_mint(price))
    /\ vault.committed_supply + shares_to_mint(price) >= vault.pending_redeem_shares

burned == IF vault.pending_redeem_shares > 0 THEN vault.redeem_escrow ELSE 0

(* The vault once p is approved (steps 7 to 10).                            *)
approved(p) ==
    LET price == price_of(p)
    IN  [vault EXCEPT
           !.base = vault.base + vault.pending_deposit - assets_to_release(price),
           !.pending_deposit = 0, !.redeem_escrow = vault.redeem_escrow - burned,
           !.claimable = vault.claimable + assets_to_release(price),
           !.lp_supply = vault.lp_supply - burned,
           !.committed_supply = vault.committed_supply + shares_to_mint(price)
                                - vault.pending_redeem_shares,
           !.unminted_shares = vault.unminted_shares + shares_to_mint(price),
           !.epoch_prices = Append(vault.epoch_prices, price), !.last = price,
           !.epoch = vault.epoch + 1,
           !.pending_deposit_assets = 0, !.pending_redeem_shares = 0,
           !.deployed_sats = p.report.deployed_sats,
           !.in_flight_sats = p.report.in_flight_sats,
           !.native_btc_sats = p.report.native_btc_sats,
           !.last_hashi_claims_sats = p.report.hashi_claims_sats,
           !.proposal = None]

nav_assets(v) == v.base + v.deployed_sats + v.in_flight_sats + v.native_btc_sats

(* assert_solvent: the committed supply at the last price is covered, and   *)
(* what is minted and what is owed make up the committed supply.            *)
solvent(v) ==
    /\ v.last.nav_supply > 0 =>
          mul_div(v.committed_supply, v.last.nav_assets, v.last.nav_supply) <= nav_assets(v)
    /\ v.lp_supply + v.unminted_shares = v.committed_supply

approve_nav(cap, expected_digest) ==
    /\ C!assert_admin(cap)
    /\ vault.proposal # None
    /\ vault.epoch < MaxEpoch
    /\ approvable(vault.proposal, expected_digest)
    /\ coverable(price_of(vault.proposal))
    /\ fits(nav_assets(approved(vault.proposal)))
    /\ solvent(approved(vault.proposal))
    /\ vault' = approved(vault.proposal)
    /\ signed' = None
    /\ UNCHANGED <<now, receiptVars, pause_mark, capVars>>

-----------------------------------------------------------------------------
(* Pause: one transaction to stop, two and a delay to resume.               *)

\* Mutant: an unpause that was armed stays armed.
pause_keeping_arm(cap) ==
    /\ C!set_paused(cap, TRUE)
    /\ pause_mark' = [at |-> now,
                      epoch |-> IF reg.paused THEN pause_mark.epoch ELSE vault.epoch]
    /\ UNCHANGED <<now, vault, receiptVars, signed>>

(* The mark is of the moment the pause began for its epoch, and of the last *)
(* call for its instant.                                                    *)
pause(cap) ==
    /\ C!set_paused(cap, TRUE)
    /\ vault' = [vault EXCEPT !.unpause_armed_at_ms = None]
    /\ pause_mark' = [at |-> now,
                      epoch |-> IF reg.paused THEN pause_mark.epoch ELSE vault.epoch]
    /\ UNCHANGED <<now, receiptVars, signed>>

arm_unpause(cap) ==
    /\ C!assert_admin(cap)
    /\ reg.paused
    /\ vault' = [vault EXCEPT !.unpause_armed_at_ms = now]
    /\ UNCHANGED <<now, receiptVars, signed, pause_mark, capVars>>

unpause(cap) ==
    /\ reg.paused
    /\ vault.unpause_armed_at_ms # None
    /\ now >= vault.unpause_armed_at_ms
    /\ now - vault.unpause_armed_at_ms >= vault.params.unpause_delay_ms
    /\ C!set_paused(cap, FALSE)
    /\ vault' = [vault EXCEPT !.unpause_armed_at_ms = None]
    /\ UNCHANGED <<now, receiptVars, signed, pause_mark>>

-----------------------------------------------------------------------------
(* Governed parameters and capabilities.                                    *)

set_nav_bounds(cap, jump_bps, dev_bps, age_ms) ==
    /\ C!assert_admin(cap)
    /\ jump_bps > 0 /\ jump_bps <= Bps
    /\ dev_bps > 0 /\ dev_bps <= Bps
    /\ age_ms > 0
    /\ vault' = [vault EXCEPT !.params.max_nav_jump_bps = jump_bps,
                              !.params.max_price_dev_bps = dev_bps,
                              !.params.max_proposal_age_ms = age_ms]
    /\ UNCHANGED <<now, receiptVars, signed, pause_mark, capVars>>

set_unpause_delay(cap, delay_ms) ==
    /\ C!assert_admin(cap)
    /\ delay_ms >= MinUnpauseDelay
    /\ vault' = [vault EXCEPT !.params.unpause_delay_ms = delay_ms]
    /\ UNCHANGED <<now, receiptVars, signed, pause_mark, capVars>>

set_min_deposit(cap, min_sats) ==
    /\ C!assert_admin(cap)
    /\ min_sats > 0
    /\ vault' = [vault EXCEPT !.params.min_deposit_sats = min_sats]
    /\ UNCHANGED <<now, receiptVars, signed, pause_mark, capVars>>

rotate_keeper(cap, new_keeper) ==
    /\ C!rotate_keeper_cap(cap, new_keeper)
    /\ UNCHANGED <<now, vault, receiptVars, signed, pause_mark>>

initiate_admin_transfer(cap, new_admin) ==
    /\ C!initiate_admin_transfer(cap, new_admin)
    /\ UNCHANGED <<now, vault, receiptVars, signed, pause_mark>>

accept_admin_transfer(sender) ==
    /\ C!accept_admin_transfer(sender)
    /\ UNCHANGED <<now, vault, receiptVars, signed, pause_mark>>

-----------------------------------------------------------------------------
Holders ==
    \/ \E n \in Deposits : request_deposit(n)
    \/ \E n \in 1..vault.lp_supply : request_redeem(n)
    \/ \E r \in BagToSet(deposit_receipts) : claim_deposit(r)
    \/ \E r \in BagToSet(redeem_receipts) : claim_redeem(r)

Valuations ==
    \/ \E cap \in keeper_caps, idle \in {vault.base} \cup Idles, report \in Reports :
          propose_nav(cap, idle, report)
    \/ sign
    \/ \E cap \in admin_caps : signed # None /\ approve_nav(cap, proposal_digest(signed))

Governance ==
    \/ \E cap \in admin_caps :
          \/ pause(cap) \/ arm_unpause(cap) \/ unpause(cap)
          \/ \E jump \in JumpBounds, dev \in PriceBounds, age \in Ages :
                set_nav_bounds(cap, jump, dev, age)
          \/ \E delay \in Delays : set_unpause_delay(cap, delay)
          \/ \E n \in MinDeposits : set_min_deposit(cap, n)
          \/ \E a \in Addresses : rotate_keeper(cap, a) \/ initiate_admin_transfer(cap, a)
    \/ \E a \in Addresses : accept_admin_transfer(a)

Next == Tick \/ Holders \/ Valuations \/ Governance

Spec == Init /\ [][Next]_vars

-----------------------------------------------------------------------------
DepositReceipt == [epoch : Nat, assets_sats : Nat]
RedeemReceipt == [epoch : Nat, shares : Nat]

(* Every balance and counter of the vault stays a natural number - no path  *)
(* takes out more than there is - and every priced epoch has its price.     *)
TypeOK ==
    /\ now \in 0..MaxTime
    /\ vault \in VaultType
    /\ Len(vault.epoch_prices) = vault.epoch
    /\ BagToSet(deposit_receipts) \subseteq DepositReceipt
    /\ BagToSet(redeem_receipts) \subseteq RedeemReceipt
    /\ signed \in NavProposal \cup {None}
    /\ pause_mark \in [at : Nat, epoch : Nat]

total_assets_of(epoch) ==
    SumFunctionOnSet([r \in BagToSet(deposit_receipts) |-> r.assets_sats * deposit_receipts[r]],
                     {r \in BagToSet(deposit_receipts) : r.epoch = epoch})

total_shares_of(epoch) ==
    SumFunctionOnSet([r \in BagToSet(redeem_receipts) |-> r.shares * redeem_receipts[r]],
                     {r \in BagToSet(redeem_receipts) : r.epoch = epoch})

(* What the next approval will price is exactly what the receipts of the    *)
(* current epoch promise, and exactly the money and the shares set aside    *)
(* for them, however requests, replaced proposals and approvals interleave; *)
(* no receipt is of a later epoch (request_deposit, request_redeem,         *)
(* approve_nav step 8).                                                     *)
RequestsBacked ==
    /\ vault.pending_deposit = total_assets_of(vault.epoch)
    /\ vault.pending_deposit_assets = total_assets_of(vault.epoch)
    /\ vault.redeem_escrow = total_shares_of(vault.epoch)
    /\ vault.pending_redeem_shares = total_shares_of(vault.epoch)
    /\ \A r \in BagToSet(deposit_receipts) \cup BagToSet(redeem_receipts) :
          r.epoch <= vault.epoch

(* All receipts of all priced epochs can be claimed, in any order and at    *)
(* any time, paused or not: no price divides by zero, the shares they are   *)
(* worth are still to be minted and the assets are set aside (vault.move,   *)
(* invariants 5 and 7).                                                     *)
EveryClaimPays ==
    LET deposits == {r \in BagToSet(deposit_receipts) : priced(r)}
        redeems == {r \in BagToSet(redeem_receipts) : priced(r)}
    IN  /\ \A r \in deposits : price_of_epoch(r.epoch).nav_assets > 0
        /\ \A r \in redeems : price_of_epoch(r.epoch).nav_supply > 0
        /\ SumFunctionOnSet([r \in deposits |-> shares_for(r) * deposit_receipts[r]], deposits)
              <= vault.unminted_shares
        /\ SumFunctionOnSet([r \in redeems |-> assets_for(r) * redeem_receipts[r]], redeems)
              <= vault.claimable

(* No holder is diluted by those who come or leave: after every approval,   *)
(* the committed supply at the approved price is worth no more than the     *)
(* vault has (to the last fraction, where the code rounds down), and        *)
(* minted and owed shares make up the committed supply (vault.move,         *)
(* invariant 4).  So the assertion at the end of approve_nav never stops an *)
(* approval whose checks passed and whose releases are covered.             *)
undiluted(v) ==
    /\ v.committed_supply * v.last.nav_assets <= nav_assets(v) * v.last.nav_supply
       \/ v.last.nav_supply = 0
    /\ v.lp_supply + v.unminted_shares = v.committed_supply

SolventUnasked ==
    LET p == vault.proposal
    IN  /\ undiluted(vault)
        /\ p # None /\ legs_hold(p) /\ coverable(price_of(p)) => undiluted(approved(p))

(* The numbers a vault rolls over to are the ones the admins put their name *)
(* to, though the keeper may replace a proposal at any time before their    *)
(* transaction lands (approve_nav checks 1 and 3).                          *)
ApprovesWhatWasSigned ==
    [][vault'.epoch # vault.epoch =>
          /\ signed # None /\ signed.epoch = vault.epoch
          /\ now - signed.proposed_at_ms <= vault.params.max_proposal_age_ms
          /\ vault'.deployed_sats = signed.report.deployed_sats
          /\ vault'.in_flight_sats = signed.report.in_flight_sats
          /\ vault'.native_btc_sats = signed.report.native_btc_sats
          /\ vault.committed_supply > 0 => vault'.last.nav_assets = nav_assets_of(signed)]_vars

(* Trading resumes no sooner than the minimum delay after the last pause:   *)
(* an unpause armed before it, or a delay lowered in between, is no way     *)
(* round (pause, arm_unpause, unpause, set_unpause_delay).                  *)
UnpauseIsSlow ==
    [][reg.paused /\ ~reg'.paused => now >= pause_mark.at + MinUnpauseDelay]_vars

(* A pause shuts the keeper out: during one, at most the proposal that was  *)
(* already there is approved, whoever the keeper is rotated to (caps.move,  *)
(* invariant 5).                                                            *)
KeeperOutWhilePaused ==
    reg.paused =>
        /\ vault.epoch <= pause_mark.epoch + 1
        /\ vault.epoch = pause_mark.epoch + 1 => vault.proposal = None
=============================================================================
