-------------------------------- MODULE Caps --------------------------------
(***************************************************************************)
(* move/sources/caps.move: the capability registry embedded in a vault,    *)
(* and every capability object it ever minted.  A capability has the `key` *)
(* ability alone: it stays with the address it was minted to and is never  *)
(* destroyed, so retiring one is a matter of epochs, and whoever holds a   *)
(* retired one may still present it.                                       *)
(*                                                                         *)
(* One vault: a capability of another vault is refused by its id.  The     *)
(* VaultCap never leaves the vault and has no state.                       *)
(***************************************************************************)
EXTENDS Integers, FiniteSets

CONSTANTS
    Addresses,    \* addresses that may hold a capability
    Entries,      \* payout addresses that may be pinned
    NoAddress,    \* option::none()
    MaxAllowlist, \* MAX_ALLOWLIST
    MaxCapEpoch   \* bound: rotations, and handovers, that are followed

VARIABLES
    reg,         \* the CapRegistry
    admin_caps,  \* the AdminCap objects
    keeper_caps  \* the KeeperCap objects

capsVars == <<reg, admin_caps, keeper_caps>>

ASSUME CapsAssumption ==
    /\ NoAddress \notin Addresses
    /\ MaxAllowlist \in Nat /\ MaxCapEpoch \in Nat

CapRegistry ==
    [admin : Addresses, admin_epoch : Nat, pending_admin : Addresses \cup {NoAddress},
     keeper : Addresses, keeper_epoch : Nat, paused : BOOLEAN,
     allowlist : SUBSET Entries]

Cap == [holder : Addresses, epoch : Nat]

-----------------------------------------------------------------------------
(* The authorisation surface. *)

assert_admin(cap) == cap.epoch = reg.admin_epoch

\* Mutant: pause is left to the entry points.
assert_keeper_unpaused(cap) == cap.epoch = reg.keeper_epoch

assert_keeper(cap) == cap.epoch = reg.keeper_epoch /\ ~reg.paused

(* One capability of each kind goes out with the registry.                  *)
new_registry(admin, keeper) ==
    /\ reg = [admin |-> admin, admin_epoch |-> 0, pending_admin |-> NoAddress,
              keeper |-> keeper, keeper_epoch |-> 0, paused |-> FALSE, allowlist |-> {}]
    /\ admin_caps = {[holder |-> admin, epoch |-> 0]}
    /\ keeper_caps = {[holder |-> keeper, epoch |-> 0]}

CapsInit == \E admin, keeper \in Addresses : new_registry(admin, keeper)

-----------------------------------------------------------------------------
(* The two-step admin handover. *)

initiate_admin_transfer(cap, new_admin) ==
    /\ assert_admin(cap)
    /\ new_admin # reg.admin
    /\ reg.pending_admin = NoAddress
    /\ reg' = [reg EXCEPT !.pending_admin = new_admin]
    /\ UNCHANGED <<admin_caps, keeper_caps>>

cancel_admin_transfer(cap) ==
    /\ assert_admin(cap)
    /\ reg.pending_admin # NoAddress
    /\ reg' = [reg EXCEPT !.pending_admin = NoAddress]
    /\ UNCHANGED <<admin_caps, keeper_caps>>

\* Mutant: the capability the outgoing admin holds is not retired.
accept_same_epoch(sender) ==
    /\ reg.pending_admin = sender
    /\ reg' = [reg EXCEPT !.admin = sender, !.pending_admin = NoAddress]
    /\ admin_caps' = admin_caps \cup {[holder |-> sender, epoch |-> reg.admin_epoch]}
    /\ UNCHANGED keeper_caps

\* Mutant: the nomination is not used up.
accept_repeatably(sender) ==
    /\ reg.pending_admin = sender
    /\ reg.admin_epoch < MaxCapEpoch
    /\ reg' = [reg EXCEPT !.admin = sender, !.admin_epoch = @ + 1]
    /\ admin_caps' = admin_caps \cup {[holder |-> sender, epoch |-> reg.admin_epoch + 1]}
    /\ UNCHANGED keeper_caps

\* Mutant: an old capability of the nominee's is revived instead of replaced.
accept_reviving(sender) ==
    /\ reg.pending_admin = sender
    /\ LET own == {c \in admin_caps : c.holder = sender}
           epoch == IF own = {} THEN reg.admin_epoch + 1 ELSE (CHOOSE c \in own : TRUE).epoch
       IN  /\ epoch <= MaxCapEpoch
           /\ reg' = [reg EXCEPT !.admin = sender, !.admin_epoch = epoch,
                                 !.pending_admin = NoAddress]
           /\ admin_caps' = admin_caps \cup {[holder |-> sender, epoch |-> epoch]}
    /\ UNCHANGED keeper_caps

accept_admin_transfer(sender) ==
    /\ reg.pending_admin = sender
    /\ reg.admin_epoch < MaxCapEpoch
    /\ reg' = [reg EXCEPT !.admin = sender, !.admin_epoch = @ + 1,
                          !.pending_admin = NoAddress]
    /\ admin_caps' = admin_caps \cup {[holder |-> sender, epoch |-> reg.admin_epoch + 1]}
    /\ UNCHANGED keeper_caps

-----------------------------------------------------------------------------
(* Rotation, pause and the allowlist. *)

rotate_keeper_cap(cap, new_keeper) ==
    /\ assert_admin(cap)
    /\ reg.keeper_epoch < MaxCapEpoch
    /\ reg' = [reg EXCEPT !.keeper = new_keeper, !.keeper_epoch = @ + 1]
    /\ keeper_caps' = keeper_caps \cup {[holder |-> new_keeper, epoch |-> reg.keeper_epoch + 1]}
    /\ UNCHANGED admin_caps

set_paused(cap, paused) ==
    /\ assert_admin(cap)
    /\ reg' = [reg EXCEPT !.paused = paused]
    /\ UNCHANGED <<admin_caps, keeper_caps>>

(* The size is tested before the presence: a full list refuses to allow an  *)
(* entry it already has.                                                    *)
allow_address(cap, entry) ==
    /\ assert_admin(cap)
    /\ Cardinality(reg.allowlist) < MaxAllowlist
    /\ reg' = [reg EXCEPT !.allowlist = @ \cup {entry}]
    /\ UNCHANGED <<admin_caps, keeper_caps>>

disallow_address(cap, entry) ==
    /\ assert_admin(cap)
    /\ entry \in reg.allowlist
    /\ reg' = [reg EXCEPT !.allowlist = @ \ {entry}]
    /\ UNCHANGED <<admin_caps, keeper_caps>>

-----------------------------------------------------------------------------
(* Anybody presents any capability object, live or retired.                 *)
WithAdminCap(cap) ==
    \/ \E a \in Addresses : initiate_admin_transfer(cap, a) \/ rotate_keeper_cap(cap, a)
    \/ cancel_admin_transfer(cap)
    \/ \E paused \in BOOLEAN : set_paused(cap, paused)
    \/ \E e \in Entries : allow_address(cap, e) \/ disallow_address(cap, e)

CapsNext ==
    \/ \E cap \in admin_caps : WithAdminCap(cap)
    \/ \E a \in Addresses : accept_admin_transfer(a)

CapsSpec == CapsInit /\ [][CapsNext]_capsVars

-----------------------------------------------------------------------------
(* The registry and the capability objects are well typed, and the pinned   *)
(* list keeps to its size (caps.move, allow_address and MAX_ALLOWLIST).     *)
CapsTypeOK ==
    /\ reg \in CapRegistry
    /\ IsFiniteSet(reg.allowlist) /\ Cardinality(reg.allowlist) <= MaxAllowlist
    /\ admin_caps \subseteq Cap /\ keeper_caps \subseteq Cap

live(caps, epoch) == {c \in caps : c.epoch = epoch}

(* However often the keeper is rotated and the vault handed over, at any    *)
(* moment exactly one AdminCap is live, with the registry's admin, and      *)
(* exactly one keeper capability, with its keeper; so a nominee holds       *)
(* nothing until he accepts (caps.move, invariants 1, 4 and 7).             *)
OneLiveCapEach ==
    /\ live(admin_caps, reg.admin_epoch) = {[holder |-> reg.admin, epoch |-> reg.admin_epoch]}
    /\ live(keeper_caps, reg.keeper_epoch) = {[holder |-> reg.keeper, epoch |-> reg.keeper_epoch]}
    /\ reg.pending_admin # reg.admin

(* Once retired, a capability is retired for ever, whatever is rotated,     *)
(* nominated or accepted later (caps.move, invariant 4).                    *)
RetiredForGood ==
    [][/\ \A c \in admin_caps : c.epoch # reg.admin_epoch => c.epoch # reg'.admin_epoch
       /\ \A c \in keeper_caps : c.epoch # reg.keeper_epoch => c.epoch # reg'.keeper_epoch]_capsVars

(* Admin authority moves only to the address the sitting admin named, by    *)
(* that address's own acceptance, which uses the nomination up; and a       *)
(* nomination is withdrawn, never replaced (initiate, cancel, accept).      *)
AuthorityMovesByConsent ==
    [][/\ reg'.admin_epoch # reg.admin_epoch =>
             /\ reg.pending_admin # NoAddress
             /\ reg'.admin = reg.pending_admin
             /\ reg'.pending_admin = NoAddress
       /\ reg.pending_admin # NoAddress =>
             reg'.pending_admin \in {reg.pending_admin, NoAddress}]_capsVars
=============================================================================
