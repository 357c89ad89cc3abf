------------------------------- MODULE MCCaps -------------------------------
(***************************************************************************)
(* Values for the constants of Caps: three addresses, so that the seat can *)
(* be handed to somebody who held it before, and lists that fill up.       *)
(***************************************************************************)
EXTENDS Caps

ThreeAddresses == {"alice", "bob", "carol"}
TwoEntries == {"venue1", "venue2"}
=============================================================================
