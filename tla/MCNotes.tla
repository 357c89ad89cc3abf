------------------------------- MODULE MCNotes -------------------------------
(* Two tiers whose values no other pair of notes adds up to.               *)
EXTENDS SdkParity

TwoTiers == <<1, 4>>

FairAndCheap == {<<1, 1>>, <<1, 2>>}

=============================================================================
