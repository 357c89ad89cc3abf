---------------------------- MODULE MCKeeper ----------------------------
(***************************************************************************)
(* Two keepers, one batch of up to three orders: one fit to reveal, one    *)
(* whose quantity is zero and one whose blob is lost.                      *)
(***************************************************************************)
EXTENDS KeeperCrank

Alice == "alice"
OneAddress == {Alice}
Empty == {}

Good == [submitter |-> Alice, is_bid |-> TRUE, limit_price |-> 1, qty_sats |-> 1]
Nothing == [Good EXCEPT !.qty_sats = 0]
Gone == [Good EXCEPT !.is_bid = FALSE]
ThreeKinds == {Good, Nothing, Gone}
WhatDecrypts == [o \in ThreeKinds |-> IF o = Gone THEN Unreadable ELSE o]

LooseClocks == {-1, 0, 1}

MCDefaults ==
    [cadence_ms |-> 2, offset_ms |-> 1, policy_version |-> 1, max_batch_size |-> 3,
     submit_cutoff_ms |-> 1, reveal_grace_ms |-> 1, next_batch_id |-> 0, live_batches |-> 0]
========================================================================
