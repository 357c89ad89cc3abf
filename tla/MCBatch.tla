------------------------------ MODULE MCBatch ------------------------------
(***************************************************************************)
(* Values for Batch's constants: every setter acts between and during      *)
(* passes that take at most one order (KeeperCrank's run fills the books). *)
(***************************************************************************)
EXTENDS Batch

Alice == "alice"
Empty == {}

AliceBids == [submitter |-> Alice, is_bid |-> TRUE, limit_price |-> 1, qty_sats |-> 1]

OneAddress == {Alice}
OneOrder == {AliceBids}

MCDefaults ==
    [cadence_ms |-> 3, offset_ms |-> 1, policy_version |-> 1, max_batch_size |-> 1,
     submit_cutoff_ms |-> 1, reveal_grace_ms |-> 2, next_batch_id |-> 0, live_batches |-> 0]

GovernCadences == {1, 2}
GovernOffsets == {0, 2}
GovernCutoffs == {0}
GovernGraces == {0, 1}
GovernSizes == {0, 1, 3}
GovernVersions == {1, 2}
=============================================================================
