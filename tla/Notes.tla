-------------------------------- MODULE Notes --------------------------------
(****************************************************************************)
(* The escrow notes of move/sources/notes.move, with the two entry points   *)
(* of vault.move that reach them: a note is a commitment appended to an     *)
(* incremental Merkle tree, spent once by showing a path from its leaf to   *)
(* one of the last RootHistory roots the tree published.                    *)
(*                                                                          *)
(* Hashes are symbolic and injective: a digest is the tuple of what it was  *)
(* computed from, under the domain tag the code prefixes.  A note's 32-byte *)
(* secret and 32-byte randomness always travel together and are one value.  *)
(****************************************************************************)
EXTENDS Integers, Sequences, FiniteSets, SequencesExt, FiniteSetsExt

CONSTANTS
    Depth,          \* levels of the tree (NOTE_TREE_DEPTH is 20)
    RootHistory,    \* ROOT_HISTORY, the roots that stay acceptable (32)
    Ladder          \* denoms_sats: the value of each tier, ascending

VARIABLES
    tree,           \* the NoteTree
    nulls,          \* the tags of the NullifierSet
    noteCustody,    \* sats the vault holds for unspent notes
    noteLog,        \* the NoteCommitted events: the public leaf list
    paused          \* the vault's pause flag

noteVars == <<tree, nulls, noteCustody, noteLog, paused>>

Tiers == DOMAIN Ladder
Capacity == 2 ^ Depth

(* ------------------------------- hashing -------------------------------- *)

hash_nodes(left, right) == <<"node", left, right>>
commitment(denom, secret) == <<"commit", denom, secret>>
\* What a nullifier must not be: the same tag for two leaves of one secret.
nullifier_unindexed(secret, leafIndex) == <<"nullifier", secret>>
nullifier(secret, leafIndex) == <<"nullifier", secret, leafIndex>>

\* zeros[i] is the root of an all-empty subtree of height i.
zeros[i \in 0 .. Depth] ==
    IF i = 0 THEN <<"zero">> ELSE hash_nodes(zeros[i - 1], zeros[i - 1])

(* -------------------------------- the tree ------------------------------ *)

new_tree ==
    [next_index        |-> 0,
     root              |-> zeros[Depth],
     filled_subtrees   |-> [i \in 0 .. Depth - 1 |-> zeros[i]],
     roots             |-> [k \in 0 .. RootHistory - 1 |-> zeros[Depth]],
     root_cursor       |-> 0,
     outstanding_sats  |-> 0,
     outstanding_notes |-> 0]

\* A wrong append: the left node is not kept.
climb_forgetful(a, level) ==
    [filled  |-> a.filled,
     current |-> IF a.idx % 2 = 0
                 THEN hash_nodes(a.current, zeros[level])
                 ELSE hash_nodes(a.filled[level], a.current),
     idx     |-> a.idx \div 2]

\* One level of an append: the pair at `level` is hashed, and a left node is
\* kept for the right node that will join it.
climb(a, level) ==
    IF a.idx % 2 = 0
    THEN [filled  |-> [a.filled EXCEPT ![level] = a.current],
          current |-> hash_nodes(a.current, zeros[level]),
          idx     |-> a.idx \div 2]
    ELSE [filled  |-> a.filled,
          current |-> hash_nodes(a.filled[level], a.current),
          idx     |-> a.idx \div 2]

appended(t, leaf) ==
    FoldLeft(climb, [filled |-> t.filled_subtrees, current |-> leaf, idx |-> t.next_index],
             [i \in 1 .. Depth |-> i - 1])

insert_leaf(t, leaf) ==
    LET top    == appended(t, leaf)
        cursor == (t.root_cursor + 1) % RootHistory
    IN  [t EXCEPT !.filled_subtrees = top.filled,
                  !.root            = top.current,
                  !.root_cursor     = cursor,
                  !.roots[cursor]   = top.current,
                  !.next_index      = @ + 1]

\* The node a leaf folds up to along its siblings, side by side with the bits
\* of its index.
compute_root(leaf, leafIndex, siblings) ==
    FoldLeft(LAMBDA a, sibling :
                 [node |-> IF a.idx % 2 = 0 THEN hash_nodes(a.node, sibling)
                                            ELSE hash_nodes(sibling, a.node),
                  idx  |-> a.idx \div 2],
             [node |-> leaf, idx |-> leafIndex], siblings).node

is_known_root(t, root) == \E k \in DOMAIN t.roots : t.roots[k] = root

assert_membership(t, leaf, leafIndex, siblings) ==
    /\ Len(siblings) = Depth
    /\ leafIndex < Capacity
    /\ is_known_root(t, compute_root(leaf, leafIndex, siblings))

(* -------------------------- the vault's entry points -------------------- *)

NotesInit ==
    /\ tree = new_tree
    /\ nulls = {}
    /\ noteCustody = 0
    /\ noteLog = <<>>
    /\ paused = FALSE

\* `assert_note_backing` after a deposit or a spend: the tree's liability is
\* the custody, or the transaction aborts.
assert_note_backing == tree'.outstanding_sats = noteCustody'

depositAllowed == ~paused /\ tree.next_index < Capacity

escrow_deposit_note(denom, leaf) ==
    /\ depositAllowed
    /\ tree' = [insert_leaf(tree, leaf) EXCEPT
                   !.outstanding_sats  = @ + Ladder[denom],
                   !.outstanding_notes = @ + 1]
    /\ noteCustody' = noteCustody + Ladder[denom]
    /\ noteLog' = Append(noteLog, [commitment |-> leaf, denom |-> denom])
    /\ assert_note_backing
    /\ UNCHANGED <<nulls, paused>>

\* An exit that waits for the vault to be unpaused.
spendAllowed_unpaused(denom, secret, leafIndex, siblings) ==
    /\ ~paused
    /\ assert_membership(tree, commitment(denom, secret), leafIndex, siblings)
    /\ nullifier(secret, leafIndex) \notin nulls

\* The checks of `spend`, in the order that matters to what is refused.
spendAllowed(denom, secret, leafIndex, siblings) ==
    /\ assert_membership(tree, commitment(denom, secret), leafIndex, siblings)
    /\ nullifier(secret, leafIndex) \notin nulls
    /\ tree.outstanding_sats >= Ladder[denom]
    /\ tree.outstanding_notes > 0

escrow_spend_note(denom, secret, leafIndex, siblings) ==
    /\ spendAllowed(denom, secret, leafIndex, siblings)
    /\ nulls' = nulls \cup {nullifier(secret, leafIndex)}
    /\ tree' = [tree EXCEPT !.outstanding_sats  = @ - Ladder[denom],
                            !.outstanding_notes = @ - 1]
    /\ noteCustody' = noteCustody - Ladder[denom]
    /\ assert_note_backing
    /\ UNCHANGED <<noteLog, paused>>

set_paused ==
    /\ paused' = TRUE
    /\ UNCHANGED <<tree, nulls, noteCustody, noteLog>>

=============================================================================
