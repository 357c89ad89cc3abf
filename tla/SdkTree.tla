-------------------------------- MODULE SdkTree --------------------------------
(****************************************************************************)
(* The note tree of sdk/src/merkle.ts: the client-side twin of the tree     *)
(* notes.move keeps, incremental as the contract's and, beside it, rebuilt  *)
(* from the leaves.  It hashes under a tag of its own (0x01, the contract's *)
(* is 0x03) and its empty leaf is 32 zero bytes, which no hash gives.       *)
(****************************************************************************)
EXTENDS Integers, Sequences, SequencesExt

CONSTANTS Depth, RootHistory

ZERO32 == <<"32 zero bytes">>       \* the empty leaf, and a ring slot never written
hashNode(left, right) == <<"sdk node", left, right>>

zerosFor[i \in 0 .. Depth] ==
    IF i = 0 THEN ZERO32 ELSE hashNode(zerosFor[i - 1], zerosFor[i - 1])

createTree ==
    [filledSubtrees   |-> [i \in 0 .. Depth - 1 |-> zerosFor[i]],
     nextIndex        |-> 0,
     roots            |-> [i \in 0 .. RootHistory - 1 |->
                              IF i = 0 THEN zerosFor[Depth] ELSE ZERO32],
     currentRootIndex |-> 0]

currentRoot(t) == t.roots[t.currentRootIndex]

\* Never-written slots are skipped.
knownRoots(t) == {t.roots[i] : i \in DOMAIN t.roots} \ {ZERO32}

\* The ring written in place: the newest root replaces the one before it.
append_in_place(t, leaf) ==
    LET idx(i)  == t.nextIndex \div (2 ^ i)
        cur[i \in 0 .. Depth] ==
            IF i = 0 THEN leaf
            ELSE IF idx(i - 1) % 2 = 0 THEN hashNode(cur[i - 1], zerosFor[i - 1])
                 ELSE hashNode(t.filledSubtrees[i - 1], cur[i - 1])
    IN  [filledSubtrees   |-> [i \in 0 .. Depth - 1 |->
                                  IF idx(i) % 2 = 0 THEN cur[i] ELSE t.filledSubtrees[i]],
         nextIndex        |-> t.nextIndex + 1,
         roots            |-> [t.roots EXCEPT ![t.currentRootIndex] = cur[Depth]],
         currentRootIndex |-> t.currentRootIndex]

\* cur[i] is the node at level i on the way up; a left node is kept.
append(t, leaf) ==
    LET idx(i)  == t.nextIndex \div (2 ^ i)
        cur[i \in 0 .. Depth] ==
            IF i = 0 THEN leaf
            ELSE IF idx(i - 1) % 2 = 0 THEN hashNode(cur[i - 1], zerosFor[i - 1])
                 ELSE hashNode(t.filledSubtrees[i - 1], cur[i - 1])
        slot == (t.currentRootIndex + 1) % RootHistory
    IN  [filledSubtrees   |-> [i \in 0 .. Depth - 1 |->
                                  IF idx(i) % 2 = 0 THEN cur[i] ELSE t.filledSubtrees[i]],
         nextIndex        |-> t.nextIndex + 1,
         roots            |-> [t.roots EXCEPT ![slot] = cur[Depth]],
         currentRootIndex |-> slot]

appendAll(leaves) == FoldLeft(append, createTree, leaves)

\* The populated prefix of every level, level 0 first.
buildLevels(leaves) ==
    LET levels[i \in 0 .. Depth] ==
            IF i = 0 THEN leaves
            ELSE [j \in 1 .. (Len(levels[i - 1]) + 1) \div 2 |->
                     hashNode(levels[i - 1][2 * j - 1],
                              IF 2 * j <= Len(levels[i - 1]) THEN levels[i - 1][2 * j]
                                                             ELSE zerosFor[i - 1])]
    IN  levels

\* `siblings[i]` is the node next to the path at level i, j ^ 1 of its index.
proveFromLeaves(leaves, leafIndex) ==
    LET levels   == buildLevels(leaves)
        j(i)     == leafIndex \div (2 ^ i)
        sib(i)   == IF j(i) % 2 = 0 THEN j(i) + 1 ELSE j(i) - 1
    IN  [i \in 0 .. Depth - 1 |->
            [sibling |-> IF sib(i) < Len(levels[i]) THEN levels[i][sib(i) + 1] ELSE zerosFor[i],
             right   |-> j(i) % 2 = 1]]

computeRootFromProof(leaf, proof) ==
    LET cur[i \in 0 .. Depth] ==
            IF i = 0 THEN leaf
            ELSE IF proof[i - 1].right THEN hashNode(proof[i - 1].sibling, cur[i - 1])
                 ELSE hashNode(cur[i - 1], proof[i - 1].sibling)
    IN  cur[Depth]

=============================================================================
