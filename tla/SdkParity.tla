------------------------------ MODULE SdkParity ------------------------------
(****************************************************************************)
(* The SDK's note tree beside the contract's, fed the same published leaves *)
(* (sdk/src/merkle.ts, move/sources/notes.move).  Their digests are not the *)
(* same: a node and an empty leaf are tagged otherwise.                     *)
(****************************************************************************)
EXTENDS NotePanel

Sdk == INSTANCE SdkTree

\* The digest the contract computes where the SDK has `digest`.
RECURSIVE retagged(_)
retagged(digest) ==
    IF digest = Sdk!ZERO32 THEN zeros[0]
    ELSE IF digest[1] = "sdk node" THEN hash_nodes(retagged(digest[2]), retagged(digest[3]))
    ELSE digest

\* The SDK's tree has the shape of the contract's (sdk/src/merkle.ts:80): retagged,
\* its newest root, its window of older ones and the root every proof of its folds
\* to are the contract's.  It is not "exactly what notes.move recomputes on a spend"
\* (merkle.ts:261): as they are, no proof of its reaches a root the contract knows.
SdkTwin ==
    LET leaves == Commitments(noteLog)
        twin   == Sdk!appendAll(leaves)
        known  == {tree.roots[k] : k \in DOMAIN tree.roots}
    IN  /\ retagged(Sdk!currentRoot(twin)) = tree.root
        /\ {retagged(root) : root \in Sdk!knownRoots(twin)} = known
        /\ \A i \in DOMAIN leaves :
               LET root == Sdk!computeRootFromProof(leaves[i], Sdk!proveFromLeaves(leaves, i - 1))
               IN  retagged(root) = tree.root /\ root \notin known

=============================================================================
