------------------------------- MODULE NotePanel -------------------------------
(****************************************************************************)
(* One browser escrowing and spending notes (app/src/screens/batch/         *)
(* NotePanel.tsx over app/src/lib/notes.ts), against the chain of Notes and *)
(* a mirror of its events that may lag, while others deposit, whatever      *)
(* commitment they like for the tier they pay, and spend.                   *)
(*                                                                          *)
(* Every await of the panel's handlers is a point where the chain, the      *)
(* mirror and the user's other clicks may move: the coins are listed before *)
(* a deposit is sent, the leaf list is read before a spend is sent, the     *)
(* wallet takes its time to sign, the answer may be lost although the       *)
(* transaction landed, and a reload keeps the note wallet and nothing else. *)
(****************************************************************************)
EXTENDS Notes

CONSTANTS
    MaxNotes,       \* bound: notes this browser creates
    OwnTiers,       \* bound: the tiers it chooses
    MaxClicks,      \* bound: how often "Escrow it" is pressed
    MaxOthers,      \* bound: deposits of everybody else
    OthersDeposits, \* bound: the tiers they pay for, each with the tier they commit to
    MaxFailures,    \* bound: reloads, dropped transactions, lost answers, failed reads, pauses
    NoRoot          \* `data === null`: nothing read since the page loaded

\* Every tier has a value.
ASSUME PanelAssumption ==
    /\ Ladder \in Seq(Nat \ {0})
    /\ OwnTiers \subseteq DOMAIN Ladder
    /\ OthersDeposits \subseteq (DOMAIN Ladder) \X (DOMAIN Ladder)
    /\ MaxNotes \in Nat

VARIABLES
    mirrored,       \* how many NoteCommitted events the mirror shows
    minted,         \* the tier of each note created here; a note is its position
    wallet,         \* localStorage: the notes kept, each with what it records
    fresh,          \* the note on screen as "not escrowed yet", or 0
    noteRoot,       \* the root last read (`escrow.state.data`)
    loads,          \* reads of the panel in flight
    ops,            \* the handlers in flight, by slot
    lastSent,       \* the slot of the transaction `tx.isPending` is about, or 0
    clicks,
    failures,
    others          \* deposits of everybody else

panelOwn == <<mirrored, minted, wallet, fresh, noteRoot, loads, ops, lastSent, clicks, failures>>
panelVars == <<panelOwn, others>>
notesVars == <<noteVars, panelVars>>

Slots == {1, 2}             \* bound: handlers in flight at once
NoLeaf == -1
Idle == [kind |-> "none"]
Secrets == 1 .. MaxNotes
OthersSecret == 0           \* all the secrets this browser does not know

chain == <<tree, nulls, noteCustody, noteLog, paused>>

(* ---------------------- the tree, rebuilt in the browser ---------------- *)

\* The nodes one level up; a node without a right neighbour takes the zero.
levelUp(level, d) ==
    [i \in 1 .. (Len(level) + 1) \div 2 |->
        hash_nodes(level[2 * i - 1], IF 2 * i <= Len(level) THEN level[2 * i] ELSE zeros[d])]

levels == [i \in 1 .. Depth |-> i - 1]

rootFromLeaves(leaves) ==
    IF leaves = <<>> THEN zeros[Depth] ELSE FoldLeft(levelUp, leaves, levels)[1]

sibling(level, idx, d) ==
    LET pair == IF idx % 2 = 0 THEN idx + 1 ELSE idx - 1
    IN  IF pair < Len(level) THEN level[pair + 1] ELSE zeros[d]

siblingsFor(leaves, leafIndex) ==
    FoldLeft(LAMBDA a, d : [level    |-> levelUp(a.level, d),
                            idx      |-> a.idx \div 2,
                            siblings |-> Append(a.siblings, sibling(a.level, a.idx, d))],
             [level |-> leaves, idx |-> leafIndex, siblings |-> <<>>], levels).siblings

rootFromPath(leaf, leafIndex, siblings) == compute_root(leaf, leafIndex, siblings)

\* A panel that trusts the path it rebuilt.
pathMatchesRoot_trusted(leaf, leafIndex, siblings, root) == TRUE

pathMatchesRoot(leaf, leafIndex, siblings, root) ==
    rootFromPath(leaf, leafIndex, siblings) = root

Commitments(log) == [i \in DOMAIN log |-> log[i].commitment]
readNoteLeaves == Commitments(SubSeq(noteLog, 1, mirrored))
commitmentOf(s) == commitment(minted[s], s)

\* The first leaf that carries the note's commitment, as `find` returns it.
leafOf(s) ==
    LET at == {i \in DOMAIN readNoteLeaves : readNoteLeaves[i] = commitmentOf(s)}
    IN  IF at = {} THEN NoLeaf ELSE Min(at) - 1

(* --------------------------- what is in flight -------------------------- *)

here(slot) == ops[slot].kind # "none" /\ ops[slot].page
pending == lastSent # 0 /\ here(lastSent) /\ ops[lastSent].at = "sent"
busy == pending \/ \E l \in loads : l.live
spending == \E slot \in Slots : here(slot) /\ ops[slot].kind = "spend"
freeSlots == {slot \in Slots : ops[slot].kind = "none"}

\* `escrow.run`: a new run supersedes the one in flight.  Bound: one superseded
\* read is kept in flight, the answers of those before it have been dropped.
superseded == {[l EXCEPT !.live = FALSE] : l \in {m \in loads : m.live}}
loadsAnd == superseded \cup {[root |-> tree.root, live |-> TRUE]}

fails == failures < MaxFailures /\ failures' = failures + 1

NotesPanelInit ==
    /\ NotesInit
    /\ mirrored = 0
    /\ minted = <<>>
    /\ wallet = <<>>
    /\ fresh = 0
    /\ noteRoot = NoRoot
    /\ loads = {}
    /\ ops = [slot \in Slots |-> Idle]
    /\ lastSent = 0
    /\ clicks = 0
    /\ failures = 0
    /\ others = 0

(* --------------------------------- reading ------------------------------ *)

\* "Read from chain".
Read ==
    /\ ~busy
    /\ loads' = loadsAnd
    /\ UNCHANGED <<chain, mirrored, minted, wallet, fresh, noteRoot, ops, lastSent, failures, clicks, others>>

\* Every answer is shown, the late ones too.
shown_late(l) == l.root

\* An answer of a superseded run is dropped.
shown(l) == IF l.live THEN l.root ELSE noteRoot
Deliver(l) ==
    /\ loads' = loads \ {l}
    /\ noteRoot' = shown(l)
    /\ UNCHANGED <<chain, mirrored, minted, wallet, fresh, ops, lastSent, failures, clicks, others>>

DeliverLive == \E l \in loads : l.live /\ Deliver(l)
DeliverLate == \E l \in loads : ~l.live /\ Deliver(l)

ReadFails ==
    /\ fails
    /\ \E l \in loads : loads' = loads \ {l}
    /\ UNCHANGED <<chain, mirrored, minted, wallet, fresh, noteRoot, ops, lastSent, clicks, others>>

(* ---------------------------- creating a note --------------------------- *)

create(denom) ==
    /\ ~busy
    /\ Len(minted) < MaxNotes
    /\ minted' = Append(minted, denom)
    /\ fresh' = Len(minted')
    /\ wallet' = Append(wallet, [held |-> TRUE, leaf |-> NoLeaf, spent |-> FALSE])
    /\ UNCHANGED <<chain, mirrored, noteRoot, loads, ops, lastSent, failures, clicks, others>>

held(s) == s \in DOMAIN wallet /\ wallet[s].held

\* Maps over the stored notes: a note forgotten stays forgotten.
updateNote(s, leaf, spent) ==
    IF held(s) THEN [wallet EXCEPT ![s].leaf = leaf, ![s].spent = spent] ELSE wallet

\* The button is live whatever the panel is doing.
Discard ==
    /\ fresh # 0
    /\ wallet' = [wallet EXCEPT ![fresh].held = FALSE]      \* forgetNote
    /\ fresh' = 0
    /\ UNCHANGED <<chain, mirrored, minted, noteRoot, loads, ops, lastSent, failures, clicks, others>>

\* Close or reload the page: a transaction already sent may still land.
Reload ==
    /\ fails
    /\ fresh' = 0
    /\ noteRoot' = NoRoot
    /\ loads' = {}
    /\ lastSent' = 0
    /\ ops' = [slot \in Slots |->
                  IF ops[slot].kind # "none" /\ ops[slot].at = "sent"
                  THEN [ops[slot] EXCEPT !.page = FALSE] ELSE Idle]
    /\ UNCHANGED <<chain, mirrored, minted, wallet, clicks, others>>

(* ------------------------------- depositFresh --------------------------- *)

ClickDeposit ==
    /\ fresh # 0 /\ ~busy
    /\ freeSlots # {}
    /\ clicks < MaxClicks /\ clicks' = clicks + 1
    /\ ops' = [ops EXCEPT ![Min(freeSlots)] =
                  [kind |-> "deposit", at |-> "coins", note |-> fresh, page |-> TRUE]]
    /\ UNCHANGED <<chain, mirrored, minted, wallet, fresh, noteRoot, loads, lastSent, failures, others>>

SendDeposit(slot) ==
    /\ ops[slot].kind = "deposit" /\ ops[slot].at = "coins"
    /\ ops' = [ops EXCEPT ![slot].at = "sent"]
    /\ lastSent' = slot
    /\ UNCHANGED <<chain, mirrored, minted, wallet, fresh, noteRoot, loads, failures, clicks, others>>

\* The wallet answered: `isPending` is over for that transaction.
settled(slot) == lastSent' = IF lastSent = slot THEN 0 ELSE lastSent

\* It landed.  `send` answers success and the handler goes on to its next await;
\* or the answer is lost, an error (no digest, a connection cut); or nobody waits
\* for it, the page being gone.
landed(slot) ==
    /\ \/ /\ ops[slot].page
          /\ ops' = [ops EXCEPT ![slot].at = "confirming"]
          /\ UNCHANGED failures
       \/ /\ ops[slot].page
          /\ fails
          /\ ops' = [ops EXCEPT ![slot] = Idle]
       \/ /\ ~ops[slot].page
          /\ ops' = [ops EXCEPT ![slot] = Idle]
          /\ UNCHANGED failures
    /\ settled(slot)

LandDeposit(slot) ==
    /\ ops[slot].kind = "deposit" /\ ops[slot].at = "sent"
    /\ landed(slot)
    /\ escrow_deposit_note(minted[ops[slot].note], commitmentOf(ops[slot].note))
    /\ UNCHANGED <<mirrored, minted, wallet, fresh, noteRoot, loads, clicks, others>>

\* The transaction aborts, or never reaches the chain: `send` answers an error
\* and the panel keeps what it shows.
Refuse(slot) ==
    /\ ops[slot].kind # "none" /\ ops[slot].at = "sent"
    /\ \/ ops[slot].kind = "deposit" /\ ~depositAllowed /\ UNCHANGED failures
       \/ /\ ops[slot].kind = "spend"
          /\ ~spendAllowed(minted[ops[slot].note], ops[slot].note, ops[slot].leaf, ops[slot].path)
          /\ UNCHANGED failures
       \/ fails
    /\ ops' = [ops EXCEPT ![slot] = Idle]
    /\ settled(slot)
    /\ UNCHANGED <<chain, mirrored, minted, wallet, fresh, noteRoot, loads, clicks, others>>

FinishDeposit(slot) ==
    /\ ops[slot].kind = "deposit" /\ ops[slot].at = "confirming"
    /\ LET s == ops[slot].note
           found == leafOf(s)
       IN  wallet' = IF found = NoLeaf THEN wallet ELSE updateNote(s, found, wallet[s].spent)
    /\ fresh' = 0
    /\ loads' = loadsAnd
    /\ ops' = [ops EXCEPT ![slot] = Idle]
    /\ UNCHANGED <<chain, mirrored, minted, noteRoot, lastSent, failures, clicks, others>>

(* ---------------------------------- spend ------------------------------- *)

ClickSpend(s) ==
    /\ held(s) /\ ~wallet[s].spent
    /\ ~busy /\ noteRoot # NoRoot /\ ~spending
    /\ freeSlots # {}
    /\ ops' = [ops EXCEPT ![Min(freeSlots)] =
                  [kind |-> "spend", at |-> "leaves", note |-> s, page |-> TRUE,
                   leaf |-> wallet[s].leaf, root |-> noteRoot, path |-> <<>>]]
    /\ UNCHANGED <<chain, mirrored, minted, wallet, fresh, noteRoot, loads, lastSent, failures, clicks, others>>

\* The leaf the closure knows, or the first the list shows.
indexFor(op) == IF op.leaf # NoLeaf THEN op.leaf ELSE leafOf(op.note)

provable(op) ==
    LET index == indexFor(op)
    IN  /\ index >= 0 /\ index < mirrored
        /\ pathMatchesRoot(readNoteLeaves[index + 1], index,
                           siblingsFor(readNoteLeaves, index), op.root)

\* The leaf list arrives, the path is rebuilt and checked against the root the
\* panel held when the button was pressed, and the spend is sent.
SendSpend(slot) ==
    /\ ops[slot].kind = "spend" /\ ops[slot].at = "leaves"
    /\ provable(ops[slot])
    /\ ops' = [ops EXCEPT ![slot].at = "sent",
                          ![slot].leaf = indexFor(ops[slot]),
                          ![slot].path = siblingsFor(readNoteLeaves, indexFor(ops[slot]))]
    /\ lastSent' = slot
    /\ UNCHANGED <<chain, mirrored, minted, wallet, fresh, noteRoot, loads, failures, clicks, others>>

\* The handler throws: its error is shown through `escrow.run`.
SpendThrows(slot) ==
    /\ ops[slot].kind = "spend" /\ ops[slot].at = "leaves"
    /\ ~provable(ops[slot])
    /\ loads' = superseded
    /\ ops' = [ops EXCEPT ![slot] = Idle]
    /\ UNCHANGED <<chain, mirrored, minted, wallet, fresh, noteRoot, lastSent, failures, clicks, others>>

LandSpend(slot) ==
    /\ ops[slot].kind = "spend" /\ ops[slot].at = "sent"
    /\ landed(slot)
    /\ escrow_spend_note(minted[ops[slot].note], ops[slot].note, ops[slot].leaf, ops[slot].path)
    /\ UNCHANGED <<mirrored, minted, wallet, fresh, noteRoot, loads, clicks, others>>

FinishSpend(slot) ==
    /\ ops[slot].kind = "spend" /\ ops[slot].at = "confirming"
    /\ wallet' = updateNote(ops[slot].note, ops[slot].leaf, TRUE)
    /\ loads' = loadsAnd
    /\ ops' = [ops EXCEPT ![slot] = Idle]
    /\ UNCHANGED <<chain, mirrored, minted, fresh, noteRoot, lastSent, failures, clicks, others>>

(* ------------------------- the mirror and the others -------------------- *)

MirrorCatchesUp ==
    /\ mirrored < Len(noteLog)
    /\ mirrored' = mirrored + 1
    /\ UNCHANGED <<chain, minted, wallet, fresh, noteRoot, loads, ops, lastSent, failures, clicks, others>>

\* The chain checks the payment against the tier paid for and takes the commitment
\* as it comes: to a note of that tier or of another, or one already published.
OthersDeposit ==
    /\ others < MaxOthers /\ others' = others + 1
    /\ \E paid \in Tiers :
           \E leaf \in {commitment(d, OthersSecret) : d \in Tiers} \cup ToSet(Commitments(noteLog)) :
               /\ <<paid, leaf[2]>> \in OthersDeposits
               /\ escrow_deposit_note(paid, leaf)
    /\ UNCHANGED panelOwn

\* Somebody else spends a note of theirs, for what its commitment says.
OthersSpend ==
    /\ \E i \in DOMAIN noteLog :
           LET leaf == noteLog[i].commitment
           IN  /\ leaf[3] = OthersSecret
               /\ escrow_spend_note(leaf[2], OthersSecret, i - 1,
                                    siblingsFor(Commitments(noteLog), i - 1))
    /\ UNCHANGED panelVars

Pause ==
    /\ ~paused /\ set_paused
    /\ fails
    /\ UNCHANGED <<mirrored, minted, wallet, fresh, noteRoot, loads, ops, lastSent, clicks, others>>

OwnStep(slot) ==
    \/ SendDeposit(slot) \/ LandDeposit(slot) \/ Refuse(slot)
    \/ FinishDeposit(slot) \/ SendSpend(slot) \/ SpendThrows(slot) \/ LandSpend(slot)
    \/ FinishSpend(slot)

NotesNext ==
    \/ Read \/ DeliverLive \/ DeliverLate \/ ReadFails
    \/ \E d \in OwnTiers : create(d)
    \/ OthersDeposit \/ OthersSpend \/ Discard \/ Reload \/ ClickDeposit
    \/ \E slot \in Slots : OwnStep(slot)
    \/ \E s \in Secrets : ClickSpend(s)
    \/ MirrorCatchesUp \/ Pause

\* The network answers and the chain executes, so every handler comes to its
\* end: each of its few steps is weakly fair, said here of their end because a
\* step of some handler in flight is always possible.  The owner keeps reading
\* the panel and keeps pressing Spend on every note it offers; the button comes
\* and goes with `busy`, and a read may be superseded before its answer, hence
\* strong fairness.
HandlersEnd == \A slot \in Slots : []<>(ops[slot].kind = "none")

Fairness ==
    /\ HandlersEnd
    /\ WF_notesVars(MirrorCatchesUp)
    /\ WF_notesVars(Read)
    /\ SF_notesVars(DeliverLive)
    /\ \A s \in Secrets : SF_notesVars(ClickSpend(s))

NotesSpec == NotesPanelInit /\ [][NotesNext]_notesVars /\ Fairness

(* -------------------------------- properties ---------------------------- *)

Note == [held : BOOLEAN, leaf : {NoLeaf} \cup 0 .. Capacity - 1, spent : BOOLEAN]

\* Type invariant of the chain and the panel; a note's recorded leaf carries
\* its own commitment.
NotesTypeOK ==
    /\ tree.next_index = Len(noteLog) /\ tree.next_index <= Capacity
    /\ noteCustody \in Nat
    /\ mirrored \in 0 .. Len(noteLog)
    /\ minted \in Seq(Tiers)
    /\ wallet \in Seq(Note) /\ Len(wallet) = Len(minted)
    /\ \A s \in DOMAIN wallet :
           wallet[s].leaf # NoLeaf => noteLog[wallet[s].leaf + 1].commitment = commitmentOf(s)
    /\ fresh \in 0 .. Len(minted)
    /\ lastSent \in {0} \cup Slots /\ failures \in 0 .. MaxFailures

\* A leaf is spent at its own index, for the tier its commitment was made with,
\* which need not be the tier paid for it.
Unspent ==
    {i \in DOMAIN noteLog : nullifier(noteLog[i].commitment[3], i - 1) \notin nulls}
PaidIn(i) == Ladder[noteLog[i].denom]
WorthOf(i) == Ladder[noteLog[i].commitment[2]]

\* The sats behind the notes are what was paid for the leaves, less what the spent
\* ones were worth: a commitment escrowed twice is spent twice, a leaf once, and
\* neither the tree's count nor the custody loses track.  When every leaf was paid
\* its worth that is the worth of the leaves nobody has spent, which notes.move
\* states without that condition (notes.move:104-110, invariants 1 and 3).
PaidInFull == \A i \in DOMAIN noteLog : PaidIn(i) = WorthOf(i)
BackingExact ==
    /\ noteCustody =
           SumFunctionOnSet(
               [i \in DOMAIN noteLog |-> PaidIn(i) - (IF i \in Unspent THEN 0 ELSE WorthOf(i))],
               DOMAIN noteLog)
    /\ PaidInFull =>
           noteCustody =
               SumFunctionOnSet([i \in DOMAIN noteLog |-> IF i \in Unspent THEN WorthOf(i) ELSE 0],
                                DOMAIN noteLog)

\* The incremental tree is the tree of the published leaves, as a client that
\* has them all rebuilds it, and the ring holds the roots of the last
\* RootHistory states of that list (notes.move, invariants 4 and 7).
TreeIsLeaves ==
    LET rootAt(n) == rootFromLeaves(Commitments(SubSeq(noteLog, 1, n)))
        n         == Len(noteLog)
    IN  /\ tree.root = rootAt(n)
        /\ {tree.roots[k] : k \in DOMAIN tree.roots} =
               {rootAt(k) : k \in Max({0, n - RootHistory + 1}) .. n}

\* How many leaves the list had when `root` was published.
Age(root) ==
    IF root = NoRoot THEN 0
    ELSE CHOOSE n \in 0 .. Len(noteLog) :
             root = rootFromLeaves(Commitments(SubSeq(noteLog, 1, n)))

\* A path that passed the panel's own check against the root it had read is a
\* path the chain accepts, until RootHistory deposits have landed since that
\* root: what the check is for (NotePanel.tsx:182).
CheckedPathHolds ==
    \A slot \in Slots :
        LET op == ops[slot]
        IN  op.kind = "spend" /\ op.at = "sent" =>
                \/ assert_membership(tree, commitmentOf(op.note), op.leaf, op.path)
                \/ Len(noteLog) - Age(op.root) >= RootHistory

\* What the panel shows never goes back to an older tree: a slow answer cannot
\* overwrite the answer to a later question (useAsyncAction.ts, invariant 2).
PanelNeverGoesBack ==
    [][noteRoot' \in {noteRoot, NoRoot} \/ Age(noteRoot)' >= Age(noteRoot)]_noteRoot

\* A note whose deposit landed and that this browser still keeps is spent in
\* the end, by the owner who keeps reading the panel and pressing Spend: other
\* deposits and spends, a lagging mirror, a pause, a reload, an answer lost or the
\* same note escrowed twice delay it only.  Not so once a leaf is worth more than
\* was paid for it: its spend may take what backs the note.
SpentAt(s) == \E i \in 0 .. Capacity - 1 : nullifier(s, i) \in nulls
Landed(s) ==
    s \in DOMAIN minted /\ \E i \in DOMAIN noteLog : noteLog[i].commitment = commitmentOf(s)
Underpaid == \E i \in DOMAIN noteLog : PaidIn(i) < WorthOf(i)
EveryNoteSpends ==
    \A s \in Secrets : Landed(s) /\ held(s) ~> SpentAt(s) \/ ~held(s) \/ Underpaid

=============================================================================
