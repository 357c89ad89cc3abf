---------------------------- MODULE EventMerge ----------------------------
(***************************************************************************)
(* The live bridge's event log (keeper/src/hashi/real.ts).  The chain is   *)
(* read one Move module at a time, a page per query; what arrives is held  *)
(* until every module still being read has reported past it, then released *)
(* into the log in key order, where it gets its sequence number.  Nothing  *)
(* keeps one call from starting while another awaits an answer, and all    *)
(* share the cursors, the held events and the log: two calls may be handed *)
(* the same page, and a late answer takes a cursor back.  Several keepers  *)
(* read one chain, which grows while they do.  An event is its position in *)
(* the chain.                                                              *)
(***************************************************************************)
EXTENDS Integers, SequencesExt

CONSTANTS
  Keepers,
  Calls,          \* bound: the calls a keeper has under way at once
  EVENT_MODULES,  \* the modules queried, in the order they are queried
  PageLimits,     \* events per page: what a keeper may be configured with
  Digests,        \* transaction digests, as ranks: only their order matters
  MaxMs,          \* bound: time
  MaxEvents,      \* bound: events the chain emits
  Wanted          \* bound: the events whose requests are looked up

ASSUME MergeAssumption ==
  /\ PageLimits \subseteq Nat \ {0}
  /\ EVENT_MODULES \in Seq(STRING) /\ Len(EVENT_MODULES) > 0
  /\ IsInjective(EVENT_MODULES)
  /\ Digests \subseteq Nat /\ MaxMs \in Nat /\ MaxEvents \in Nat

VARIABLES
  pageLimit,      \* per keeper: its configuration
  chain,          \* what the modules emitted, in the order the chain has it
  log,            \* per keeper: the positions released, in order
  holding,        \* per keeper and position: copies fetched and not yet orderable
  moduleCursors,  \* per keeper and module: the position the next query starts after
  exhausted,      \* per keeper: modules whose last page had no next one
  call,           \* per keeper: its calls, the query each awaits included
  missing,        \* per keeper: requests digestFor did not find
  began,          \* per keeper: how long the chain was at its first query
  overlapped      \* keepers that had two calls under way at once

merged == <<log, holding, moduleCursors, exhausted>>
observed == <<missing, began, overlapped>>
mergeVars == <<pageLimit, chain, merged, call, observed>>

Modules == ToSet(EVENT_MODULES)
Positions == 1 .. MaxEvents
NotBegun == -1
\* turn: the module a call awaits an answer of, 0 when it is about to look at the
\* log; its query starts after `after` and was sent when the chain was `sent` long.
Idle == [goal |-> "none", arg |-> 0, turn |-> 0, after |-> 0, sent |-> 0]

------------------------------------------------------------------------
(* The chain, as the adapter sees it. *)

\* (envelope ms, transaction digest, index in the transaction)
compareRawEventKeys(a, b) ==
  \/ a[1] < b[1]
  \/ a[1] = b[1] /\ a[2] < b[2]
  \/ a[1] = b[1] /\ a[2] = b[2] /\ a[3] < b[3]

rawEventKey(p) == chain[p].key
before(p, q) == compareRawEventKeys(rawEventKey(p), rawEventKey(q))

lastMs == IF chain = <<>> THEN 0 ELSE Last(chain).key[1]
txs(ms) == {chain[p].key[2] : p \in {q \in DOMAIN chain : chain[q].key[1] = ms}}

\* A new transaction, in this checkpoint or a later one, or one more event of the last.
Emit(m) ==
  /\ Len(chain) < MaxEvents
  /\ \/ \E ms \in lastMs .. MaxMs : \E d \in Digests \ txs(ms) :
          chain' = Append(chain, [module |-> m, key |-> <<ms, d, 0>>])
     \/ /\ chain # <<>>
        /\ LET k == Last(chain).key
           IN chain' = Append(chain, [module |-> m, key |-> <<k[1], k[2], k[3] + 1>>])
  /\ UNCHANGED <<pageLimit, merged, call, observed>>

\* One answer of suix_queryEvents, oldest first, of a chain `length` long.
stream(m, after, length) == {p \in 1 .. length : p > after /\ chain[p].module = m}
page(m, after, limit, length) ==
  LET all == stream(m, after, length)
  IN [data |-> {p \in all : Cardinality({q \in all : q <= p}) <= limit},
      hasNextPage |-> Cardinality(all) > limit]

------------------------------------------------------------------------
(* One keeper's log. *)

allExhausted(k) == Modules \subseteq exhausted[k]

\* What may be released once the modules in `spent` have no next page and the
\* others have reported up to `high` (0: nothing yet).
\* Mutants: every round's arrivals are released; the last events wait for a
\* watermark that no module will raise.
orderable_all(held, spent, high) == held

orderable_watermark(held, spent, high) ==
  {p \in held : \A m \in Modules : high[m] # 0 /\ before(p, high[m])}

orderable(held, spent, high) ==
  {p \in held : \A m \in Modules \ spent : high[m] # 0 /\ before(p, high[m])}

\* What is ready, copy by copy, in key order: the copies of an event are alike, so
\* there is one such sequence.
released(ready) ==
  LET kinds == {p \in Positions : ready[p] > 0}
      copies == UNION {{p} \X (1 .. ready[p]) : p \in kinds}
  IN {s \in [1 .. Cardinality(copies) -> kinds] :
        /\ \A p \in kinds : Cardinality({i \in DOMAIN s : s[i] = p}) = ready[p]
        /\ \A i, j \in DOMAIN s : i < j => ~ before(s[j], s[i])}

\* The first module from `turn` on that still has pages; 0 when the round is over.
nextLive(turn, spent) ==
  LET ahead == {i \in turn .. Len(EVENT_MODULES) : EVENT_MODULES[i] \notin spent}
  IN IF ahead = {} THEN 0 ELSE CHOOSE i \in ahead : \A j \in ahead : i <= j

\* Is a call with this goal over, with this keeper's log as it is?
served(k, c) ==
  \/ c.goal = "read" /\ Len(log[k]) >= c.arg
  \/ c.goal = "digest" /\ c.arg \in ToSet(log[k])
  \/ allExhausted(k)

\* The query of the module whose turn it is, for what follows its cursor as it is now.
asking(k, goal, i) ==
  [goal |-> goal.goal, arg |-> goal.arg, turn |-> i,
   after |-> moduleCursors[k][EVENT_MODULES[i]], sent |-> Len(chain)]

\* The loops of fillTo and digestFor, before a round: the call is over, failed when every
\* module is spent and the request is in none, or starts a round.
look(k, c, goal) ==
  /\ IF served(k, goal)
     THEN /\ call' = [call EXCEPT ![k][c] = Idle]
          /\ missing' = IF goal.goal = "digest" /\ goal.arg \notin ToSet(log[k])
                        THEN [missing EXCEPT ![k] = @ \cup {goal.arg}] ELSE missing
          /\ UNCHANGED began
     ELSE /\ call' = [call EXCEPT ![k][c] = asking(k, goal, nextLive(1, exhausted[k]))]
          /\ began' = IF began[k] = NotBegun THEN [began EXCEPT ![k] = Len(chain)] ELSE began
          /\ UNCHANGED missing
  /\ UNCHANGED <<pageLimit, chain, merged>>

\* A call starts, whatever others are under way.
begin(k, c, goal) ==
  /\ call[k][c] = Idle
  /\ overlapped' = IF \E o \in Calls : call[k][o] # Idle THEN overlapped \cup {k} ELSE overlapped
  /\ look(k, c, goal)

\* readEvents from a cursor this log has handed out: fill the log for one more page.
readEvents(k, c) ==
  \E start \in 0 .. Len(log[k]) :
    begin(k, c, [Idle EXCEPT !.goal = "read", !.arg = start + pageLimit[k]])

\* digestFor, of a request the chain has.
digestFor(k, c, p) == begin(k, c, [Idle EXCEPT !.goal = "digest", !.arg = p])

betweenRounds(k, c) == call[k][c] # Idle /\ call[k][c].turn = 0
lookAgain(k, c) ==
  /\ betweenRounds(k, c)
  /\ look(k, c, call[k][c])
  /\ UNCHANGED overlapped

\* Where the next query of a module starts.
cursorAfter(old, ans) == IF ans.data = {} THEN old ELSE Max(ans.data)

\* Mutant: a module is done with its first page.
spentBy_first(k, m, ans) == IF ans.data # {} \/ ~ ans.hasNextPage THEN exhausted[k] \cup {m} ELSE exhausted[k]

spentBy(k, m, ans) == IF ans.hasNextPage THEN exhausted[k] ELSE exhausted[k] \cup {m}

\* Every event of the page is pushed, the ones held already too.
pushed(held, data) == [p \in Positions |-> IF p \in data THEN held[p] + 1 ELSE held[p]]

\* The answers a query may get: the mirror reads at some moment since it was sent.
answers(k, cl) ==
  {page(EVENT_MODULES[cl.turn], cl.after, pageLimit[k], length) : length \in cl.sent .. Len(chain)}

\* fetchMore, from the answer of one query to the sending of the next, or to the end of
\* the round, where the log takes what is orderable.  A live module's cursor is the last
\* event it handed over, so it is the high-water mark too.
fetchMore(k, c) ==
  /\ call[k][c].turn # 0
  /\ \E ans \in answers(k, call[k][c]) :
       LET m == EVENT_MODULES[call[k][c].turn]
           held == pushed(holding[k], ans.data)
           high == [moduleCursors[k] EXCEPT ![m] = cursorAfter(call[k][c].after, ans)]
           spent == spentBy(k, m, ans)
           next == nextLive(call[k][c].turn + 1, spent)
           ready == orderable({p \in Positions : held[p] > 0}, spent, high)
           part(out) == [p \in Positions |-> IF (p \in ready) = out THEN held[p] ELSE 0]
       IN /\ moduleCursors' = [moduleCursors EXCEPT ![k] = high]
          /\ exhausted' = [exhausted EXCEPT ![k] = spent]
          /\ \/ /\ next # 0
                /\ call' = [call EXCEPT ![k][c] = asking(k, @, next)]
                /\ holding' = [holding EXCEPT ![k] = held]
                /\ UNCHANGED log
             \/ /\ next = 0
                /\ call' = [call EXCEPT ![k][c] = [Idle EXCEPT !.goal = call[k][c].goal, !.arg = call[k][c].arg]]
                /\ holding' = [holding EXCEPT ![k] = part(FALSE)]
                /\ \E s \in released(part(TRUE)) : log' = [log EXCEPT ![k] = @ \o s]
  /\ UNCHANGED <<pageLimit, chain, observed>>

\* The query rejects, and the call with it: what it was handed stays.
queryFails(k, c) ==
  /\ call[k][c].turn # 0
  /\ call' = [call EXCEPT ![k][c] = Idle]
  /\ UNCHANGED <<pageLimit, chain, merged, observed>>

------------------------------------------------------------------------
MergeInit ==
  /\ pageLimit \in [Keepers -> PageLimits]
  /\ chain = <<>>
  /\ log = [k \in Keepers |-> <<>>]
  /\ holding = [k \in Keepers |-> [p \in Positions |-> 0]]
  /\ moduleCursors = [k \in Keepers |-> [m \in Modules |-> 0]]
  /\ exhausted = [k \in Keepers |-> {}]
  /\ call = [k \in Keepers |-> [c \in Calls |-> Idle]]
  /\ missing = [k \in Keepers |-> {}]
  /\ began = [k \in Keepers |-> NotBegun]
  /\ overlapped = {}

callStep(k, c) ==
  \/ readEvents(k, c)
  \/ \E p \in Wanted \cap DOMAIN chain : digestFor(k, c, p)
  \/ lookAgain(k, c)
  \/ fetchMore(k, c)
  \/ queryFails(k, c)

MergeNext ==
  \/ \E m \in Modules : Emit(m)
  \/ \E k \in Keepers, c \in Calls : callStep(k, c)

MergeSpec == MergeInit /\ [][MergeNext]_mergeVars

\* The watcher polls for as long as it runs and the mirror answers: until every module
\* is spent, rounds come to their end again and again, whatever queries fail; and a call
\* that has ended a round goes on.
MergeFairSpec ==
  /\ MergeSpec
  /\ \A k \in Keepers :
       /\ []<>(allExhausted(k) \/ \E c \in Calls : betweenRounds(k, c))
       /\ \A c \in Calls : []<>(~ betweenRounds(k, c))

------------------------------------------------------------------------
(* Properties. *)

CallRecord ==
  [goal : {"none", "read", "digest"}, arg : Nat, turn : 0 .. Len(EVENT_MODULES), after : Nat, sent : Nat]

MergeTypeOK ==
  /\ pageLimit \in [Keepers -> PageLimits]
  /\ chain \in Seq([module : Modules, key : (0 .. MaxMs) \X Digests \X Nat])
  /\ \A k \in Keepers :
       /\ log[k] \in Seq(DOMAIN chain)
       /\ holding[k] \in [Positions -> Nat]
       /\ moduleCursors[k] \in [Modules -> 0 .. Len(chain)]
       /\ exhausted[k] \subseteq Modules
       /\ missing[k] \subseteq DOMAIN chain
       /\ call[k] \in [Calls -> CallRecord]
       /\ began[k] \in NotBegun .. Len(chain)

\* The chain is in key order: no two transactions of one instant in the other order
\* than their digests.
KeysInOrder == \A p \in 2 .. Len(chain) : before(p - 1, p)

\* In a log built from a chain that has not moved since its first query, and is in key
\* order, no event comes ahead of the first appearance of an older one, whatever the
\* pages, the rounds and the calls that overlapped; and a keeper whose calls never
\* overlapped has no event twice, so that its log is a prefix of that chain.
OlderFirst(lg) == \A i \in DOMAIN lg : \A p \in 1 .. lg[i] - 1 : \E j \in 1 .. i - 1 : lg[j] = p

PagingInvisible ==
  \A k \in Keepers :
    /\ KeysInOrder /\ began[k] = Len(chain) => OlderFirst(log[k])
    /\ k \notin overlapped => IsInjective(log[k])

\* digestFor fails only on a request that was made after the keeper's first query.
NotFoundMeansNew == \A k \in Keepers : \A p \in missing[k] : p > began[k]

\* A keeper that keeps polling logs everything there was when it first looked.
NothingOldIsMissed ==
  \A k \in Keepers : began[k] # NotBegun ~> 1 .. began[k] \subseteq ToSet(log[k])

\* Two keepers number alike the events they both have: what is released is "a pure
\* function of the chain, not of paging" (release, real.ts:547-551; the sort key,
\* real.ts:1085-1087).
TwoKeepersAgree ==
  \A k, j \in Keepers : IsPrefix(log[k], log[j]) \/ IsPrefix(log[j], log[k])
===========================================================================
