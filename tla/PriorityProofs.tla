--------------------------- MODULE PriorityProofs ---------------------------
(***************************************************************************)
(* Whom a clearing favours: for any orders, in any order of arrival, and   *)
(* whatever happens to the accounts while it runs, a better price is       *)
(* served before a worse one, and no order before its like.                *)
(*                                                                         *)
(* The argument follows the entries of the book from stage to stage.       *)
(* Loading ranks them by price, one for each revealed order.  Each pass    *)
(* serves whole prices, shares the marginal one by the rule of largest     *)
(* fractions, and so keeps Rule: who gets less than he asked leaves        *)
(* nothing to a worse price, and two like him a sat apart get a sat apart. *)
(* Between the passes truncation cuts what an account cannot pay for; a    *)
(* submitter whose account pays for all his orders is left what the first  *)
(* pass gave, so the second pass, which weighs the entries by what is left *)
(* of the first, composes with it.  FairInv says of every stage what that  *)
(* takes, and the loops keep it by the rules of LoopRules.                 *)
(***************************************************************************)
EXTENDS ClearingProofs

-----------------------------------------------------------------------------
(* The book. *)

(* Price p is better than price q for an order of this side.                *)
Better(is_bid, p, q) == IF is_bid THEN p > q ELSE p < q

(* The limit price of entry i of a side.                                    *)
LimitOf(c, s, i) == c.entries[s][i].limit_price

(* Each side stands in the order of its prices, the best first.             *)
Ranked(c) ==
    \A s \in BOOLEAN : \A i, j \in DOMAIN c.entries[s] :
        i < j => ~Better(s, LimitOf(c, s, j), LimitOf(c, s, i))

(* The order of the batch behind an entry.                                  *)
OrderOf(b, e) == b.revealed[e.order_index]

(* Every entry is one of the first n orders, ...                            *)
Traced(c, b, n) ==
    \A s \in BOOLEAN : \A i \in DOMAIN c.entries[s] :
        LET e == c.entries[s][i]
        IN  /\ e.order_index \in 1..n /\ b.is_revealed[e.order_index]
            /\ OrderOf(b, e).submitter = e.submitter /\ OrderOf(b, e).is_bid = s
            /\ OrderOf(b, e).limit_price = e.limit_price

(* ... no two are the same, ...                                             *)
Distinct(c) ==
    \A s \in BOOLEAN : \A i, j \in DOMAIN c.entries[s] :
        c.entries[s][i].order_index = c.entries[s][j].order_index => i = j

(* ... and all of these that were revealed are there.                       *)
Complete(c, b, n) ==
    \A k \in 1..n : b.is_revealed[k] =>
        \E s \in BOOLEAN : \E i \in DOMAIN c.entries[s] : c.entries[s][i].order_index = k

(* What the first n orders of the batch make of the book.                   *)
Book(c, b, n) == Ranked(c) /\ Traced(c, b, n) /\ Distinct(c) /\ Complete(c, b, n)

(* Nothing of what was ordered is cut yet.                                  *)
Uncut(c, b) ==
    \A s \in BOOLEAN : \A i \in DOMAIN c.entries[s] :
        c.entries[s][i].qty_sats = OrderOf(b, c.entries[s][i]).qty_sats

(* A price ends where the first k entries of a side do.                     *)
CutAt(c, s, k) ==
    \A i, j \in DOMAIN c.entries[s] :
        i <= k /\ k < j => Better(s, LimitOf(c, s, i), LimitOf(c, s, j))

(* Eligibility is a matter of price: an eligible prefix ends where a price  *)
(* does.                                                                    *)
EligibleByPrice(c) == \A s \in BOOLEAN : CutAt(c, s, c.alloc.elig[s])

-----------------------------------------------------------------------------
(* A pass. *)

(* Outside the marginal level, all or nothing.                              *)
AllOrNothing(c) ==
    \A s \in BOOLEAN : \A i \in Eligible(c, s) :
        i \notin InLevel(c, s) =>
            c.entries[s][i].fill_base = IF i <= marginal_level(c, s).lo
                                        THEN c.entries[s][i].qty_sats ELSE 0

(* Within it, who has a larger fraction is served before.                   *)
LargestFirst(c) ==
    \A s \in BOOLEAN : \A i, j \in InLevel(c, s) :
        c.entries[s][i].bumped /\ c.entries[s][j].frac > c.entries[s][i].frac
            => c.entries[s][j].bumped

(* What fills f make of weights w: an order that gets less than its weight  *)
(* leaves nothing to a worse price, and weights a sat apart at one price    *)
(* get fills a sat apart.                                                   *)
Apart(x, y) == x <= y + 1 /\ y <= x + 1

Rule(c, w, f) ==
    \A s \in BOOLEAN : \A i, j \in DOMAIN c.entries[s] :
        /\ Better(s, LimitOf(c, s, i), LimitOf(c, s, j)) /\ f[s][i] < w[s][i] => f[s][j] = 0
        /\ LimitOf(c, s, i) = LimitOf(c, s, j) /\ Apart(w[s][i], w[s][j])
              => f[s][i] <= f[s][j] + 1

(* What the eligible entries weigh, what their orders asked for, and what   *)
(* is filled.                                                               *)
Weights(c) ==
    [s \in BOOLEAN |-> [i \in DOMAIN c.entries[s] |->
        IF i <= c.alloc.elig[s] THEN c.entries[s][i].qty_sats ELSE 0]]

Ordered(c, b) ==
    [s \in BOOLEAN |-> [i \in DOMAIN c.entries[s] |->
        IF i <= c.alloc.elig[s] THEN OrderOf(b, c.entries[s][i]).qty_sats ELSE 0]]

Filled(c) == [s \in BOOLEAN |-> Fills(c, s)]

-----------------------------------------------------------------------------
(* The arithmetic of shares. *)

(* Two shares of weights a sat apart differ by a sat at most, and then the  *)
(* larger one leaves the smaller fraction.                                  *)
LEMMA NearShares ==
    ASSUME NEW r \in Nat, NEW p \in Nat, r < p, NEW q \in Nat, NEW u \in Nat,
           NEW k \in Nat, NEW l \in Nat, NEW f \in 0..(p - 1), NEW h \in 0..(p - 1),
           f = r * q - k * p, h = r * u - l * p, u = q \/ u = q + 1
    PROVE  k = l \/ (u = q + 1 /\ l = k + 1 /\ h < f)
<1> DEFINE d == l - k
           x == r * u - r * q
<1>1. d \in Int /\ x \in {0, r}
  <2>1. r * (q + 1) = r * q + r
    OBVIOUS
  <2> DEFINE y == r * q
  <2>2. y \in Int
    OBVIOUS
  <2>3. CASE u = q
    BY <2>2, <2>3
  <2>4. CASE u = q + 1
    <3>1. x = (y + r) - y
      BY <2>1, <2>4
    <3> HIDE DEF x, y
    <3>2. QED
      BY <2>2, <3>1
  <2>5. QED
    BY <2>3, <2>4
<1>2. h - f = x - d * p
  <2>1. l * p = k * p + d * p
    OBVIOUS
  <2> DEFINE a == r * u
             y == r * q
             lp == l * p
             kp == k * p
             z == d * p
  <2>2. a \in Int /\ y \in Int /\ lp \in Int /\ kp \in Int /\ z \in Int
    BY <1>1
  <2>3. h = a - lp /\ f = y - kp /\ lp = kp + z /\ x = a - y
    BY <2>1
  <2> HIDE DEF a, y, lp, kp, z, x
  <2>4. h - f = x - z
    BY <2>2, <2>3
  <2>5. QED
    BY <2>4 DEF z
<1>3. x = 0 => u # q + 1 \/ r = 0
  <2>1. r * (q + 1) = r * q + r
    OBVIOUS
  <2> DEFINE y == r * q
  <2>2. y \in Int
    OBVIOUS
  <2>3. u = q + 1 => x = (y + r) - y
    BY <2>1
  <2> HIDE DEF x, y
  <2>4. QED
    BY <2>2, <2>3
<1>4. u = q => x = 0
  <2> DEFINE y == r * q
  <2>1. y \in Int
    OBVIOUS
  <2>2. u = q => x = y - y
    OBVIOUS
  <2> HIDE DEF x, y
  <2>3. QED
    BY <2>1, <2>2
<1> HIDE DEF x
<1>5. CASE d >= 2
  <2>1. 2 * p <= d * p
    BY <1>1, <1>5, ProductGrows
  <2> DEFINE z == d * p
  <2>2. z \in Int /\ 2 * p <= z /\ h - f = x - z
    BY <1>1, <1>2, <2>1
  <2> HIDE DEF z, d
  <2>3. FALSE
    BY <1>1, <2>2
  <2>4. QED
    BY <2>3
<1>6. CASE d <= -1
  <2>1. d * p <= (-1) * p
    BY <1>1, <1>6, ProductGrows
  <2> DEFINE z == d * p
  <2>2. z \in Int /\ z <= (-1) * p /\ h - f = x - z
    BY <1>1, <1>2, <2>1
  <2> HIDE DEF z, d
  <2>3. FALSE
    BY <1>1, <2>2
  <2>4. QED
    BY <2>3
<1>7. CASE d = 0
  BY <1>7
<1>8. CASE d = 1
  <2>1. d * p = p
    BY <1>8
  <2>2. h - f = x - p /\ l = k + 1
    BY <1>2, <1>8, <2>1
  <2>3. h < f
    BY <1>1, <2>2
  <2>4. u # q
    BY <1>4, <2>2
  <2>5. QED
    BY <2>2, <2>3, <2>4
<1>9. QED
  BY <1>1, <1>5, <1>6, <1>7, <1>8

(* Two entries of the level whose weights are a sat apart, when the larger  *)
(* fraction is served before: their fills are a sat apart.                  *)
LEMMA NearFills ==
    ASSUME NEW r \in Nat, NEW p \in Nat, r < p, NEW a \in Entry, NEW e \in Entry,
           Shared(a, r, p), Shared(e, r, p), Apart(a.qty_sats, e.qty_sats),
           a.bumped /\ e.frac > a.frac => e.bumped, e.bumped /\ a.frac > e.frac => a.bumped
    PROVE  a.fill_base <= e.fill_base + 1
<1> DEFINE x == IF a.bumped THEN 1 ELSE 0
           y == IF e.bumped THEN 1 ELSE 0
           k == a.fill_base - x
           l == e.fill_base - y
           q == a.qty_sats
           u == e.qty_sats
           f == a.frac
           h == e.frac
<1>1. /\ k \in Nat /\ f \in 0..(p - 1) /\ f = r * q - k * p
      /\ l \in Nat /\ h \in 0..(p - 1) /\ h = r * u - l * p
  BY DEF Shared
<1>2. q \in Nat /\ u \in Nat /\ a.fill_base \in Nat /\ e.fill_base \in Nat
      /\ x \in {0, 1} /\ y \in {0, 1} /\ a.fill_base = k + x /\ e.fill_base = l + y
  BY DEF Entry
<1>3. (x = 1 /\ h > f => y = 1) /\ (y = 1 /\ f > h => x = 1)
  BY DEF Entry
<1>4. u = q \/ u = q + 1 \/ q = u + 1
  BY <1>2 DEF Apart
<1> HIDE DEF x, y, k, l, q, u, f, h
<1>5. CASE u = q \/ u = q + 1
  <2>1. k = l \/ (u = q + 1 /\ l = k + 1 /\ h < f)
    BY <1>1, <1>2, <1>5, NearShares
  <2>2. QED
    BY <1>1, <1>2, <2>1
<1>6. CASE q = u + 1
  <2>1. l = k \/ (q = u + 1 /\ k = l + 1 /\ f < h)
    BY <1>1, <1>2, <1>6, NearShares
  <2>2. QED
    BY <1>1, <1>2, <1>3, <2>1
<1>7. QED
  BY <1>4, <1>5, <1>6

-----------------------------------------------------------------------------
(* Levels are prices. *)

(* Where a price level starts and ends.                                     *)
LEMMA LevelEnds ==
    ASSUME NEW s \in Seq(Entry), NEW n \in 0..Len(s), NEW room \in Nat
    PROVE  LET m == level_of(s, n, room)
           IN  /\ m.lo = 0 \/ m.lo = n \/ s[m.lo + 1].limit_price # s[m.lo].limit_price
               /\ m.hi = n \/ s[m.hi + 1].limit_price # s[m.hi].limit_price
               /\ \A i \in m.lo + 1..m.hi :
                     i < m.hi => s[i + 1].limit_price = s[i].limit_price
<1> DEFINE ends == level_ends(s, n)
           fit == {i \in ends : qty_over(s, 1..i) <= room}
           lo == Max({0} \cup fit)
           late == {i \in ends : i > lo}
           hi == Min({n} \cup late)
           m == level_of(s, n, room)
<1>0. Len(s) \in Nat /\ DOMAIN s = 1..Len(s) /\ n \in Nat
  OBVIOUS
<1>1. /\ ends \subseteq 1..n /\ ends \subseteq 0..n
      /\ \A i \in 1..n : i \in ends <=> (i = n \/ s[i + 1].limit_price # s[i].limit_price)
  BY <1>0 DEF level_ends
<1>2. m.lo = lo /\ m.hi = hi /\ m.lo \in 0..n /\ m.hi \in m.lo..n
  <2>1. m.lo = lo /\ m.hi = hi
    BY DEF level_of
  <2>2. m.lo \in 0..n /\ m.hi \in m.lo..n
    BY LevelFacts
  <2>3. QED
    BY <2>1, <2>2
<1> HIDE DEF m, ends
<1>3. lo \in {0} \cup ends
  <2>0. fit \subseteq ends
    OBVIOUS
  <2>1. fit \subseteq 0..n
    <3> HIDE DEF fit
    <3>1. QED
      BY <1>1, <2>0
  <2> HIDE DEF fit
  <2>2. lo \in {0} \cup fit
    BY <1>0, <2>1, AtMost
  <2>3. QED
    BY <2>0, <2>2
<1> HIDE DEF lo
<1>4. late \subseteq ends /\ late \subseteq 0..n
  <2>1. late \subseteq ends
    OBVIOUS
  <2> HIDE DEF late
  <2>2. QED
    BY <1>1, <2>1
<1>5. hi \in {n} \cup ends /\ \A x \in late : hi <= x
  <2> HIDE DEF late
  <2>1. hi \in {n} \cup late /\ \A x \in late : hi <= x
    BY <1>0, <1>4, AtLeast
  <2>2. QED
    BY <1>4, <2>1
<1> HIDE DEF hi
<1>6. m.lo = 0 \/ m.lo = n \/ s[m.lo + 1].limit_price # s[m.lo].limit_price
  BY <1>1, <1>2, <1>3
<1>7. m.hi = n \/ s[m.hi + 1].limit_price # s[m.hi].limit_price
  BY <1>1, <1>2, <1>5
<1>8. ASSUME NEW i \in m.lo + 1..m.hi, i < m.hi
      PROVE  s[i + 1].limit_price = s[i].limit_price
  <2>1. i \in 1..n /\ i # n /\ i > lo
    BY <1>0, <1>2, <1>8
  <2>2. i \notin late
    <3>1. i \in late => hi <= i
      BY <1>5
    <3>2. QED
      BY <1>2, <1>8, <3>1
  <2>3. i \notin ends
    BY <2>1, <2>2
  <2>4. QED
    BY <1>1, <2>1, <2>3
<1>9. QED
  BY <1>6, <1>7, <1>8 DEF m

(* Two neighbours with two prices cut a side between two prices.            *)
LEMMA CutBetween ==
    ASSUME NEW c, Shaped(c), Ranked(c), NEW s \in BOOLEAN, NEW k \in DOMAIN c.entries[s],
           k + 1 \in DOMAIN c.entries[s], LimitOf(c, s, k + 1) # LimitOf(c, s, k)
    PROVE  CutAt(c, s, k)
<1> SUFFICES ASSUME NEW i \in DOMAIN c.entries[s], NEW j \in DOMAIN c.entries[s], i <= k, k < j
             PROVE  Better(s, LimitOf(c, s, i), LimitOf(c, s, j))
  BY DEF CutAt
<1>1. c.entries[s] \in Seq(Entry)
  BY DEF Shaped, EntriesOK
<1>2. \A x \in DOMAIN c.entries[s] : x \in Nat /\ LimitOf(c, s, x) \in Nat
  <2> DEFINE es == c.entries[s]
  <2>1. es \in Seq(Entry)
    BY <1>1
  <2> SUFFICES ASSUME NEW x \in DOMAIN es
               PROVE  x \in Nat /\ es[x].limit_price \in Nat
    BY DEF LimitOf
  <2> HIDE DEF es
  <2>2. x \in Nat /\ es[x] \in Entry
    BY <2>1
  <2>3. QED
    BY <2>2 DEF Entry
<1>3. /\ ~Better(s, LimitOf(c, s, k + 1), LimitOf(c, s, k))
      /\ i = k \/ ~Better(s, LimitOf(c, s, k), LimitOf(c, s, i))
      /\ j = k + 1 \/ ~Better(s, LimitOf(c, s, j), LimitOf(c, s, k + 1))
  BY <1>2 DEF Ranked
<1> DEFINE p == LimitOf(c, s, k)
           q == LimitOf(c, s, k + 1)
           x == LimitOf(c, s, i)
           y == LimitOf(c, s, j)
<1>4. /\ p \in Nat /\ q \in Nat /\ x \in Nat /\ y \in Nat /\ q # p
      /\ ~Better(s, q, p)
      /\ x = p \/ ~Better(s, p, x)
      /\ y = q \/ ~Better(s, y, q)
  BY <1>2, <1>3
<1> HIDE DEF p, q, x, y
<1>5. Better(s, x, y)
  BY <1>4 DEF Better
<1>6. QED
  BY <1>5 DEF x, y

(* The marginal level is one price, and a price ends before and after it.   *)
OnePrice(c, s) == \A i, j \in InLevel(c, s) : LimitOf(c, s, i) = LimitOf(c, s, j)

(* A level is one price, of a book ranked by price whose eligible part ends *)
(* at one.                                                                  *)
LEMMA LevelIsAPrice ==
    ASSUME NEW c, Shaped(c), Ranked(c), EligibleByPrice(c), NEW s \in BOOLEAN
    PROVE  /\ OnePrice(c, s)
           /\ CutAt(c, s, marginal_level(c, s).lo)
           /\ CutAt(c, s, marginal_level(c, s).hi)
<1> DEFINE es == c.entries[s]
           n == c.alloc.elig[s]
           room == c.alloc.matched_base
           m == marginal_level(c, s)
<1>1. /\ es \in Seq(Entry) /\ n \in 0..Len(es) /\ room \in Nat
      /\ DOMAIN es = 1..Len(es) /\ Len(es) \in Nat
  <2>1. es \in Seq(Entry) /\ n \in Nat /\ n <= Len(es) /\ room \in Nat
    BY DEF Shaped, EntriesOK, AllocOK
  <2> HIDE DEF es
  <2>2. QED
    BY <2>1
<1>2. m = level_of(es, n, room)
  BY DEF marginal_level
<1>3. CutAt(c, s, n)
  BY DEF EligibleByPrice
<1> HIDE DEF n, room
<1>4. /\ m.lo = 0 \/ m.lo = n \/ es[m.lo + 1].limit_price # es[m.lo].limit_price
      /\ m.hi = n \/ es[m.hi + 1].limit_price # es[m.hi].limit_price
      /\ \A i \in m.lo + 1..m.hi : i < m.hi => es[i + 1].limit_price = es[i].limit_price
  <2> HIDE DEF es, m
  <2>1. QED
    BY <1>1, <1>2, LevelEnds
<1>5. m.lo \in 0..n /\ m.hi \in m.lo..n
  <2> HIDE DEF es, m
  <2>1. QED
    BY <1>1, <1>2, LevelFacts
<1>6. InLevel(c, s) = m.lo + 1..m.hi
  BY DEF InLevel
<1>7. \A i : LimitOf(c, s, i) = es[i].limit_price
  BY DEF LimitOf
<1> HIDE DEF m
<1>8. CutAt(c, s, m.lo)
  <2>1. CASE m.lo = 0
    BY <1>1, <2>1 DEF CutAt, es
  <2>2. CASE m.lo = n
    BY <1>3, <2>2
  <2>3. CASE m.lo # 0 /\ m.lo # n
    <3>1. m.lo \in DOMAIN es /\ m.lo + 1 \in DOMAIN es
      BY <1>1, <1>5, <2>3
    <3>2. LimitOf(c, s, m.lo + 1) # LimitOf(c, s, m.lo)
      BY <1>4, <1>7, <2>3
    <3>3. QED
      BY <3>1, <3>2, CutBetween DEF es
  <2>4. QED
    BY <2>1, <2>2, <2>3
<1>9. CutAt(c, s, m.hi)
  <2>1. CASE m.hi = n
    BY <1>3, <2>1
  <2>2. CASE m.hi # n /\ m.hi = m.lo
    BY <1>8, <2>2
  <2>3. CASE m.hi # n /\ m.hi # m.lo
    <3>1. m.hi \in DOMAIN es /\ m.hi + 1 \in DOMAIN es
      BY <1>1, <1>5, <2>3
    <3>2. LimitOf(c, s, m.hi + 1) # LimitOf(c, s, m.hi)
      BY <1>4, <1>7, <2>3
    <3>3. QED
      BY <3>1, <3>2, CutBetween DEF es
  <2>4. QED
    BY <2>1, <2>2, <2>3
<1>10. OnePrice(c, s)
  <2> DEFINE first == LimitOf(c, s, m.lo + 1)
             Good == {k \in Nat : m.lo + 1 + k <= m.hi => LimitOf(c, s, m.lo + 1 + k) = first}
  <2>1. m.lo \in Nat /\ m.hi \in Nat
    BY <1>1, <1>5
  <2>2. 0 \in Good
    BY <2>1
  <2>3. ASSUME NEW k \in Nat, k \in Good
        PROVE  k + 1 \in Good
    <3> SUFFICES ASSUME m.lo + 1 + (k + 1) <= m.hi
                 PROVE  LimitOf(c, s, m.lo + 1 + (k + 1)) = first
      OBVIOUS
    <3> DEFINE i == m.lo + 1 + k
    <3>1. i \in m.lo + 1..m.hi /\ i < m.hi /\ i + 1 = m.lo + 1 + (k + 1)
      BY <2>1
    <3>2. LimitOf(c, s, i) = first
      BY <2>1, <2>3, <3>1
    <3> HIDE DEF i, first
    <3>3. LimitOf(c, s, i + 1) = LimitOf(c, s, i)
      BY <1>4, <1>7, <3>1
    <3>4. QED
      BY <3>1, <3>2, <3>3
  <2> HIDE DEF Good
  <2>4. \A k \in Nat : k \in Good
    BY <2>2, <2>3, NatSetInduction
  <2>5. ASSUME NEW i \in m.lo + 1..m.hi
        PROVE  LimitOf(c, s, i) = first
    <3>1. i - (m.lo + 1) \in Nat /\ m.lo + 1 + (i - (m.lo + 1)) = i /\ i <= m.hi
      BY <2>1
    <3>2. QED
      BY <2>4, <3>1 DEF Good
  <2>6. QED
    BY <1>6, <2>5 DEF OnePrice
<1>11. QED
  BY <1>8, <1>9, <1>10 DEF m

-----------------------------------------------------------------------------
(* What a pass leaves of the book. *)

(* The same orders stand behind the entries, whatever they weigh.           *)
SameNames(c, d) ==
    \A s \in BOOLEAN :
        /\ DOMAIN d.entries[s] = DOMAIN c.entries[s]
        /\ \A i \in DOMAIN c.entries[s] :
              /\ d.entries[s][i].order_index = c.entries[s][i].order_index
              /\ d.entries[s][i].submitter = c.entries[s][i].submitter
              /\ d.entries[s][i].limit_price = c.entries[s][i].limit_price

(* So the book is the same, ...                                             *)
LEMMA NamesKeep ==
    ASSUME NEW c, NEW d, SameNames(c, d), NEW b, NEW n, Book(c, b, n)
    PROVE  Book(d, b, n)
<1>1. Ranked(d)
  BY DEF Book, Ranked, SameNames, LimitOf
<1>2. Traced(d, b, n)
  <2> SUFFICES ASSUME NEW s \in BOOLEAN, NEW i \in DOMAIN d.entries[s]
               PROVE  LET y == d.entries[s][i]
                      IN  /\ y.order_index \in 1..n /\ b.is_revealed[y.order_index]
                          /\ OrderOf(b, y).submitter = y.submitter /\ OrderOf(b, y).is_bid = s
                          /\ OrderOf(b, y).limit_price = y.limit_price
    BY DEF Traced
  <2> DEFINE x == c.entries[s][i]
             y == d.entries[s][i]
  <2>1. /\ i \in DOMAIN c.entries[s] /\ y.order_index = x.order_index
        /\ y.submitter = x.submitter /\ y.limit_price = x.limit_price
    BY DEF SameNames
  <2>2. Traced(c, b, n)
    BY DEF Book
  <2>3. /\ x.order_index \in 1..n /\ b.is_revealed[x.order_index]
        /\ OrderOf(b, x).submitter = x.submitter /\ OrderOf(b, x).is_bid = s
        /\ OrderOf(b, x).limit_price = x.limit_price
    BY <2>1, <2>2 DEF Traced
  <2> HIDE DEF x, y
  <2>4. QED
    BY <2>1, <2>3 DEF OrderOf, y
<1>3. Distinct(d)
  BY DEF Book, Distinct, SameNames
<1>4. Complete(d, b, n)
  BY DEF Book, Complete, SameNames
<1>5. QED
  BY <1>1, <1>2, <1>3, <1>4 DEF Book

(* ... and prices end where they did.                                       *)
LEMMA NamesCut ==
    ASSUME NEW c, NEW d, SameNames(c, d), NEW s \in BOOLEAN, NEW k, CutAt(c, s, k)
    PROVE  CutAt(d, s, k)
  BY DEF CutAt, SameNames, LimitOf

(* What carries the orders over carries the book.                           *)
LEMMA CarriedBook ==
    ASSUME NEW c, NEW d, Carried(c, d), NEW b
    PROVE  /\ SameNames(c, d)
           /\ Uncut(c, b) => Uncut(d, b)
           /\ EligibleByPrice(c) => EligibleByPrice(d)
<1>1. SameNames(c, d)
  BY DEF Carried, SameOrders, SameNames
<1>2. Uncut(c, b) => Uncut(d, b)
  BY DEF Carried, SameOrders, Uncut, OrderOf
<1>3. EligibleByPrice(c) => EligibleByPrice(d)
  <2> SUFFICES ASSUME EligibleByPrice(c), NEW s \in BOOLEAN
               PROVE  CutAt(d, s, d.alloc.elig[s])
    BY DEF EligibleByPrice
  <2>1. d.alloc.elig = c.alloc.elig
    BY DEF Carried
  <2>2. CutAt(c, s, c.alloc.elig[s])
    BY DEF EligibleByPrice
  <2>3. CutAt(d, s, c.alloc.elig[s])
    BY <1>1, <2>2, NamesCut
  <2>4. QED
    BY <2>1, <2>3
<1>4. QED
  BY <1>1, <1>2, <1>3

-----------------------------------------------------------------------------
(* The rule that a pass follows. *)

(* A price is not better than itself, and the better price comes first.     *)
LEMMA BetterIsBefore ==
    ASSUME NEW c, Shaped(c), Ranked(c), NEW s \in BOOLEAN,
           NEW i \in DOMAIN c.entries[s], NEW j \in DOMAIN c.entries[s],
           Better(s, LimitOf(c, s, i), LimitOf(c, s, j))
    PROVE  i < j /\ LimitOf(c, s, i) # LimitOf(c, s, j)
<1> DEFINE es == c.entries[s]
<1>1. es \in Seq(Entry)
  BY DEF Shaped, EntriesOK
<1>2. i \in Nat /\ j \in Nat /\ LimitOf(c, s, i) \in Nat /\ LimitOf(c, s, j) \in Nat
  <2>1. i \in DOMAIN es /\ j \in DOMAIN es /\ LimitOf(c, s, i) = es[i].limit_price
        /\ LimitOf(c, s, j) = es[j].limit_price
    BY DEF LimitOf
  <2> HIDE DEF es
  <2>2. i \in Nat /\ j \in Nat /\ es[i] \in Entry /\ es[j] \in Entry
    BY <1>1, <2>1
  <2>3. QED
    BY <2>1, <2>2 DEF Entry
<1>3. LimitOf(c, s, i) # LimitOf(c, s, j)
  BY <1>2 DEF Better
<1>4. ~(j < i)
  BY DEF Ranked
<1>5. i # j
  BY <1>3
<1>6. QED
  BY <1>2, <1>3, <1>4, <1>5

(* An entry is filled whole before the marginal level, shares in it, and    *)
(* gets nothing after.                                                      *)
Region(c, s, i) ==
    LET m == marginal_level(c, s)
        e == c.entries[s][i]
        w == Weights(c)[s][i]
    IN  /\ i <= m.lo => e.fill_base = w /\ w = e.qty_sats
        /\ i \in InLevel(c, s) => Shared(e, Residual(c, s), m.lvl) /\ w = e.qty_sats
        /\ i > m.hi => e.fill_base = 0

(* What the remainder pass leaves of an entry is the share of its region.   *)
LEMMA Regions ==
    ASSUME NEW c, Shaped(c), Beyond(c), RemainderPass(c), AllOrNothing(c), NEW s \in BOOLEAN,
           NEW i \in DOMAIN c.entries[s]
    PROVE  Region(c, s, i)
<1> DEFINE m == marginal_level(c, s)
           n == c.alloc.elig[s]
           e == c.entries[s][i]
           w == Weights(c)[s][i]
<1>1. m.lo \in 0..n /\ m.hi \in m.lo..n /\ n \in Nat /\ i \in Nat /\ i >= 1
  <2>1. m.lo \in 0..n /\ m.hi \in m.lo..n
    BY SideLevel
  <2>2. n \in Nat /\ c.entries[s] \in Seq(Entry)
    BY DEF Shaped, AllocOK, EntriesOK
  <2>3. i \in Nat /\ i >= 1
    BY <2>2
  <2>4. QED
    BY <2>1, <2>2, <2>3
<1>2. InLevel(c, s) = m.lo + 1..m.hi /\ Eligible(c, s) = 1..n
  BY DEF InLevel, Eligible
<1>3. w = IF i <= n THEN e.qty_sats ELSE 0
  BY DEF Weights
<1>4. i \in Eligible(c, s) /\ i \notin InLevel(c, s) =>
         e.fill_base = IF i <= m.lo THEN e.qty_sats ELSE 0
  BY DEF AllOrNothing
<1>5. i > n => e.fill_base = 0
  BY DEF Beyond
<1>6. i \in InLevel(c, s) => Shared(e, Residual(c, s), m.lvl) /\ i \in Eligible(c, s)
  <2>1. i \in InLevel(c, s) => i \in Eligible(c, s)
    BY <1>1, <1>2
  <2>2. QED
    BY <2>1 DEF RemainderPass
<1> HIDE DEF m, n, e, w
<1>7. i <= m.lo => e.fill_base = w /\ w = e.qty_sats
  BY <1>1, <1>2, <1>3, <1>4
<1>8. i \in InLevel(c, s) => Shared(e, Residual(c, s), m.lvl) /\ w = e.qty_sats
  BY <1>1, <1>2, <1>3, <1>6
<1>9. i > m.hi => e.fill_base = 0
  BY <1>1, <1>2, <1>4, <1>5
<1>10. QED
  BY <1>7, <1>8, <1>9 DEF Region, m, e, w

(* So what a pass fills follows the rule.                                   *)
LEMMA PassObeysRule ==
    ASSUME NEW c, Shaped(c), Ranked(c), EligibleByPrice(c), Beyond(c), RemainderPass(c),
           AllOrNothing(c), LargestFirst(c)
    PROVE  Rule(c, Weights(c), Filled(c))
<1> SUFFICES ASSUME NEW s \in BOOLEAN, NEW i \in DOMAIN c.entries[s],
                    NEW j \in DOMAIN c.entries[s]
             PROVE  /\ Better(s, LimitOf(c, s, i), LimitOf(c, s, j))
                       /\ Filled(c)[s][i] < Weights(c)[s][i] => Filled(c)[s][j] = 0
                    /\ LimitOf(c, s, i) = LimitOf(c, s, j)
                       /\ Apart(Weights(c)[s][i], Weights(c)[s][j])
                          => Filled(c)[s][i] <= Filled(c)[s][j] + 1
  BY DEF Rule
<1> DEFINE es == c.entries[s]
           m == marginal_level(c, s)
           a == es[i]
           e == es[j]
           w(x) == Weights(c)[s][x]
<1>1. Filled(c)[s][i] = a.fill_base /\ Filled(c)[s][j] = e.fill_base
  BY DEF Filled, Fills
<1>2. i \in Nat /\ j \in Nat /\ i >= 1 /\ j >= 1 /\ a \in Entry /\ e \in Entry
  <2>1. es \in Seq(Entry) /\ i \in DOMAIN es /\ j \in DOMAIN es
    BY DEF Shaped, EntriesOK
  <2> HIDE DEF es
  <2>2. QED
    BY <2>1
<1>3. m.lo \in Nat /\ m.hi \in Nat /\ m.lo <= m.hi
  <2>1. m.lo \in 0..c.alloc.elig[s] /\ m.hi \in m.lo..c.alloc.elig[s]
        /\ c.alloc.elig[s] \in Nat
    BY SideLevel DEF Shaped, AllocOK
  <2>2. QED
    BY <2>1
<1>4. InLevel(c, s) = m.lo + 1..m.hi
  BY DEF InLevel
<1>5. Region(c, s, i) /\ Region(c, s, j)
  BY Regions
<1>6. OnePrice(c, s) /\ CutAt(c, s, m.lo) /\ CutAt(c, s, m.hi)
  BY LevelIsAPrice
<1>7. Better(s, LimitOf(c, s, i), LimitOf(c, s, j))
         => i < j /\ LimitOf(c, s, i) # LimitOf(c, s, j)
  BY BetterIsBefore
<1>8. Better(s, LimitOf(c, s, j), LimitOf(c, s, i))
         => LimitOf(c, s, i) # LimitOf(c, s, j)
  BY BetterIsBefore
<1>9. /\ i <= m.lo => a.fill_base = w(i) /\ w(i) = a.qty_sats
      /\ i \in InLevel(c, s) => Shared(a, Residual(c, s), m.lvl) /\ w(i) = a.qty_sats
      /\ i > m.hi => a.fill_base = 0
  BY <1>5 DEF Region
<1>10. /\ j <= m.lo => e.fill_base = w(j) /\ w(j) = e.qty_sats
       /\ j \in InLevel(c, s) => Shared(e, Residual(c, s), m.lvl) /\ w(j) = e.qty_sats
       /\ j > m.hi => e.fill_base = 0
  BY <1>5 DEF Region
<1>11. (i <= m.lo /\ j > m.lo) \/ (i <= m.hi /\ j > m.hi)
          => Better(s, LimitOf(c, s, i), LimitOf(c, s, j))
  BY <1>6 DEF CutAt
<1>12. (j <= m.lo /\ i > m.lo) \/ (j <= m.hi /\ i > m.hi)
          => Better(s, LimitOf(c, s, j), LimitOf(c, s, i))
  BY <1>6 DEF CutAt
<1>13. i \in InLevel(c, s) /\ j \in InLevel(c, s) => LimitOf(c, s, i) = LimitOf(c, s, j)
  BY <1>6 DEF OnePrice
<1>14. a.fill_base \in Nat /\ e.fill_base \in Nat /\ a.qty_sats \in Nat /\ e.qty_sats \in Nat
  BY <1>2 DEF Entry
<1>15. i > m.hi => w(i) = 0 \/ a.fill_base = 0
  BY <1>9
<1>16. ASSUME i \in InLevel(c, s), j \in InLevel(c, s), Apart(a.qty_sats, e.qty_sats)
       PROVE  a.fill_base <= e.fill_base + 1
  <2> DEFINE r == Residual(c, s)
             p == m.lvl
  <2>1. r \in Nat /\ p \in Nat /\ r < p
    BY <1>16, LevelIsShared
  <2>2. Shared(a, r, p) /\ Shared(e, r, p)
    BY <1>9, <1>10, <1>16
  <2>3. (a.bumped /\ e.frac > a.frac => e.bumped) /\ (e.bumped /\ a.frac > e.frac => a.bumped)
    BY <1>16 DEF LargestFirst
  <2> HIDE DEF r, p, a, e, m
  <2>4. QED
    BY <1>2, <1>16, <2>1, <2>2, <2>3, NearFills
<1>17. w(i) \in Nat /\ w(j) \in Nat
  BY <1>14 DEF Weights
<1>18. ASSUME Better(s, LimitOf(c, s, i), LimitOf(c, s, j)), a.fill_base < w(i)
       PROVE  e.fill_base = 0
  <2>1. i < j /\ LimitOf(c, s, i) # LimitOf(c, s, j)
    BY <1>7, <1>18
  <2>2. i > m.lo
    BY <1>2, <1>3, <1>9, <1>14, <1>18
  <2>3. j > m.hi
    <3> SUFFICES ASSUME ~(j > m.hi)
                 PROVE  FALSE
      OBVIOUS
    <3> HIDE DEF m, a, e
    <3>1. i \in m.lo + 1..m.hi /\ j \in m.lo + 1..m.hi
      BY <1>2, <1>3, <2>1, <2>2
    <3>2. QED
      BY <1>4, <1>13, <2>1, <3>1
  <2>4. QED
    BY <1>10, <2>3
<1>19. ASSUME LimitOf(c, s, i) = LimitOf(c, s, j), Apart(w(i), w(j))
       PROVE  a.fill_base <= e.fill_base + 1
  <2>1. ~Better(s, LimitOf(c, s, i), LimitOf(c, s, j))
        /\ ~Better(s, LimitOf(c, s, j), LimitOf(c, s, i))
    BY <1>7, <1>8, <1>19
  <2>2. (i <= m.lo <=> j <= m.lo) /\ (i <= m.hi <=> j <= m.hi)
    <3>1. ~(i <= m.lo /\ j > m.lo) /\ ~(i <= m.hi /\ j > m.hi)
      BY <1>11, <2>1, Zenon
    <3>2. ~(j <= m.lo /\ i > m.lo) /\ ~(j <= m.hi /\ i > m.hi)
      BY <1>12, <2>1, Zenon
    <3> HIDE DEF m
    <3>3. QED
      BY <1>2, <1>3, <3>1, <3>2
  <2>3. CASE i <= m.lo
    <3>1. a.fill_base = w(i) /\ e.fill_base = w(j)
      BY <1>9, <1>10, <2>2, <2>3
    <3> HIDE DEF a, e, w
    <3>2. QED
      BY <1>17, <1>19, <3>1 DEF Apart
  <2>4. CASE i > m.lo /\ i <= m.hi
    <3>1. i \in InLevel(c, s) /\ j \in InLevel(c, s)
      <4> HIDE DEF m
      <4>1. QED
        BY <1>2, <1>3, <1>4, <2>2, <2>4
    <3>2. w(i) = a.qty_sats /\ w(j) = e.qty_sats
      BY <1>9, <1>10, <3>1
    <3>3. QED
      BY <1>16, <1>19, <3>1, <3>2
  <2>5. CASE i > m.hi
    <3>1. a.fill_base = 0
      BY <1>9, <2>5
    <3> HIDE DEF a, e
    <3>2. QED
      BY <1>14, <3>1
  <2>6. QED
    <3> HIDE DEF m, a, e
    <3>1. QED
      BY <1>2, <1>3, <2>3, <2>4, <2>5
<1>20. QED
  BY <1>1, <1>18, <1>19

-----------------------------------------------------------------------------
(* What the passes do to the levels. *)

(* One entry is written.                                                    *)
Wrote(c, s, i, e, d) == d.entries = [c.entries EXCEPT ![s][i] = e]

(* It leaves the others.                                                    *)
LEMMA OthersStay ==
    ASSUME NEW c, Shaped(c), NEW s \in BOOLEAN, NEW i \in DOMAIN c.entries[s], NEW e,
           NEW d, Wrote(c, s, i, e, d)
    PROVE  /\ d.entries[s][i] = e
           /\ \A t \in BOOLEAN : \A j \in DOMAIN c.entries[t] :
                 Elsewhere(s, i, t, j) => Untouched(c, d, t, j)
<1> DEFINE es == c.entries
<1>1. es \in [BOOLEAN -> Seq(Entry)] /\ i \in DOMAIN es[s] /\ d.entries = [es EXCEPT ![s][i] = e]
  BY DEF Shaped, EntriesOK, Wrote
<1> DEFINE new == d.entries
<1>2. new = [es EXCEPT ![s] = [es[s] EXCEPT ![i] = e]]
  BY <1>1
<1> HIDE DEF es, new
<1>3. new[s][i] = e
  BY <1>1, <1>2
<1>4. ASSUME NEW t \in BOOLEAN, NEW j \in DOMAIN es[t], ~(t = s /\ j = i)
      PROVE  new[t][j] = es[t][j]
  BY <1>1, <1>2, <1>4
<1>5. QED
  BY <1>3, <1>4 DEF Elsewhere, Untouched, es, new

(* A frame keeps the levels, so it is enough that what is filled outside    *)
(* them stays.                                                              *)
LEMMA OutsideStays ==
    ASSUME NEW c, Shaped(c), AllOrNothing(c), NEW d, Shaped(d), Frame(c, d),
           \A t \in BOOLEAN : \A j \in Eligible(c, t) :
               j \notin InLevel(c, t) => d.entries[t][j].fill_base = c.entries[t][j].fill_base
    PROVE  AllOrNothing(d)
<1> SUFFICES ASSUME NEW t \in BOOLEAN, NEW j \in Eligible(d, t), j \notin InLevel(d, t)
             PROVE  d.entries[t][j].fill_base = IF j <= marginal_level(d, t).lo
                                                THEN d.entries[t][j].qty_sats ELSE 0
  BY DEF AllOrNothing
<1>1. marginal_level(d, t) = marginal_level(c, t) /\ InLevel(d, t) = InLevel(c, t)
  BY SideLevelStays
<1>2. j \in Eligible(c, t)
  BY DEF Frame, Eligible
<1>3. j \in DOMAIN c.entries[t]
  <2>1. c.alloc.elig[t] \in Nat /\ c.alloc.elig[t] <= Len(c.entries[t])
        /\ c.entries[t] \in Seq(Entry)
    BY DEF Shaped, AllocOK, EntriesOK
  <2>2. QED
    BY <1>2, <2>1 DEF Eligible
<1>4. d.entries[t][j].qty_sats = c.entries[t][j].qty_sats
  BY <1>3 DEF Frame, SameOrders
<1>5. d.entries[t][j].fill_base = c.entries[t][j].fill_base
  BY <1>1, <1>2
<1>6. c.entries[t][j].fill_base = IF j <= marginal_level(c, t).lo
                                  THEN c.entries[t][j].qty_sats ELSE 0
  BY <1>1, <1>2 DEF AllOrNothing
<1>7. QED
  BY <1>1, <1>4, <1>5, <1>6

(* The shares are taken within the marginal level.                          *)
LEMMA ProrataTurnFair ==
    ASSUME NEW c, Shaped(c), Beyond(c), ProrataPass(c), c.cursor < eligible_count(c),
           AllOrNothing(c), NEW k, NEW d, d = ProrataTurn(c, k)
    PROVE  AllOrNothing(d)
<1> DEFINE s == at_bid(c)
           i == at_index(c)
           m == marginal_level(c, s)
           e == prorated(c.entries[s][i], c.alloc.matched_base - m.cum, m.lvl)
<1>1. s \in BOOLEAN /\ i \in 1..c.alloc.elig[s] /\ i \in DOMAIN c.entries[s]
  BY UnderCursor
<1>2. prorata_unit(c) = IF i \in m.lo + 1..m.hi /\ m.lvl > 0 THEN prorata_entry(c, s, i, e) ELSE c
  BY DEF prorata_unit, prorata_at
<1>3. InLevel(c, s) = m.lo + 1..m.hi
  BY DEF InLevel
<1> HIDE DEF s, i, m, e
<1>4. Shaped(d) /\ Frame(c, d)
  BY ProrataTurnKeeps
<1>5. ASSUME NEW t \in BOOLEAN, NEW j \in Eligible(c, t), j \notin InLevel(c, t)
      PROVE  d.entries[t][j].fill_base = c.entries[t][j].fill_base
  <2>1. CASE i \in m.lo + 1..m.hi /\ m.lvl > 0
    <3>1. d.entries = [c.entries EXCEPT ![s][i] = e]
      BY <1>2, <2>1 DEF ProrataTurn, prorata_entry, Shaped, ObjectFields
    <3>2. j \in DOMAIN c.entries[t]
      <4>1. c.alloc.elig[t] \in Nat /\ c.alloc.elig[t] <= Len(c.entries[t])
            /\ c.entries[t] \in Seq(Entry)
        BY DEF Shaped, AllocOK, EntriesOK
      <4>2. QED
        BY <1>5, <4>1 DEF Eligible
    <3>3. Elsewhere(s, i, t, j)
      BY <1>3, <1>5, <2>1 DEF Elsewhere
    <3>4. Untouched(c, d, t, j)
      BY <1>1, <3>1, <3>2, <3>3, OthersStay DEF Wrote
    <3>5. QED
      BY <3>4 DEF Untouched
  <2>2. CASE ~ (i \in m.lo + 1..m.hi /\ m.lvl > 0)
    <3>1. d.entries = c.entries
      BY <1>2, <2>2 DEF ProrataTurn, Shaped, ObjectFields
    <3>2. QED
      BY <3>1
  <2>3. QED
    BY <2>1, <2>2
<1>6. QED
  BY <1>4, <1>5, OutsideStays

(* A sat of the remainder goes to the largest fraction that got none.       *)
LEMMA AwardIsFair ==
    ASSUME NEW c, Shaped(c), Beyond(c), RemainderPass(c), AllOrNothing(c), LargestFirst(c),
           NEW s \in BOOLEAN, ~side_done(c, s), NEW d, d = award(c, s)
    PROVE  AllOrNothing(d) /\ LargestFirst(d)
<1> DEFINE i == best_fraction(c, s)
           e == bump(c.entries[s][i])
<1>1. i \in InLevel(c, s) /\ ~c.entries[s][i].bumped
  BY BestHasRoom
<1>2. i \in Eligible(c, s) /\ i \in DOMAIN c.entries[s]
  BY <1>1, LevelIsShared
<1>3. d.entries = [c.entries EXCEPT ![s][i] = e]
  <2> HIDE DEF i
  <2> HIDE DEF e
  <2>1. d.entries = [c.entries EXCEPT ![s][i] = bump(@)]
    BY DEF award, i, Shaped, ObjectFields
  <2>2. QED
    BY <2>1 DEF e
<1>4. \A j \in InLevel(c, s) : ~c.entries[s][j].bumped => c.entries[s][i].frac >= c.entries[s][j].frac
  <2> DEFINE I == unbumped(c, s)
  <2>1. I = {j \in InLevel(c, s) : ~c.entries[s][j].bumped}
    BY DEF unbumped, unbumped_of, InLevel
  <2>2. I # {}
    BY DEF side_done
  <2>3. InLevel(c, s) \subseteq DOMAIN c.entries[s] /\ IsFiniteSet(InLevel(c, s))
    BY SideLevel
  <2>4. DOMAIN c.entries[s] \subseteq Nat /\ \A j \in DOMAIN c.entries[s] : c.entries[s][j].frac \in Int
    <3> DEFINE es == c.entries[s]
    <3>1. es \in Seq(Entry)
      BY DEF Shaped, EntriesOK
    <3> HIDE DEF es
    <3>2. DOMAIN es \subseteq Nat /\ \A j \in DOMAIN es : es[j] \in Entry
      BY <3>1
    <3>3. \A j \in DOMAIN es : es[j].frac \in Int
      BY <3>2 DEF Entry
    <3>4. QED
      BY <3>2, <3>3 DEF es
  <2>5. I \subseteq InLevel(c, s) /\ IsFiniteSet(I)
    BY <2>1, <2>3, FS_Subset
  <2>6. i = first_largest(c.entries[s], I)
    BY DEF best_fraction
  <2> HIDE DEF I, i, e
  <2>7. \A j \in I : c.entries[s][i].frac >= c.entries[s][j].frac
    BY <2>2, <2>3, <2>4, <2>5, <2>6, FirstLargest
  <2>8. QED
    BY <2>1, <2>7
<1> HIDE DEF i, e
<1>5. Shaped(d) /\ Frame(c, d)
  BY AwardKeeps
<1>6. /\ d.entries[s][i] = e
      /\ \A t \in BOOLEAN : \A j \in DOMAIN c.entries[t] :
            Elsewhere(s, i, t, j) => Untouched(c, d, t, j)
  <2>1. i \in DOMAIN c.entries[s] /\ Wrote(c, s, i, e, d)
    BY <1>2, <1>3 DEF Wrote
  <2>2. d.entries[s][i] = e
    BY <2>1, OthersStay
  <2>3. \A t \in BOOLEAN : \A j \in DOMAIN c.entries[t] :
            Elsewhere(s, i, t, j) => Untouched(c, d, t, j)
    BY <2>1, OthersStay, Zenon
  <2>4. QED
    BY <2>2, <2>3
<1>7. e.bumped = TRUE /\ e.frac = c.entries[s][i].frac
  <2> DEFINE old == c.entries[s][i]
  <2>1. old \in Entry
    <3>1. c.entries[s] \in Seq(Entry)
      BY DEF Shaped, EntriesOK
    <3>2. QED
      BY <1>2, <3>1
  <2>2. e = bump(old)
    BY DEF e
  <2> HIDE DEF old
  <2>3. e.bumped = TRUE /\ e.frac = old.frac
    BY <2>1, <2>2 DEF Entry, bump
  <2>4. QED
    BY <2>3 DEF old
<1>8. \A t \in BOOLEAN : \A j \in InLevel(c, t) : j \in DOMAIN c.entries[t] /\ j \in Eligible(c, t)
  BY LevelIsShared
<1>9. AllOrNothing(d)
  <2> SUFFICES ASSUME NEW t \in BOOLEAN, NEW j \in Eligible(c, t), j \notin InLevel(c, t)
               PROVE  d.entries[t][j].fill_base = c.entries[t][j].fill_base
    BY <1>5, OutsideStays
  <2>1. j \in DOMAIN c.entries[t]
    <3>1. c.alloc.elig[t] \in Nat /\ c.alloc.elig[t] <= Len(c.entries[t])
          /\ c.entries[t] \in Seq(Entry)
      BY DEF Shaped, AllocOK, EntriesOK
    <3>2. QED
      BY <3>1 DEF Eligible
  <2>2. Elsewhere(s, i, t, j)
    BY <1>1 DEF Elsewhere
  <2>3. QED
    BY <1>6, <2>1, <2>2 DEF Untouched
<1>10. ASSUME NEW t \in BOOLEAN, NEW j \in InLevel(c, t)
       PROVE  /\ d.entries[t][j].frac = c.entries[t][j].frac
              /\ d.entries[t][j].bumped <=> c.entries[t][j].bumped \/ (t = s /\ j = i)
  <2>1. CASE t = s /\ j = i
    BY <1>6, <1>7, <2>1
  <2>2. CASE ~ (t = s /\ j = i)
    <3>1. d.entries[t][j] = c.entries[t][j]
      BY <1>6, <1>8, <1>10, <2>2 DEF Elsewhere, Untouched
    <3>2. QED
      BY <2>2, <3>1
  <2>3. QED
    BY <2>1, <2>2
<1>11. LargestFirst(d)
  <2> SUFFICES ASSUME NEW t \in BOOLEAN, NEW j \in InLevel(d, t), NEW l \in InLevel(d, t),
                      d.entries[t][j].bumped, d.entries[t][l].frac > d.entries[t][j].frac
               PROVE  d.entries[t][l].bumped
    BY DEF LargestFirst
  <2>1. j \in InLevel(c, t) /\ l \in InLevel(c, t)
    BY <1>5, SideLevelStays
  <2>2. c.entries[t][l].frac > c.entries[t][j].frac
    BY <1>10, <2>1
  <2>3. c.entries[t][j].frac \in Int /\ c.entries[t][l].frac \in Int
    <3> DEFINE es == c.entries[t]
    <3>1. es \in Seq(Entry) /\ j \in DOMAIN es /\ l \in DOMAIN es
      BY <1>8, <2>1 DEF Shaped, EntriesOK
    <3> HIDE DEF es
    <3>2. es[j] \in Entry /\ es[l] \in Entry
      BY <3>1
    <3>3. es[j].frac \in Int /\ es[l].frac \in Int
      BY <3>2 DEF Entry
    <3>4. QED
      BY <3>3 DEF es
  <2>4. c.entries[t][l].bumped
    <3>1. CASE c.entries[t][j].bumped
      BY <2>1, <2>2, <3>1 DEF LargestFirst
    <3>2. CASE ~c.entries[t][j].bumped
      <4>1. t = s /\ j = i
        BY <1>10, <2>1, <3>2
      <4>2. ~ (c.entries[t][i].frac >= c.entries[t][l].frac)
        BY <2>2, <2>3, <4>1
      <4>3. QED
        BY <1>4, <2>1, <4>1, <4>2
    <3>3. QED
      BY <3>1, <3>2
  <2>5. QED
    BY <1>10, <2>1, <2>4
<1>12. QED
  BY <1>9, <1>11

-----------------------------------------------------------------------------
(* Truncation. *)

(* What the orders of a side ask of an account at this price.               *)
AskedOf(b, who, s) ==
    {i \in DOMAIN b.revealed : b.is_revealed[i] /\ b.revealed[i].submitter = who
                               /\ b.revealed[i].is_bid = s}

(* What each of them costs at price p, ...                                  *)
Bill(b, p, s) == [i \in DOMAIN b.revealed |-> CostOf(p, s, b.revealed[i].qty_sats)]

(* ... and the row fz of an account pays for all of them.                   *)
Pays(b, p, fz, who) ==
    \A s \in BOOLEAN : SumOf(Bill(b, p, s), AskedOf(b, who, s)) <= Held(fz[who], s)

(* What was drawn from a row and what is left of it are the row as it was.  *)
Drawn(c, fz) ==
    /\ DOMAIN c.funding = DOMAIN fz
    /\ \A who \in DOMAIN fz : \A s \in BOOLEAN :
          SumOf(Granted(c, s, who), Eligible(c, s)) + Held(c.funding[who], s) = Held(fz[who], s)

(* g is what the first pass made of the orders, and h what is left of it:   *)
(* all of what is paid for, or not gone over yet.                           *)
LeftOf(c, b, fz, g, h) ==
    \A s \in BOOLEAN : \A i \in DOMAIN c.entries[s] :
        /\ g[s][i] \in Nat /\ h[s][i] <= g[s][i] /\ g[s][i] <= Ordered(c, b)[s][i]
        /\ Pays(b, c.alloc.clearing_price, fz, c.entries[s][i].submitter)
              => h[s][i] = g[s][i]

(* The first pass followed the rule, and h is what is left of it.           *)
Survives(c, b, fz, g, h) == Rule(c, Ordered(c, b), g) /\ LeftOf(c, b, fz, g, h)

(* The entries that truncation has not gone over stand as the pass left     *)
(* them.                                                                    *)
NotYet(c, g) ==
    \A s \in BOOLEAN : \A i \in Eligible(c, s) :
        TurnOf(c, s, i) > c.cursor => c.entries[s][i].fill_base = g[s][i]

-----------------------------------------------------------------------------
(* The fills. *)

(* The account behind an entry could pay for all its orders.                *)
PaidFor(c, b, fz, s, i) == Pays(b, c.alloc.clearing_price, fz, c.entries[s][i].submitter)

(* What the order behind an entry asked for.                                *)
OrderQty(c, b, s, i) == OrderOf(b, c.entries[s][i]).qty_sats

(* What an entry is filled with.                                            *)
FillOf(c, s, i) == c.entries[s][i].fill_base

(* The two properties, of entries: price priority, and no order before its  *)
(* like.                                                                    *)
Outcome(c, b, fz) ==
    \A s \in BOOLEAN : \A i, j \in DOMAIN c.entries[s] :
        /\ Better(s, LimitOf(c, s, i), LimitOf(c, s, j)) /\ PaidFor(c, b, fz, s, i)
           /\ FillOf(c, s, i) < OrderQty(c, b, s, i) => FillOf(c, s, j) = 0
        /\ LimitOf(c, s, i) = LimitOf(c, s, j) /\ OrderQty(c, b, s, i) = OrderQty(c, b, s, j)
           /\ PaidFor(c, b, fz, s, i) /\ PaidFor(c, b, fz, s, j)
              => FillOf(c, s, i) <= FillOf(c, s, j) + 1

(* The fills made are those of the first n entries that have one.           *)
FillsOf(c, n) ==
    /\ \A k \in DOMAIN c.fills : \E m \in 1..n :
          /\ c.fills[k].order_index = all_entries(c)[m].order_index
          /\ c.fills[k].base_sats = all_entries(c)[m].fill_base
    /\ \A k, l \in DOMAIN c.fills : c.fills[k].order_index = c.fills[l].order_index => k = l
    /\ \A m \in 1..n : all_entries(c)[m].fill_base # 0 =>
          \E k \in DOMAIN c.fills : c.fills[k].order_index = all_entries(c)[m].order_index

-----------------------------------------------------------------------------
(* The invariant, by stage. *)

(* While the book is read, and priced.                                      *)
FairOpen(c, b, fz, n) == Book(c, b, n) /\ Uncut(c, b) /\ fz = c.funding

(* During a pass, of the book, ...                                          *)
PassBook(c, b, fz) ==
    /\ Book(c, b, Len(b.revealed)) /\ EligibleByPrice(c)
    /\ c.stage \in FirstPass => Uncut(c, b) /\ fz = c.funding
    /\ c.stage \in SecondPass => \E g : Survives(c, b, fz, g, Weights(c))

(* ... and of the levels.                                                   *)
FairPass(c, b, fz) ==
    /\ PassBook(c, b, fz)
    /\ c.stage \notin {STAGE_ALLOC_FULL, STAGE_REALLOC_FULL} => AllOrNothing(c)
    /\ c.stage \in {STAGE_ALLOC_REMAINDER, STAGE_REALLOC_REMAINDER} => LargestFirst(c)

(* While fills are truncated.                                               *)
FairCut(c, b, fz) ==
    /\ Book(c, b, Len(b.revealed)) /\ Uncut(c, b) /\ EligibleByPrice(c) /\ Drawn(c, fz)
    /\ \E g : Survives(c, b, fz, g, Filled(c)) /\ NotYet(c, g)

(* Once the fills are final.                                                *)
FairEnd(c, b, fz, n) == Book(c, b, Len(b.revealed)) /\ Outcome(c, b, fz) /\ FillsOf(c, n)

(* What is known in each stage.                                             *)
FairlyCleared(c, b, fz) ==
    /\ c.stage = STAGE_LOADING => FairOpen(c, b, fz, c.cursor)
    /\ c.stage = STAGE_PRICING => FairOpen(c, b, fz, Len(b.revealed))
    /\ c.stage \in FirstPass \cup SecondPass => FairPass(c, b, fz)
    /\ c.stage = STAGE_TRUNCATE => FairCut(c, b, fz)
    /\ c.stage = STAGE_ROOTING => FairEnd(c, b, fz, c.cursor)
    /\ c.stage \in {STAGE_SETTLING, STAGE_DONE} => FairEnd(c, b, fz, Len(all_entries(c)))

(* The inductive invariant: the entries, and the snapshot of the accounts.  *)
FairInv ==
    IF clearing = NoClearing THEN frozen = [who \in {} |-> 0]
    ELSE FairlyCleared(clearing, batch, frozen)

-----------------------------------------------------------------------------
(* What is carried from one stage to the next. *)

(* The orders and the eligible prefixes, at the clearing price.             *)
Kin(c, d) ==
    /\ SameNames(c, d)
    /\ d.alloc.elig = c.alloc.elig /\ d.alloc.clearing_price = c.alloc.clearing_price

(* What survives of the first pass is a matter of these alone.              *)
LEMMA SurvivesKin ==
    ASSUME NEW c, NEW d, Kin(c, d), NEW b, NEW fz, NEW g, NEW h, Survives(c, b, fz, g, h)
    PROVE  Survives(d, b, fz, g, h)
<1>1. \A s \in BOOLEAN : \A i \in DOMAIN d.entries[s] :
         /\ i \in DOMAIN c.entries[s] /\ LimitOf(d, s, i) = LimitOf(c, s, i)
         /\ d.entries[s][i].submitter = c.entries[s][i].submitter
         /\ Ordered(d, b)[s][i] = Ordered(c, b)[s][i]
  BY DEF Kin, SameNames, LimitOf, Ordered, OrderOf
<1>2. d.alloc.clearing_price = c.alloc.clearing_price
  BY DEF Kin
<1>3. Rule(d, Ordered(d, b), g)
  BY <1>1 DEF Survives, Rule
<1>4. LeftOf(d, b, fz, g, h)
  BY <1>1, <1>2 DEF Survives, LeftOf
<1>5. QED
  BY <1>3, <1>4 DEF Survives

(* What carries the orders over is kin, and carries the weights.            *)
LEMMA CarriedIsKin ==
    ASSUME NEW c, NEW d, Carried(c, d)
    PROVE  Kin(c, d) /\ Weights(d) = Weights(c)
<1>1. Kin(c, d)
  BY CarriedBook DEF Carried, Kin
<1>2. \A s \in BOOLEAN : DOMAIN d.entries[s] = DOMAIN c.entries[s]
         /\ \A i \in DOMAIN c.entries[s] : d.entries[s][i].qty_sats = c.entries[s][i].qty_sats
  BY DEF Carried, SameOrders
<1>3. d.alloc.elig = c.alloc.elig
  BY DEF Carried
<1>4. ASSUME NEW s \in BOOLEAN
      PROVE  [i \in DOMAIN d.entries[s] |->
                 IF i <= d.alloc.elig[s] THEN d.entries[s][i].qty_sats ELSE 0]
             = [i \in DOMAIN c.entries[s] |->
                 IF i <= c.alloc.elig[s] THEN c.entries[s][i].qty_sats ELSE 0]
  BY <1>2, <1>3
<1>5. Weights(d) = Weights(c)
  BY <1>4 DEF Weights
<1>6. QED
  BY <1>1, <1>5

(* So the book is the same from one part of a pass to the next.             *)
LEMMA PassBookStays ==
    ASSUME NEW c, NEW d, Carried(c, d), NEW b, NEW fz, PassBook(c, b, fz),
           d.stage \in FirstPass => c.stage \in FirstPass,
           d.stage \in SecondPass => c.stage \in SecondPass
    PROVE  PassBook(d, b, fz)
<1>1. Book(d, b, Len(b.revealed)) /\ EligibleByPrice(d)
  BY CarriedBook, NamesKeep DEF PassBook
<1>2. d.stage \in FirstPass => Uncut(d, b) /\ fz = d.funding
  <2>1. d.funding = c.funding
    BY DEF Carried
  <2>2. QED
    BY <2>1, CarriedBook DEF PassBook
<1>3. d.stage \in SecondPass => \E g : Survives(d, b, fz, g, Weights(d))
  <2> SUFFICES ASSUME d.stage \in SecondPass
               PROVE  \E g : Survives(d, b, fz, g, Weights(d))
    OBVIOUS
  <2>1. PICK g : Survives(c, b, fz, g, Weights(c))
    BY DEF PassBook
  <2>2. Survives(d, b, fz, g, Weights(d))
    BY <2>1, CarriedIsKin, SurvivesKin
  <2>3. QED
    BY <2>2
<1>4. QED
  BY <1>1, <1>2, <1>3 DEF PassBook

(* What the next stage takes over.                                          *)
Turned(c, d, next) ==
    /\ d.stage = next /\ d.cursor = 0
    /\ d.entries = c.entries /\ d.funding = c.funding /\ d.fills = c.fills
    /\ d.alloc.elig = c.alloc.elig /\ d.alloc.matched_base = c.alloc.matched_base
    /\ d.alloc.clearing_price = c.alloc.clearing_price

(* It takes over what is filled, and what is known of the levels.           *)
LEMMA TurnedKeeps ==
    ASSUME NEW c, NEW d, NEW next, Turned(c, d, next)
    PROVE  /\ Carried(c, d) /\ Filled(d) = Filled(c)
           /\ AllOrNothing(c) => AllOrNothing(d)
           /\ LargestFirst(c) => LargestFirst(d)
<1>1. Carried(c, d)
  BY DEF Turned, Carried, SameOrders
<1>2. \A s \in BOOLEAN :
          /\ marginal_level(d, s) = marginal_level(c, s) /\ InLevel(d, s) = InLevel(c, s)
          /\ Eligible(d, s) = Eligible(c, s)
  BY DEF Turned, marginal_level, InLevel, Eligible
<1>3. d.entries = c.entries
  BY DEF Turned
<1>4. Filled(d) = Filled(c)
  BY <1>3 DEF Filled, Fills
<1>5. AllOrNothing(c) => AllOrNothing(d)
  BY <1>2, <1>3 DEF AllOrNothing
<1>6. LargestFirst(c) => LargestFirst(d)
  BY <1>2, <1>3 DEF LargestFirst
<1>7. QED
  BY <1>1, <1>4, <1>5, <1>6

(* Entering a stage with an allocation that keeps these.                    *)
LEMMA EntersTurned ==
    ASSUME NEW c, Shaped(c), NEW a, a.elig = c.alloc.elig, a.matched_base = c.alloc.matched_base,
           a.clearing_price = c.alloc.clearing_price, NEW next,
           NEW d, d = [c EXCEPT !.alloc = a, !.cursor = 0, !.stage = next]
    PROVE  Turned(c, d, next)
<1>1. DOMAIN c = ObjectFields
  BY DEF Shaped
<1>2. d.stage = next /\ d.cursor = 0 /\ d.alloc = a
  BY <1>1 DEF ObjectFields
<1>3. d.entries = c.entries /\ d.funding = c.funding /\ d.fills = c.fills
  BY <1>1 DEF ObjectFields
<1>4. QED
  BY <1>2, <1>3 DEF Turned

-----------------------------------------------------------------------------
(* The steps of the passes. *)

(* The stages of a pass go in order.                                        *)
SamePass(st, next) ==
    /\ next \in FirstPass => st \in FirstPass
    /\ next \in SecondPass => st \in SecondPass

(* When the levels that fit are filled, nothing else is.                    *)
LEMMA FullEnds ==
    ASSUME NEW c, Shaped(c), FullPass(c), c.cursor = eligible_count(c)
    PROVE  AllOrNothing(c)
<1> SUFFICES ASSUME NEW s \in BOOLEAN, NEW i \in Eligible(c, s)
             PROVE  c.entries[s][i].fill_base = IF i <= marginal_level(c, s).lo
                                                THEN c.entries[s][i].qty_sats ELSE 0
  BY DEF AllOrNothing
<1>1. eligible_count(c) \in Nat /\ TurnOf(c, s, i) \in 1..eligible_count(c)
  BY EligibleCount
<1>2. TurnOf(c, s, i) <= c.cursor
  BY <1>1
<1>3. i \in 1..c.alloc.elig[s]
  BY DEF Eligible
<1>4. QED
  BY <1>2, <1>3 DEF FullPass

(* The first part of a pass is fair.                                        *)
LEMMA FullFair ==
    ASSUME Shaped(clearing), Allocating(clearing, vault),
           clearing.stage \in {STAGE_ALLOC_FULL, STAGE_REALLOC_FULL},
           PassBook(clearing, batch, frozen), NEW budget \in Nat,
           NEW d, d = alloc_full_step(clearing, budget, AfterFull(clearing))
    PROVE  d.stage \in FirstPass \cup SecondPass /\ FairPass(d, batch, frozen)
<1> DEFINE c == clearing
           total == eligible_count(c)
           x == Advance(c, total, budget, full_unit)
           m == [s \in BOOLEAN |-> marginal_level(c, s)]
           next == AfterFull(c)
<1>1. Beyond(c) /\ FullPass(c) /\ c.cursor <= total
  BY DEF Allocating, Passing, FirstPass, SecondPass
<1>2. Shaped(x) /\ Frame(c, x) /\ FullPass(x) /\ x.cursor <= total
  BY <1>1, FullLoop
<1>3. d = IF x.cursor < total THEN x
          ELSE enter([x EXCEPT !.alloc = [@ EXCEPT
                 !.filled = [s \in BOOLEAN |-> m[s].cum],
                 !.pro_qty = [s \in BOOLEAN |-> m[s].lvl],
                 !.residual = [s \in BOOLEAN |-> c.alloc.matched_base - m[s].cum]]], next)
  BY DEF alloc_full_step
<1>4. total \in Nat /\ eligible_count(x) = total
  BY <1>2, EligibleCount, FrameCounts
<1>5. x.stage = c.stage /\ x.cursor \in Nat
  BY <1>2 DEF Frame, ObjectFields, Shaped
<1> HIDE DEF x, total
<1>6. PassBook(x, batch, frozen)
  BY <1>2, <1>5, FrameCarries, PassBookStays
<1>7. CASE x.cursor < total
  <2>1. d = x
    BY <1>3, <1>7
  <2>2. d.stage \in {STAGE_ALLOC_FULL, STAGE_REALLOC_FULL}
    BY <1>5, <2>1
  <2>3. QED
    BY <1>6, <2>1, <2>2, StagesDiffer DEF FairPass, FirstPass, SecondPass
<1>8. CASE ~ (x.cursor < total)
  <2>1. x.cursor = eligible_count(x)
    BY <1>2, <1>4, <1>5, <1>8
  <2> DEFINE f == [s \in BOOLEAN |-> m[s].cum]
             w == [s \in BOOLEAN |-> m[s].lvl]
             r == [s \in BOOLEAN |-> c.alloc.matched_base - m[s].cum]
             z == [x.alloc EXCEPT !.filled = f, !.pro_qty = w, !.residual = r]
  <2>2. d = [x EXCEPT !.alloc = z, !.cursor = 0, !.stage = next]
    BY <1>3, <1>8 DEF enter
  <2> HIDE DEF f, w, r, m
  <2>3. z.elig = x.alloc.elig /\ z.matched_base = x.alloc.matched_base
        /\ z.clearing_price = x.alloc.clearing_price
    <3>1. DOMAIN x.alloc = AllocFields
      BY <1>2 DEF Shaped, AllocOK
    <3>2. QED
      BY <3>1 DEF AllocFields
  <2> HIDE DEF z, next
  <2>4. Turned(x, d, next)
    BY <1>2, <2>2, <2>3, EntersTurned
  <2>5. next \in {STAGE_ALLOC_PRORATA, STAGE_REALLOC_PRORATA} /\ SamePass(c.stage, next)
    BY StagesDiffer DEF AfterFull, next, SamePass, FirstPass, SecondPass
  <2>6. d.stage = next /\ Carried(x, d) /\ AllOrNothing(d)
    BY <1>2, <2>1, <2>4, FullEnds, TurnedKeeps DEF Turned
  <2>7. PassBook(d, batch, frozen)
    BY <1>5, <1>6, <2>5, <2>6, PassBookStays DEF SamePass
  <2>8. QED
    BY <2>5, <2>6, <2>7, StagesDiffer DEF FairPass, FirstPass, SecondPass
<1>9. QED
  BY <1>7, <1>8

-----------------------------------------------------------------------------
(* The marginal level is shared. *)

(* The shares are dealt outside the level all or nothing.                   *)
FairProrata(k, x) == ProrataHolds(k, x) /\ AllOrNothing(x)

(* The loop that deals them.                                                *)
FairShares == INSTANCE LoopRules WITH Body <- ProrataTurn, Holds <- FairProrata

(* The premise of the rules of this instance.                               *)
LEMMA FairSharesInduction ==
    FairShares!Induction
  BY NatSetInduction DEF FairShares!Induction

(* However many turns a budget pays for, the shares stay within the level.  *)
LEMMA FairProrataLoop ==
    ASSUME Shaped(clearing), Beyond(clearing), ProrataPass(clearing), AllOrNothing(clearing),
           clearing.cursor <= eligible_count(clearing), NEW budget \in Nat,
           NEW d, d = Advance(clearing, eligible_count(clearing), budget, prorata_unit)
    PROVE  /\ Shaped(d) /\ Frame(clearing, d) /\ ProrataPass(d) /\ AllOrNothing(d)
           /\ d.cursor <= eligible_count(clearing)
<1> DEFINE total == eligible_count(clearing)
           n == min_u64(budget, total - clearing.cursor)
<1>1. total \in Nat /\ clearing.cursor \in Nat
  BY EligibleCount DEF Shaped
<1> HIDE DEF total
<1>2. n \in Nat /\ clearing.cursor + n <= total
  BY <1>1, TurnsLeft DEF total
<1>3. d = FairShares!LoopFrom(clearing)[n]
  BY DEF Advance, FairShares!LoopFrom, FairShares!Turns, ProrataTurn, total
<1> HIDE DEF n
<1>4. FairProrata(0, clearing)
  BY <1>1, FrameRefl DEF FairProrata, ProrataHolds
<1>5. ASSUME NEW k \in 0..(n - 1), NEW x, FairProrata(k, x)
      PROVE  FairProrata(k + 1, ProrataTurn(x, k + 1))
  <2>1. eligible_count(x) = total
    BY <1>5, FrameCounts DEF FairProrata, ProrataHolds, total
  <2>2. x.cursor < eligible_count(x)
    BY <1>1, <1>2, <1>5, <2>1 DEF FairProrata, ProrataHolds
  <2> DEFINE y == ProrataTurn(x, k + 1)
  <2>3. Shaped(y) /\ Frame(x, y) /\ Beyond(y) /\ ProrataPass(y) /\ y.cursor = x.cursor + 1
    BY <1>5, <2>2, ProrataTurnKeeps DEF FairProrata, ProrataHolds
  <2>4. AllOrNothing(y)
    BY <1>5, <2>2, ProrataTurnFair DEF FairProrata, ProrataHolds
  <2> HIDE DEF y
  <2>5. Frame(clearing, y)
    BY <1>5, <2>3, FrameTrans DEF FairProrata, ProrataHolds
  <2>6. y.cursor = clearing.cursor + (k + 1)
    BY <1>1, <1>5, <2>3 DEF FairProrata, ProrataHolds
  <2>7. QED
    BY <2>3, <2>4, <2>5, <2>6 DEF FairProrata, ProrataHolds, y
<1>6. FairProrata(n, FairShares!LoopFrom(clearing)[n])
  BY <1>2, <1>4, <1>5, FairSharesInduction, FairShares!LoopRule
<1>7. QED
  BY <1>1, <1>2, <1>3, <1>6 DEF FairProrata, ProrataHolds, total

(* When the shares are taken, no sat of the remainder is yet.               *)
LEMMA ProrataEnds ==
    ASSUME NEW c, Shaped(c), ProrataPass(c), c.cursor = eligible_count(c)
    PROVE  LargestFirst(c)
<1> SUFFICES ASSUME NEW s \in BOOLEAN, NEW i \in InLevel(c, s)
             PROVE  ~c.entries[s][i].bumped
  BY DEF LargestFirst
<1>1. i \in Eligible(c, s)
  BY LevelIsShared
<1>2. eligible_count(c) \in Nat /\ TurnOf(c, s, i) \in 1..eligible_count(c)
  BY <1>1, EligibleCount
<1>3. TurnOf(c, s, i) <= c.cursor
  BY <1>2
<1>4. QED
  BY <1>1, <1>3 DEF ProrataPass

(* The second part of a pass is fair.                                       *)
LEMMA ProrataFair ==
    ASSUME Shaped(clearing), Allocating(clearing, vault),
           clearing.stage \in {STAGE_ALLOC_PRORATA, STAGE_REALLOC_PRORATA},
           PassBook(clearing, batch, frozen), AllOrNothing(clearing), NEW budget \in Nat,
           NEW d, d = alloc_prorata_step(clearing, budget, AfterProrata(clearing))
    PROVE  d.stage \in FirstPass \cup SecondPass /\ FairPass(d, batch, frozen)
<1> DEFINE c == clearing
           total == eligible_count(c)
           x == Advance(c, total, budget, prorata_unit)
           next == AfterProrata(c)
<1>1. Beyond(c) /\ ProrataPass(c) /\ c.cursor <= total
  BY DEF Allocating, Passing, FirstPass, SecondPass
<1>2. Shaped(x) /\ Frame(c, x) /\ ProrataPass(x) /\ AllOrNothing(x) /\ x.cursor <= total
  BY <1>1, FairProrataLoop
<1>3. d = IF x.cursor < total THEN x
          ELSE enter([x EXCEPT !.alloc = [@ EXCEPT !.remainder_side = SIDE_BID]], next)
  BY DEF alloc_prorata_step
<1>4. total \in Nat /\ eligible_count(x) = total
  BY <1>2, EligibleCount, FrameCounts
<1>5. x.stage = c.stage /\ x.cursor \in Nat
  BY <1>2 DEF Frame, ObjectFields, Shaped
<1> HIDE DEF x, total
<1>6. PassBook(x, batch, frozen)
  BY <1>2, <1>5, FrameCarries, PassBookStays
<1>7. CASE x.cursor < total
  <2>1. d = x
    BY <1>3, <1>7
  <2>2. d.stage \in {STAGE_ALLOC_PRORATA, STAGE_REALLOC_PRORATA}
    BY <1>5, <2>1
  <2>3. QED
    BY <1>2, <1>6, <2>1, <2>2, StagesDiffer DEF FairPass, FirstPass, SecondPass
<1>8. CASE ~ (x.cursor < total)
  <2>1. x.cursor = eligible_count(x)
    BY <1>2, <1>4, <1>5, <1>8
  <2> DEFINE z == [x.alloc EXCEPT !.remainder_side = SIDE_BID]
  <2>2. d = [x EXCEPT !.alloc = z, !.cursor = 0, !.stage = next]
    BY <1>3, <1>8 DEF enter
  <2>3. z.elig = x.alloc.elig /\ z.matched_base = x.alloc.matched_base
        /\ z.clearing_price = x.alloc.clearing_price
    <3>1. DOMAIN x.alloc = AllocFields
      BY <1>2 DEF Shaped, AllocOK
    <3>2. QED
      BY <3>1 DEF AllocFields
  <2> HIDE DEF z, next
  <2>4. Turned(x, d, next)
    BY <1>2, <2>2, <2>3, EntersTurned
  <2>5. next \in {STAGE_ALLOC_REMAINDER, STAGE_REALLOC_REMAINDER} /\ SamePass(c.stage, next)
    BY StagesDiffer DEF AfterProrata, next, SamePass, FirstPass, SecondPass
  <2>6. d.stage = next /\ Carried(x, d) /\ AllOrNothing(d) /\ LargestFirst(d)
    BY <1>2, <2>1, <2>4, ProrataEnds, TurnedKeeps DEF Turned
  <2>7. PassBook(d, batch, frozen)
    BY <1>5, <1>6, <2>5, <2>6, PassBookStays DEF SamePass
  <2>8. QED
    BY <2>5, <2>6, <2>7, StagesDiffer DEF FairPass, FirstPass, SecondPass
<1>9. QED
  BY <1>7, <1>8

-----------------------------------------------------------------------------
(* The remainder is handed out. *)

(* Passing to the other side is fair.                                       *)
LEMMA SidesOverFair ==
    ASSUME NEW c, Shaped(c), AllOrNothing(c), LargestFirst(c), NEW d, d = SidesOver(c)
    PROVE  AllOrNothing(d) /\ LargestFirst(d)
<1> DEFINE a == c.alloc
           b == [a EXCEPT !.remainder_side = SIDE_NONE]
<1>1. DOMAIN a = AllocFields /\ DOMAIN c = ObjectFields
  BY DEF Shaped, AllocOK
<1>2. d = [c EXCEPT !.alloc = b]
  BY DEF SidesOver
<1> HIDE DEF a
<1>3. b.elig = a.elig /\ b.matched_base = a.matched_base
  BY <1>1 DEF AllocFields
<1> HIDE DEF b
<1>4. d.entries = c.entries /\ d.alloc.elig = c.alloc.elig
      /\ d.alloc.matched_base = c.alloc.matched_base
  BY <1>1, <1>2, <1>3 DEF ObjectFields, a
<1>5. \A s \in BOOLEAN : /\ marginal_level(d, s) = marginal_level(c, s)
                         /\ InLevel(d, s) = InLevel(c, s) /\ Eligible(d, s) = Eligible(c, s)
  BY <1>4 DEF marginal_level, InLevel, Eligible
<1>6. QED
  BY <1>4, <1>5 DEF AllOrNothing, LargestFirst

(* A turn of alloc_remainder_step is fair.                                  *)
LEMMA RemainderTurnFair ==
    ASSUME NEW c, Shaped(c), Beyond(c), RemainderPass(c), AllOrNothing(c), LargestFirst(c),
           NEW k, NEW d, d = RemainderTurn(c, k)
    PROVE  AllOrNothing(d) /\ LargestFirst(d)
<1>1. TRUE \in BOOLEAN /\ FALSE \in BOOLEAN
  BY Zenon
<1>2. CASE c.alloc.remainder_side = SIDE_BID /\ ~side_done(c, TRUE)
  <2>1. d = award(c, TRUE)
    BY <1>2 DEF RemainderTurn, remainder_unit
  <2>2. QED
    BY <1>1, <1>2, <2>1, AwardIsFair
<1>3. CASE /\ ~ (c.alloc.remainder_side = SIDE_BID /\ ~side_done(c, TRUE))
           /\ c.alloc.remainder_side # SIDE_NONE /\ ~side_done(c, FALSE)
  <2>1. d = award(c, FALSE)
    BY <1>3 DEF RemainderTurn, remainder_unit
  <2>2. QED
    BY <1>1, <1>3, <2>1, AwardIsFair
<1>4. CASE /\ ~ (c.alloc.remainder_side = SIDE_BID /\ ~side_done(c, TRUE))
           /\ ~ (c.alloc.remainder_side # SIDE_NONE /\ ~side_done(c, FALSE))
  <2>1. d = SidesOver(c)
    BY <1>4 DEF RemainderTurn, remainder_unit, SidesOver
  <2>2. QED
    BY <2>1, SidesOverFair
<1>5. QED
  BY <1>2, <1>3, <1>4

(* The remainder goes to the larger fraction first.                         *)
FairRemainder(k, x) == RemainderHolds(k, x) /\ AllOrNothing(x) /\ LargestFirst(x)

(* The loop that hands it out.                                              *)
FairSats == INSTANCE LoopRules WITH Body <- RemainderTurn, Holds <- FairRemainder

(* The premise of the rules of this instance.                               *)
LEMMA FairSatsInduction ==
    FairSats!Induction
  BY NatSetInduction DEF FairSats!Induction

(* However many sats a budget pays for, they go to the largest fractions.   *)
LEMMA FairRemainderLoop ==
    ASSUME Shaped(clearing), Beyond(clearing), RemainderPass(clearing),
           AllOrNothing(clearing), LargestFirst(clearing), NEW budget \in Nat,
           NEW d, d = FairSats!LoopFrom(clearing)[budget]
    PROVE  /\ Shaped(d) /\ Frame(clearing, d) /\ Beyond(d) /\ RemainderPass(d)
           /\ AllOrNothing(d) /\ LargestFirst(d)
<1>1. FairRemainder(0, clearing)
  BY FrameRefl DEF FairRemainder, RemainderHolds
<1>2. ASSUME NEW k \in 0..(budget - 1), NEW x, FairRemainder(k, x)
      PROVE  FairRemainder(k + 1, RemainderTurn(x, k + 1))
  <2> DEFINE y == RemainderTurn(x, k + 1)
  <2>1. Shaped(y) /\ Frame(x, y) /\ Beyond(y) /\ RemainderPass(y)
    BY <1>2, RemainderTurnKeeps DEF FairRemainder, RemainderHolds
  <2>2. AllOrNothing(y) /\ LargestFirst(y)
    BY <1>2, RemainderTurnFair DEF FairRemainder, RemainderHolds
  <2> HIDE DEF y
  <2>3. Frame(clearing, y)
    BY <1>2, <2>1, FrameTrans DEF FairRemainder, RemainderHolds
  <2>4. QED
    BY <2>1, <2>2, <2>3 DEF FairRemainder, RemainderHolds, y
<1>3. FairRemainder(budget, FairSats!LoopFrom(clearing)[budget])
  BY <1>1, <1>2, FairSatsInduction, FairSats!LoopRule
<1>4. QED
  BY <1>3 DEF FairRemainder, RemainderHolds

-----------------------------------------------------------------------------
(* What two passes make of an order. *)

(* What was ordered is a number of sats.                                    *)
Counted(c, b) == \A s \in BOOLEAN : \A i \in DOMAIN c.entries[s] : OrderQty(c, b, s, i) \in Nat

(* What the batch revealed asks for a number of sats.                       *)
LEMMA OrdersCount ==
    ASSUME BatchOK, NEW c, NEW n, n = Len(batch.revealed), Traced(c, batch, n)
    PROVE  Counted(c, batch)
<1> SUFFICES ASSUME NEW s \in BOOLEAN, NEW i \in DOMAIN c.entries[s]
             PROVE  OrderQty(c, batch, s, i) \in Nat
  BY DEF Counted
<1> DEFINE k == c.entries[s][i].order_index
<1>1. k \in 1..Len(batch.revealed) /\ batch.is_revealed[k]
  BY DEF Traced
<1> HIDE DEF k
<1>2. batch.revealed[k] \in Order
  BY <1>1, RevealedOrder
<1>3. batch.revealed[k].qty_sats \in Nat
  <2>1. MAX_U64 \in Nat
    BY ScaleAssumption
  <2>2. QED
    BY <1>2, <2>1 DEF Order
<1>4. QED
  BY <1>3 DEF OrderQty, OrderOf, k

(* The numbers behind an entry.                                             *)
Numbers(c, b, s, i) ==
    /\ Filled(c)[s][i] = FillOf(c, s, i) /\ FillOf(c, s, i) \in Nat
    /\ Weights(c)[s][i] \in Nat /\ FillOf(c, s, i) <= Weights(c)[s][i]
    /\ Ordered(c, b)[s][i] = IF i <= c.alloc.elig[s] THEN OrderQty(c, b, s, i) ELSE 0
    /\ OrderQty(c, b, s, i) \in Nat /\ i \in Nat /\ c.alloc.elig[s] \in Nat

(* Fill, weight and order of an entry are numbers, the fill within the      *)
(* weight.                                                                  *)
LEMMA EntryNumbers ==
    ASSUME NEW c, Shaped(c), Beyond(c), Within(c), NEW b, Counted(c, b), NEW s \in BOOLEAN,
           NEW i \in DOMAIN c.entries[s]
    PROVE  Numbers(c, b, s, i)
<1> DEFINE es == c.entries[s]
           n == c.alloc.elig[s]
<1>1. es \in Seq(Entry) /\ n \in Nat /\ i \in DOMAIN es
  BY DEF Shaped, EntriesOK, AllocOK
<1>2. Filled(c)[s][i] = FillOf(c, s, i)
  BY DEF Filled, Fills, FillOf
<1>3. Weights(c)[s][i] = IF i <= n THEN es[i].qty_sats ELSE 0
  BY DEF Weights
<1>4. Ordered(c, b)[s][i] = IF i <= n THEN OrderQty(c, b, s, i) ELSE 0
  BY DEF Ordered, OrderQty
<1>5. i > n => es[i].fill_base = 0
  BY DEF Beyond
<1>6. i \in 1..n => es[i].fill_base <= es[i].qty_sats
  BY DEF Within, Eligible
<1>7. FillOf(c, s, i) = es[i].fill_base
  BY DEF FillOf
<1>8. OrderQty(c, b, s, i) \in Nat
  BY DEF Counted
<1> HIDE DEF es, n
<1>9. i \in Nat /\ i >= 1 /\ es[i] \in Entry
  BY <1>1
<1>10. es[i].fill_base \in Nat /\ es[i].qty_sats \in Nat
  BY <1>9 DEF Entry
<1>11. Weights(c)[s][i] \in Nat /\ FillOf(c, s, i) <= Weights(c)[s][i]
  BY <1>1, <1>3, <1>5, <1>6, <1>7, <1>9, <1>10
<1>12. QED
  BY <1>1, <1>2, <1>4, <1>7, <1>8, <1>9, <1>10, <1>11 DEF n, Numbers

(* Uncut, an order weighs what it asks for.                                 *)
LEMMA UncutWeights ==
    ASSUME NEW c, NEW b, Uncut(c, b)
    PROVE  Weights(c) = Ordered(c, b)
<1>1. ASSUME NEW s \in BOOLEAN
      PROVE  [i \in DOMAIN c.entries[s] |->
                 IF i <= c.alloc.elig[s] THEN c.entries[s][i].qty_sats ELSE 0]
             = [i \in DOMAIN c.entries[s] |->
                 IF i <= c.alloc.elig[s] THEN OrderOf(b, c.entries[s][i]).qty_sats ELSE 0]
  BY DEF Uncut
<1>2. QED
  BY <1>1 DEF Weights, Ordered

(* What the second pass fills of what survived of the first.                *)
LEMMA OutcomeIsFair ==
    ASSUME NEW c, Shaped(c), Beyond(c), Within(c), Ranked(c), EligibleByPrice(c),
           NEW b, Counted(c, b), NEW fz, NEW g,
           Rule(c, Weights(c), Filled(c)), Survives(c, b, fz, g, Weights(c))
    PROVE  Outcome(c, b, fz)
<1> SUFFICES ASSUME NEW s \in BOOLEAN, NEW i \in DOMAIN c.entries[s],
                    NEW j \in DOMAIN c.entries[s]
             PROVE  /\ Better(s, LimitOf(c, s, i), LimitOf(c, s, j)) /\ PaidFor(c, b, fz, s, i)
                       /\ FillOf(c, s, i) < OrderQty(c, b, s, i) => FillOf(c, s, j) = 0
                    /\ LimitOf(c, s, i) = LimitOf(c, s, j)
                       /\ OrderQty(c, b, s, i) = OrderQty(c, b, s, j)
                       /\ PaidFor(c, b, fz, s, i) /\ PaidFor(c, b, fz, s, j)
                          => FillOf(c, s, i) <= FillOf(c, s, j) + 1
  BY DEF Outcome
<1>0. Numbers(c, b, s, i) /\ Numbers(c, b, s, j)
  BY EntryNumbers
<1> DEFINE n == c.alloc.elig[s]
           f(x) == FillOf(c, s, x)
           w(x) == Weights(c)[s][x]
           o(x) == Ordered(c, b)[s][x]
           q(x) == OrderQty(c, b, s, x)
           h(x) == g[s][x]
           better == Better(s, LimitOf(c, s, i), LimitOf(c, s, j))
           level == LimitOf(c, s, i) = LimitOf(c, s, j)
<1>1. /\ Filled(c)[s][i] = f(i) /\ f(i) \in Nat /\ w(i) \in Nat /\ f(i) <= w(i)
      /\ o(i) = IF i <= n THEN q(i) ELSE 0
      /\ q(i) \in Nat /\ i \in Nat /\ n \in Nat
  BY <1>0 DEF Numbers
<1>2. /\ Filled(c)[s][j] = f(j) /\ f(j) \in Nat /\ w(j) \in Nat /\ f(j) <= w(j)
      /\ o(j) = IF j <= n THEN q(j) ELSE 0
      /\ q(j) \in Nat /\ j \in Nat
  BY <1>0 DEF Numbers
<1>3. /\ h(i) \in Nat /\ w(i) <= h(i) /\ h(i) <= o(i)
      /\ PaidFor(c, b, fz, s, i) => w(i) = h(i)
  BY DEF Survives, LeftOf, PaidFor
<1>4. /\ h(j) \in Nat /\ w(j) <= h(j) /\ h(j) <= o(j)
      /\ PaidFor(c, b, fz, s, j) => w(j) = h(j)
  BY DEF Survives, LeftOf, PaidFor
<1>5. /\ better /\ Filled(c)[s][i] < w(i) => Filled(c)[s][j] = 0
      /\ level /\ Apart(w(i), w(j)) => Filled(c)[s][i] <= Filled(c)[s][j] + 1
  BY DEF Rule
<1>6. /\ better /\ h(i) < o(i) => h(j) = 0
      /\ level /\ Apart(o(i), o(j)) => h(i) <= h(j) + 1
  BY DEF Survives, Rule
<1>7. level /\ Apart(o(j), o(i)) => h(j) <= h(i) + 1
  BY DEF Survives, Rule
<1>8. better => i < j
  BY BetterIsBefore
<1>9. level => (i <= n <=> j <= n)
  <2>1. /\ i <= n /\ n < j => Better(s, LimitOf(c, s, i), LimitOf(c, s, j))
        /\ j <= n /\ n < i => Better(s, LimitOf(c, s, j), LimitOf(c, s, i))
    BY DEF EligibleByPrice, CutAt
  <2>2. /\ Better(s, LimitOf(c, s, i), LimitOf(c, s, j)) => LimitOf(c, s, i) # LimitOf(c, s, j)
        /\ Better(s, LimitOf(c, s, j), LimitOf(c, s, i)) => LimitOf(c, s, j) # LimitOf(c, s, i)
    BY BetterIsBefore
  <2>3. level => ~(i <= n /\ n < j) /\ ~(j <= n /\ n < i)
    BY <2>1, <2>2
  <2> HIDE DEF n, level
  <2>4. QED
    BY <1>1, <1>2, <2>3
<1> HIDE DEF n, f, w, o, q, h, better, level
<1>10. ASSUME better, PaidFor(c, b, fz, s, i), f(i) < q(i)
       PROVE  f(j) = 0
  <2>1. CASE f(i) < w(i)
    BY <1>1, <1>2, <1>5, <1>10, <2>1
  <2>2. CASE ~ (f(i) < w(i)) /\ i <= n
    <3>1. h(i) < o(i)
      BY <1>1, <1>3, <1>10, <2>2
    <3>2. QED
      BY <1>2, <1>4, <1>6, <1>10, <3>1
  <2>3. CASE i > n
    <3>1. j > n
      BY <1>1, <1>2, <1>8, <1>10, <2>3
    <3>2. QED
      BY <1>1, <1>2, <1>4, <3>1
  <2>4. QED
    BY <1>1, <2>1, <2>2, <2>3
<1>11. ASSUME level, q(i) = q(j), PaidFor(c, b, fz, s, i), PaidFor(c, b, fz, s, j)
       PROVE  f(i) <= f(j) + 1
  <2>1. o(i) = o(j) /\ o(i) \in Nat
    BY <1>1, <1>2, <1>9, <1>11
  <2>2. h(i) <= h(j) + 1 /\ h(j) <= h(i) + 1
    BY <1>6, <1>7, <1>11, <2>1 DEF Apart
  <2>3. Apart(w(i), w(j))
    BY <1>3, <1>4, <1>11, <2>2 DEF Apart
  <2>4. QED
    BY <1>1, <1>2, <1>5, <1>11, <2>3
<1>12. QED
  BY <1>10, <1>11 DEF f, q, better, level

(* What the first pass fills is what truncation starts from.                *)
LEMMA FirstPassEnds ==
    ASSUME NEW c, Shaped(c), Beyond(c), RemainderPass(c), AllOrNothing(c), LargestFirst(c),
           BatchOK, Book(c, batch, Len(batch.revealed)), EligibleByPrice(c), Uncut(c, batch),
           NEW d, Shaped(d), Turned(c, d, STAGE_TRUNCATE)
    PROVE  FairCut(d, batch, c.funding)
<1> DEFINE b == batch
           g == Filled(c)
<1>1. Within(c) /\ Counted(c, b) /\ Weights(c) = Ordered(c, b)
  BY RemainderIsWithin, OrdersCount, UncutWeights DEF Book
<1>2. Rule(c, Ordered(c, b), g)
  BY <1>1, PassObeysRule DEF Book
<1>3. LeftOf(c, b, c.funding, g, g)
  <2> SUFFICES ASSUME NEW s \in BOOLEAN, NEW i \in DOMAIN c.entries[s]
               PROVE  g[s][i] \in Nat /\ g[s][i] <= g[s][i] /\ g[s][i] <= Ordered(c, b)[s][i]
    BY DEF LeftOf
  <2>1. Numbers(c, b, s, i)
    BY <1>1, EntryNumbers
  <2>2. QED
    BY <1>1, <2>1 DEF Numbers
<1>4. Survives(c, b, c.funding, g, g)
  BY <1>2, <1>3 DEF Survives
<1>5. Carried(c, d) /\ Filled(d) = g
  BY TurnedKeeps
<1>6. Survives(d, b, c.funding, g, Filled(d))
  BY <1>4, <1>5, CarriedIsKin, SurvivesKin
<1>7. Book(d, b, Len(b.revealed)) /\ Uncut(d, b) /\ EligibleByPrice(d)
  BY <1>5, CarriedBook, NamesKeep
<1>8. \A s \in BOOLEAN : \A i \in Eligible(d, s) : i \in DOMAIN d.entries[s] /\ TurnOf(d, s, i) > d.cursor
  <2> SUFFICES ASSUME NEW s \in BOOLEAN, NEW i \in Eligible(d, s)
               PROVE  i \in DOMAIN d.entries[s] /\ TurnOf(d, s, i) > d.cursor
    OBVIOUS
  <2>1. TurnOf(d, s, i) \in 1..eligible_count(d) /\ eligible_count(d) \in Nat
    BY EligibleCount
  <2>2. d.cursor = 0
    BY DEF Turned
  <2>3. Eligible(d, s) \subseteq DOMAIN d.entries[s]
    BY DueFacts
  <2>4. QED
    BY <2>1, <2>2, <2>3
<1>9. Drawn(d, c.funding)
  <2>1. d.funding = c.funding
    BY DEF Turned
  <2> SUFFICES ASSUME NEW who \in DOMAIN d.funding, NEW s \in BOOLEAN
               PROVE  SumOf(Granted(d, s, who), Eligible(d, s)) + Held(d.funding[who], s)
                         = Held(d.funding[who], s)
    BY <2>1 DEF Drawn
  <2>2. \A i \in Eligible(d, s) : Granted(d, s, who)[i] = 0
    <3> SUFFICES ASSUME NEW i \in Eligible(d, s)
                 PROVE  Granted(d, s, who)[i] = 0
      OBVIOUS
    <3>1. i \in DOMAIN d.entries[s] /\ TurnOf(d, s, i) > d.cursor
      BY <1>8
    <3>2. TurnOf(d, s, i) \in Nat /\ d.cursor \in Nat
      BY EligibleCount DEF Shaped
    <3>3. ~ (TurnOf(d, s, i) <= d.cursor)
      BY <3>1, <3>2
    <3>4. QED
      BY <3>1, <3>3 DEF Granted
  <2>3. IsFiniteSet(Eligible(d, s))
    BY DueFacts
  <2>4. SumOf(Granted(d, s, who), Eligible(d, s)) = 0
    BY <2>2, <2>3, SumZeros
  <2>5. Held(d.funding[who], s) \in Nat
    BY HeldNat
  <2>6. QED
    BY <2>4, <2>5
<1>10. NotYet(d, g)
  BY <1>5, <1>8 DEF NotYet, Filled, Fills
<1>11. QED
  BY <1>6, <1>7, <1>9, <1>10 DEF FairCut

(* What the second pass fills is final.                                     *)
LEMMA SecondPassEnds ==
    ASSUME NEW c, Shaped(c), Beyond(c), RemainderPass(c), AllOrNothing(c), LargestFirst(c),
           BatchOK, Book(c, batch, Len(batch.revealed)), EligibleByPrice(c), c.fills = <<>>,
           NEW fz, NEW g, Survives(c, batch, fz, g, Weights(c)),
           NEW d, Turned(c, d, STAGE_ROOTING)
    PROVE  FairEnd(d, batch, fz, 0)
<1> DEFINE b == batch
<1>1. Within(c) /\ Counted(c, b)
  BY RemainderIsWithin, OrdersCount DEF Book
<1>2. Rule(c, Weights(c), Filled(c))
  BY PassObeysRule DEF Book
<1>3. Outcome(c, b, fz)
  BY <1>1, <1>2, OutcomeIsFair DEF Book
<1>4. Carried(c, d)
  BY TurnedKeeps
<1>5. Book(d, b, Len(b.revealed))
  BY <1>4, CarriedBook, NamesKeep
<1>6. d.entries = c.entries /\ d.alloc.clearing_price = c.alloc.clearing_price /\ d.fills = <<>>
  BY DEF Turned
<1>7. Outcome(d, b, fz)
  BY <1>3, <1>6 DEF Outcome, PaidFor, FillOf, LimitOf, OrderQty
<1>8. FillsOf(d, 0)
  BY <1>6 DEF FillsOf
<1>9. QED
  BY <1>5, <1>7, <1>8 DEF FairEnd

(* Entering a stage as it is.                                               *)
LEMMA EnterTurns ==
    ASSUME NEW c, Shaped(c), NEW next, NEW d, d = enter(c, next)
    PROVE  Turned(c, d, next)
<1>1. DOMAIN c = ObjectFields
  BY DEF Shaped
<1>2. d = [c EXCEPT !.cursor = 0, !.stage = next]
  BY DEF enter
<1>3. d.stage = next /\ d.cursor = 0 /\ d.alloc = c.alloc
      /\ d.entries = c.entries /\ d.funding = c.funding /\ d.fills = c.fills
  BY <1>1, <1>2 DEF ObjectFields
<1>4. QED
  BY <1>3 DEF Turned

(* The third part of a pass is fair, and hands over what follows from it.   *)
LEMMA RemainderFair ==
    ASSUME Shaped(clearing), Allocating(clearing, vault), VaultOK(vault), BatchOK,
           clearing.stage \in {STAGE_ALLOC_REMAINDER, STAGE_REALLOC_REMAINDER},
           FairPass(clearing, batch, frozen), NEW budget \in Nat,
           NEW d, d = alloc_remainder_step(clearing, budget, AfterRemainder(clearing))
    PROVE  FairlyCleared(d, batch, frozen)
<1> DEFINE c == clearing
           x == FairSats!LoopFrom(c)[budget]
           next == AfterRemainder(c)
<1>1. /\ Priced(c) /\ Beyond(c) /\ RemainderPass(c)
  BY DEF Allocating, Passing, FirstPass, SecondPass
<1>2. PassBook(c, batch, frozen) /\ AllOrNothing(c) /\ LargestFirst(c)
  BY StagesDiffer DEF FairPass
<1>3. /\ Shaped(x) /\ Frame(c, x) /\ Beyond(x) /\ RemainderPass(x)
      /\ AllOrNothing(x) /\ LargestFirst(x)
  BY <1>1, <1>2, FairRemainderLoop
<1>4. d = IF x.alloc.remainder_side = SIDE_NONE THEN enter(x, next) ELSE x
  BY DEF alloc_remainder_step, FairSats!LoopFrom, FairSats!Turns, RemainderTurn
<1>5. Shaped(d)
  BY RemainderStep DEF ClearingOK
<1> HIDE DEF x
<1>6. x.stage = c.stage /\ x.fills = <<>>
  BY <1>1, <1>3 DEF Frame, ObjectFields, Priced
<1>7. PassBook(x, batch, frozen)
  BY <1>2, <1>3, <1>6, FrameCarries, PassBookStays
<1>8. CASE x.alloc.remainder_side # SIDE_NONE
  <2>1. d = x
    BY <1>4, <1>8
  <2>2. FairPass(d, batch, frozen)
    BY <1>3, <1>7, <2>1 DEF FairPass
  <2>3. QED
    BY <1>6, <2>1, <2>2, StagesDiffer DEF FairlyCleared
<1>9. CASE x.alloc.remainder_side = SIDE_NONE
  <2>1. d = enter(x, next)
    BY <1>4, <1>9
  <2> HIDE DEF next
  <2>2. Turned(x, d, next)
    BY <1>3, <2>1, EnterTurns
  <2>3. d.stage = next
    BY <2>2 DEF Turned
  <2>4. CASE c.stage = STAGE_ALLOC_REMAINDER
    <3>1. next = STAGE_TRUNCATE
      BY <2>4 DEF AfterRemainder, next
    <3>2. Uncut(x, batch) /\ frozen = x.funding
      BY <1>6, <1>7, <2>4 DEF PassBook, FirstPass
    <3>3. FairCut(d, batch, frozen)
      BY <1>3, <1>5, <1>7, <2>2, <3>1, <3>2, FirstPassEnds DEF PassBook
    <3>4. QED
      BY <2>3, <3>1, <3>3, StagesDiffer DEF FairlyCleared, FirstPass, SecondPass
  <2>5. CASE c.stage = STAGE_REALLOC_REMAINDER
    <3>1. next = STAGE_ROOTING
      BY <2>5, StagesDiffer DEF AfterRemainder, next
    <3>2. PICK g : Survives(x, batch, frozen, g, Weights(x))
      BY <1>6, <1>7, <2>5 DEF PassBook, SecondPass
    <3>3. FairEnd(d, batch, frozen, 0)
      BY <1>3, <1>6, <1>7, <2>2, <3>1, <3>2, SecondPassEnds DEF PassBook
    <3>4. d.cursor = 0
      BY <2>2 DEF Turned
    <3>5. QED
      BY <2>3, <3>1, <3>3, <3>4, StagesDiffer DEF FairlyCleared, FirstPass, SecondPass
  <2>6. QED
    BY <2>4, <2>5
<1>10. QED
  BY <1>8, <1>9

-----------------------------------------------------------------------------
(* What is paid for is granted. *)

(* Two sums over different sets, term by term: every f[x] has a g[h[x]] of  *)
(* its own that is not less.                                                *)
Finds(f, g, h, S, T) ==
    /\ \A x \in S : h[x] \in T /\ f[x] <= g[h[x]]
    /\ \A x, y \in S : h[x] = h[y] => x = y

(* The sum of the one is then not more than the sum of the other.           *)
LEMMA SumFinds ==
    ASSUME NEW f, NEW g, NEW h, NEW S, NEW T, IsFiniteSet(S), IsFiniteSet(T),
           \A x \in S : f[x] \in Nat, \A y \in T : g[y] \in Nat, Finds(f, g, h, S, T)
    PROVE  SumOf(f, S) <= SumOf(g, T)
<1> DEFINE Good == {s \in SUBSET S : \A t \in SUBSET T :
                       (\A x \in s : h[x] \in t) => SumOf(f, s) <= SumOf(g, t)}
<1>1. ASSUME NEW s \in SUBSET S, \A r \in SUBSET s : r # s => r \in Good
      PROVE  s \in Good
  <2> SUFFICES ASSUME NEW t \in SUBSET T, \A x \in s : h[x] \in t
               PROVE  SumOf(f, s) <= SumOf(g, t)
    OBVIOUS
  <2>1. IsFiniteSet(s) /\ IsFiniteSet(t)
    BY FS_Subset
  <2>2. (\A x \in s : f[x] \in Nat) /\ (\A y \in t : g[y] \in Nat)
    OBVIOUS
  <2>3. CASE s = {}
    <3>1. SumOf(f, s) = 0
      BY <2>3, SumEmpty
    <3>2. SumOf(g, t) \in Nat
      BY <2>1, <2>2, SumNat
    <3>3. QED
      BY <3>1, <3>2
  <2>4. CASE s # {}
    <3>1. PICK x \in s : TRUE
      BY <2>4
    <3> DEFINE r == s \ {x}
               u == t \ {h[x]}
    <3>2. h[x] \in t /\ f[x] <= g[h[x]] /\ f[x] \in Nat /\ g[h[x]] \in Nat
      BY <2>2, <3>1 DEF Finds
    <3>3. \A y \in r : h[y] \in u
      BY <3>1 DEF Finds
    <3>4. r \in SUBSET s /\ r # s /\ u \in SUBSET T
      BY <3>1
    <3>5. SumOf(f, r) <= SumOf(g, u)
      <4>1. r \in Good
        BY <1>1, <3>4
      <4>2. QED
        BY <3>3, <3>4, <4>1
    <3>6. SumOf(f, s) = f[x] + SumOf(f, r) /\ SumOf(g, t) = g[h[x]] + SumOf(g, u)
      <4>1. (\A y \in s : f[y] \in Int) /\ (\A y \in t : g[y] \in Int)
        BY <2>2
      <4>2. QED
        BY <2>1, <3>1, <3>2, <4>1, SumTakesOut
    <3>7. SumOf(f, r) \in Nat /\ SumOf(g, u) \in Nat
      <4>1. IsFiniteSet(r) /\ IsFiniteSet(u)
        BY <2>1, FS_Subset
      <4>2. (\A y \in r : f[y] \in Nat) /\ (\A y \in u : g[y] \in Nat)
        BY <2>2
      <4> HIDE DEF r, u
      <4>3. QED
        BY <4>1, <4>2, SumNat
    <3> HIDE DEF r, u
    <3>8. QED
      BY <3>2, <3>5, <3>6, <3>7
  <2>5. QED
    BY <2>3, <2>4
<1> HIDE DEF Good
<1>2. S \in Good
  BY <1>1, SetInduction
<1>3. T \in SUBSET T /\ \A x \in S : h[x] \in T
  BY DEF Finds
<1>4. QED
  BY <1>2, <1>3 DEF Good

(* What the entries of an account cost together is within what its orders   *)
(* are billed.                                                              *)
LEMMA AskedWithinBill ==
    ASSUME BatchOK, NEW c, Shaped(c), Uncut(c, batch), Book(c, batch, Len(batch.revealed)),
           NEW s \in BOOLEAN, NEW who, NEW p \in Nat, p = c.alloc.clearing_price
    PROVE  /\ SumOf(Asked(c, s, who), Eligible(c, s))
                 <= SumOf(Bill(batch, p, s), AskedOf(batch, who, s))
           /\ SumOf(Bill(batch, p, s), AskedOf(batch, who, s)) \in Nat
<1> DEFINE E == Eligible(c, s)
           mine == {i \in E : c.entries[s][i].submitter = who}
           rest == E \ mine
           f == Asked(c, s, who)
           g == Bill(batch, p, s)
           h == [i \in E |-> c.entries[s][i].order_index]
           T == AskedOf(batch, who, s)
<1>1. IsFiniteSet(E) /\ E \subseteq DOMAIN c.entries[s] /\ \A i \in E : f[i] \in Nat
  BY DueFacts
<1>2. IsFiniteSet(mine) /\ IsFiniteSet(rest)
  <2> HIDE DEF E
  <2>1. QED
    BY <1>1, FS_Subset
<1>3. IsFiniteSet(T)
  <2>1. Len(batch.revealed) \in Nat
    BY RevealedLength
  <2>2. DOMAIN batch.revealed = 1..Len(batch.revealed)
    BY ClearingAssumption DEF BatchOK
  <2>3. IsFiniteSet(1..Len(batch.revealed))
    BY <2>1, FS_Interval
  <2>4. T \subseteq 1..Len(batch.revealed)
    BY <2>2 DEF AskedOf
  <2> HIDE DEF T
  <2>5. QED
    BY <2>3, <2>4, FS_Subset
<1>4. \A k \in T : g[k] \in Nat
  <2> SUFFICES ASSUME NEW k \in T
               PROVE  g[k] \in Nat
    OBVIOUS
  <2>1. k \in DOMAIN batch.revealed /\ batch.is_revealed[k]
    BY DEF AskedOf
  <2>2. k \in 1..Len(batch.revealed)
    BY <2>1, ClearingAssumption DEF BatchOK
  <2>3. batch.revealed[k].qty_sats \in Nat
    <3>1. batch.revealed[k] \in Order /\ MAX_U64 \in Nat
      BY <2>1, <2>2, RevealedOrder, ScaleAssumption
    <3>2. QED
      BY <3>1 DEF Order
  <2>4. CostOf(p, s, batch.revealed[k].qty_sats) \in Nat
    <3> DEFINE m == batch.revealed[k].qty_sats
    <3>1. m \in Nat /\ m <= m
      BY <2>3
    <3> HIDE DEF m
    <3>2. CostOf(p, s, m) \in Nat
      BY <3>1, CostFacts
    <3>3. QED
      BY <3>2 DEF m
  <2>5. QED
    BY <2>1, <2>4 DEF Bill
<1>5. ASSUME NEW i \in mine
      PROVE  h[i] \in T /\ f[i] = g[h[i]]
  <2> DEFINE k == c.entries[s][i].order_index
  <2>1. i \in E /\ i \in DOMAIN c.entries[s] /\ c.entries[s][i].submitter = who
    BY <1>1
  <2>2. /\ k \in 1..Len(batch.revealed) /\ batch.is_revealed[k]
        /\ batch.revealed[k].submitter = who /\ batch.revealed[k].is_bid = s
    <3>1. Traced(c, batch, Len(batch.revealed))
      BY DEF Book
    <3> DEFINE x == c.entries[s][i]
    <3>2. /\ k \in 1..Len(batch.revealed) /\ batch.is_revealed[k]
          /\ OrderOf(batch, x).submitter = x.submitter /\ OrderOf(batch, x).is_bid = s
      BY <2>1, <3>1 DEF Traced
    <3>3. OrderOf(batch, x) = batch.revealed[k] /\ x.submitter = who
      BY <2>1 DEF OrderOf
    <3> HIDE DEF x, k
    <3>4. QED
      BY <3>2, <3>3
  <2>3. k \in DOMAIN batch.revealed
    BY <2>2, ClearingAssumption DEF BatchOK
  <2>4. k \in T
    BY <2>2, <2>3 DEF AskedOf
  <2>5. c.entries[s][i].qty_sats = batch.revealed[k].qty_sats
    BY <2>1 DEF Uncut, OrderOf
  <2>6. f[i] = CostOf(p, s, c.entries[s][i].qty_sats)
    BY <2>1 DEF Asked
  <2>7. g[k] = CostOf(p, s, batch.revealed[k].qty_sats)
    BY <2>3 DEF Bill
  <2>8. h[i] = k
    BY <2>1
  <2> HIDE DEF f, g, h, T
  <2>9. QED
    BY <2>4, <2>5, <2>6, <2>7, <2>8
<1>6. \A i, j \in mine : h[i] = h[j] => i = j
  BY <1>1 DEF Book, Distinct
<1>7. \A i \in rest : f[i] = 0
  BY <1>1 DEF Asked
<1>8. E = mine \cup rest /\ mine \cap rest = {} /\ mine \subseteq E
  OBVIOUS
<1> HIDE DEF E, f, g, h, T, mine, rest
<1>9. Finds(f, g, h, mine, T)
  <2>1. \A i \in mine : h[i] \in T /\ f[i] <= g[h[i]]
    <3> SUFFICES ASSUME NEW i \in mine
                 PROVE  h[i] \in T /\ f[i] <= g[h[i]]
      OBVIOUS
    <3>1. h[i] \in T /\ f[i] = g[h[i]] /\ g[h[i]] \in Nat
      BY <1>4, <1>5
    <3>2. QED
      BY <3>1
  <2>2. QED
    BY <1>6, <2>1 DEF Finds
<1>10. SumOf(f, mine) <= SumOf(g, T)
  <2>1. \A i \in mine : f[i] \in Nat
    BY <1>1, <1>8
  <2>2. QED
    BY <1>2, <1>3, <1>4, <1>9, <2>1, SumFinds
<1>11. SumOf(f, E) = SumOf(f, mine) + SumOf(f, rest)
  <2>1. \A i \in mine \cup rest : f[i] \in Int
    BY <1>1, <1>8
  <2>2. QED
    BY <1>2, <1>8, <2>1, SumUnion
<1>12. SumOf(f, rest) = 0
  BY <1>2, <1>7, SumZeros
<1>13. SumOf(f, mine) \in Nat /\ SumOf(g, T) \in Nat
  <2>1. \A i \in mine : f[i] \in Nat
    BY <1>1, <1>8
  <2>2. QED
    BY <1>2, <1>3, <1>4, <2>1, SumNat
<1>14. SumOf(f, E) <= SumOf(g, T)
  BY <1>10, <1>11, <1>12, <1>13
<1>15. QED
  BY <1>13, <1>14 DEF E, f, g, T

(* Who affords the cost of a quantity affords the quantity.                 *)
LEMMA CostIsAfforded ==
    ASSUME NEW row \in Row, NEW s \in BOOLEAN, NEW p \in Nat \ {0}, NEW want \in 0..MAX_U64,
           CostOf(p, s, want) <= Held(row, s)
    PROVE  min_u64(want, Afford(row, s, p)) = want
<1> DEFINE q == row.quote
           b == row.base
<1>1. q \in Nat /\ b \in Nat /\ MAX_U64 \in Nat /\ PRICE_SCALE \in Nat \ {0} /\ want \in Nat
  BY ScaleAssumption DEF Row
<1>2. CASE s = TRUE
  <2> DEFINE m == want * p
             z == (m + PRICE_SCALE - 1) \div PRICE_SCALE
             most == floor_mul_div(q, PRICE_SCALE, p)
  <2>1. z <= q
    BY <1>2 DEF CostOf, Held, quote_of_bid, ceil_mul_div
  <2>2. m \in Nat
    BY <1>1, ProductNat
  <2> HIDE DEF m
  <2>3. m + PRICE_SCALE - 1 \in Int
    BY <1>1, <2>2
  <2>4. z \in Int /\ m + PRICE_SCALE - 1 < z * PRICE_SCALE + PRICE_SCALE
    <3> DEFINE y == m + PRICE_SCALE - 1
    <3>1. y \in Int
      BY <2>3
    <3> HIDE DEF y
    <3>2. y \div PRICE_SCALE \in Int /\ y < (y \div PRICE_SCALE) * PRICE_SCALE + PRICE_SCALE
      BY <1>1, <3>1, QuotientBounds
    <3>3. QED
      BY <3>2 DEF y
  <2> HIDE DEF z, q, most
  <2>5. z * PRICE_SCALE <= q * PRICE_SCALE
    BY <1>1, <2>1, <2>4, ProductGrows
  <2>6. m <= q * PRICE_SCALE
    <3> DEFINE x == z * PRICE_SCALE
               y == q * PRICE_SCALE
    <3>1. x \in Int /\ y \in Int
      BY <1>1, <2>4
    <3>2. m + PRICE_SCALE - 1 < x + PRICE_SCALE /\ x <= y
      BY <2>4, <2>5
    <3> HIDE DEF x, y
    <3>3. m <= y
      BY <1>1, <2>2, <3>1, <3>2
    <3>4. QED
      BY <3>3 DEF y
  <2>7. want <= most
    <3> DEFINE y == q * PRICE_SCALE
    <3>1. y \in Int
      BY <1>1
    <3>2. want * p <= y
      BY <2>6 DEF m
    <3> HIDE DEF y
    <3>3. want <= y \div p
      BY <1>1, <3>1, <3>2, QuotientGreatest
    <3>4. QED
      BY <3>3 DEF most, floor_mul_div, y
  <2>8. most \in Int
    <3> DEFINE y == q * PRICE_SCALE
    <3>1. y \in Int
      BY <1>1
    <3> HIDE DEF y
    <3>2. y \div p \in Int
      BY <3>1, QuotientBounds
    <3>3. QED
      BY <3>2 DEF most, floor_mul_div, y
  <2>9. Afford(row, s, p) = min_u64(most, MAX_U64)
    BY <1>2 DEF Afford, most, q
  <2>10. QED
    BY <1>1, <2>7, <2>8, <2>9 DEF min_u64
<1>3. CASE s = FALSE
  <2>1. want <= b /\ Afford(row, s, p) = b
    BY <1>3 DEF CostOf, Held, Afford
  <2>2. QED
    BY <1>1, <2>1 DEF min_u64
<1>4. QED
  BY <1>2, <1>3

-----------------------------------------------------------------------------
(* A turn of truncation. *)

(* What a turn makes of the entry it comes to, and of the row it draws on:  *)
(* n of what was filled is granted, and all of it when the row pays for it. *)
Trimmed(c, d, s, i, n) ==
    /\ Shaped(d) /\ d.alloc = c.alloc /\ d.cursor = c.cursor + 1
    /\ DOMAIN d.funding = DOMAIN c.funding
    /\ \E e : /\ EntrySet(c.entries, s, i, e, d.entries)
              /\ SameOrder(c.entries[s][i], e) /\ e.fill_base = n
    /\ \A a \in DOMAIN c.funding : \A t \in BOOLEAN :
          Held(d.funding[a], t) = Held(c.funding[a], t)
             - (IF t = s /\ a = c.entries[s][i].submitter
                THEN CostOf(c.alloc.clearing_price, s, n) ELSE 0)

(* A turn of truncation trims one entry, and keeps it whole if the row      *)
(* pays.                                                                    *)
LEMMA TurnTrims ==
    ASSUME NEW c, Shaped(c), Beyond(c), Priced(c), GrantsCovered(c, vault), VaultOK(vault),
           c.cursor < eligible_count(c), NEW k, NEW d, d = TruncateTurn(c, k)
    PROVE  LET s == at_bid(c)
               i == at_index(c)
               row == c.funding[c.entries[s][i].submitter]
           IN  Trimmed(c, d, s, i, min_u64(c.entries[s][i].fill_base,
                                           Afford(row, s, c.alloc.clearing_price)))
<1> DEFINE s == at_bid(c)
           i == at_index(c)
           old == c.entries[s][i]
           p == c.alloc.clearing_price
           who == old.submitter
           row == c.funding[who]
           want == old.fill_base
           n == min_u64(want, Afford(row, s, p))
           e == [old EXCEPT !.fill_base = n]
           left == Left(row, s, p, n)
<1>1. s \in BOOLEAN /\ i \in Eligible(c, s) /\ i \in DOMAIN c.entries[s]
  BY UnderCursor DEF Eligible
<1>2. old \in Entry /\ who \in DOMAIN c.funding /\ c.cursor \in Nat
  BY <1>1 DEF Shaped, EntriesOK
<1>3. row \in Row /\ want \in Nat /\ p \in Nat \ {0}
  <2>1. row \in Row
    BY <1>2 DEF Shaped
  <2>2. want \in Nat
    <3> HIDE DEF old
    <3>1. QED
      BY <1>2 DEF Entry
  <2>3. QED
    BY <2>1, <2>2 DEF Priced
<1>4. /\ n \in Nat /\ CostOf(p, s, n) \in Nat /\ left \in Row
      /\ Held(left, s) = Held(row, s) - CostOf(p, s, n)
      /\ \A t \in BOOLEAN : t # s => Held(left, t) = Held(row, t)
  <2> HIDE DEF s, row, p, want
  <2>1. QED
    BY <1>1, <1>3, GrantFits
<1>5. truncate_unit(c, vault) =
          IF want = 0 THEN c
          ELSE [c EXCEPT !.funding[who] = left, !.entries[s][i] = e]
  <2>1. ensure_funding_row(c, vault, who) = c
    BY <1>2 DEF ensure_funding_row
  <2>2. QED
    BY <2>1 DEF truncate_unit, Left, Afford
<1>6. DOMAIN c = ObjectFields
  BY DEF Shaped
<1>7. e \in Entry /\ SameOrder(old, e) /\ e.fill_base = n
  <2> HIDE DEF old, n
  <2>1. QED
    BY <1>2, <1>4 DEF Entry, SameOrder
<1>8. Shaped(d) /\ d.cursor = c.cursor + 1
  BY TruncateTurnKeeps DEF TruncateFrame
<1>9. CASE want = 0
  <2>1. d = [c EXCEPT !.cursor = c.cursor + 1]
    BY <1>5, <1>9 DEF TruncateTurn
  <2>2. want = 0
    BY <1>9
  <2> HIDE DEF s, i, old, p, who, row, want, n, left, e
  <2>3. d.entries = c.entries /\ d.alloc = c.alloc /\ d.funding = c.funding
    BY <1>6, <2>1 DEF ObjectFields
  <2>4. n = 0
    <3>1. Afford(row, s, p) \in Nat
      <4>1. CASE s = TRUE
        <5>1. row.quote \in Nat /\ PRICE_SCALE \in Nat
          BY <1>3, ScaleAssumption DEF Row
        <5>2. row.quote * PRICE_SCALE \in Nat
          BY <5>1, ProductNat
        <5>3. floor_mul_div(row.quote, PRICE_SCALE, p) \in Nat
          BY <1>3, <5>2, QuotientNat DEF floor_mul_div
        <5>4. QED
          BY <4>1, <5>3, ScaleAssumption DEF Afford, min_u64
      <4>2. CASE s = FALSE
        BY <1>3, <4>2 DEF Afford, Row
      <4>3. QED
        BY <1>1, <4>1, <4>2
    <3>2. QED
      BY <1>9, <3>1 DEF n, min_u64
  <2>5. EntrySet(c.entries, s, i, old, d.entries) /\ SameOrder(old, old)
    BY <2>3 DEF EntrySet, SameOrder, s, i, old
  <2>6. CostOf(p, s, n) = 0
    <3>1. p \in Nat /\ 0 \in Nat /\ 0 <= 0
      BY <1>3
    <3>2. QED
      BY <1>1, <2>4, <3>1, CostFacts
  <2>7. ASSUME NEW a \in DOMAIN c.funding, NEW t \in BOOLEAN
        PROVE  Held(d.funding[a], t) = Held(c.funding[a], t)
                  - (IF t = s /\ a = who THEN CostOf(p, s, n) ELSE 0)
    <3>1. Held(c.funding[a], t) \in Nat
      BY HeldNat
    <3>2. QED
      BY <2>3, <2>6, <3>1
  <2>8. QED
    BY <1>8, <2>2, <2>3, <2>4, <2>5, <2>7 DEF Trimmed, s, i, old, p, who, row, want, n
<1>10. CASE want # 0
  <2> DEFINE es == [c.entries EXCEPT ![s][i] = e]
             fu == [c.funding EXCEPT ![who] = left]
  <2>1. d = [[c EXCEPT !.funding[who] = left, !.entries[s][i] = e]
                EXCEPT !.cursor = c.cursor + 1]
    BY <1>5, <1>10 DEF TruncateTurn
  <2> HIDE DEF s, i, old, p, who, row, want, n, left, e
  <2>2. d.entries = es /\ d.alloc = c.alloc /\ d.funding = fu
    BY <1>6, <2>1 DEF ObjectFields
  <2>3. EntrySet(c.entries, s, i, e, d.entries)
    <3>1. c.entries \in [BOOLEAN -> Seq(Entry)]
      BY DEF Shaped, EntriesOK
    <3> DEFINE cs == c.entries
    <3>2. cs \in [BOOLEAN -> Seq(Entry)] /\ i \in DOMAIN cs[s] /\ es = [cs EXCEPT ![s][i] = e]
      BY <1>1, <3>1
    <3> HIDE DEF cs, es
    <3>3. EntrySet(cs, s, i, e, es)
      BY <1>1, <1>7, <3>2, EntryReplaced DEF EntrySet
    <3>4. QED
      BY <2>2, <3>3 DEF cs
  <2>4. ASSUME NEW a \in DOMAIN c.funding, NEW t \in BOOLEAN
        PROVE  Held(d.funding[a], t) = Held(c.funding[a], t)
                  - (IF t = s /\ a = who THEN CostOf(p, s, n) ELSE 0)
    <3>1. Held(c.funding[a], t) \in Nat
      BY HeldNat
    <3>2. CASE a = who
      <4>1. d.funding[a] = left /\ c.funding[a] = row
        BY <1>2, <2>2, <3>2 DEF row
      <4>2. CASE t = s
        <5>1. Held(d.funding[a], t) = Held(c.funding[a], t) - CostOf(p, s, n)
          BY <1>4, <4>1, <4>2
        <5>2. QED
          BY <3>2, <4>2, <5>1
      <4>3. CASE t # s
        <5>1. Held(d.funding[a], t) = Held(c.funding[a], t)
          BY <1>4, <4>1, <4>3
        <5>2. QED
          BY <3>1, <4>3, <5>1
      <4>4. QED
        BY <4>2, <4>3
    <3>3. CASE a # who
      <4>1. d.funding[a] = c.funding[a]
        BY <2>2, <3>3
      <4>2. QED
        BY <3>1, <3>3, <4>1
    <3>4. QED
      BY <3>2, <3>3
  <2>5. DOMAIN d.funding = DOMAIN c.funding
    BY <2>2
  <2> HIDE DEF es, fu
  <2>6. QED
    BY <1>7, <1>8, <2>2, <2>3, <2>4, <2>5 DEF Trimmed, s, i, old, p, who, row, want, n
<1>11. QED
  BY <1>9, <1>10

(* Who pays for all the orders still has what the next entry costs.         *)
LEMMA NextIsPaid ==
    ASSUME BatchOK, NEW c, Shaped(c), Priced(c), Uncut(c, batch),
           Book(c, batch, Len(batch.revealed)), Within(c), NEW fz, Drawn(c, fz),
           NEW s \in BOOLEAN, NEW i \in Eligible(c, s), TurnOf(c, s, i) = c.cursor + 1,
           NEW who, who = c.entries[s][i].submitter,
           Pays(batch, c.alloc.clearing_price, fz, who)
    PROVE  CostOf(c.alloc.clearing_price, s, c.entries[s][i].fill_base) <= Held(c.funding[who], s)
<1> DEFINE p == c.alloc.clearing_price
           E == Eligible(c, s)
           g == Granted(c, s, who)
           a == Asked(c, s, who)
           cost == CostOf(p, s, c.entries[s][i].fill_base)
           f == [g EXCEPT ![i] = cost]
           bill == SumOf(Bill(batch, p, s), AskedOf(batch, who, s))
           had == Held(fz[who], s)
           has == Held(c.funding[who], s)
<1>1. p \in Nat \ {0} /\ c.cursor \in Nat
  BY DEF Priced, Shaped
<1>2. /\ IsFiniteSet(E) /\ E \subseteq DOMAIN c.entries[s]
      /\ \A j \in E : g[j] \in Nat /\ a[j] \in Nat
  BY DueFacts
<1>3. i \in DOMAIN c.entries[s] /\ who \in DOMAIN c.funding
  BY <1>2 DEF Shaped, EntriesOK
<1>4. \A j \in E : CostOf(p, s, c.entries[s][j].fill_base) \in Nat
         /\ CostOf(p, s, c.entries[s][j].fill_base) <= CostOf(p, s, c.entries[s][j].qty_sats)
  <2> SUFFICES ASSUME NEW j \in E
               PROVE  /\ CostOf(p, s, c.entries[s][j].fill_base) \in Nat
                      /\ CostOf(p, s, c.entries[s][j].fill_base)
                            <= CostOf(p, s, c.entries[s][j].qty_sats)
    OBVIOUS
  <2> DEFINE x == c.entries[s][j]
  <2>1. x \in Entry
    BY <1>2 DEF Shaped, EntriesOK
  <2>2. x.fill_base <= x.qty_sats
    BY DEF Within
  <2> HIDE DEF x
  <2>3. x.fill_base \in Nat /\ x.qty_sats \in Nat
    BY <2>1 DEF Entry
  <2> HIDE DEF p
  <2>4. /\ CostOf(p, s, x.fill_base) \in Nat
        /\ CostOf(p, s, x.fill_base) <= CostOf(p, s, x.qty_sats)
    BY <1>1, <2>2, <2>3, CostFacts
  <2>5. QED
    BY <2>4 DEF x
<1>5. g[i] = 0
  <2>1. ~ (TurnOf(c, s, i) <= c.cursor)
    BY <1>1
  <2>2. QED
    BY <1>3, <2>1 DEF Granted
<1>6. \A j \in E : f[j] \in Nat /\ f[j] <= a[j]
  <2> SUFFICES ASSUME NEW j \in E
               PROVE  f[j] \in Nat /\ f[j] <= a[j]
    OBVIOUS
  <2>0. j \in DOMAIN c.entries[s] /\ j \in DOMAIN g /\ i \in DOMAIN g
    BY <1>2, <1>3 DEF Granted
  <2>1. f[j] = IF j = i THEN cost ELSE g[j]
    <3> HIDE DEF g
    <3>1. QED
      BY <2>0
  <2> DEFINE x == CostOf(p, s, c.entries[s][j].fill_base)
             y == CostOf(p, s, c.entries[s][j].qty_sats)
  <2>2. x \in Nat /\ x <= y
    BY <1>4
  <2>3. a[j] = IF c.entries[s][j].submitter = who THEN y ELSE 0
    BY <2>0 DEF Asked
  <2>4. g[j] = IF c.entries[s][j].submitter = who /\ TurnOf(c, s, j) <= c.cursor THEN x ELSE 0
    BY <2>0 DEF Granted
  <2>5. a[j] \in Nat
    BY <1>2
  <2>6. j = i => cost = x
    OBVIOUS
  <2> HIDE DEF f, g, a, x, y, cost
  <2>7. CASE j = i
    BY <2>1, <2>2, <2>3, <2>6, <2>7
  <2>8. CASE j # i /\ c.entries[s][j].submitter = who
    BY <2>1, <2>2, <2>3, <2>4, <2>5, <2>8
  <2>9. CASE j # i /\ c.entries[s][j].submitter # who
    BY <2>1, <2>2, <2>3, <2>4, <2>5, <2>9
  <2>10. QED
    BY <2>7, <2>8, <2>9
<1>7. f[i] = cost /\ \A j \in E \ {i} : f[j] = g[j]
  <2>1. i \in DOMAIN g /\ \A j \in E : j \in DOMAIN g
    BY <1>2, <1>3 DEF Granted
  <2> HIDE DEF g
  <2>2. QED
    BY <2>1
<1>8. SumOf(a, E) <= bill /\ bill \in Nat
  <2> HIDE DEF p
  <2>1. QED
    BY <1>1, AskedWithinBill DEF p
<1>9. bill <= had
  BY DEF Pays
<1>10. SumOf(g, E) + has = had
  BY <1>3 DEF Drawn
<1>11. has \in Nat
  BY <1>3, HeldNat
<1> HIDE DEF E, f, g, a, bill, had, has, cost
<1>12. i \in E
  BY DEF E
<1>13. SumOf(f, E) <= SumOf(a, E)
  <2>1. \A j \in E : f[j] \in Int /\ a[j] \in Int /\ f[j] <= a[j]
    BY <1>2, <1>6
  <2>2. QED
    BY <1>2, <2>1, SumGrows
<1>14. SumOf(f, E) = SumOf(g, E) + f[i] - g[i]
  <2>1. \A j \in E : g[j] \in Int /\ f[j] \in Int
    BY <1>2, <1>6
  <2>2. \A j \in E \ {i} : g[j] = f[j]
    BY <1>7
  <2>3. QED
    BY <1>2, <1>12, <2>1, <2>2, SumMoves
<1>15. SumOf(f, E) \in Nat /\ SumOf(g, E) \in Nat /\ SumOf(a, E) \in Nat /\ f[i] \in Nat
  BY <1>2, <1>6, <1>12, SumNat
<1>16. cost <= has
  BY <1>5, <1>7, <1>8, <1>9, <1>10, <1>11, <1>13, <1>14, <1>15
<1>17. QED
  BY <1>16 DEF cost, has, p

(* What truncation leaves of the first pass is never more than was ordered. *)
LEMMA CutIsWithin ==
    ASSUME BatchOK, NEW c, Shaped(c), NEW fz, FairCut(c, batch, fz)
    PROVE  /\ Within(c)
           /\ \A s \in BOOLEAN : \A i \in Eligible(c, s) :
                 c.entries[s][i].fill_base \in 0..MAX_U64
<1> SUFFICES ASSUME NEW s \in BOOLEAN, NEW i \in Eligible(c, s)
             PROVE  /\ c.entries[s][i].fill_base <= c.entries[s][i].qty_sats
                    /\ c.entries[s][i].fill_base \in 0..MAX_U64
  BY DEF Within
<1> DEFINE e == c.entries[s][i]
           o == OrderOf(batch, e)
<1>1. i \in DOMAIN c.entries[s] /\ i <= c.alloc.elig[s]
  <2>1. Eligible(c, s) \subseteq DOMAIN c.entries[s]
    BY DueFacts
  <2>2. c.alloc.elig[s] \in Nat
    BY DEF Shaped, AllocOK
  <2>3. QED
    BY <2>1, <2>2 DEF Eligible
<1>2. e \in Entry
  BY <1>1 DEF Shaped, EntriesOK
<1>3. PICK g : Survives(c, batch, fz, g, Filled(c))
  BY DEF FairCut
<1>4. g[s][i] \in Nat /\ Filled(c)[s][i] <= g[s][i] /\ g[s][i] <= Ordered(c, batch)[s][i]
  BY <1>1, <1>3 DEF Survives, LeftOf
<1>5. Filled(c)[s][i] = e.fill_base /\ Ordered(c, batch)[s][i] = o.qty_sats
  BY <1>1 DEF Filled, Fills, Ordered
<1>6. o.qty_sats = e.qty_sats
  BY <1>1 DEF FairCut, Uncut
<1>7. o \in Order /\ MAX_U64 \in Nat
  <2>1. e.order_index \in 1..Len(batch.revealed) /\ batch.is_revealed[e.order_index]
    BY <1>1 DEF FairCut, Book, Traced
  <2> HIDE DEF e
  <2>2. QED
    BY <2>1, RevealedOrder, ScaleAssumption DEF OrderOf
<1> HIDE DEF e, o
<1>8. o.qty_sats \in Nat /\ o.qty_sats <= MAX_U64 /\ e.fill_base \in Nat
  BY <1>2, <1>7 DEF Order, Entry
<1>9. e.fill_base <= e.qty_sats /\ e.fill_base \in 0..MAX_U64
  BY <1>4, <1>5, <1>6, <1>7, <1>8
<1>10. QED
  BY <1>9 DEF e

(* The entries and the orders after a turn.                                 *)
LEMMA TrimKeepsBook ==
    ASSUME NEW c, NEW d, NEW s \in BOOLEAN, NEW i \in DOMAIN c.entries[s], NEW n,
           Trimmed(c, d, s, i, n)
    PROVE  /\ Kin(c, d)
           /\ \A b : Uncut(c, b) => Uncut(d, b)
           /\ \A t \in BOOLEAN : \A j \in DOMAIN c.entries[t] :
                 /\ j \in DOMAIN d.entries[t]
                 /\ Filled(d)[t][j] = IF t = s /\ j = i THEN n ELSE Filled(c)[t][j]
<1>1. PICK e : /\ EntrySet(c.entries, s, i, e, d.entries)
               /\ SameOrder(c.entries[s][i], e) /\ e.fill_base = n
  BY DEF Trimmed
<1>2. \A t \in BOOLEAN : DOMAIN d.entries[t] = DOMAIN c.entries[t]
  BY <1>1 DEF EntrySet
<1>3. ASSUME NEW t \in BOOLEAN, NEW j \in DOMAIN c.entries[t]
      PROVE  /\ SameOrder(c.entries[t][j], d.entries[t][j])
             /\ Filled(d)[t][j] = IF t = s /\ j = i THEN n ELSE Filled(c)[t][j]
  <2>1. Filled(d)[t][j] = d.entries[t][j].fill_base /\ Filled(c)[t][j] = c.entries[t][j].fill_base
    BY <1>2 DEF Filled, Fills
  <2>2. CASE t = s /\ j = i
    BY <1>1, <2>1, <2>2 DEF EntrySet
  <2>3. CASE ~ (t = s /\ j = i)
    <3>1. d.entries[t][j] = c.entries[t][j]
      BY <1>1, <2>3 DEF EntrySet
    <3>2. QED
      BY <2>1, <2>3, <3>1 DEF SameOrder
  <2>4. QED
    BY <2>2, <2>3
<1>4. Kin(c, d)
  BY <1>2, <1>3 DEF Kin, SameNames, SameOrder, Trimmed
<1>5. \A b : Uncut(c, b) => Uncut(d, b)
  BY <1>2, <1>3 DEF Uncut, SameOrder, OrderOf
<1>6. QED
  BY <1>2, <1>3, <1>4, <1>5

(* A turn of truncate_step is fair: it takes nothing from who pays.         *)
LEMMA TruncateTurnFair ==
    ASSUME NEW c, Shaped(c), Beyond(c), Priced(c), GrantsCovered(c, vault), VaultOK(vault),
           BatchOK, c.cursor < eligible_count(c), NEW fz, FairCut(c, batch, fz),
           NEW k, NEW d, d = TruncateTurn(c, k)
    PROVE  FairCut(d, batch, fz)
<1> DEFINE s == at_bid(c)
           i == at_index(c)
           old == c.entries[s][i]
           p == c.alloc.clearing_price
           who == old.submitter
           row == c.funding[who]
           want == old.fill_base
           n == min_u64(want, Afford(row, s, p))
           b == batch
<1>1. /\ s \in BOOLEAN /\ i \in Eligible(c, s) /\ i \in DOMAIN c.entries[s]
      /\ TurnOf(c, s, i) = c.cursor + 1
      /\ \A t \in BOOLEAN : \A j \in Eligible(c, t) :
            /\ TurnOf(c, t, j) \in Nat
            /\ TurnOf(c, t, j) = c.cursor + 1 => t = s /\ j = i
  BY UnderCursor DEF Eligible
<1>2. Trimmed(c, d, s, i, n) /\ Shaped(d)
  BY TurnTrims, TruncateTurnKeeps DEF TruncateFrame
<1>16. /\ Kin(c, d)
       /\ \A x : Uncut(c, x) => Uncut(d, x)
       /\ \A t \in BOOLEAN : \A j \in DOMAIN c.entries[t] :
             /\ j \in DOMAIN d.entries[t]
             /\ Filled(d)[t][j] = IF t = s /\ j = i THEN n ELSE Filled(c)[t][j]
  <2> HIDE DEF n, s, i, p, who, row, want, old
  <2>1. QED
    BY <1>1, <1>2, TrimKeepsBook
<1>3. Kin(c, d) /\ Uncut(d, b)
  BY <1>16 DEF FairCut
<1>4. \A t \in BOOLEAN : \A j \in DOMAIN c.entries[t] :
         /\ j \in DOMAIN d.entries[t]
         /\ Filled(d)[t][j] = IF t = s /\ j = i THEN n ELSE Filled(c)[t][j]
  BY <1>16
<1>5. /\ want \in 0..MAX_U64 /\ want \in Nat /\ Within(c) /\ row \in Row /\ p \in Nat \ {0}
      /\ who \in DOMAIN c.funding /\ c.cursor \in Nat
  <2>1. who \in DOMAIN c.funding
    BY <1>1 DEF Shaped, EntriesOK
  <2>2. want \in 0..MAX_U64 /\ Within(c)
    BY <1>1, CutIsWithin
  <2>3. want \in Nat
    <3> HIDE DEF want
    <3>1. QED
      BY <2>2, ScaleAssumption
  <2>4. QED
    BY <2>1, <2>2, <2>3 DEF Shaped, Priced
<1>6. n \in Nat /\ n <= want
  <2> HIDE DEF s, row, p, want
  <2>1. n \in Nat
    BY <1>1, <1>5, GrantFits
  <2>2. n = want \/ (n = Afford(row, s, p) /\ ~ (want < Afford(row, s, p)))
    BY DEF min_u64
  <2>3. QED
    BY <1>5, <2>1, <2>2
<1>7. Pays(b, p, fz, who) => n = want
  <2> SUFFICES ASSUME Pays(b, p, fz, who)
               PROVE  n = want
    OBVIOUS
  <2>1. CostOf(p, s, want) <= Held(row, s)
    <3> HIDE DEF s, i
    <3>1. QED
      BY <1>1, <1>5, NextIsPaid DEF FairCut
  <2> HIDE DEF s, row, p, want
  <2>2. QED
    BY <1>1, <1>5, <2>1, CostIsAfforded
<1>8. PICK g : Survives(c, b, fz, g, Filled(c)) /\ NotYet(c, g)
  BY DEF FairCut
<1>9. want = Filled(c)[s][i] /\ d.alloc = c.alloc /\ d.cursor = c.cursor + 1
      /\ DOMAIN d.funding = DOMAIN c.funding
  BY <1>1, <1>2 DEF Filled, Fills, Trimmed
<1>10. Survives(c, b, fz, g, Filled(d))
  <2> SUFFICES ASSUME NEW t \in BOOLEAN, NEW j \in DOMAIN c.entries[t]
               PROVE  /\ Filled(d)[t][j] <= g[t][j]
                      /\ Pays(b, p, fz, c.entries[t][j].submitter) => Filled(d)[t][j] = g[t][j]
    BY <1>8 DEF Survives, LeftOf
  <2>1. /\ Filled(c)[t][j] <= g[t][j] /\ g[t][j] \in Nat
        /\ Pays(b, p, fz, c.entries[t][j].submitter) => Filled(c)[t][j] = g[t][j]
    BY <1>8 DEF Survives, LeftOf
  <2>2. CASE t = s /\ j = i
    <3>1. Filled(d)[t][j] = n /\ Filled(c)[t][j] = want /\ c.entries[t][j].submitter = who
      BY <1>1, <1>4, <1>9, <2>2
    <3> HIDE DEF n, want, who, p, s, i
    <3>2. QED
      BY <1>5, <1>6, <1>7, <2>1, <3>1
  <2>3. CASE ~ (t = s /\ j = i)
    <3>1. Filled(d)[t][j] = Filled(c)[t][j]
      BY <1>4, <2>3
    <3>2. QED
      BY <2>1, <3>1
  <2>4. QED
    BY <2>2, <2>3
<1>11. Survives(d, b, fz, g, Filled(d))
  BY <1>3, <1>10, SurvivesKin
<1>12. NotYet(d, g)
  <2> SUFFICES ASSUME NEW t \in BOOLEAN, NEW j \in Eligible(d, t), TurnOf(d, t, j) > d.cursor
               PROVE  d.entries[t][j].fill_base = g[t][j]
    BY DEF NotYet
  <2>1. j \in Eligible(c, t) /\ TurnOf(d, t, j) = TurnOf(c, t, j)
    BY <1>9 DEF Eligible, TurnOf
  <2>2. j \in DOMAIN c.entries[t] /\ TurnOf(c, t, j) \in Nat
    BY <1>1, <2>1, DueFacts
  <2>3. TurnOf(c, t, j) > c.cursor /\ ~ (t = s /\ j = i)
    BY <1>1, <1>5, <1>9, <2>1, <2>2
  <2>4. c.entries[t][j].fill_base = g[t][j]
    BY <1>8, <2>1, <2>3 DEF NotYet
  <2>5. Filled(d)[t][j] = Filled(c)[t][j] /\ j \in DOMAIN d.entries[t]
    BY <1>4, <2>2, <2>3
  <2>6. QED
    BY <2>2, <2>4, <2>5 DEF Filled, Fills
<1>13. Drawn(d, fz)
  <2>1. DOMAIN d.funding = DOMAIN fz
    BY <1>9 DEF FairCut, Drawn
  <2> SUFFICES ASSUME NEW a \in DOMAIN fz, NEW t \in BOOLEAN
               PROVE  SumOf(Granted(d, t, a), Eligible(d, t)) + Held(d.funding[a], t)
                         = Held(fz[a], t)
    BY <2>1 DEF Drawn
  <2>2. PICK e : /\ EntrySet(c.entries, s, i, e, d.entries)
                 /\ SameOrder(c.entries[s][i], e) /\ e.fill_base = n
    BY <1>2 DEF Trimmed
  <2> DEFINE x == SumOf(Granted(d, t, a), Eligible(d, t))
             y == SumOf(Granted(c, t, a), Eligible(c, t))
             more == IF t = s /\ a = who THEN CostOf(p, s, n) ELSE 0
             h == Held(c.funding[a], t)
             l == Held(d.funding[a], t)
             z == Held(fz[a], t)
  <2>3. x = y + more
    <3>1. e.submitter = who
      BY <2>2 DEF SameOrder
    <3> HIDE DEF s, i, n
    <3>2. SumOf(Granted(d, t, a), Eligible(d, t))
             = SumOf(Granted(c, t, a), Eligible(c, t))
               + IF t = s /\ a = e.submitter
                 THEN CostOf(c.alloc.clearing_price, s, e.fill_base) ELSE 0
      BY <1>1, <1>2, <1>9, <2>2, <3>1, GrantsMove
    <3>3. QED
      BY <2>2, <3>1, <3>2
  <2>4. a \in DOMAIN c.funding
    BY DEF FairCut, Drawn
  <2>5. l = h - more
    BY <1>2, <2>4 DEF Trimmed
  <2>6. y + h = z
    BY DEF FairCut, Drawn
  <2>7. y \in Nat
    <3>1. \A j \in Eligible(c, t) : Granted(c, t, a)[j] \in Nat
      BY DueFacts
    <3>2. IsFiniteSet(Eligible(c, t))
      BY DueFacts
    <3>3. QED
      BY <3>1, <3>2, SumNat
  <2>8. h \in Nat
    BY <2>4, HeldNat
  <2>9. more \in Nat
    <3> HIDE DEF s, row, p, want, n
    <3>1. n <= n /\ p \in Nat
      BY <1>5, <1>6
    <3>2. CostOf(p, s, n) \in Nat
      BY <1>1, <1>6, <3>1, CostFacts
    <3>3. QED
      BY <3>2
  <2> HIDE DEF x, y, more, h, l, z
  <2>10. x + l = z
    BY <2>3, <2>5, <2>6, <2>7, <2>8, <2>9
  <2>11. QED
    BY <2>10 DEF x, l, z
<1>14. Book(d, b, Len(b.revealed)) /\ EligibleByPrice(d)
  <2>1. SameNames(c, d) /\ d.alloc.elig = c.alloc.elig
    BY <1>3 DEF Kin
  <2>2. Book(d, b, Len(b.revealed))
    BY <2>1, NamesKeep DEF FairCut
  <2>3. EligibleByPrice(d)
    BY <2>1, NamesCut DEF FairCut, EligibleByPrice
  <2>4. QED
    BY <2>2, <2>3
<1>15. QED
  BY <1>3, <1>11, <1>12, <1>13, <1>14 DEF FairCut

(* Truncation keeps the account of what was drawn and of what is left.      *)
FairTruncation(k, x) ==
    TruncateHolds(k, x) /\ FairCut(x, batch, frozen) /\ x.alloc = clearing.alloc

(* The loop that truncates.                                                 *)
FairCuts == INSTANCE LoopRules WITH Body <- TruncateTurn, Holds <- FairTruncation

(* The premise of the rules of this instance.                               *)
LEMMA FairCutsInduction ==
    FairCuts!Induction
  BY NatSetInduction DEF FairCuts!Induction

(* However many entries a budget pays for, what is cut is fair.             *)
LEMMA FairCutsLoop ==
    ASSUME Shaped(clearing), Beyond(clearing), Priced(clearing), GrantsCovered(clearing, vault),
           VaultOK(vault), BatchOK, FairCut(clearing, batch, frozen),
           clearing.cursor <= eligible_count(clearing), NEW budget \in Nat,
           NEW d, d = Advance(clearing, eligible_count(clearing), budget,
                              LAMBDA x : truncate_unit(x, vault))
    PROVE  /\ TruncateFrame(clearing, d) /\ GrantsCovered(d, vault)
           /\ FairCut(d, batch, frozen) /\ d.cursor <= eligible_count(clearing)
           /\ d.alloc = clearing.alloc
<1> DEFINE total == eligible_count(clearing)
           n == min_u64(budget, total - clearing.cursor)
<1>1. total \in Nat /\ clearing.cursor \in Nat
  BY EligibleCount DEF Shaped
<1> HIDE DEF total
<1>2. n \in Nat /\ clearing.cursor + n <= total
  BY <1>1, TurnsLeft DEF total
<1>3. d = FairCuts!LoopFrom(clearing)[n]
  BY DEF Advance, FairCuts!LoopFrom, FairCuts!Turns, TruncateTurn, total
<1> HIDE DEF n
<1>4. FairTruncation(0, clearing)
  BY <1>1 DEF FairTruncation, TruncateHolds, TruncateFrame
<1>5. ASSUME NEW k \in 0..(n - 1), NEW x, FairTruncation(k, x)
      PROVE  FairTruncation(k + 1, TruncateTurn(x, k + 1))
  <2>1. eligible_count(x) = total
    BY <1>5 DEF FairTruncation, TruncateHolds, TruncateFrame, eligible_count, total
  <2>2. x.cursor < eligible_count(x)
    BY <1>1, <1>2, <1>5, <2>1 DEF FairTruncation, TruncateHolds
  <2> DEFINE y == TruncateTurn(x, k + 1)
  <2>3. TruncateFrame(x, y) /\ GrantsCovered(y, vault) /\ y.cursor = x.cursor + 1
    BY <1>5, <2>2, TruncateTurnKeeps DEF FairTruncation, TruncateHolds, TruncateFrame
  <2>4. FairCut(y, batch, frozen)
    BY <1>5, <2>2, TruncateTurnFair DEF FairTruncation, TruncateHolds, TruncateFrame
  <2>a. y.alloc = x.alloc
    <3> DEFINE s == at_bid(x)
               i == at_index(x)
               row == x.funding[x.entries[s][i].submitter]
               granted == min_u64(x.entries[s][i].fill_base, Afford(row, s, x.alloc.clearing_price))
    <3>1. Trimmed(x, y, s, i, granted)
      BY <1>5, <2>2, TurnTrims DEF FairTruncation, TruncateHolds, TruncateFrame
    <3> HIDE DEF s, i, granted
    <3>2. QED
      BY <3>1 DEF Trimmed
  <2> HIDE DEF y
  <2>5. TruncateFrame(clearing, y)
    BY <1>5, <2>3 DEF FairTruncation, TruncateHolds, TruncateFrame
  <2>6. y.cursor = clearing.cursor + (k + 1)
    BY <1>1, <1>5, <2>3 DEF FairTruncation, TruncateHolds
  <2>7. QED
    BY <1>5, <2>3, <2>4, <2>5, <2>6, <2>a DEF FairTruncation, TruncateHolds, y
<1>6. FairTruncation(n, FairCuts!LoopFrom(clearing)[n])
  BY <1>2, <1>4, <1>5, FairCutsInduction, FairCuts!LoopRule
<1>7. QED
  BY <1>1, <1>2, <1>3, <1>6 DEF FairTruncation, TruncateHolds, total

(* The second pass weighs what truncation left.                             *)
LEMMA SecondPassBegins ==
    ASSUME NEW c, Shaped(c), Beyond(c), NEW b, NEW fz, FairCut(c, b, fz),
           NEW d, d = finish_truncation(c)
    PROVE  d.stage = STAGE_REALLOC_FULL /\ FairPass(d, b, fz)
<1> DEFINE p == c.alloc.clearing_price
           elig == c.alloc.elig
           es == [s \in BOOLEAN |-> Survivors(c.entries[s], elig[s])]
           matched == min_u64(Kept(c.entries[TRUE], elig[TRUE]), Kept(c.entries[FALSE], elig[FALSE]))
           a == new_allocation(p, matched, elig)
<1>1. d = [c EXCEPT !.entries = es, !.alloc = a, !.cursor = 0, !.stage = STAGE_REALLOC_FULL]
  BY DEF finish_truncation, enter, Survivors, Survivor, Kept
<1>2. /\ DOMAIN c = ObjectFields /\ c.entries \in [BOOLEAN -> Seq(Entry)]
      /\ elig \in [BOOLEAN -> Nat] /\ \A s \in BOOLEAN : elig[s] <= Len(c.entries[s])
  BY DEF Shaped, AllocOK, EntriesOK
<1>3. a.clearing_price = p /\ a.elig = elig
  BY DEF new_allocation
<1> HIDE DEF a, es
<1>4. d.entries = es /\ d.alloc = a /\ d.stage = STAGE_REALLOC_FULL
  BY <1>1, <1>2 DEF ObjectFields
<1>5. ASSUME NEW s \in BOOLEAN
      PROVE  /\ DOMAIN es[s] = DOMAIN c.entries[s]
             /\ \A i \in DOMAIN c.entries[s] :
                   es[s][i] = IF i > elig[s] THEN c.entries[s][i] ELSE Survivor(c.entries[s][i])
  <2>1. c.entries[s] \in Seq(Entry) /\ elig[s] \in Nat /\ elig[s] <= Len(c.entries[s])
    BY <1>2
  <2> HIDE DEF elig
  <2>2. QED
    BY <2>1, SurvivorsFacts DEF es
<1>6. ASSUME NEW s \in BOOLEAN, NEW i \in DOMAIN c.entries[s]
      PROVE  /\ es[s][i].order_index = c.entries[s][i].order_index
             /\ es[s][i].submitter = c.entries[s][i].submitter
             /\ es[s][i].limit_price = c.entries[s][i].limit_price
             /\ (IF i <= elig[s] THEN es[s][i].qty_sats ELSE 0) = c.entries[s][i].fill_base
  <2> DEFINE e == c.entries[s][i]
             f == es[s][i]
             n == elig[s]
  <2>1. e \in Entry /\ i \in Nat /\ n \in Nat
    BY <1>2
  <2>2. f = IF i > n THEN e ELSE Survivor(e)
    BY <1>5
  <2>3. i > n => e.fill_base = 0
    BY DEF Beyond
  <2> HIDE DEF e, f, n
  <2>4. /\ Survivor(e).order_index = e.order_index /\ Survivor(e).submitter = e.submitter
        /\ Survivor(e).limit_price = e.limit_price /\ Survivor(e).qty_sats = e.fill_base
    BY <2>1 DEF Entry, Survivor
  <2>5. CASE i > n
    BY <2>1, <2>2, <2>3, <2>5 DEF e, f, n
  <2>6. CASE ~ (i > n)
    BY <2>1, <2>2, <2>4, <2>6 DEF e, f, n
  <2>7. QED
    BY <2>5, <2>6
<1>7. Kin(c, d)
  BY <1>3, <1>4, <1>5, <1>6 DEF Kin, SameNames
<1>8. Weights(d) = Filled(c)
  <2>1. ASSUME NEW s \in BOOLEAN
        PROVE  [i \in DOMAIN es[s] |-> IF i <= elig[s] THEN es[s][i].qty_sats ELSE 0]
                  = [i \in DOMAIN c.entries[s] |-> c.entries[s][i].fill_base]
    BY <1>5, <1>6
  <2>2. QED
    BY <1>3, <1>4, <2>1 DEF Weights, Filled, Fills
<1>9. PICK g : Survives(c, b, fz, g, Filled(c))
  BY DEF FairCut
<1>10. Survives(d, b, fz, g, Weights(d))
  BY <1>7, <1>8, <1>9, SurvivesKin
<1>11. Book(d, b, Len(b.revealed)) /\ EligibleByPrice(d)
  BY <1>7, NamesKeep, NamesCut DEF FairCut, EligibleByPrice, Kin
<1>12. QED
  BY <1>4, <1>10, <1>11, StagesDiffer DEF FairPass, PassBook, FirstPass

(* A transaction of STAGE_TRUNCATE is fair.                                 *)
LEMMA TruncateFair ==
    ASSUME Shaped(clearing), Truncating(clearing, vault), VaultOK(vault), BatchOK,
           clearing.stage = STAGE_TRUNCATE, FairCut(clearing, batch, frozen), NEW budget \in Nat,
           NEW d, d = truncate_step(clearing, vault, budget)
    PROVE  FairlyCleared(d, batch, frozen)
<1> DEFINE c == clearing
           total == eligible_count(c)
           x == Advance(c, total, budget, LAMBDA y : truncate_unit(y, vault))
<1>1. Priced(c) /\ Beyond(c) /\ GrantsCovered(c, vault) /\ c.cursor <= total
  BY DEF Truncating
<1>2. TruncateFrame(c, x) /\ FairCut(x, batch, frozen)
  BY <1>1, FairCutsLoop
<1>3. d = IF x.cursor < total THEN x ELSE finish_truncation(x)
  BY DEF truncate_step
<1>4. Shaped(x) /\ Beyond(x) /\ x.stage = STAGE_TRUNCATE
  BY <1>2 DEF TruncateFrame
<1> HIDE DEF x, total
<1>5. CASE x.cursor < total
  BY <1>2, <1>3, <1>4, <1>5, StagesDiffer DEF FairlyCleared, FirstPass, SecondPass
<1>6. CASE ~ (x.cursor < total)
  <2>1. d.stage = STAGE_REALLOC_FULL /\ FairPass(d, batch, frozen)
    BY <1>2, <1>3, <1>4, <1>6, SecondPassBegins
  <2>2. QED
    BY <2>1, StagesDiffer DEF FairlyCleared, FirstPass, SecondPass
<1>7. QED
  BY <1>5, <1>6

-----------------------------------------------------------------------------
(* Loading. *)

(* Entry e stands at place k of its side: what was before it still is, and  *)
(* does not yield to it, the rest moved up by one, and yields to it.        *)
Placed(c, d, e, k) ==
    LET old == c.entries[e.is_bid]
        new == d.entries[e.is_bid]
    IN  /\ k \in 1..(Len(old) + 1) /\ DOMAIN new = 1..(Len(old) + 1)
        /\ d.entries[~e.is_bid] = c.entries[~e.is_bid]
        /\ \A j \in 1..(k - 1) : new[j] = old[j] /\ ~precedes(e, old[j])
        /\ new[k] = e
        /\ \A j \in k..Len(old) : new[j + 1] = old[j]
        /\ k <= Len(old) => precedes(e, old[k])

(* insert_canonical places an entry.                                        *)
LEMMA EntryIsPlaced ==
    ASSUME NEW c, Shaped(c), NEW e \in Entry, NEW d, d = insert_canonical(c, e)
    PROVE  d.funding = c.funding /\ \E k : Placed(c, d, e, k)
<1> DEFINE t == e.is_bid
           old == c.entries[t]
           n == Len(old)
           S == {j \in 0..n : \A i \in 1..j : ~precedes(e, old[i])}
           m == Max(S)
           k == m + 1
           new == InsertAt(old, k, e)
           es == [c.entries EXCEPT ![t] = new]
<1>1. DOMAIN c = ObjectFields /\ c.entries \in [BOOLEAN -> Seq(Entry)]
  BY DEF Shaped, EntriesOK
<1>2. t \in BOOLEAN /\ (~t) \in BOOLEAN /\ (~t) # t
  BY DEF Entry
<1>3. d = [c EXCEPT !.entries = es]
  BY DEF insert_canonical, prefix
<1>4. old \in Seq(Entry) /\ n \in Nat
  BY <1>1, <1>2
<1>5. S \subseteq 0..n /\ 0 \in S
  BY <1>4
<1>6. m \in S /\ \A x \in S : x <= m
  <2> HIDE DEF S
  <2>1. IsFiniteSet(S) /\ S \subseteq Int /\ S # {}
    <3>1. IsFiniteSet(0..n)
      BY <1>4, FS_Interval
    <3>2. 0..n \subseteq Int
      BY <1>4
    <3> HIDE DEF n
    <3>3. IsFiniteSet(S)
      BY <1>5, <3>1, FS_Subset
    <3>4. QED
      BY <1>5, <3>2, <3>3
  <2>2. QED
    BY <2>1, MaxOfSet
<1>7. m \in 0..n /\ k \in 1..(n + 1) /\ \A j \in 1..(k - 1) : ~precedes(e, old[j])
  <2>1. m \in 0..n /\ \A i \in 1..m : ~precedes(e, old[i])
    BY <1>6
  <2> HIDE DEF m, n
  <2>2. QED
    BY <1>4, <2>1
<1>8. k <= n => precedes(e, old[k])
  <2> SUFFICES ASSUME k <= n, ~precedes(e, old[k])
               PROVE  FALSE
    OBVIOUS
  <2>1. \A i \in 1..k : i \in 1..(k - 1) \/ i = k
    <3>1. k \in Nat
      <4> HIDE DEF m, n
      <4>1. QED
        BY <1>4, <1>7
    <3> HIDE DEF k
    <3>2. QED
      BY <3>1
  <2>2. k \in S
    <3>1. k \in 0..n
      <4> HIDE DEF m, n
      <4>1. QED
        BY <1>4, <1>7
    <3>2. \A i \in 1..k : ~precedes(e, old[i])
      BY <1>7, <2>1
    <3> HIDE DEF k
    <3>3. QED
      BY <3>1, <3>2
  <2>3. k <= m
    BY <1>6, <2>2
  <2> HIDE DEF m
  <2>4. QED
    BY <1>7, <2>3
<1> HIDE DEF S, m, k
<1>9. /\ new \in Seq(Entry) /\ Len(new) = n + 1
      /\ \A j \in 1..(k - 1) : new[j] = old[j]
      /\ new[k] = e
      /\ \A j \in k..n : new[j + 1] = old[j]
  <2>1. k \in 1..(Len(old) + 1) /\ old \in Seq(Entry)
    BY <1>4, <1>7
  <2> HIDE DEF old, es, t, n
  <2>2. /\ InsertAt(old, k, e) \in Seq(Entry) /\ Len(InsertAt(old, k, e)) = Len(old) + 1
        /\ \A j \in DOMAIN InsertAt(old, k, e) : InsertAt(old, k, e)[j] = e
              \/ \E l \in DOMAIN old : InsertAt(old, k, e)[j] = old[l]
        /\ \A j \in 1..(k - 1) : InsertAt(old, k, e)[j] = old[j]
        /\ InsertAt(old, k, e)[k] = e
        /\ \A j \in k..Len(old) : InsertAt(old, k, e)[j + 1] = old[j]
    BY <2>1, InsertedAt
  <2>3. QED
    BY <2>2 DEF n
<1> HIDE DEF new
<1>10. DOMAIN new = 1..(n + 1)
  BY <1>9
<1>11. es[t] = new /\ es[~t] = c.entries[~t]
  BY <1>1, <1>2
<1> HIDE DEF es
<1>12. d.entries = es /\ d.funding = c.funding
  BY <1>1, <1>3 DEF ObjectFields
<1>13. Placed(c, d, e, k)
  <2>1. d.entries[t] = new /\ d.entries[~t] = c.entries[~t]
    BY <1>11, <1>12
  <2>2. QED
    BY <1>7, <1>8, <1>9, <1>10, <2>1 DEF Placed
<1>14. QED
  BY <1>12, <1>13

(* Where an entry came from.                                                *)
From(k, j) == IF j < k THEN j ELSE j - 1

(* After an insertion every entry is the new one or one of the old.         *)
LEMMA PlacesOf ==
    ASSUME NEW c, Shaped(c), NEW e \in Entry, NEW d, NEW k, Placed(c, d, e, k)
    PROVE  LET old == c.entries[e.is_bid]
               new == d.entries[e.is_bid]
           IN  /\ k \in DOMAIN new /\ new[k] = e
               /\ \A j \in DOMAIN new : j \in Nat /\
                     (j # k => From(k, j) \in DOMAIN old /\ new[j] = old[From(k, j)])
               /\ \A i \in DOMAIN old : \E j \in DOMAIN new : new[j] = old[i]
<1> DEFINE old == c.entries[e.is_bid]
           new == d.entries[e.is_bid]
           n == Len(old)
<1>1. old \in Seq(Entry)
  BY DEF Shaped, EntriesOK, Entry
<1>2. n \in Nat /\ DOMAIN old = 1..n
  BY <1>1
<1>3. /\ k \in 1..(n + 1) /\ DOMAIN new = 1..(n + 1)
      /\ \A j \in 1..(k - 1) : new[j] = old[j]
      /\ new[k] = e
      /\ \A j \in k..n : new[j + 1] = old[j]
  BY DEF Placed
<1> HIDE DEF old, new, n
<1>4. ASSUME NEW j \in DOMAIN new
      PROVE  j \in Nat /\ (j # k => From(k, j) \in DOMAIN old /\ new[j] = old[From(k, j)])
  <2>1. j \in 1..(n + 1)
    BY <1>3
  <2>2. CASE j < k
    BY <1>2, <1>3, <2>1, <2>2 DEF From
  <2>3. CASE j > k
    <3> DEFINE l == j - 1
    <3>1. l \in k..n /\ l + 1 = j /\ l \in 1..n /\ From(k, j) = l
      BY <1>2, <1>3, <2>1, <2>3 DEF From
    <3> HIDE DEF l
    <3>2. new[l + 1] = old[l]
      BY <1>3, <3>1
    <3>3. QED
      BY <1>2, <2>1, <3>1, <3>2
  <2>4. QED
    BY <1>2, <1>3, <2>1, <2>2, <2>3
<1>5. ASSUME NEW i \in DOMAIN old
      PROVE  \E j \in DOMAIN new : new[j] = old[i]
  <2>1. CASE i < k
    <3>1. i \in 1..(k - 1) /\ i \in DOMAIN new
      BY <1>2, <1>3, <2>1
    <3>2. QED
      BY <1>3, <3>1
  <2>2. CASE ~(i < k)
    <3>1. i \in k..n /\ i + 1 \in DOMAIN new
      BY <1>2, <1>3, <2>2
    <3>2. QED
      BY <1>3, <3>1
  <2>3. QED
    BY <2>1, <2>2
<1>6. k \in DOMAIN new
  BY <1>3
<1>7. QED
  BY <1>3, <1>4, <1>5, <1>6 DEF old, new

(* Better is an order of prices.                                            *)
LEMMA NoBetterThrough ==
    ASSUME NEW s \in BOOLEAN, NEW p \in Nat, NEW q \in Nat, NEW r \in Nat,
           ~Better(s, q, p), ~Better(s, r, q)
    PROVE  ~Better(s, r, p)
  BY DEF Better

(* Who yields to an entry has no better price, nor has an entry who does    *)
(* not yield.                                                               *)
LEMMA PrecedesByPrice ==
    ASSUME NEW e \in Entry, NEW x \in Entry
    PROVE  /\ precedes(e, x) => ~Better(e.is_bid, x.limit_price, e.limit_price)
           /\ ~precedes(e, x) => ~Better(e.is_bid, e.limit_price, x.limit_price)
  BY DEF Entry, precedes, Better

(* A side with one more entry is in the order of its prices.                *)
LEMMA RankedJoins ==
    ASSUME NEW c, Shaped(c), Ranked(c), NEW e \in Entry, NEW d, NEW k, Placed(c, d, e, k)
    PROVE  Ranked(d)
<1> DEFINE t == e.is_bid
           old == c.entries[t]
           new == d.entries[t]
           n == Len(old)
<1>1. old \in Seq(Entry) /\ t \in BOOLEAN
  BY DEF Shaped, EntriesOK, Entry
<1>2. n \in Nat /\ DOMAIN old = 1..n
  BY <1>1
<1>3. /\ k \in 1..(n + 1) /\ DOMAIN new = 1..(n + 1)
      /\ d.entries[~t] = c.entries[~t]
      /\ \A j \in 1..(k - 1) : ~precedes(e, old[j])
      /\ k <= n => precedes(e, old[k])
  BY DEF Placed
<1>4. /\ k \in DOMAIN new /\ new[k] = e
      /\ \A j \in DOMAIN new : j \in Nat /\
            (j # k => From(k, j) \in DOMAIN old /\ new[j] = old[From(k, j)])
  BY PlacesOf
<1>5. \A i, j \in DOMAIN old : i < j => ~Better(t, old[j].limit_price, old[i].limit_price)
  BY <1>1 DEF Ranked, LimitOf
<1>6. \A i \in DOMAIN old : old[i] \in Entry /\ old[i].limit_price \in Nat
  <2> SUFFICES ASSUME NEW i \in DOMAIN old
               PROVE  old[i] \in Entry /\ old[i].limit_price \in Nat
    OBVIOUS
  <2> HIDE DEF old
  <2>1. old[i] \in Entry
    BY <1>1
  <2>2. QED
    BY <2>1 DEF Entry
<1>7. e.limit_price \in Nat
  BY DEF Entry
<1> HIDE DEF n, old, new, t
<1>8. ASSUME NEW i \in DOMAIN new, NEW j \in DOMAIN new, i < j
      PROVE  ~Better(t, new[j].limit_price, new[i].limit_price)
  <2>0. i \in 1..(n + 1) /\ j \in 1..(n + 1)
    BY <1>3
  <2>1. CASE i # k /\ j # k
    <3>1. From(k, i) \in DOMAIN old /\ From(k, j) \in DOMAIN old /\ From(k, i) < From(k, j)
      <4>1. From(k, i) < From(k, j)
        BY <1>3, <1>8, <2>0, <2>1 DEF From
      <4>2. QED
        BY <1>4, <2>1, <4>1
    <3>2. new[i] = old[From(k, i)] /\ new[j] = old[From(k, j)]
      BY <1>4, <2>1
    <3>3. QED
      BY <1>5, <3>1, <3>2
  <2>2. CASE j = k
    <3>1. i \in 1..(k - 1) /\ From(k, i) = i /\ i # k
      BY <1>3, <1>8, <2>0, <2>2 DEF From
    <3>2. new[i] = old[i] /\ i \in DOMAIN old /\ new[j] = e /\ ~precedes(e, old[i])
      BY <1>3, <1>4, <2>2, <3>1
    <3>3. QED
      BY <1>6, <3>2, PrecedesByPrice DEF t
  <2>3. CASE i = k
    <3> DEFINE l == j - 1
    <3>1. From(k, j) = l /\ j # k /\ k <= l /\ l \in Nat /\ k \in Nat
      BY <1>3, <1>8, <2>0, <2>3 DEF From
    <3>2. l \in DOMAIN old /\ new[j] = old[l] /\ new[i] = e
      BY <1>4, <2>3, <3>1
    <3> HIDE DEF l
    <3>3. k \in DOMAIN old /\ k <= n
      BY <1>2, <1>3, <3>1, <3>2
    <3>4. ~Better(t, old[k].limit_price, e.limit_price)
      BY <1>3, <1>6, <3>3, PrecedesByPrice DEF t
    <3>5. CASE l = k
      BY <3>2, <3>4, <3>5
    <3>6. CASE k < l
      <4>1. ~Better(t, old[l].limit_price, old[k].limit_price)
        BY <1>5, <3>2, <3>3, <3>6
      <4>2. ~Better(t, old[l].limit_price, e.limit_price)
        BY <1>1, <1>6, <1>7, <3>2, <3>3, <3>4, <4>1, NoBetterThrough
      <4>3. QED
        BY <3>2, <4>2
    <3>7. QED
      BY <3>1, <3>5, <3>6
  <2>4. QED
    BY <2>1, <2>2, <2>3
<1>9. \A s \in BOOLEAN : s = t \/ s = ~t
  BY <1>1
<1>10. ASSUME NEW s \in BOOLEAN, NEW i \in DOMAIN d.entries[s], NEW j \in DOMAIN d.entries[s],
              i < j
       PROVE  ~Better(s, LimitOf(d, s, j), LimitOf(d, s, i))
  <2>1. CASE s = t
    BY <1>8, <1>10, <2>1 DEF new, LimitOf
  <2>2. CASE s = ~t
    BY <1>3, <1>10, <2>2 DEF Ranked, LimitOf
  <2>3. QED
    BY <1>9, <2>1, <2>2
<1>11. QED
  BY <1>10 DEF Ranked

-----------------------------------------------------------------------------
(* The book grows. *)

(* The entry of order n.                                                    *)
EntryOf(b, n, e) ==
    /\ e.order_index = n /\ b.is_revealed[n]
    /\ b.revealed[n].submitter = e.submitter /\ b.revealed[n].is_bid = e.is_bid
    /\ b.revealed[n].limit_price = e.limit_price /\ b.revealed[n].qty_sats = e.qty_sats

(* What is known of an entry by its order.                                  *)
Behind(b, n, s, x) ==
    /\ x.order_index \in 1..n /\ b.is_revealed[x.order_index]
    /\ OrderOf(b, x).submitter = x.submitter /\ OrderOf(b, x).is_bid = s
    /\ OrderOf(b, x).limit_price = x.limit_price /\ OrderOf(b, x).qty_sats = x.qty_sats

(* The book with the next order in it.                                      *)
LEMMA BookJoins ==
    ASSUME NEW c, Shaped(c), NEW b, NEW n \in Nat, Book(c, b, n), Uncut(c, b),
           NEW e \in Entry, EntryOf(b, n + 1, e), NEW d, NEW k, Placed(c, d, e, k)
    PROVE  Book(d, b, n + 1) /\ Uncut(d, b)
<1> DEFINE t == e.is_bid
           old == c.entries[t]
           new == d.entries[t]
           m == n + 1
<1>1. t \in BOOLEAN /\ (~t) \in BOOLEAN /\ \A s \in BOOLEAN : s = t \/ s = ~t
  BY DEF Entry
<1>2. /\ k \in DOMAIN new /\ new[k] = e
      /\ \A j \in DOMAIN new : j \in Nat /\
            (j # k => From(k, j) \in DOMAIN old /\ new[j] = old[From(k, j)])
      /\ \A i \in DOMAIN old : \E j \in DOMAIN new : new[j] = old[i]
  BY PlacesOf
<1>3. d.entries[~t] = c.entries[~t] /\ k \in Int
  BY DEF Placed
<1>4. \A s \in BOOLEAN : \A i \in DOMAIN c.entries[s] : Behind(b, n, s, c.entries[s][i])
  BY DEF Book, Traced, Uncut, Behind
<1>5. m \in 1..m /\ m \notin 1..n /\ 1..n \subseteq 1..m /\ \A x \in 1..m : x = m \/ x \in 1..n
  OBVIOUS
<1>6. EntryOf(b, m, e)
  OBVIOUS
<1> HIDE DEF m, new, old
<1>7. \A s \in BOOLEAN : \A i \in DOMAIN c.entries[s] : Behind(b, m, s, c.entries[s][i])
  BY <1>4, <1>5 DEF Behind
<1>8. Behind(b, m, t, e)
  BY <1>5, <1>6 DEF Behind, EntryOf, OrderOf
<1>9. \A i \in DOMAIN old : Behind(b, m, t, old[i]) /\ old[i].order_index \in 1..n
  <2> SUFFICES ASSUME NEW i \in DOMAIN old
               PROVE  Behind(b, m, t, old[i]) /\ old[i].order_index \in 1..n
    OBVIOUS
  <2> DEFINE x == c.entries[t][i]
  <2>1. i \in DOMAIN c.entries[t] /\ old[i] = x
    BY DEF old
  <2>2. Behind(b, n, t, x) /\ Behind(b, m, t, x)
    BY <1>1, <1>4, <1>7, <2>1
  <2> HIDE DEF x
  <2>3. QED
    BY <2>1, <2>2 DEF Behind
<1>10. ASSUME NEW s \in BOOLEAN, NEW i \in DOMAIN d.entries[s]
       PROVE  Behind(b, m, s, d.entries[s][i])
  <2>1. CASE s = t
    <3>1. i \in DOMAIN new /\ d.entries[s][i] = new[i]
      BY <2>1 DEF new
    <3>2. new[i] = e \/ \E j \in DOMAIN old : new[i] = old[j]
      BY <1>2, <3>1
    <3>3. QED
      BY <1>8, <1>9, <2>1, <3>1, <3>2
  <2>2. CASE s = ~t
    BY <1>1, <1>3, <1>7, <2>2
  <2>3. QED
    BY <1>1, <2>1, <2>2
<1>11. Traced(d, b, m) /\ Uncut(d, b)
  BY <1>10 DEF Traced, Uncut, Behind
<1>12. ASSUME NEW i \in DOMAIN new, NEW j \in DOMAIN new,
              new[i].order_index = new[j].order_index
       PROVE  i = j
  <2>1. \A x \in DOMAIN new : x # k => new[x].order_index # m
    BY <1>2, <1>5, <1>9
  <2>2. e.order_index = m
    BY <1>6 DEF EntryOf
  <2>3. CASE i = k \/ j = k
    BY <1>2, <1>12, <2>1, <2>2, <2>3
  <2>4. CASE i # k /\ j # k
    <3>1. From(k, i) \in DOMAIN old /\ From(k, j) \in DOMAIN old
          /\ old[From(k, i)].order_index = old[From(k, j)].order_index
      BY <1>2, <1>12, <2>4
    <3>2. From(k, i) = From(k, j)
      BY <1>1, <3>1 DEF old, Book, Distinct
    <3>3. i \in Nat /\ j \in Nat
      BY <1>2
    <3>4. QED
      BY <1>3, <2>4, <3>2, <3>3 DEF From
  <2>5. QED
    BY <2>3, <2>4
<1>13. Distinct(d)
  <2> SUFFICES ASSUME NEW s \in BOOLEAN, NEW i \in DOMAIN d.entries[s],
                      NEW j \in DOMAIN d.entries[s],
                      d.entries[s][i].order_index = d.entries[s][j].order_index
               PROVE  i = j
    BY DEF Distinct
  <2>1. CASE s = t
    BY <1>12, <2>1 DEF new
  <2>2. CASE s = ~t
    BY <1>3, <2>2 DEF Book, Distinct
  <2>3. QED
    BY <1>1, <2>1, <2>2
<1>14. Complete(d, b, m)
  <2> SUFFICES ASSUME NEW x \in 1..m, b.is_revealed[x]
               PROVE  \E s \in BOOLEAN : \E i \in DOMAIN d.entries[s] :
                          d.entries[s][i].order_index = x
    BY DEF Complete
  <2>1. CASE x = m
    <3>1. k \in DOMAIN d.entries[t] /\ d.entries[t][k].order_index = x
      BY <1>2, <1>6, <2>1 DEF new, EntryOf
    <3>2. QED
      BY <1>1, <3>1
  <2>2. CASE x \in 1..n
    <3>1. PICK s \in BOOLEAN : \E i \in DOMAIN c.entries[s] : c.entries[s][i].order_index = x
      BY <2>2 DEF Book, Complete
    <3>2. PICK i \in DOMAIN c.entries[s] : c.entries[s][i].order_index = x
      BY <3>1
    <3>3. CASE s = t
      <4>1. i \in DOMAIN old /\ old[i].order_index = x
        BY <3>2, <3>3 DEF old
      <4>2. PICK j \in DOMAIN new : new[j] = old[i]
        BY <1>2, <4>1
      <4>3. j \in DOMAIN d.entries[t] /\ d.entries[t][j].order_index = x
        BY <4>1, <4>2 DEF new
      <4>4. QED
        BY <1>1, <4>3
    <3>4. CASE s = ~t
      <4>1. i \in DOMAIN d.entries[s] /\ d.entries[s][i].order_index = x
        BY <1>3, <3>2, <3>4
      <4>2. QED
        BY <4>1
    <3>5. QED
      BY <1>1, <3>3, <3>4
  <2>3. QED
    BY <1>5, <2>1, <2>2
<1>15. Ranked(d)
  BY RankedJoins DEF Book
<1>16. QED
  BY <1>11, <1>13, <1>14, <1>15 DEF Book, m

(* An order that was not revealed adds nothing to it.                       *)
LEMMA BookPasses ==
    ASSUME NEW c, NEW b, NEW n \in Nat, Book(c, b, n), ~b.is_revealed[n + 1]
    PROVE  Book(c, b, n + 1)
<1> DEFINE m == n + 1
<1>1. 1..n \subseteq 1..m /\ \A x \in 1..m : x = m \/ x \in 1..n
  OBVIOUS
<1>2. ~b.is_revealed[m]
  OBVIOUS
<1> HIDE DEF m
<1>3. Traced(c, b, m)
  BY <1>1 DEF Book, Traced
<1>4. Complete(c, b, m)
  BY <1>1, <1>2 DEF Book, Complete
<1>5. QED
  BY <1>3, <1>4 DEF Book, m

(* The book is in the entries alone.                                        *)
LEMMA BookOfEntries ==
    ASSUME NEW c, NEW d, d.entries = c.entries, NEW b
    PROVE  /\ \A n : Book(c, b, n) => Book(d, b, n)
           /\ Uncut(c, b) => Uncut(d, b)
<1>1. SameNames(c, d)
  BY DEF SameNames
<1>2. QED
  BY <1>1, NamesKeep DEF Uncut

(* What the book holds after n orders.                                      *)
ReadSoFar(c, n) == Book(c, batch, n) /\ Uncut(c, batch)

(* A turn of load_step reads the next order.                                *)
LEMMA LoadTurnFair ==
    ASSUME NEW c, OpenOK(c, vault), VaultOK(vault), BatchOK, c.cursor < Len(batch.revealed),
           ReadSoFar(c, c.cursor), NEW k, NEW d, d = LoadTurn(c, k)
    PROVE  ReadSoFar(d, c.cursor + 1)
<1> DEFINE n == c.cursor
           i == n + 1
           o == batch.revealed[i]
           e == [order_index |-> i, submitter |-> o.submitter, is_bid |-> o.is_bid,
                 limit_price |-> o.limit_price, qty_sats |-> o.qty_sats,
                 fill_base |-> 0, frac |-> 0, bumped |-> FALSE]
           f == ensure_funding_row(c, vault, o.submitter)
           g == insert_canonical(f, e)
           x == load_unit(c, batch, vault)
<1>1. n \in Nat /\ i \in Nat /\ DOMAIN c = ObjectFields
  BY DEF OpenOK, Shaped
<1>2. x = IF ~batch.is_revealed[i] THEN c ELSE IF o.qty_sats > 0 THEN g ELSE f
  BY DEF load_unit
<1>3. OpenOK(f, vault) /\ SameRest(c, f) /\ f.entries = c.entries
  <2>1. OpenOK(f, vault) /\ SameRest(c, f)
    BY RowJoins
  <2>2. f.entries = c.entries
    BY <1>1 DEF ensure_funding_row, ObjectFields
  <2>3. QED
    BY <2>1, <2>2
<1> HIDE DEF f
<1>4. Book(f, batch, n) /\ Uncut(f, batch) /\ Shaped(f)
  BY <1>3, BookOfEntries DEF ReadSoFar, OpenOK
<1>5. ASSUME batch.is_revealed[i]
      PROVE  o.qty_sats > 0 /\ DOMAIN g = ObjectFields /\ ReadSoFar(g, i)
  <2>1. i \in 1..Len(batch.revealed)
    <3>1. Len(batch.revealed) \in Nat
      BY RevealedLength
    <3>2. QED
      BY <1>1, <3>1
  <2>2. o \in Order
    BY <1>5, <2>1, RevealedOrder
  <2>3. o.qty_sats \in Nat /\ o.qty_sats > 0 /\ o.submitter \in Addresses /\ o.is_bid \in BOOLEAN
        /\ o.limit_price \in Nat \ {0}
    BY <2>2, ScaleAssumption DEF Order
  <2>4. o = batch.revealed[i]
    OBVIOUS
  <2> HIDE DEF o, i
  <2>5. e \in Entry
    BY <1>1, <2>3 DEF Entry
  <2>6. EntryOf(batch, i, e)
    BY <1>5, <2>4 DEF EntryOf
  <2> HIDE DEF e
  <2>7. PICK l : Placed(f, g, e, l)
    BY <1>4, <2>5, EntryIsPlaced
  <2>8. DOMAIN g = ObjectFields
    BY <1>4 DEF insert_canonical, Shaped
  <2> HIDE DEF g
  <2>9. Book(g, batch, n + 1) /\ Uncut(g, batch)
    <3>1. EntryOf(batch, n + 1, e)
      BY <2>6 DEF i
    <3> HIDE DEF n
    <3>2. QED
      BY <1>1, <1>4, <2>5, <2>7, <3>1, BookJoins
  <2>10. QED
    BY <2>3, <2>8, <2>9 DEF ReadSoFar, i
<1> HIDE DEF g
<1>6. ASSUME ~batch.is_revealed[i]
      PROVE  ReadSoFar(c, i)
  <2> HIDE DEF n
  <2>1. Book(c, batch, n) /\ Uncut(c, batch)
    BY DEF ReadSoFar, n
  <2>2. QED
    BY <1>1, <1>6, <2>1, BookPasses DEF ReadSoFar
<1>7. DOMAIN x = ObjectFields /\ ReadSoFar(x, i)
  BY <1>1, <1>2, <1>5, <1>6
<1>8. d = [x EXCEPT !.cursor = i]
  BY DEF LoadTurn
<1> HIDE DEF x, i
<1>9. d.entries = x.entries
  BY <1>7, <1>8 DEF ObjectFields
<1>10. ReadSoFar(d, i)
  BY <1>7, <1>9, BookOfEntries DEF ReadSoFar
<1>11. QED
  BY <1>10 DEF i

(* Loading keeps the book of the orders it has read.                        *)
FairLoad(k, x) == LoadHolds(k, x) /\ ReadSoFar(x, x.cursor)

(* The loop that loads.                                                     *)
FairReading == INSTANCE LoopRules WITH Body <- LoadTurn, Holds <- FairLoad

(* The premise of the rules of this instance.                               *)
LEMMA FairReadingInduction ==
    FairReading!Induction
  BY NatSetInduction DEF FairReading!Induction

(* However many orders a budget pays for, the book holds what was read.     *)
LEMMA FairReadingLoop ==
    ASSUME OpenOK(clearing, vault), VaultOK(vault), BatchOK,
           clearing.cursor <= Len(batch.revealed), ReadSoFar(clearing, clearing.cursor),
           NEW budget \in Nat,
           NEW d, d = Advance(clearing, Len(batch.revealed), budget,
                              LAMBDA x : load_unit(x, batch, vault))
    PROVE  ReadSoFar(d, d.cursor)
<1> DEFINE total == Len(batch.revealed)
           n == min_u64(budget, total - clearing.cursor)
<1>1. total \in Nat /\ clearing.cursor \in Nat
  <2>2. total \in Nat
    BY RevealedLength
  <2>3. QED
    BY <2>2 DEF OpenOK, Shaped
<1> HIDE DEF total
<1>2. n \in Nat /\ clearing.cursor + n <= total
  BY <1>1, TurnsLeft DEF total
<1>3. d = FairReading!LoopFrom(clearing)[n]
  BY DEF Advance, FairReading!LoopFrom, FairReading!Turns, LoadTurn, total
<1> HIDE DEF n
<1>4. FairLoad(0, clearing)
  BY <1>1 DEF LoadHolds, FairLoad
<1>5. ASSUME NEW k \in 0..(n - 1), NEW x, FairLoad(k, x)
      PROVE  FairLoad(k + 1, LoadTurn(x, k + 1))
  <2>1. x.cursor < Len(batch.revealed)
    BY <1>1, <1>2, <1>5 DEF LoadHolds, FairLoad, total
  <2> DEFINE y == LoadTurn(x, k + 1)
  <2>2. OpenOK(y, vault) /\ y.stage = x.stage /\ y.cursor = x.cursor + 1
    BY <1>5, <2>1, LoadTurnKeeps DEF LoadHolds, FairLoad
  <2>3. ReadSoFar(y, x.cursor + 1)
    BY <1>5, <2>1, LoadTurnFair DEF LoadHolds, FairLoad
  <2> HIDE DEF y
  <2>4. y.cursor = clearing.cursor + (k + 1)
    BY <1>1, <1>5, <2>2 DEF LoadHolds, FairLoad
  <2>5. QED
    BY <1>5, <2>2, <2>3, <2>4 DEF LoadHolds, FairLoad, y
<1>6. FairLoad(n, FairReading!LoopFrom(clearing)[n])
  BY <1>2, <1>4, <1>5, FairReadingInduction, FairReading!LoopRule
<1>7. QED
  BY <1>3, <1>6 DEF FairLoad

-----------------------------------------------------------------------------
(* The clearing price. *)

(* An order trades at price p.                                              *)
Trades(s, x, p) == IF s THEN x >= p ELSE x <= p

(* The entries of a side that trade at a price end where a price does.      *)
LEMMA PrefixCuts ==
    ASSUME NEW c, Shaped(c), Ranked(c), NEW s \in BOOLEAN, NEW p \in Nat
    PROVE  LET es == c.entries[s]
           IN  CutAt(c, s, Max({n \in 0..Len(es) : \A j \in 1..n :
                                   Trades(s, es[j].limit_price, p)}))
<1> DEFINE es == c.entries[s]
           l == Len(es)
           S == {n \in 0..l : \A j \in 1..n : Trades(s, es[j].limit_price, p)}
           m == Max(S)
<1>1. es \in Seq(Entry)
  BY DEF Shaped, EntriesOK
<1>2. l \in Nat /\ DOMAIN es = 1..l /\ \A i \in DOMAIN es : es[i].limit_price \in Nat
  <2>1. l \in Nat /\ DOMAIN es = 1..l
    BY <1>1
  <2>2. ASSUME NEW i \in DOMAIN es
        PROVE  es[i].limit_price \in Nat
    <3> HIDE DEF es
    <3>1. es[i] \in Entry
      BY <1>1
    <3>2. QED
      BY <3>1 DEF Entry
  <2>3. QED
    BY <2>1, <2>2
<1>3. \A i, j \in DOMAIN es : i < j => ~Better(s, es[j].limit_price, es[i].limit_price)
  BY DEF Ranked, LimitOf
<1> HIDE DEF es, l
<1>4. S \subseteq 0..l /\ 0 \in S
  BY <1>2
<1>5. m \in S /\ \A x \in S : x <= m
  <2>1. IsFiniteSet(0..l) /\ 0..l \subseteq Int
    BY <1>2, FS_Interval
  <2> HIDE DEF S
  <2>2. IsFiniteSet(S) /\ S \subseteq Int /\ S # {}
    BY <1>4, <2>1, FS_Subset
  <2>3. QED
    BY <2>2, MaxOfSet
<1>6. m \in 0..l /\ \A j \in 1..m : Trades(s, es[j].limit_price, p)
  BY <1>5
<1> DEFINE k == m + 1
<1>7. k <= l => ~Trades(s, es[k].limit_price, p)
  <2> SUFFICES ASSUME k <= l, Trades(s, es[k].limit_price, p)
               PROVE  FALSE
    OBVIOUS
  <2>1. k \in 0..l /\ \A j \in 1..k : j \in 1..m \/ j = k
    <3> HIDE DEF m
    <3>1. QED
      BY <1>2, <1>6
  <2>2. \A j \in 1..k : Trades(s, es[j].limit_price, p)
    BY <1>6, <2>1
  <2> HIDE DEF k
  <2>3. k \in S
    BY <2>1, <2>2
  <2>4. k <= m
    BY <1>5, <2>3
  <2> HIDE DEF m
  <2>5. QED
    BY <1>2, <1>6, <2>4 DEF k
<1> HIDE DEF m, S
<1>8. ASSUME NEW i \in DOMAIN es, NEW j \in DOMAIN es, i <= m, m < j
      PROVE  Better(s, es[i].limit_price, es[j].limit_price)
  <2>1. i \in 1..m /\ k \in DOMAIN es /\ k <= l /\ (j = k \/ k < j)
    BY <1>2, <1>6, <1>8
  <2>2. Trades(s, es[i].limit_price, p) /\ ~Trades(s, es[k].limit_price, p)
    BY <1>6, <1>7, <2>1
  <2>3. j = k \/ ~Better(s, es[j].limit_price, es[k].limit_price)
    BY <1>3, <2>1
  <2>4. es[i].limit_price \in Nat /\ es[j].limit_price \in Nat /\ es[k].limit_price \in Nat
    BY <1>2, <2>1
  <2> DEFINE x == es[i].limit_price
             y == es[j].limit_price
             z == es[k].limit_price
  <2>5. /\ x \in Nat /\ y \in Nat /\ z \in Nat
        /\ Trades(s, x, p) /\ ~Trades(s, z, p)
        /\ y = z \/ ~Better(s, y, z)
    BY <2>2, <2>3, <2>4
  <2> HIDE DEF x, y, z
  <2>6. Better(s, x, y)
    BY <2>5 DEF Better, Trades
  <2>7. QED
    BY <2>6 DEF x, y
<1>9. CutAt(c, s, m)
  BY <1>8 DEF CutAt, LimitOf, es
<1>10. QED
  BY <1>9 DEF m, S, es, l

(* There is nothing to say of the other stages.                             *)
LEMMA OnlyPassMatters ==
    ASSUME NEW d, NEW b, NEW fz, d.stage \in FirstPass \cup SecondPass, FairPass(d, b, fz)
    PROVE  FairlyCleared(d, b, fz)
  BY StagesDiffer DEF FairlyCleared, FirstPass, SecondPass

(* Nothing is filled: everybody gets nothing.                               *)
LEMMA NothingFilled ==
    ASSUME NEW d, \A s \in BOOLEAN : \A i \in DOMAIN d.entries[s] : d.entries[s][i].fill_base = 0,
           d.fills = <<>>, NEW b, NEW fz
    PROVE  Outcome(d, b, fz) /\ FillsOf(d, 0)
<1>1. \A s \in BOOLEAN : \A i \in DOMAIN d.entries[s] : FillOf(d, s, i) = 0
  BY DEF FillOf
<1>2. Outcome(d, b, fz)
  BY <1>1 DEF Outcome
<1>3. 1..0 = {} /\ DOMAIN d.fills = {}
  OBVIOUS
<1>4. FillsOf(d, 0)
  BY <1>3 DEF FillsOf
<1>5. QED
  BY <1>2, <1>4

(* What is read or priced of the book.                                      *)
Reading(c) == ReadSoFar(c, Len(batch.revealed))

(* The end of pricing is fair.                                              *)
LEMMA PricingEndsFair ==
    ASSUME NEW c, OpenOK(c, vault), Reading(c), NEW d, d = finish_pricing(c)
    PROVE  d.stage # STAGE_LOADING /\ d.funding = c.funding /\ FairlyCleared(d, batch, d.funding)
<1>1. DOMAIN c = ObjectFields /\ Shaped(c) /\ PricingOK(c) /\ Unfilled(c)
  BY DEF OpenOK, Shaped
<1>2. DOMAIN c.alloc = AllocFields
  BY <1>1 DEF Shaped, AllocOK
<1> DEFINE full == Len(batch.revealed)
<1>3. Book(c, batch, full) /\ Uncut(c, batch)
  BY DEF Reading, ReadSoFar
<1> HIDE DEF full
<1>4. CASE ~c.pricing.found
  <2>1. d = [c EXCEPT !.cursor = 0, !.stage = STAGE_ROOTING]
    BY <1>4 DEF finish_pricing, enter
  <2>2. /\ d.cursor = 0 /\ d.stage = STAGE_ROOTING /\ d.entries = c.entries
        /\ d.funding = c.funding /\ d.fills = c.fills
    BY <1>1, <2>1 DEF ObjectFields
  <2>3. Book(d, batch, full)
    BY <1>3, <2>2, BookOfEntries
  <2>4. Outcome(d, batch, d.funding) /\ FillsOf(d, 0)
    BY <1>1, <2>2, NothingFilled DEF Unfilled
  <2>5. FairEnd(d, batch, d.funding, d.cursor)
    BY <2>2, <2>3, <2>4 DEF FairEnd, full
  <2>6. FairlyCleared(d, batch, d.funding)
    BY <2>2, <2>5, StagesDiffer DEF FairlyCleared, FirstPass, SecondPass
  <2>7. QED
    BY <2>2, <2>6, StagesDiffer
<1>5. CASE c.pricing.found
  <2> DEFINE p == c.pricing.best_price
             S(s) == {n \in 0..Len(c.entries[s]) : \A j \in 1..n :
                         IF s THEN c.entries[s][j].limit_price >= p
                         ELSE c.entries[s][j].limit_price <= p}
             elig == [s \in BOOLEAN |-> Max(S(s))]
             offered(s) == qty_over(c.entries[s], 1..elig[s])
             matched == min_u64(offered(TRUE), offered(FALSE))
             a == [c.alloc EXCEPT !.clearing_price = p, !.elig = elig, !.matched_base = matched]
  <2>1. d = [c EXCEPT !.alloc = a, !.cursor = 0, !.stage = STAGE_ALLOC_FULL]
    BY <1>5 DEF finish_pricing, enter, prefix
  <2>2. p \in Nat
    BY <1>1, <1>5 DEF PricingOK
  <2>3. ASSUME NEW s \in BOOLEAN
        PROVE  CutAt(c, s, elig[s])
    <3>1. LET es == c.entries[s]
          IN  CutAt(c, s, Max({n \in 0..Len(es) : \A j \in 1..n :
                                  Trades(s, es[j].limit_price, p)}))
      <4> HIDE DEF p
      <4>1. QED
        BY <1>1, <1>3, <2>2, PrefixCuts DEF Book
    <3>2. elig[s] = Max(S(s))
      OBVIOUS
    <3>3. QED
      BY <3>1, <3>2 DEF Trades
  <2> HIDE DEF p, elig, matched
  <2>4. a.elig = elig
    BY <1>2 DEF AllocFields
  <2> HIDE DEF a
  <2>5. /\ d.stage = STAGE_ALLOC_FULL /\ d.entries = c.entries /\ d.alloc = a
        /\ d.funding = c.funding
    BY <1>1, <2>1 DEF ObjectFields
  <2>6. Book(d, batch, full) /\ Uncut(d, batch)
    BY <1>3, <2>5, BookOfEntries
  <2>7. EligibleByPrice(d)
    BY <2>3, <2>4, <2>5 DEF EligibleByPrice, CutAt, LimitOf
  <2>8. PassBook(d, batch, d.funding)
    BY <2>5, <2>6, <2>7, StagesDiffer DEF PassBook, SecondPass, full
  <2>9. d.stage \in FirstPass /\ FairPass(d, batch, d.funding)
    BY <2>5, <2>8, StagesDiffer DEF FairPass, FirstPass
  <2>10. QED
    BY <2>5, <2>9, OnlyPassMatters, StagesDiffer
<1>6. QED
  BY <1>4, <1>5

-----------------------------------------------------------------------------
(* The prices are gone over. *)

(* Looking at a price leaves the orders and the rows alone.                 *)
LEMMA PriceTurnFair ==
    ASSUME NEW c, DOMAIN c = ObjectFields, NEW k, NEW d, d = PriceTurn(c, k)
    PROVE  d.entries = c.entries /\ d.funding = c.funding
<1>1. \E q : d = [[c EXCEPT !.pricing = q] EXCEPT !.cursor = c.cursor + 1]
  BY DEF PriceTurn, price_unit
<1>2. PICK q : d = [[c EXCEPT !.pricing = q] EXCEPT !.cursor = c.cursor + 1]
  BY <1>1
<1>3. QED
  BY <1>2 DEF ObjectFields

(* Pricing goes over the book and leaves it.                                *)
FairPrice(k, x) ==
    PriceHolds(k, x) /\ x.entries = clearing.entries /\ x.funding = clearing.funding

(* The loop that prices.                                                    *)
FairPrices == INSTANCE LoopRules WITH Body <- PriceTurn, Holds <- FairPrice

(* The premise of the rules of this instance.                               *)
LEMMA FairPricesInduction ==
    FairPrices!Induction
  BY NatSetInduction DEF FairPrices!Induction

(* However many prices a budget pays for.                                   *)
LEMMA FairPricesLoop ==
    ASSUME OpenOK(clearing, vault), clearing.cursor <= Len(clearing.pricing.candidates),
           NEW budget \in Nat,
           NEW d, d = Advance(clearing, Len(clearing.pricing.candidates), budget, price_unit)
    PROVE  d.entries = clearing.entries /\ d.funding = clearing.funding
<1> DEFINE total == Len(clearing.pricing.candidates)
           n == min_u64(budget, total - clearing.cursor)
<1>1. total \in Nat /\ clearing.cursor \in Nat
  BY DEF OpenOK, Shaped, PricingOK
<1> HIDE DEF total
<1>2. n \in Nat /\ clearing.cursor + n <= total
  BY <1>1, TurnsLeft DEF total
<1>3. d = FairPrices!LoopFrom(clearing)[n]
  BY DEF Advance, FairPrices!LoopFrom, FairPrices!Turns, PriceTurn, total
<1> HIDE DEF n
<1>4. FairPrice(0, clearing)
  BY <1>1 DEF PriceHolds, FairPrice
<1>5. ASSUME NEW k \in 0..(n - 1), NEW x, FairPrice(k, x)
      PROVE  FairPrice(k + 1, PriceTurn(x, k + 1))
  <2>1. x.cursor < Len(x.pricing.candidates) /\ DOMAIN x = ObjectFields
    BY <1>1, <1>2, <1>5 DEF PriceHolds, FairPrice, total, OpenOK, Shaped
  <2> DEFINE y == PriceTurn(x, k + 1)
  <2>2. /\ OpenOK(y, vault) /\ y.stage = x.stage /\ y.cursor = x.cursor + 1
        /\ y.pricing.candidates = x.pricing.candidates
    BY <1>5, <2>1, PriceTurnKeeps DEF PriceHolds, FairPrice
  <2>3. y.entries = x.entries /\ y.funding = x.funding
    BY <2>1, PriceTurnFair
  <2> HIDE DEF y
  <2>4. y.cursor = clearing.cursor + (k + 1)
    BY <1>1, <1>5, <2>2 DEF PriceHolds, FairPrice
  <2>5. QED
    BY <1>5, <2>2, <2>3, <2>4 DEF PriceHolds, FairPrice, y
<1>6. FairPrice(n, FairPrices!LoopFrom(clearing)[n])
  BY <1>2, <1>4, <1>5, FairPricesInduction, FairPrices!LoopRule
<1>7. QED
  BY <1>3, <1>6 DEF FairPrice

(* A transaction of STAGE_PRICING is fair.                                  *)
LEMMA PriceFair ==
    ASSUME OpenOK(clearing, vault), clearing.cursor <= Len(clearing.pricing.candidates),
           clearing.stage = STAGE_PRICING, FairlyCleared(clearing, batch, frozen),
           NEW budget \in Nat, NEW d, d = price_step(clearing, budget)
    PROVE  FairlyCleared(d, batch, frozen)
<1> DEFINE total == Len(clearing.pricing.candidates)
           x == Advance(clearing, total, budget, price_unit)
<1>1. OpenOK(x, vault) /\ x.stage = STAGE_PRICING
  BY PriceLoop
<1>2. x.entries = clearing.entries /\ x.funding = clearing.funding
  BY FairPricesLoop
<1>3. d = IF x.cursor >= total THEN finish_pricing(x) ELSE x
  BY DEF price_step
<1> HIDE DEF x
<1>4. FairOpen(clearing, batch, frozen, Len(batch.revealed))
  BY DEF FairlyCleared
<1>5. Book(x, batch, Len(batch.revealed)) /\ Uncut(x, batch) /\ frozen = x.funding
  BY <1>2, <1>4, BookOfEntries DEF FairOpen
<1>6. CASE x.cursor >= total
  <2>1. Reading(x)
    BY <1>5 DEF Reading, ReadSoFar
  <2>2. d = finish_pricing(x)
    BY <1>3, <1>6
  <2>3. FairlyCleared(d, batch, d.funding) /\ d.funding = x.funding
    BY <1>1, <2>1, <2>2, PricingEndsFair
  <2>4. QED
    BY <1>5, <2>3
<1>7. CASE ~(x.cursor >= total)
  <2>1. d = x
    BY <1>3, <1>7
  <2>2. FairOpen(d, batch, frozen, Len(batch.revealed)) /\ d.stage = STAGE_PRICING
    BY <1>1, <1>5, <2>1 DEF FairOpen
  <2>3. QED
    BY <2>2, StagesDiffer DEF FairlyCleared, FirstPass, SecondPass
<1>8. QED
  BY <1>6, <1>7

(* The end of loading is fair.                                              *)
LEMMA LoadingEndsFair ==
    ASSUME NEW c, OpenOK(c, vault), VaultOK(vault), Reading(c), NEW d, d = finish_loading(c)
    PROVE  d.stage # STAGE_LOADING /\ FairlyCleared(d, batch, d.funding)
<1>1. PICK x : /\ OpenOK(x, vault) /\ x.stage = STAGE_PRICING /\ BeforePrices(c, x)
               /\ \/ d = finish_pricing(x) /\ PricesIn(c) = {}
                  \/ d = x /\ x.cursor <= Len(x.pricing.candidates)
  BY LoadingOpens
<1>2. Reading(x)
  <2>1. x.entries = c.entries
    BY <1>1 DEF BeforePrices
  <2>2. QED
    BY <2>1, BookOfEntries DEF Reading, ReadSoFar
<1>3. CASE d = finish_pricing(x)
  BY <1>1, <1>2, <1>3, PricingEndsFair
<1>4. CASE d = x
  <2>1. FairOpen(d, batch, d.funding, Len(batch.revealed)) /\ d.stage = STAGE_PRICING
    BY <1>1, <1>2, <1>4 DEF FairOpen, Reading, ReadSoFar
  <2>2. QED
    BY <2>1, StagesDiffer DEF FairlyCleared, FirstPass, SecondPass
<1>5. QED
  BY <1>1, <1>3, <1>4

(* A transaction of STAGE_LOADING is fair, to the rows as they then are.    *)
LEMMA LoadFair ==
    ASSUME OpenOK(clearing, vault), clearing.cursor <= Len(batch.revealed), VaultOK(vault),
           BatchOK, clearing.stage = STAGE_LOADING, FairlyCleared(clearing, batch, frozen),
           NEW budget \in Nat, NEW d, d = load_step(clearing, batch, vault, budget)
    PROVE  FairlyCleared(d, batch, d.funding)
<1> DEFINE total == Len(batch.revealed)
           x == Advance(clearing, total, budget, LAMBDA y : load_unit(y, batch, vault))
<1>1. OpenOK(x, vault) /\ x.stage = clearing.stage /\ x.cursor <= total
  BY LoadLoop
<1>2. ReadSoFar(clearing, clearing.cursor)
  BY DEF FairlyCleared, FairOpen, ReadSoFar
<1>3. ReadSoFar(x, x.cursor)
  BY <1>2, FairReadingLoop
<1>4. d = IF x.cursor >= total THEN finish_loading(x) ELSE x
  BY DEF load_step
<1>5. total \in Nat
  BY RevealedLength
<1> HIDE DEF x
<1>6. CASE x.cursor >= total
  <2>1. x.cursor = total
    <3>1. x.cursor \in Nat
      BY <1>1 DEF OpenOK, Shaped
    <3> HIDE DEF total
    <3>2. QED
      BY <1>1, <1>5, <1>6, <3>1
  <2>2. Reading(x)
    BY <1>3, <2>1 DEF Reading
  <2>3. d = finish_loading(x)
    BY <1>4, <1>6
  <2>4. QED
    BY <1>1, <2>2, <2>3, LoadingEndsFair
<1>7. CASE ~(x.cursor >= total)
  <2>1. d = x
    BY <1>4, <1>7
  <2>2. FairOpen(d, batch, d.funding, d.cursor) /\ d.stage = STAGE_LOADING
    BY <1>1, <1>3, <2>1 DEF FairOpen, ReadSoFar
  <2>3. QED
    BY <2>2, StagesDiffer DEF FairlyCleared, FirstPass, SecondPass
<1>8. QED
  BY <1>6, <1>7

-----------------------------------------------------------------------------
(* The fills are made. *)

(* No two entries of the whole book are the same order.                     *)
LEMMA AllDistinct ==
    ASSUME NEW c, Shaped(c), NEW b, NEW n, Book(c, b, n),
           NEW k \in DOMAIN all_entries(c), NEW l \in DOMAIN all_entries(c),
           all_entries(c)[k].order_index = all_entries(c)[l].order_index
    PROVE  k = l
<1> DEFINE all == all_entries(c)
           nb == Len(c.entries[TRUE])
           At(x) == /\ nb \in Nat
                    /\ x <= nb => x \in DOMAIN c.entries[TRUE] /\ all[x] = c.entries[TRUE][x]
                    /\ x > nb => /\ x - nb \in DOMAIN c.entries[FALSE]
                                 /\ all[x] = c.entries[FALSE][x - nb]
<1>1. At(k) /\ At(l)
  <2>1. At(k)
    BY EntryAt
  <2>2. At(l)
    BY EntryAt
  <2>3. QED
    BY <2>1, <2>2
<1>2. k \in Nat /\ l \in Nat /\ nb \in Nat
  <2>1. k \in 1..Len(all) /\ l \in 1..Len(all) /\ Len(all) \in Nat
    BY AllEntries
  <2> HIDE DEF all, At
  <2>2. k \in Nat /\ l \in Nat
    BY <2>1
  <2>3. QED
    BY <1>1, <2>2 DEF At
<1>3. \A s \in BOOLEAN : \A i, j \in DOMAIN c.entries[s] :
          c.entries[s][i].order_index = c.entries[s][j].order_index => i = j
  BY DEF Book, Distinct
<1>4. \A s \in BOOLEAN : \A i \in DOMAIN c.entries[s] :
          b.revealed[c.entries[s][i].order_index].is_bid = s
  <2>1. Traced(c, b, n)
    BY DEF Book
  <2>2. QED
    BY <2>1 DEF Traced, OrderOf
<1>5. all[k].order_index = all[l].order_index
  OBVIOUS
<1> HIDE DEF all, nb
<1>6. CASE k <= nb /\ l <= nb
  <2>1. /\ k \in DOMAIN c.entries[TRUE] /\ all[k] = c.entries[TRUE][k]
        /\ l \in DOMAIN c.entries[TRUE] /\ all[l] = c.entries[TRUE][l]
    BY <1>1, <1>6
  <2>2. QED
    BY <1>3, <1>5, <2>1
<1>7. CASE k > nb /\ l > nb
  <2>1. /\ k - nb \in DOMAIN c.entries[FALSE] /\ all[k] = c.entries[FALSE][k - nb]
        /\ l - nb \in DOMAIN c.entries[FALSE] /\ all[l] = c.entries[FALSE][l - nb]
    BY <1>1, <1>7
  <2>2. k - nb = l - nb
    BY <1>3, <1>5, <2>1
  <2>3. QED
    BY <1>2, <2>2
<1>8. CASE k <= nb /\ l > nb
  <2>1. /\ k \in DOMAIN c.entries[TRUE] /\ all[k] = c.entries[TRUE][k]
        /\ l - nb \in DOMAIN c.entries[FALSE] /\ all[l] = c.entries[FALSE][l - nb]
    BY <1>1, <1>8
  <2>2. QED
    BY <1>4, <1>5, <2>1
<1>9. CASE k > nb /\ l <= nb
  <2>1. /\ l \in DOMAIN c.entries[TRUE] /\ all[l] = c.entries[TRUE][l]
        /\ k - nb \in DOMAIN c.entries[FALSE] /\ all[k] = c.entries[FALSE][k - nb]
    BY <1>1, <1>9
  <2>2. QED
    BY <1>4, <1>5, <2>1
<1>10. QED
  BY <1>2, <1>6, <1>7, <1>8, <1>9

(* What is final depends on the entries, the price and the fills alone.     *)
LEMMA EndStays ==
    ASSUME NEW c, NEW d, d.entries = c.entries, d.alloc.clearing_price = c.alloc.clearing_price,
           NEW b, NEW fz
    PROVE  /\ \A n : Book(c, b, n) => Book(d, b, n)
           /\ Outcome(c, b, fz) => Outcome(d, b, fz)
           /\ all_entries(d) = all_entries(c)
           /\ d.fills = c.fills => \A n : FillsOf(c, n) => FillsOf(d, n)
<1>1. \A n : Book(c, b, n) => Book(d, b, n)
  BY BookOfEntries
<1>2. Outcome(c, b, fz) => Outcome(d, b, fz)
  BY DEF Outcome, LimitOf, PaidFor, FillOf, OrderQty
<1>3. all_entries(d) = all_entries(c)
  BY DEF all_entries
<1>4. d.fills = c.fills => \A n : FillsOf(c, n) => FillsOf(d, n)
  BY <1>3 DEF FillsOf
<1>5. QED
  BY <1>1, <1>2, <1>3, <1>4

(* The fills of the first n entries, and that of the next one.              *)
LEMMA FillsGrow ==
    ASSUME NEW c, Shaped(c), NEW b, NEW n \in Nat, NEW l, Book(c, b, l), FillsOf(c, n),
           n < Len(all_entries(c)), c.fills \in Seq(Fill), NEW d, d.entries = c.entries,
           LET e == all_entries(c)[n + 1]
           IN  IF e.fill_base = 0 THEN d.fills = c.fills
               ELSE \E f \in Fill : /\ d.fills = Append(c.fills, f)
                                    /\ f.order_index = e.order_index /\ f.base_sats = e.fill_base
    PROVE  FillsOf(d, n + 1)
<1> DEFINE all == all_entries(c)
           k == n + 1
           e == all[k]
           m == Len(c.fills)
<1>1. all_entries(d) = all
  BY DEF all_entries
<1>2. /\ DOMAIN all = 1..Len(all) /\ Len(all) \in Nat /\ n < Len(all)
  BY AllEntries
<1>3. \A i, j \in DOMAIN all : all[i].order_index = all[j].order_index => i = j
  BY AllDistinct
<1>4. IF e.fill_base = 0 THEN d.fills = c.fills
      ELSE \E f \in Fill : /\ d.fills = Append(c.fills, f)
                           /\ f.order_index = e.order_index /\ f.base_sats = e.fill_base
  OBVIOUS
<1>5. /\ \A j \in DOMAIN c.fills : \E i \in 1..n :
            /\ c.fills[j].order_index = all[i].order_index
            /\ c.fills[j].base_sats = all[i].fill_base
      /\ \A i, j \in DOMAIN c.fills : c.fills[i].order_index = c.fills[j].order_index => i = j
      /\ \A i \in 1..n : all[i].fill_base # 0 =>
            \E j \in DOMAIN c.fills : c.fills[j].order_index = all[i].order_index
  BY DEF FillsOf
<1> HIDE DEF all
<1>6. 1..n \subseteq 1..k /\ k \in 1..k /\ \A i \in 1..k : i = k \/ i \in 1..n
  OBVIOUS
<1>7. k \in DOMAIN all /\ k \notin 1..n /\ 1..n \subseteq DOMAIN all
  BY <1>2
<1> HIDE DEF k
<1>8. CASE e.fill_base = 0
  <2>1. d.fills = c.fills
    BY <1>4, <1>8
  <2>2. \A i \in 1..k : all[i].fill_base # 0 =>
            \E j \in DOMAIN c.fills : c.fills[j].order_index = all[i].order_index
    BY <1>5, <1>6, <1>8
  <2>3. \A j \in DOMAIN c.fills : \E i \in 1..k :
            /\ c.fills[j].order_index = all[i].order_index
            /\ c.fills[j].base_sats = all[i].fill_base
    BY <1>5, <1>6
  <2>4. FillsOf(d, k)
    BY <1>1, <1>5, <2>1, <2>2, <2>3 DEF FillsOf
  <2>5. QED
    BY <2>4 DEF k
<1>9. CASE e.fill_base # 0
  <2>1. PICK f \in Fill : /\ d.fills = Append(c.fills, f)
                          /\ f.order_index = e.order_index /\ f.base_sats = e.fill_base
    BY <1>4, <1>9
  <2> DEFINE fs == Append(c.fills, f)
             h == m + 1
  <2>2. /\ DOMAIN c.fills = 1..m /\ DOMAIN fs = 1..h /\ fs[h] = f
        /\ \A j \in 1..m : fs[j] = c.fills[j]
    OBVIOUS
  <2>3. m \in Nat
    OBVIOUS
  <2> HIDE DEF fs, m
  <2>4. h \in 1..h /\ 1..m \subseteq 1..h /\ \A j \in 1..h : j = h \/ j \in 1..m
    BY <2>3
  <2> HIDE DEF h, e
  <2>5. f.order_index = all[k].order_index /\ f.base_sats = all[k].fill_base
    BY <2>1 DEF e
  <2>6. \A j \in 1..h : \E i \in 1..k :
            fs[j].order_index = all[i].order_index /\ fs[j].base_sats = all[i].fill_base
    <3> SUFFICES ASSUME NEW j \in 1..h
                 PROVE  \E i \in 1..k : /\ fs[j].order_index = all[i].order_index
                                        /\ fs[j].base_sats = all[i].fill_base
      OBVIOUS
    <3>1. CASE j = h
      BY <1>6, <2>2, <2>5, <3>1
    <3>2. CASE j \in 1..m
      BY <1>5, <1>6, <2>2, <3>2
    <3>3. QED
      BY <2>4, <3>1, <3>2
  <2>7. \A j \in 1..m : fs[j].order_index # f.order_index
    <3> SUFFICES ASSUME NEW j \in 1..m, fs[j].order_index = f.order_index
                 PROVE  FALSE
      OBVIOUS
    <3>1. PICK i \in 1..n : fs[j].order_index = all[i].order_index
      BY <1>5, <2>2
    <3>2. i = k
      BY <1>3, <1>7, <2>5, <3>1
    <3>3. QED
      BY <1>7, <3>2
  <2>8. \A i, j \in 1..h : fs[i].order_index = fs[j].order_index => i = j
    <3> SUFFICES ASSUME NEW i \in 1..h, NEW j \in 1..h, fs[i].order_index = fs[j].order_index
                 PROVE  i = j
      OBVIOUS
    <3>1. CASE i \in 1..m /\ j \in 1..m
      BY <1>5, <2>2, <3>1
    <3>2. CASE i = h \/ j = h
      BY <2>2, <2>4, <2>7, <3>2
    <3>3. QED
      BY <2>4, <3>1, <3>2
  <2>9. \A i \in 1..k : all[i].fill_base # 0 =>
            \E j \in 1..h : fs[j].order_index = all[i].order_index
    <3> SUFFICES ASSUME NEW i \in 1..k, all[i].fill_base # 0
                 PROVE  \E j \in 1..h : fs[j].order_index = all[i].order_index
      OBVIOUS
    <3>1. CASE i = k
      BY <2>2, <2>4, <2>5, <3>1
    <3>2. CASE i \in 1..n
      <4>1. PICK j \in DOMAIN c.fills : c.fills[j].order_index = all[i].order_index
        BY <1>5, <3>2
      <4>2. j \in 1..h /\ fs[j].order_index = all[i].order_index
        BY <2>2, <2>4, <4>1
      <4>3. QED
        BY <4>2
    <3>3. QED
      BY <1>6, <3>1, <3>2
  <2>10. d.fills = fs
    BY <2>1 DEF fs
  <2>11. FillsOf(d, k)
    <3>1. all_entries(d) = all /\ DOMAIN d.fills = 1..h
      BY <1>1, <2>2, <2>10
    <3>2. \A j \in DOMAIN d.fills : \E i \in 1..k :
              /\ d.fills[j].order_index = all[i].order_index
              /\ d.fills[j].base_sats = all[i].fill_base
      BY <2>6, <2>10, <3>1
    <3>3. \A i, j \in DOMAIN d.fills : d.fills[i].order_index = d.fills[j].order_index => i = j
      BY <2>8, <2>10, <3>1
    <3>4. \A i \in 1..k : all[i].fill_base # 0 =>
              \E j \in DOMAIN d.fills : d.fills[j].order_index = all[i].order_index
      BY <2>9, <2>10, <3>1
    <3>5. QED
      BY <3>1, <3>2, <3>3, <3>4 DEF FillsOf
  <2>12. QED
    BY <2>11 DEF k
<1>10. QED
  BY <1>8, <1>9

(* A turn of rooting_step makes the fill of its entry.                      *)
LEMMA RootTurnFair ==
    ASSUME NEW c, Shaped(c), FillsOK(c), c.cursor < Len(all_entries(c)), NEW b, NEW n,
           Book(c, b, n), FillsOf(c, c.cursor), NEW k, NEW d, d = RootTurn(c, k), SameBook(c, d)
    PROVE  FillsOf(d, c.cursor + 1)
<1> DEFINE e == all_entries(c)[c.cursor + 1]
           f == fill_for(c, e)
           paid == c.quote_paid + IF e.is_bid THEN f.quote_sats ELSE 0
           recv == c.quote_recv + IF e.is_bid THEN 0 ELSE f.quote_sats
           x == root_unit(c)
           m == c.cursor
<1>1. DOMAIN c = ObjectFields /\ m \in Nat
  BY DEF Shaped
<1>2. x = IF e.fill_base = 0 THEN c
          ELSE [c EXCEPT !.fills = Append(c.fills, f), !.quote_paid = paid, !.quote_recv = recv]
  BY DEF root_unit
<1>3. d = [x EXCEPT !.cursor = m + 1]
  BY DEF RootTurn
<1>4. e \in Entry
  <2>1. m + 1 \in DOMAIN all_entries(c)
    <3>1. DOMAIN all_entries(c) = 1..Len(all_entries(c)) /\ Len(all_entries(c)) \in Nat
      BY AllEntries
    <3> DEFINE l == Len(all_entries(c))
    <3>2. l \in Nat /\ m < l
      BY <3>1
    <3> HIDE DEF l, m
    <3>3. m + 1 \in 1..l
      BY <1>1, <3>2
    <3>4. QED
      BY <3>1, <3>3 DEF l
  <2> DEFINE i == m + 1
  <2>2. i \in DOMAIN all_entries(c)
    BY <2>1
  <2> HIDE DEF i, m
  <2>3. all_entries(c)[i] \in Entry
    BY <2>2, EntryAtIsOK
  <2>4. QED
    BY <2>3 DEF i, m
<1>5. f.order_index = e.order_index /\ f.base_sats = e.fill_base
  BY DEF fill_for
<1>6. e.fill_base # 0 => f \in Fill
  <2> HIDE DEF e
  <2>1. QED
    BY <1>4, FillIsOK
<1> DEFINE fs == Append(c.fills, f)
<1> HIDE DEF fs, paid, recv, f
<1>7. IF e.fill_base = 0 THEN d.fills = c.fills ELSE d.fills = fs
  <2>1. x = IF e.fill_base = 0 THEN c
            ELSE [c EXCEPT !.fills = fs, !.quote_paid = paid, !.quote_recv = recv]
    BY <1>2 DEF fs
  <2> HIDE DEF x, e, m
  <2>2. DOMAIN x = ObjectFields /\ x.fills = IF e.fill_base = 0 THEN c.fills ELSE fs
    BY <1>1, <2>1 DEF ObjectFields
  <2>3. d.fills = x.fills
    BY <1>3, <2>2 DEF ObjectFields
  <2>4. QED
    BY <2>2, <2>3
<1>8. IF e.fill_base = 0 THEN d.fills = c.fills
      ELSE \E g \in Fill : /\ d.fills = Append(c.fills, g)
                           /\ g.order_index = e.order_index /\ g.base_sats = e.fill_base
  BY <1>5, <1>6, <1>7 DEF fs
<1>9. d.entries = c.entries /\ c.fills \in Seq(Fill)
  BY DEF SameBook, FillsOK
<1> HIDE DEF x
<1>10. LET y == all_entries(c)[m + 1]
       IN  IF y.fill_base = 0 THEN d.fills = c.fills
           ELSE \E g \in Fill : /\ d.fills = Append(c.fills, g)
                                /\ g.order_index = y.order_index /\ g.base_sats = y.fill_base
  BY <1>8
<1>11. FillsOf(c, m) /\ m < Len(all_entries(c))
  OBVIOUS
<1> HIDE DEF e, m
<1>12. FillsOf(d, m + 1)
  BY <1>1, <1>9, <1>10, <1>11, FillsGrow
<1>13. QED
  BY <1>12 DEF m

(* Rooting makes the fills of the entries it has gone over.                 *)
FairFills(k, x) ==
    RootHolds(k, x) /\ FillsOf(x, x.cursor)

(* The loop that roots.                                                     *)
FairRooting == INSTANCE LoopRules WITH Body <- RootTurn, Holds <- FairFills

(* The premise of the rules of this instance.                               *)
LEMMA FairRootingInduction ==
    FairRooting!Induction
  BY NatSetInduction DEF FairRooting!Induction

(* However many fills a budget pays for making.                             *)
LEMMA FairRootingLoop ==
    ASSUME Shaped(clearing), FillsOK(clearing), FillsAddUp(clearing),
           clearing.cursor <= Len(all_entries(clearing)), NEW b, NEW l, Book(clearing, b, l),
           FillsOf(clearing, clearing.cursor), NEW budget \in Nat,
           NEW d, d = Advance(clearing, Len(all_entries(clearing)), budget, root_unit)
    PROVE  FillsOf(d, d.cursor)
<1> DEFINE total == Len(all_entries(clearing))
           n == min_u64(budget, total - clearing.cursor)
<1>1. total \in Nat /\ clearing.cursor \in Nat
  BY AllEntries DEF Shaped
<1> HIDE DEF total
<1>2. n \in Nat /\ clearing.cursor + n <= total
  BY <1>1, TurnsLeft DEF total
<1>3. d = FairRooting!LoopFrom(clearing)[n]
  BY DEF Advance, FairRooting!LoopFrom, FairRooting!Turns, RootTurn, total
<1> HIDE DEF n
<1>4. FairFills(0, clearing)
  BY <1>1 DEF RootHolds, SameBook, FairFills
<1>5. ASSUME NEW k \in 0..(n - 1), NEW x, FairFills(k, x)
      PROVE  FairFills(k + 1, RootTurn(x, k + 1))
  <2>1. /\ SameBook(clearing, x) /\ FillsOK(x) /\ FillsAddUp(x)
        /\ x.cursor = clearing.cursor + k /\ FillsOf(x, x.cursor)
    BY <1>5 DEF FairFills, RootHolds
  <2>2. Len(all_entries(x)) = total
    BY <2>1 DEF SameBook, all_entries, total
  <2>3. x.cursor < Len(all_entries(x))
    BY <1>1, <1>2, <2>1, <2>2
  <2> DEFINE y == RootTurn(x, k + 1)
  <2>4. Shaped(x) /\ Book(x, b, l)
    BY <2>1, BookOfEntries DEF SameBook
  <2>5. SameBook(x, y) /\ FillsOK(y) /\ FillsAddUp(y) /\ y.cursor = x.cursor + 1
    BY <2>1, <2>3, <2>4, RootTurnKeeps
  <2>6. FillsOf(y, x.cursor + 1)
    BY <2>1, <2>3, <2>4, <2>5, RootTurnFair
  <2> HIDE DEF y
  <2>7. SameBook(clearing, y)
    BY <2>1, <2>5 DEF SameBook
  <2>8. y.cursor = clearing.cursor + (k + 1)
    BY <1>1, <2>1, <2>5
  <2>9. FairFills(k + 1, y)
    BY <2>5, <2>6, <2>7, <2>8 DEF FairFills, RootHolds
  <2>10. QED
    BY <2>9 DEF y
<1>6. FairFills(n, FairRooting!LoopFrom(clearing)[n])
  BY <1>2, <1>4, <1>5, FairRootingInduction, FairRooting!LoopRule
<1>7. QED
  BY <1>3, <1>6 DEF FairFills

(* There is nothing to say of the other stages.                             *)
LEMMA OnlyEndMatters ==
    ASSUME NEW d, NEW b, NEW fz, NEW n, FairEnd(d, b, fz, n),
           \/ d.stage = STAGE_ROOTING /\ n = d.cursor
           \/ d.stage \in {STAGE_SETTLING, STAGE_DONE} /\ n = Len(all_entries(d))
    PROVE  FairlyCleared(d, b, fz)
  BY StagesDiffer DEF FairlyCleared, FirstPass, SecondPass

(* A transaction of STAGE_ROOTING is fair.                                  *)
LEMMA RootFair ==
    ASSUME Shaped(clearing), Rooting(clearing, vault), clearing.stage = STAGE_ROOTING,
           FairlyCleared(clearing, batch, frozen), NEW budget \in Nat,
           NEW d, d = rooting_step(clearing, budget)
    PROVE  FairlyCleared(d, batch, frozen)
<1> DEFINE c == clearing
           total == Len(all_entries(c))
           x == Advance(c, total, budget, root_unit)
           full == Len(batch.revealed)
<1>1. FillsOK(c) /\ FillsAddUp(c) /\ c.cursor <= total
  BY DEF Rooting
<1>2. FairEnd(c, batch, frozen, c.cursor)
  BY DEF FairlyCleared
<1>3. Book(c, batch, full) /\ Outcome(c, batch, frozen) /\ FillsOf(c, c.cursor)
  BY <1>2 DEF FairEnd
<1>4. SameBook(c, x) /\ x.cursor <= total
  BY <1>1, RootLoop
<1>5. FillsOf(x, x.cursor)
  <2> HIDE DEF full
  <2>1. QED
    BY <1>1, <1>3, FairRootingLoop
<1>6. d = IF x.cursor < total THEN x
          ELSE enter([x EXCEPT !.fee_quote = x.quote_paid - x.quote_recv], STAGE_SETTLING)
  BY DEF rooting_step
<1>7. total \in Nat
  BY AllEntries
<1> HIDE DEF x, full
<1>8. /\ x.entries = c.entries /\ x.alloc = c.alloc /\ x.stage = STAGE_ROOTING
      /\ x.cursor \in Nat /\ DOMAIN x = ObjectFields
  BY <1>4 DEF SameBook, Shaped
<1>9. Book(x, batch, full) /\ Outcome(x, batch, frozen) /\ all_entries(x) = all_entries(c)
  BY <1>3, <1>8, EndStays
<1>10. CASE x.cursor < total
  <2>1. d = x
    BY <1>6, <1>10
  <2>2. FairEnd(d, batch, frozen, d.cursor) /\ d.stage = STAGE_ROOTING
    BY <1>5, <1>8, <1>9, <2>1 DEF FairEnd, full
  <2>3. QED
    BY <2>2, OnlyEndMatters
<1>11. CASE ~(x.cursor < total)
  <2>1. x.cursor = total
    <3> HIDE DEF total
    <3>1. QED
      BY <1>4, <1>7, <1>8, <1>11
  <2>2. d = [[x EXCEPT !.fee_quote = x.quote_paid - x.quote_recv]
               EXCEPT !.cursor = 0, !.stage = STAGE_SETTLING]
    BY <1>6, <1>11 DEF enter
  <2>3. /\ d.entries = x.entries /\ d.alloc = x.alloc /\ d.fills = x.fills
        /\ d.stage = STAGE_SETTLING
    BY <1>8, <2>2 DEF ObjectFields
  <2>4. /\ Book(d, batch, full) /\ Outcome(d, batch, frozen) /\ FillsOf(d, total)
        /\ all_entries(d) = all_entries(c)
    BY <1>5, <1>9, <2>1, <2>3, EndStays
  <2>5. FairEnd(d, batch, frozen, Len(all_entries(d)))
    BY <2>4 DEF FairEnd, full
  <2>6. QED
    BY <2>3, <2>5, OnlyEndMatters
<1>12. QED
  BY <1>10, <1>11

(* A settling transaction changes nothing of what was decided.              *)
LEMMA SettleFair ==
    ASSUME Shaped(clearing), clearing.stage = STAGE_SETTLING,
           FairlyCleared(clearing, batch, frozen), NEW budget \in Nat,
           NEW after, after = settle_step(clearing, vault, budget)
    PROVE  FairlyCleared(after.clearing, batch, frozen)
<1> DEFINE c == clearing
           n == min_u64(budget, Len(c.fills) - c.cursor)
           now == SubSeq(c.fills, c.cursor + 1, c.cursor + n)
           pushes == push_fills(vault, now)
           last == c.cursor + n >= Len(c.fills)
           fee == IF last THEN c.fee_quote ELSE 0
           k == c.cursor + n
           td == c.total_debits + total_over(1..n, LAMBDA i : debit_of(now[i]))
           tc == c.total_credits + total_over(1..n, LAMBDA i : credit_of(now[i])) + fee
           d == [c EXCEPT !.cursor = k, !.total_debits = td, !.total_credits = tc]
           e == IF last THEN [d EXCEPT !.stage = STAGE_DONE] ELSE d
<1>1. after.clearing = e
  BY DEF settle_step
<1>2. DOMAIN c = ObjectFields
  BY DEF Shaped
<1> HIDE DEF n, td, tc, k, last
<1>3. /\ DOMAIN d = ObjectFields /\ d.entries = c.entries /\ d.alloc = c.alloc
      /\ d.fills = c.fills /\ d.stage = STAGE_SETTLING
  BY <1>2 DEF ObjectFields
<1> HIDE DEF d
<1>4. /\ e.entries = c.entries /\ e.alloc = c.alloc /\ e.fills = c.fills
      /\ e.stage \in {STAGE_SETTLING, STAGE_DONE}
  BY <1>3 DEF ObjectFields
<1> HIDE DEF e
<1>5. FairEnd(c, batch, frozen, Len(all_entries(c)))
  BY DEF FairlyCleared
<1>6. FairEnd(e, batch, frozen, Len(all_entries(e)))
  BY <1>4, <1>5, EndStays DEF FairEnd
<1>7. FairlyCleared(e, batch, frozen)
  BY <1>4, <1>6, OnlyEndMatters
<1>8. QED
  BY <1>1, <1>7

-----------------------------------------------------------------------------
(* The steps of the machine are fair. *)

(* Whatever the stage, to the rows as they are once the book is read.       *)
LEMMA StageFair ==
    ASSUME BatchOK, VaultOK(vault), ClearingOK(clearing, batch, vault),
           FairlyCleared(clearing, batch, frozen), NEW budget \in Nat,
           NEW after, after = stage_step(clearing, budget)
    PROVE  FairlyCleared(after.clearing, batch,
                         IF clearing.stage = STAGE_LOADING THEN after.clearing.funding ELSE frozen)
<1>1. /\ Shaped(clearing) /\ Opening(clearing, batch, vault) /\ Allocating(clearing, vault)
      /\ Truncating(clearing, vault) /\ Rooting(clearing, vault)
  BY DEF ClearingOK
<1>2. ASSUME NEW d
      PROVE  Alone(d).clearing = d
  BY DEF Alone
<1>3. clearing.stage \in Stages
  BY <1>1 DEF Shaped
<1> DEFINE fair == FairlyCleared(after.clearing, batch, frozen)
<1>4. CASE clearing.stage = STAGE_LOADING
  <2> DEFINE d == load_step(clearing, batch, vault, budget)
  <2>1. FairlyCleared(d, batch, d.funding)
    <3>1. OpenOK(clearing, vault) /\ clearing.cursor <= Len(batch.revealed)
      BY <1>1, <1>4 DEF Opening, OpenOK
    <3>2. QED
      BY <1>4, <3>1, LoadFair
  <2>2. after = Alone(d)
    BY <1>4, StageTaken
  <2> HIDE DEF d
  <2>3. QED
    BY <1>2, <1>4, <2>1, <2>2
<1>5. CASE clearing.stage = STAGE_PRICING
  <2> DEFINE d == price_step(clearing, budget)
  <2>1. FairlyCleared(d, batch, frozen)
    <3>1. OpenOK(clearing, vault) /\ clearing.cursor <= Len(clearing.pricing.candidates)
      BY <1>1, <1>5 DEF Opening, OpenOK
    <3>2. QED
      BY <1>5, <3>1, PriceFair
  <2>2. after = Alone(d)
    BY <1>5, StageTaken
  <2> HIDE DEF d
  <2>3. fair
    BY <1>2, <2>1, <2>2
  <2>4. QED
    BY <1>5, <2>3, StagesDiffer
<1>6. ASSUME clearing.stage \in FirstPass \cup SecondPass
      PROVE  FairPass(clearing, batch, frozen)
  BY <1>6 DEF FairlyCleared
<1>7. CASE clearing.stage \in {STAGE_ALLOC_FULL, STAGE_REALLOC_FULL}
  <2> DEFINE d == alloc_full_step(clearing, budget, AfterFull(clearing))
  <2>1. clearing.stage # STAGE_LOADING /\ FairPass(clearing, batch, frozen)
    BY <1>6, <1>7, StagesDiffer DEF FirstPass, SecondPass
  <2>2. PassBook(clearing, batch, frozen)
    BY <2>1 DEF FairPass
  <2>3. FairlyCleared(d, batch, frozen)
    BY <1>1, <1>7, <2>2, FullFair, OnlyPassMatters
  <2>4. after = Alone(d)
    BY <1>7, StageTaken
  <2> HIDE DEF d
  <2>5. fair
    BY <1>2, <2>3, <2>4
  <2>6. QED
    BY <2>1, <2>5
<1>8. CASE clearing.stage \in {STAGE_ALLOC_PRORATA, STAGE_REALLOC_PRORATA}
  <2> DEFINE d == alloc_prorata_step(clearing, budget, AfterProrata(clearing))
  <2>1. clearing.stage # STAGE_LOADING /\ FairPass(clearing, batch, frozen)
    BY <1>6, <1>8, StagesDiffer DEF FirstPass, SecondPass
  <2>2. PassBook(clearing, batch, frozen) /\ AllOrNothing(clearing)
    BY <1>8, <2>1, StagesDiffer DEF FairPass
  <2>3. FairlyCleared(d, batch, frozen)
    BY <1>1, <1>8, <2>2, ProrataFair, OnlyPassMatters
  <2>4. after = Alone(d)
    BY <1>8, StageTaken
  <2> HIDE DEF d
  <2>5. fair
    BY <1>2, <2>3, <2>4
  <2>6. QED
    BY <2>1, <2>5
<1>9. CASE clearing.stage \in {STAGE_ALLOC_REMAINDER, STAGE_REALLOC_REMAINDER}
  <2> DEFINE d == alloc_remainder_step(clearing, budget, AfterRemainder(clearing))
  <2>1. clearing.stage # STAGE_LOADING /\ FairPass(clearing, batch, frozen)
    BY <1>6, <1>9, StagesDiffer DEF FirstPass, SecondPass
  <2>2. FairlyCleared(d, batch, frozen)
    BY <1>1, <1>9, <2>1, RemainderFair
  <2>3. after = Alone(d)
    BY <1>9, StageTaken
  <2> HIDE DEF d
  <2>4. fair
    BY <1>2, <2>2, <2>3
  <2>5. QED
    BY <2>1, <2>4
<1>10. CASE clearing.stage = STAGE_TRUNCATE
  <2> DEFINE d == truncate_step(clearing, vault, budget)
  <2>1. FairCut(clearing, batch, frozen)
    BY <1>10 DEF FairlyCleared
  <2>2. FairlyCleared(d, batch, frozen)
    BY <1>1, <1>10, <2>1, TruncateFair
  <2>3. after = Alone(d)
    BY <1>10, StageTaken
  <2> HIDE DEF d
  <2>4. fair
    BY <1>2, <2>2, <2>3
  <2>5. QED
    BY <1>10, <2>4, StagesDiffer
<1>11. CASE clearing.stage = STAGE_ROOTING
  <2> DEFINE d == rooting_step(clearing, budget)
             ok == rooting_asserts(clearing, budget)
  <2>1. FairlyCleared(d, batch, frozen)
    BY <1>1, <1>11, RootFair
  <2>2. after = [Alone(d) EXCEPT !.ok = ok]
    BY <1>11, StageTaken
  <2> HIDE DEF d, ok
  <2>3. after.clearing = d
    BY <2>2 DEF Alone
  <2>4. QED
    BY <1>11, <2>1, <2>3, StagesDiffer
<1>12. CASE clearing.stage = STAGE_SETTLING
  <2>1. after = settle_step(clearing, vault, budget)
    BY <1>12, StageTaken
  <2>2. fair
    BY <1>1, <1>12, <2>1, SettleFair
  <2>3. QED
    BY <1>12, <2>2, StagesDiffer
<1>13. CASE clearing.stage = STAGE_DONE
  <2>1. after = Alone(clearing)
    BY <1>13, StageTaken
  <2>2. after.clearing = clearing
    BY <1>2, <2>1
  <2>3. QED
    BY <1>13, <2>2, StagesDiffer
<1>14. QED
  BY <1>3, <1>4, <1>5, <1>7, <1>8, <1>9, <1>10, <1>11, <1>12, <1>13, StagesListed

(* Only the orders are read of the batch.                                   *)
LEMMA SameBatchFair ==
    ASSUME NEW c, NEW b, NEW fz, FairlyCleared(c, b, fz), NEW e, e.revealed = b.revealed,
           e.is_revealed = b.is_revealed
    PROVE  FairlyCleared(c, e, fz)
<1>1. \A x : OrderOf(e, x) = OrderOf(b, x)
  BY DEF OrderOf
<1>2. \A n : Book(c, b, n) => Book(c, e, n)
  BY <1>1 DEF Book, Traced, Complete
<1>3. Uncut(c, b) => Uncut(c, e)
  BY <1>1 DEF Uncut
<1>4. Ordered(c, e) = Ordered(c, b)
  BY <1>1 DEF Ordered
<1>5. \A p, who : Pays(e, p, fz, who) <=> Pays(b, p, fz, who)
  BY DEF Pays, Bill, AskedOf
<1>6. \A g, h : Survives(c, b, fz, g, h) => Survives(c, e, fz, g, h)
  BY <1>4, <1>5 DEF Survives, LeftOf
<1>7. Outcome(c, b, fz) => Outcome(c, e, fz)
  <2>1. \A s, i : PaidFor(c, e, fz, s, i) <=> PaidFor(c, b, fz, s, i)
    BY <1>5 DEF PaidFor
  <2>2. \A s, i : OrderQty(c, e, s, i) = OrderQty(c, b, s, i)
    BY <1>1 DEF OrderQty
  <2>3. QED
    BY <2>1, <2>2 DEF Outcome
<1>8. \A n : FairOpen(c, b, fz, n) => FairOpen(c, e, fz, n)
  BY <1>2, <1>3 DEF FairOpen
<1>9. FairPass(c, b, fz) => FairPass(c, e, fz)
  BY <1>2, <1>3, <1>6 DEF FairPass, PassBook
<1>10. FairCut(c, b, fz) => FairCut(c, e, fz)
  BY <1>2, <1>3, <1>6 DEF FairCut
<1>11. \A n : FairEnd(c, b, fz, n) => FairEnd(c, e, fz, n)
  BY <1>2, <1>7 DEF FairEnd
<1>12. QED
  BY <1>8, <1>9, <1>10, <1>11 DEF FairlyCleared

(* A transaction keeps the fairness of the clearing.                        *)
LEMMA StepFair ==
    ASSUME Inv, FairInv, NEW budget \in Nat, step(budget)
    PROVE  FairInv'
<1> DEFINE after == stage_step(clearing, budget)
           fz == IF clearing.stage = STAGE_LOADING THEN after.clearing.funding ELSE frozen
           done == after.clearing.stage = STAGE_DONE
<1>1. /\ clearing # NoClearing /\ clearing' = after.clearing /\ frozen' = fz
      /\ batch' = IF done THEN [batch EXCEPT !.state = STATE_SETTLED] ELSE batch
  BY DEF step
<1>2. BatchOK /\ VaultOK(vault) /\ ClearingOK(clearing, batch, vault)
  BY <1>1 DEF Inv, ClearingInv
<1>3. FairlyCleared(clearing, batch, frozen)
  BY <1>1 DEF FairInv
<1>4. FairlyCleared(after.clearing, batch, fz)
  BY <1>2, <1>3, StageFair
<1>5. batch'.revealed = batch.revealed /\ batch'.is_revealed = batch.is_revealed
  <2> HIDE DEF done
  <2>1. QED
    BY <1>1, <1>2 DEF BatchOK
<1>6. FairlyCleared(clearing', batch', frozen')
  <2>1. FairlyCleared(clearing', batch, frozen')
    BY <1>1, <1>4
  <2>2. QED
    BY <1>5, <2>1, SameBatchFair
<1>7. clearing' # NoClearing
  <2>1. Inv'
    BY StepKeeps
  <2>2. BatchOK' /\ LockInv'
    BY <2>1 DEF Inv
  <2>3. batch'.state # STATE_SEALED
    <3>1. batch.state # STATE_SEALED
      BY <1>1 DEF Inv, LockInv
    <3>2. DOMAIN batch = {"state", "revealed", "is_revealed"}
      BY <1>2 DEF BatchOK
    <3> HIDE DEF done
    <3>3. QED
      BY <1>1, <3>1, <3>2, StatesDiffer
  <2>4. QED
    BY <2>2, <2>3 DEF LockInv
<1>8. QED
  BY <1>6, <1>7 DEF FairInv

(* A new clearing has no book and no rows.                                  *)
LEMMA NewIsFair ==
    ASSUME NEW v, NEW b, NEW c, c = new_clearing(v)
    PROVE  FairlyCleared(c, b, [who \in {} |-> 0])
<1>1. /\ c.stage = STAGE_LOADING /\ c.cursor = 0 /\ c.funding = [who \in {} |-> 0]
      /\ c.entries = both(<<>>)
  BY DEF new_clearing
<1>2. \A s \in BOOLEAN : DOMAIN c.entries[s] = {}
  BY <1>1 DEF both
<1>3. 1..0 = {}
  OBVIOUS
<1>4. Book(c, b, 0) /\ Uncut(c, b)
  BY <1>2, <1>3 DEF Book, Ranked, Traced, Distinct, Complete, Uncut
<1>5. QED
  BY <1>1, <1>4, StagesDiffer DEF FairlyCleared, FairOpen, FirstPass, SecondPass

(* begin starts a fair clearing.                                            *)
LEMMA BeginFair ==
    ASSUME Inv, FairInv, begin
    PROVE  FairInv'
<1>1. /\ batch.state = STATE_SEALED /\ clearing' = new_clearing(vault) /\ frozen' = frozen
  BY DEF begin
<1>2. clearing = NoClearing
  BY <1>1 DEF Inv, LockInv
<1>3. frozen' = [who \in {} |-> 0]
  BY <1>1, <1>2 DEF FairInv
<1>4. FairlyCleared(clearing', batch', frozen')
  BY <1>1, <1>3, NewIsFair
<1>5. clearing' # NoClearing
  <2>1. Inv'
    BY BeginKeeps
  <2>2. batch'.state = STATE_CLEARING
    BY DEF begin, Inv, BatchOK
  <2>3. QED
    BY <2>1, <2>2, StatesDiffer DEF Inv, LockInv
<1>6. QED
  BY <1>4, <1>5 DEF FairInv

(* The vault does not matter to it.                                         *)
LEMMA OthersFair ==
    ASSUME FairInv, UNCHANGED <<batch, clearing, frozen>>
    PROVE  FairInv'
  BY DEF FairInv

(* FairInv holds throughout: beside Inv it is inductive.                    *)
THEOREM FairInvariance == Spec => []FairInv
<1>1. Init => FairInv
  BY DEF Init, FairInv
<1>2. Inv /\ FairInv /\ [Next]_vars => FairInv'
  <2> SUFFICES ASSUME Inv, FairInv, [Next]_vars
               PROVE  FairInv'
    OBVIOUS
  <2>1. CASE begin
    BY <2>1, BeginFair
  <2>2. CASE Step
    <3>1. PICK budget \in Budgets : step(budget)
      BY <2>2 DEF Step
    <3>2. budget \in Nat
      BY ClearingAssumption
    <3>3. QED
      BY <3>1, <3>2, StepFair
  <2>3. CASE TopUp
    <3>1. UNCHANGED <<batch, clearing, frozen>>
      BY <2>3 DEF TopUp, TopUpBase, TopUpQuote
    <3>2. QED
      BY <3>1, OthersFair
  <2>4. CASE Withdraw
    <3>1. UNCHANGED <<batch, clearing, frozen>>
      BY <2>4 DEF Withdraw, WithdrawBase, WithdrawQuote
    <3>2. QED
      BY <3>1, OthersFair
  <2>5. CASE SetFee
    <3>1. UNCHANGED <<batch, clearing, frozen>>
      BY <2>5 DEF SetFee, set_fee_params
    <3>2. QED
      BY <3>1, OthersFair
  <2>6. CASE UNCHANGED vars
    <3>1. UNCHANGED <<batch, clearing, frozen>>
      BY <2>6 DEF vars
    <3>2. QED
      BY <3>1, OthersFair
  <2>7. QED
    BY <2>1, <2>2, <2>3, <2>4, <2>5, <2>6 DEF Next
<1>3. QED
  BY <1>1, <1>2, Invariance, PTL DEF Spec

-----------------------------------------------------------------------------
(* What the properties speak of. *)

(* An entry of a side is in the whole book.                                 *)
LEMMA InAll ==
    ASSUME NEW c, Shaped(c), NEW s \in BOOLEAN, NEW i \in DOMAIN c.entries[s]
    PROVE  \E k \in 1..Len(all_entries(c)) : all_entries(c)[k] = c.entries[s][i]
<1> DEFINE x == c.entries[TRUE]
           y == c.entries[FALSE]
<1>1. x \in Seq(Entry) /\ y \in Seq(Entry)
  BY DEF Shaped, EntriesOK
<1>2. all_entries(c) = x \o y
  BY DEF all_entries
<1>3. s = TRUE => i \in DOMAIN x /\ c.entries[s][i] = x[i]
  OBVIOUS
<1>4. s = FALSE => i \in DOMAIN y /\ c.entries[s][i] = y[i]
  OBVIOUS
<1> HIDE DEF x, y
<1>5. /\ Len(x) \in Nat /\ DOMAIN x = 1..Len(x) /\ Len(y) \in Nat /\ DOMAIN y = 1..Len(y)
      /\ Len(x \o y) = Len(x) + Len(y)
  BY <1>1
<1>6. CASE s = TRUE
  <2>1. i \in 1..Len(x) /\ (x \o y)[i] = x[i]
    BY <1>1, <1>3, <1>5, <1>6
  <2>2. i \in 1..Len(x \o y)
    BY <1>5, <2>1
  <2>3. QED
    BY <1>2, <1>3, <1>6, <2>1, <2>2
<1>7. CASE s = FALSE
  <2> DEFINE k == Len(x) + i
  <2>1. i \in 1..Len(y)
    BY <1>4, <1>5, <1>7
  <2>2. k \in Len(x) + 1..Len(x) + Len(y) /\ k - Len(x) = i
    BY <1>5, <2>1
  <2>3. k \in 1..Len(x \o y) /\ (x \o y)[k] = y[i]
    BY <1>1, <1>5, <2>2
  <2>4. QED
    BY <1>2, <1>4, <1>7, <2>3
<1>8. QED
  BY <1>6, <1>7

(* A final clearing.                                                        *)
Final(c, n) == Shaped(c) /\ n = Len(all_entries(c)) /\ FairEnd(c, batch, frozen, n)

(* What the fills of an order add up to.                                    *)
LEMMA FilledIsFill ==
    ASSUME BatchOK, NEW n, Final(clearing, n), NEW s \in BOOLEAN,
           NEW i \in DOMAIN clearing.entries[s]
    PROVE  filled(clearing.entries[s][i].order_index) = FillOf(clearing, s, i)
<1> DEFINE c == clearing
           all == all_entries(c)
           e == c.entries[s][i]
           x == e.order_index
           I == fills_at(x)
           g == [k \in I |-> c.fills[k].base_sats]
<1>1. Shaped(c) /\ n = Len(all) /\ Book(c, batch, Len(batch.revealed)) /\ FillsOf(c, n)
  BY DEF Final, FairEnd
<1>2. PICK p \in 1..n : all[p] = e
  <2>1. \E k \in 1..Len(all) : all[k] = e
    BY <1>1, InAll
  <2>2. QED
    BY <1>1, <2>1
<1>3. \A j, k \in 1..n : all[j].order_index = all[k].order_index => j = k
  <2>1. DOMAIN all = 1..n
    BY <1>1, AllEntries
  <2>2. QED
    BY <1>1, <2>1, AllDistinct
<1>4. filled(x) = SumOf(g, I)
  BY DEF filled, total_over, SumOf
<1>5. e \in Entry /\ e.fill_base \in Nat /\ FillOf(c, s, i) = e.fill_base
  <2>1. c.entries[s] \in Seq(Entry)
    BY <1>1 DEF Shaped, EntriesOK
  <2>2. e \in Entry
    BY <2>1
  <2>3. FillOf(c, s, i) = e.fill_base
    BY DEF FillOf
  <2> HIDE DEF e
  <2>4. QED
    BY <2>2, <2>3 DEF Entry
<1>6. \A k \in I : k \in DOMAIN c.fills /\ c.fills[k].order_index = x
  BY DEF fills_at
<1>7. \A k \in DOMAIN c.fills : c.fills[k].order_index = x => k \in I
  BY DEF fills_at
<1> HIDE DEF e, x, I, all
<1>8. x = all[p].order_index /\ e.fill_base = all[p].fill_base
  BY <1>2 DEF x
<1>9. \A k \in DOMAIN c.fills : \E m \in 1..n :
          /\ c.fills[k].order_index = all[m].order_index
          /\ c.fills[k].base_sats = all[m].fill_base
  BY <1>1 DEF FillsOf, all
<1>10. /\ \A k, l \in DOMAIN c.fills : c.fills[k].order_index = c.fills[l].order_index => k = l
       /\ \A m \in 1..n : all[m].fill_base # 0 =>
             \E k \in DOMAIN c.fills : c.fills[k].order_index = all[m].order_index
  BY <1>1 DEF FillsOf, all
<1>11. ASSUME NEW k \in I
       PROVE  g[k] = e.fill_base
  <2>1. PICK m \in 1..n : /\ c.fills[k].order_index = all[m].order_index
                          /\ c.fills[k].base_sats = all[m].fill_base
    BY <1>6, <1>9
  <2>2. m = p
    BY <1>3, <1>6, <1>8, <2>1
  <2>3. QED
    BY <1>8, <2>1, <2>2
<1> HIDE DEF g
<1>12. CASE I = {}
  <2>1. e.fill_base = 0
    BY <1>7, <1>8, <1>10, <1>12
  <2>2. SumOf(g, I) = 0
    BY <1>12, SumEmpty
  <2>3. QED
    BY <1>4, <1>5, <2>1, <2>2 DEF x, e
<1>13. CASE I # {}
  <2>1. PICK k : k \in I
    BY <1>13
  <2>2. I = {k}
    BY <1>6, <1>10, <2>1
  <2>3. IsFiniteSet({k}) /\ \A j \in {k} : g[j] \in Int
    <3>1. IsFiniteSet({k})
      BY FS_Singleton
    <3>2. g[k] = e.fill_base
      BY <1>11, <2>1
    <3>3. QED
      BY <1>5, <3>1, <3>2
  <2>4. SumOf(g, {k}) = g[k] + SumOf(g, {k} \ {k})
    BY <2>3, SumTakesOut
  <2>5. SumOf(g, {k} \ {k}) = 0
    <3>1. {k} \ {k} = {}
      OBVIOUS
    <3>2. QED
      BY <3>1, SumEmpty
  <2>6. SumOf(g, I) = e.fill_base
    BY <1>5, <1>11, <2>1, <2>2, <2>4, <2>5
  <2>7. QED
    BY <1>4, <1>5, <2>6 DEF x, e
<1>14. QED
  BY <1>12, <1>13

(* Who is paid for in full.                                                 *)
LEMMA PaysIsPaid ==
    ASSUME BatchOK, NEW who
    PROVE  paid_in_full(who) <=> Pays(batch, clearing.alloc.clearing_price, frozen, who)
<1> DEFINE p == clearing.alloc.clearing_price
           asked(s) == {i \in revealed : order_at(i).submitter = who /\ order_at(i).is_bid = s}
           q == [i \in asked(TRUE) |-> quote_of_bid(order_at(i).qty_sats, p)]
           r == [i \in asked(FALSE) |-> order_at(i).qty_sats]
<1>1. \A s \in BOOLEAN : asked(s) = AskedOf(batch, who, s)
  BY DEF AskedOf, revealed, order_at
<1>2. paid_in_full(who) <=> /\ SumOf(q, asked(TRUE)) <= frozen[who].quote
                            /\ SumOf(r, asked(FALSE)) <= frozen[who].base
  BY DEF paid_in_full, total_over, SumOf
<1>3. IsFiniteSet(DOMAIN batch.revealed)
  <2>1. PICK b \in Batches : batch.revealed = b.revealed
    BY DEF BatchOK
  <2>2. batch.revealed \in Seq([submitter : Nat, is_bid : BOOLEAN,
                                 limit_price : Nat, qty_sats : Nat])
    BY <2>1, ClearingAssumption
  <2>3. DOMAIN batch.revealed = 1..Len(batch.revealed)
    BY <2>2
  <2>4. IsFiniteSet(1..Len(batch.revealed))
    BY RevealedLength, FS_Interval
  <2>5. QED
    BY <2>3, <2>4
<1>4. \A s \in BOOLEAN : asked(s) \subseteq DOMAIN batch.revealed /\ IsFiniteSet(asked(s))
  <2>1. \A s \in BOOLEAN : asked(s) \subseteq DOMAIN batch.revealed
    BY DEF revealed
  <2> HIDE DEF asked
  <2>2. QED
    BY <1>3, <2>1, FS_Subset
<1>5. \A i \in asked(TRUE) : q[i] = Bill(batch, p, TRUE)[i]
  <2>1. \A i \in DOMAIN batch.revealed :
            quote_of_bid(order_at(i).qty_sats, p) = Bill(batch, p, TRUE)[i]
    BY DEF Bill, CostOf, order_at
  <2> HIDE DEF asked, p
  <2>2. QED
    BY <1>4, <2>1
<1>6. \A i \in asked(FALSE) : r[i] = Bill(batch, p, FALSE)[i]
  <2>1. \A i \in DOMAIN batch.revealed : order_at(i).qty_sats = Bill(batch, p, FALSE)[i]
    BY DEF Bill, CostOf, order_at
  <2> HIDE DEF asked, p
  <2>2. QED
    BY <1>4, <2>1
<1> HIDE DEF asked, q, r, p
<1>7. /\ SumOf(q, asked(TRUE)) = SumOf(Bill(batch, p, TRUE), AskedOf(batch, who, TRUE))
      /\ SumOf(r, asked(FALSE)) = SumOf(Bill(batch, p, FALSE), AskedOf(batch, who, FALSE))
  <2>1. SumOf(q, asked(TRUE)) = SumOf(Bill(batch, p, TRUE), asked(TRUE))
    BY <1>4, <1>5, SumSame
  <2>2. SumOf(r, asked(FALSE)) = SumOf(Bill(batch, p, FALSE), asked(FALSE))
    BY <1>4, <1>6, SumSame
  <2>3. QED
    BY <1>1, <2>1, <2>2
<1>8. Pays(batch, p, frozen, who) <=>
          /\ SumOf(Bill(batch, p, TRUE), AskedOf(batch, who, TRUE)) <= frozen[who].quote
          /\ SumOf(Bill(batch, p, FALSE), AskedOf(batch, who, FALSE)) <= frozen[who].base
  BY DEF Pays, Held
<1>9. QED
  BY <1>2, <1>7, <1>8 DEF p

(* The entry of a revealed order.                                           *)
Stands(c, k, s, i) ==
    /\ s \in BOOLEAN /\ i \in DOMAIN c.entries[s]
    /\ c.entries[s][i].order_index = k
    /\ order_at(k).is_bid = s /\ order_at(k).limit_price = LimitOf(c, s, i)
    /\ order_at(k).submitter = c.entries[s][i].submitter
    /\ order_at(k).qty_sats = OrderQty(c, batch, s, i)

(* Every revealed order has an entry once the fills are final.              *)
LEMMA RevealedStands ==
    ASSUME BatchOK, NEW n, Final(clearing, n), NEW k \in revealed
    PROVE  \E s, i : Stands(clearing, k, s, i)
<1> DEFINE c == clearing
           l == Len(batch.revealed)
<1>1. k \in 1..l /\ batch.is_revealed[k]
  <2>1. PICK b \in Batches : batch.revealed = b.revealed
    BY DEF BatchOK
  <2>2. batch.revealed \in Seq([submitter : Nat, is_bid : BOOLEAN,
                                 limit_price : Nat, qty_sats : Nat])
    BY <2>1, ClearingAssumption
  <2>3. DOMAIN batch.revealed = 1..l
    BY <2>2
  <2>4. QED
    BY <2>3 DEF revealed
<1>2. Book(c, batch, l)
  BY DEF Final, FairEnd
<1> HIDE DEF l
<1>3. PICK s \in BOOLEAN : \E i \in DOMAIN c.entries[s] : c.entries[s][i].order_index = k
  BY <1>1, <1>2 DEF Book, Complete
<1>4. PICK i \in DOMAIN c.entries[s] : c.entries[s][i].order_index = k
  BY <1>3
<1>5. /\ OrderOf(batch, c.entries[s][i]).submitter = c.entries[s][i].submitter
      /\ OrderOf(batch, c.entries[s][i]).is_bid = s
      /\ OrderOf(batch, c.entries[s][i]).limit_price = c.entries[s][i].limit_price
      /\ OrderOf(batch, c.entries[s][i]) = batch.revealed[k]
  BY <1>2, <1>4 DEF Book, Traced, OrderOf
<1>6. Stands(c, k, s, i)
  BY <1>4, <1>5 DEF Stands, order_at, LimitOf, OrderQty
<1>7. QED
  BY <1>6

(* A clearing whose fills are final.                                        *)
LEMMA DecidedIsFinal ==
    ASSUME Inv, FairInv, decided
    PROVE  \E n : Final(clearing, n)
<1>1. clearing # NoClearing /\ clearing.stage \in {STAGE_SETTLING, STAGE_DONE}
  BY DEF decided, settling, finished, at_stage
<1>2. Shaped(clearing)
  BY <1>1 DEF Inv, ClearingInv, ClearingOK
<1>3. FairEnd(clearing, batch, frozen, Len(all_entries(clearing)))
  BY <1>1 DEF FairInv, FairlyCleared
<1>4. QED
  BY <1>2, <1>3 DEF Final

(* Once the fills are final, the better price comes first: an order of a    *)
(* worse price than one that could pay and was not filled whole gets        *)
(* nothing, through truncation and the second pass.                         *)
THEOREM PriceHasPriority == Spec => []PricePriority
<1>1. Inv /\ FairInv => PricePriority
  <2> SUFFICES ASSUME Inv, FairInv, decided, NEW i \in revealed, NEW j \in revealed,
                      order_at(i).is_bid = order_at(j).is_bid,
                      IF order_at(i).is_bid
                      THEN order_at(i).limit_price > order_at(j).limit_price
                      ELSE order_at(i).limit_price < order_at(j).limit_price,
                      paid_in_full(order_at(i).submitter), filled(i) < order_at(i).qty_sats
               PROVE  filled(j) = 0
    BY DEF PricePriority
  <2>1. BatchOK
    BY DEF Inv
  <2>2. PICK n : Final(clearing, n)
    BY DecidedIsFinal
  <2>3. PICK s, x : Stands(clearing, i, s, x)
    BY <2>1, <2>2, RevealedStands
  <2>4. PICK t, y : Stands(clearing, j, t, y)
    BY <2>1, <2>2, RevealedStands
  <2>5. s = t /\ s \in BOOLEAN /\ x \in DOMAIN clearing.entries[s]
        /\ y \in DOMAIN clearing.entries[s]
    BY <2>3, <2>4 DEF Stands
  <2>6. Better(s, LimitOf(clearing, s, x), LimitOf(clearing, s, y))
    BY <2>3, <2>4, <2>5 DEF Stands, Better
  <2>7. PaidFor(clearing, batch, frozen, s, x)
    BY <2>1, <2>3, PaysIsPaid DEF Stands, PaidFor
  <2>8. filled(i) = FillOf(clearing, s, x) /\ filled(j) = FillOf(clearing, s, y)
    BY <2>1, <2>2, <2>3, <2>4, <2>5, FilledIsFill DEF Stands
  <2>9. FillOf(clearing, s, x) < OrderQty(clearing, batch, s, x)
    BY <2>3, <2>8 DEF Stands
  <2>10. Outcome(clearing, batch, frozen)
    BY <2>2 DEF Final, FairEnd
  <2>11. FillOf(clearing, s, y) = 0
    BY <2>5, <2>6, <2>7, <2>9, <2>10 DEF Outcome
  <2>12. QED
    BY <2>8, <2>11
<1>2. QED
  BY <1>1, Invariance, FairInvariance, PTL

(* Nobody is first in a batch: two orders alike that could both pay are     *)
(* filled alike, up to a sat, whatever their places in the book.            *)
THEOREM NobodyIsFirst == Spec => []NoFirstInBatch
<1>1. Inv /\ FairInv => NoFirstInBatch
  <2> SUFFICES ASSUME Inv, FairInv, decided, NEW i \in revealed, NEW j \in revealed,
                      order_at(i).is_bid = order_at(j).is_bid,
                      order_at(i).limit_price = order_at(j).limit_price,
                      order_at(i).qty_sats = order_at(j).qty_sats,
                      paid_in_full(order_at(i).submitter), paid_in_full(order_at(j).submitter)
               PROVE  abs_diff_u64(filled(i), filled(j)) <= 1
    BY DEF NoFirstInBatch
  <2>1. BatchOK
    BY DEF Inv
  <2>2. PICK n : Final(clearing, n)
    BY DecidedIsFinal
  <2>3. PICK s, x : Stands(clearing, i, s, x)
    BY <2>1, <2>2, RevealedStands
  <2>4. PICK t, y : Stands(clearing, j, t, y)
    BY <2>1, <2>2, RevealedStands
  <2>5. s = t /\ s \in BOOLEAN /\ x \in DOMAIN clearing.entries[s]
        /\ y \in DOMAIN clearing.entries[s]
    BY <2>3, <2>4 DEF Stands
  <2>6. LimitOf(clearing, s, x) = LimitOf(clearing, s, y)
        /\ OrderQty(clearing, batch, s, x) = OrderQty(clearing, batch, s, y)
    BY <2>3, <2>4, <2>5 DEF Stands
  <2>7. PaidFor(clearing, batch, frozen, s, x) /\ PaidFor(clearing, batch, frozen, s, y)
    BY <2>1, <2>3, <2>4, <2>5, PaysIsPaid DEF Stands, PaidFor
  <2>8. filled(i) = FillOf(clearing, s, x) /\ filled(j) = FillOf(clearing, s, y)
    BY <2>1, <2>2, <2>3, <2>4, <2>5, FilledIsFill DEF Stands
  <2>9. Outcome(clearing, batch, frozen)
    BY <2>2 DEF Final, FairEnd
  <2>10. /\ FillOf(clearing, s, x) <= FillOf(clearing, s, y) + 1
         /\ FillOf(clearing, s, y) <= FillOf(clearing, s, x) + 1
    BY <2>5, <2>6, <2>7, <2>9 DEF Outcome
  <2>11. FillOf(clearing, s, x) \in Nat /\ FillOf(clearing, s, y) \in Nat
    <3>1. clearing.entries[s] \in Seq(Entry)
      BY <2>2, <2>5 DEF Final, Shaped, EntriesOK
    <3>2. clearing.entries[s][x] \in Entry /\ clearing.entries[s][y] \in Entry
      BY <2>5, <3>1
    <3>3. QED
      BY <3>2 DEF Entry, FillOf
  <2> DEFINE f == FillOf(clearing, s, x)
             g == FillOf(clearing, s, y)
  <2>12. f \in Nat /\ g \in Nat /\ f <= g + 1 /\ g <= f + 1
    BY <2>10, <2>11
  <2>13. filled(i) = f /\ filled(j) = g
    BY <2>8
  <2> HIDE DEF f, g
  <2>14. abs_diff_u64(f, g) <= 1
    BY <2>12 DEF abs_diff_u64
  <2>15. QED
    BY <2>13, <2>14
<1>2. QED
  BY <1>1, Invariance, FairInvariance, PTL

=============================================================================
