----------------------------- MODULE PriceProofs -----------------------------
(***************************************************************************)
(* That the price of a clearing is the best there is for what was ordered: *)
(* no price would let more of it trade, none that an order names as much   *)
(* with less left over, nor, on a tie, for less; for any orders, in any    *)
(* order of arrival, and whatever happens to the accounts while it runs.   *)
(*                                                                         *)
(* The price is looked for once, before anything is filled: PriceInv says  *)
(* that the candidates are the prices the book names, ascending, that the  *)
(* two scans and their totals are those of the candidate looked at last,   *)
(* and that of those looked at so far the best is known.  The book is the  *)
(* orders revealed, nothing cut, so what is best of it is best of them;    *)
(* and no later stage touches the price.                                   *)
(***************************************************************************)
EXTENDS PriorityProofs, ClearingRefinement

-----------------------------------------------------------------------------
(* What trades at a price. *)

(* The entries of a side that trade at price p, ...                         *)
TradesAt(c, s, p) == {i \in DOMAIN c.entries[s] : Trades(s, LimitOf(c, s, i), p)}

(* ... what they ask for together, ...                                      *)
Offered(c, s, p) == SumOf(Quantities(c.entries[s]), TradesAt(c, s, p))

(* ... what of it finds a counterpart, ...                                  *)
VolumeAt(c, p) == min_u64(Offered(c, TRUE, p), Offered(c, FALSE, p))

(* ... and what is left over.                                               *)
GapAt(c, p) == abs_diff_u64(Offered(c, TRUE, p), Offered(c, FALSE, p))

(* Price p is chosen before price r: more volume, then less left over, then *)
(* the lower price.                                                         *)
Beats(c, p, r) ==
    \/ VolumeAt(c, p) > VolumeAt(c, r)
    \/ /\ VolumeAt(c, p) = VolumeAt(c, r)
       /\ GapAt(c, p) < GapAt(c, r) \/ (GapAt(c, p) = GapAt(c, r) /\ p < r)

(* These are numbers.                                                       *)
LEMMA TradesFacts ==
    ASSUME NEW c, Shaped(c), NEW p
    PROVE  /\ \A s \in BOOLEAN :
                 /\ TradesAt(c, s, p) \subseteq DOMAIN c.entries[s]
                 /\ IsFiniteSet(TradesAt(c, s, p))
                 /\ \A i \in TradesAt(c, s, p) : Quantities(c.entries[s])[i] \in Nat
                 /\ Offered(c, s, p) \in Nat
           /\ VolumeAt(c, p) \in Nat /\ GapAt(c, p) \in Nat
<1>1. ASSUME NEW s \in BOOLEAN
      PROVE  /\ TradesAt(c, s, p) \subseteq DOMAIN c.entries[s]
             /\ IsFiniteSet(TradesAt(c, s, p))
             /\ \A i \in TradesAt(c, s, p) : Quantities(c.entries[s])[i] \in Nat
             /\ Offered(c, s, p) \in Nat
  <2> DEFINE T == TradesAt(c, s, p)
             es == c.entries[s]
  <2>1. es \in Seq(Entry)
    BY DEF Shaped, EntriesOK
  <2>2. T \subseteq DOMAIN es
    BY DEF TradesAt
  <2> HIDE DEF T, es
  <2>3. /\ IsFiniteSet(T) /\ qty_over(es, T) = SumOf(Quantities(es), T)
        /\ qty_over(es, T) \in Nat /\ \A i \in T : Quantities(es)[i] \in Nat
    BY <2>1, <2>2, QtyOver
  <2>4. SumOf(Quantities(es), T) \in Nat
    BY <2>3
  <2>5. QED
    BY <2>2, <2>3, <2>4 DEF Offered, T, es
<1>2. Offered(c, TRUE, p) \in Nat /\ Offered(c, FALSE, p) \in Nat
  BY <1>1
<1> DEFINE a == Offered(c, TRUE, p)
           b == Offered(c, FALSE, p)
<1>3. a \in Nat /\ b \in Nat
  BY <1>2
<1> HIDE DEF a, b
<1>4. min_u64(a, b) \in Nat
  BY <1>3 DEF min_u64
<1>5. abs_diff_u64(a, b) \in Nat
  BY <1>3 DEF abs_diff_u64
<1>6. QED
  BY <1>1, <1>4, <1>5 DEF VolumeAt, GapAt, a, b

(* What trades at no more prices trades no more.                            *)
LEMMA LessTrades ==
    ASSUME NEW c, Shaped(c), NEW s \in BOOLEAN, NEW p, NEW r,
           TradesAt(c, s, p) \subseteq TradesAt(c, s, r)
    PROVE  Offered(c, s, p) <= Offered(c, s, r)
<1> DEFINE S == TradesAt(c, s, p)
           T == TradesAt(c, s, r)
           U == T \ S
           f == Quantities(c.entries[s])
<1>1. IsFiniteSet(S) /\ IsFiniteSet(T) /\ \A i \in T : f[i] \in Nat
  BY TradesFacts
<1>2. S \subseteq T
  OBVIOUS
<1> HIDE DEF S, T, f
<1>3. IsFiniteSet(U) /\ S \cap U = {} /\ T = S \cup U
  BY <1>1, <1>2, FS_Subset
<1>4. \A i \in S \cup U : f[i] \in Int
  BY <1>1, <1>3
<1>5. \A i \in U : f[i] \in Nat
  BY <1>1
<1>6. \A i \in S : f[i] \in Nat
  BY <1>1, <1>2
<1> HIDE DEF U
<1>7. SumOf(f, T) = SumOf(f, S) + SumOf(f, U)
  BY <1>1, <1>3, <1>4, SumUnion
<1>8. SumOf(f, S) \in Nat
  BY <1>1, <1>6, SumNat
<1>9. SumOf(f, U) \in Nat
  BY <1>3, <1>5, SumNat
<1>10. SumOf(f, S) <= SumOf(f, T)
  BY <1>7, <1>8, <1>9
<1>11. QED
  BY <1>10 DEF Offered, S, T, f

(* The best of some prices stays the best beside one that does not beat it. *)
LEMMA BeatsThrough ==
    ASSUME NEW c, Shaped(c), NEW p \in Int, NEW r \in Int, NEW x \in Int,
           ~Beats(c, x, r), Beats(c, p, r)
    PROVE  ~Beats(c, x, p)
<1>1. /\ VolumeAt(c, p) \in Nat /\ GapAt(c, p) \in Nat
      /\ VolumeAt(c, r) \in Nat /\ GapAt(c, r) \in Nat
      /\ VolumeAt(c, x) \in Nat /\ GapAt(c, x) \in Nat
  BY TradesFacts
<1> DEFINE a == VolumeAt(c, p)
           b == GapAt(c, p)
           k == VolumeAt(c, r)
           l == GapAt(c, r)
           m == VolumeAt(c, x)
           n == GapAt(c, x)
<1>2. /\ ~(m > k \/ (m = k /\ (n < l \/ (n = l /\ x < r))))
      /\ a > k \/ (a = k /\ (b < l \/ (b = l /\ p < r)))
      /\ a \in Nat /\ b \in Nat /\ k \in Nat /\ l \in Nat /\ m \in Nat /\ n \in Nat
  BY <1>1 DEF Beats
<1> HIDE DEF a, b, k, l, m, n
<1>3. ~(m > a \/ (m = a /\ (n < b \/ (n = b /\ x < p))))
  BY <1>2
<1>4. QED
  BY <1>3 DEF Beats, a, b, m, n

-----------------------------------------------------------------------------
(* The scans. *)

(* Where the scans go for price p: the bids shrink to it, ...               *)
BidScan(c, p) ==
    Max({0} \cup {i \in 1..c.pricing.bid_scan : c.entries[TRUE][i].limit_price >= p})

(* ... and the asks go on from where they are.                              *)
AskScan(c, p) ==
    c.pricing.ask_scan
      + prefix(SubSeq(c.entries[FALSE], c.pricing.ask_scan + 1, Len(c.entries[FALSE])),
               LAMBDA e : e.limit_price <= p)

(* The bids that trade at a price are those gone over less the ones that do *)
(* not any more.                                                            *)
LEMMA BidsLeave ==
    ASSUME NEW c, Shaped(c), Ranked(c), NEW l \in Nat, NEW p \in Nat, l <= p,
           NEW n \in 0..Len(c.entries[TRUE]), n = c.pricing.bid_scan,
           TradesAt(c, TRUE, l) = 1..n
    PROVE  BidScan(c, p) \in 0..n /\ TradesAt(c, TRUE, p) = 1..BidScan(c, p)
<1> DEFINE m == BidScan(c, p)
           es == c.entries[TRUE]
           S == {i \in 1..n : es[i].limit_price >= p}
<1>1. es \in Seq(Entry)
  BY DEF Shaped, EntriesOK
<1>2. \A i, j \in DOMAIN es : i < j => ~(es[j].limit_price > es[i].limit_price)
  BY DEF Ranked, LimitOf, Better
<1>3. \A i \in DOMAIN es : es[i].limit_price >= l <=> i \in 1..n
  BY DEF TradesAt, Trades, LimitOf
<1>4. m = Max({0} \cup S)
  BY DEF BidScan
<1> HIDE DEF es, m
<1>5. \A i \in DOMAIN es : es[i].limit_price \in Nat
  <2> SUFFICES ASSUME NEW i \in DOMAIN es
               PROVE  es[i].limit_price \in Nat
    OBVIOUS
  <2>1. es[i] \in Entry
    BY <1>1
  <2>2. QED
    BY <2>1 DEF Entry
<1>6. n \in Nat /\ S \subseteq 0..n /\ DOMAIN es = 1..Len(es) /\ Len(es) \in Nat /\ n <= Len(es)
  <2>1. n \in 0..Len(es)
    BY DEF es
  <2>2. Len(es) \in Nat /\ DOMAIN es = 1..Len(es)
    BY <1>1
  <2>3. QED
    BY <2>1, <2>2
<1>7. m \in {0} \cup S /\ \A i \in S : i <= m
  <2> HIDE DEF S
  <2>1. QED
    BY <1>4, <1>6, AtMost
<1>8. \A i \in 1..n : i \in S <=> es[i].limit_price >= p
  OBVIOUS
<1>a. S \subseteq 1..n
  OBVIOUS
<1> HIDE DEF S
<1>b. m \in 0..n
  BY <1>6, <1>7, <1>a
<1>9. ASSUME NEW i \in DOMAIN es
      PROVE  es[i].limit_price >= p <=> i \in 1..m
  <2>1. CASE es[i].limit_price >= p
    <3>1. es[i].limit_price >= l
      BY <1>5, <2>1
    <3>2. i \in S
      BY <1>3, <1>8, <2>1, <3>1
    <3>3. i <= m
      BY <1>7, <3>2
    <3>4. i \in 1..m
      BY <1>6, <1>b, <3>3
    <3>5. QED
      BY <2>1, <3>4
  <2>2. CASE i \in 1..m
    <3>1. m \in S
      BY <1>7, <2>2
    <3>2. m \in DOMAIN es /\ es[m].limit_price >= p
      BY <1>6, <1>8, <1>a, <3>1
    <3>3. i = m \/ ~(es[m].limit_price > es[i].limit_price)
      BY <1>2, <1>b, <2>2, <3>2
    <3>4. QED
      BY <1>5, <2>2, <3>2, <3>3
  <2>3. QED
    BY <2>1, <2>2
<1>10. 1..m \subseteq DOMAIN es
  <2> SUFFICES ASSUME NEW i \in 1..m
               PROVE  i \in 1..Len(es)
    BY <1>6
  <2>1. i \in Nat /\ 1 <= i /\ i <= m /\ m <= n
    BY <1>6, <1>b
  <2>2. i <= Len(es)
    BY <1>6, <1>b, <2>1
  <2>3. QED
    BY <1>6, <2>1, <2>2
<1>11. TradesAt(c, TRUE, p) = {i \in DOMAIN es : es[i].limit_price >= p}
  BY DEF TradesAt, Trades, LimitOf, es
<1>12. QED
  BY <1>b, <1>9, <1>10, <1>11 DEF m

(* Where a scan stops, n places in all: it goes over places in P and stops  *)
(* at the first that is not.                                                *)
LEMMA ScanStops ==
    ASSUME NEW n \in Nat, NEW P, NEW S, S = {j \in 0..n : \A i \in 1..j : i \in P},
           NEW k, k = Max(S)
    PROVE  k \in 0..n /\ (\A i \in 1..k : i \in P) /\ (k + 1 <= n => k + 1 \notin P)
<1>1. IsFiniteSet(0..n) /\ 0..n \subseteq Int
  BY FS_Interval
<1>2. S \subseteq 0..n /\ 0 \in S /\ k = Max(S)
  OBVIOUS
<1>3. \A j \in 0..n : j \in S <=> \A i \in 1..j : i \in P
  OBVIOUS
<1>4. IsFiniteSet(S) /\ S \subseteq Int /\ S # {}
  BY <1>1, <1>2, FS_Subset
<1>5. k \in S /\ \A x \in S : x <= k
  BY <1>2, <1>4, MaxOfSet
<1>6. k \in 0..n /\ \A i \in 1..k : i \in P
  BY <1>2, <1>3, <1>5
<1>7. ASSUME k + 1 <= n, k + 1 \in P
      PROVE  FALSE
  <2>1. k + 1 \in 0..n /\ \A i \in 1..(k + 1) : i \in 1..k \/ i = k + 1
    BY <1>6, <1>7
  <2>2. \A i \in 1..(k + 1) : i \in P
    BY <1>6, <1>7, <2>1
  <2>3. k + 1 <= k
    BY <1>3, <1>5, <2>1, <2>2
  <2>4. QED
    BY <1>6, <2>3
<1>8. QED
  BY <1>6, <1>7

(* In numbers that do not descend, those up to p come first.                *)
LEMMA UpTo ==
    ASSUME NEW len \in Nat, NEW f, \A i \in 1..len : f[i] \in Nat,
           \A i, j \in 1..len : i < j => ~(f[j] < f[i]),
           NEW p \in Nat, NEW m \in 0..len,
           m > 0 => f[m] <= p, m < len => ~(f[m + 1] <= p)
    PROVE  \A i \in 1..len : f[i] <= p <=> i <= m
<1> SUFFICES ASSUME NEW i \in 1..len
             PROVE  f[i] <= p <=> i <= m
  OBVIOUS
<1>1. CASE i <= m
  <2>1. m \in 1..len /\ (i = m \/ i < m) /\ m > 0
    BY <1>1
  <2>2. f[m] <= p /\ (i = m \/ ~(f[m] < f[i])) /\ f[m] \in Nat /\ f[i] \in Nat
    BY <2>1
  <2>3. QED
    BY <1>1, <2>2
<1>2. CASE m < i
  <2> DEFINE z == m + 1
  <2>1. z \in 1..len /\ (i = z \/ z < i) /\ m < len
    BY <1>2
  <2>2. ~(f[z] <= p)
    BY <2>1
  <2>3. (i = z \/ ~(f[i] < f[z])) /\ f[z] \in Nat /\ f[i] \in Nat
    BY <2>1
  <2> HIDE DEF z
  <2>4. QED
    BY <1>2, <2>2, <2>3
<1>3. QED
  BY <1>1, <1>2

(* The places gone over and the ones a scan goes over now.                  *)
LEMMA ScannedUpTo ==
    ASSUME NEW len \in Nat, NEW f, \A i \in 1..len : f[i] \in Nat,
           \A i, j \in 1..len : i < j => ~(f[j] < f[i]),
           NEW l \in Nat, NEW p \in Nat, l <= p, NEW n \in 0..len,
           \A i \in 1..len : f[i] <= l <=> i <= n,
           NEW k \in 0..(len - n), \A j \in 1..k : f[n + j] <= p,
           k + 1 <= len - n => ~(f[n + (k + 1)] <= p)
    PROVE  n + k \in n..len /\ \A i \in 1..len : f[i] <= p <=> i <= n + k
<1> DEFINE m == n + k
<1>1. m \in n..len /\ m \in 0..len
  OBVIOUS
<1>2. m > 0 => f[m] <= p
  <2>1. CASE k = 0
    <3>1. n > 0 => n \in 1..len /\ f[n] <= l /\ f[n] \in Nat
      OBVIOUS
    <3>2. m = n
      BY <2>1
    <3> HIDE DEF m
    <3>3. QED
      BY <3>1, <3>2
  <2>2. CASE k # 0
    <3>1. k \in 1..k
      BY <2>2
    <3>2. QED
      BY <3>1
  <2>3. QED
    BY <2>1, <2>2
<1>3. m < len => ~(f[m + 1] <= p)
  <2>1. m < len => k + 1 <= len - n /\ n + (k + 1) = m + 1
    OBVIOUS
  <2> HIDE DEF m
  <2>2. QED
    BY <2>1
<1> HIDE DEF m
<1>4. \A i \in 1..len : f[i] <= p <=> i <= m
  BY <1>1, <1>2, <1>3, UpTo
<1>5. QED
  BY <1>1, <1>4 DEF m

(* The asks that trade at a price are those gone over and the ones that do  *)
(* now.                                                                     *)
LEMMA AsksJoin ==
    ASSUME NEW c, Shaped(c), Ranked(c), NEW l \in Nat, NEW p \in Nat, l <= p,
           NEW n \in 0..Len(c.entries[FALSE]), TradesAt(c, FALSE, l) = 1..n
    PROVE  n = c.pricing.ask_scan => /\ AskScan(c, p) \in n..Len(c.entries[FALSE])
                                     /\ TradesAt(c, FALSE, p) = 1..AskScan(c, p)
<1> DEFINE es == c.entries[FALSE]
           len == Len(es)
           rest == SubSeq(es, n + 1, len)
           more == len - n
           f == [i \in 1..len |-> es[i].limit_price]
           P == {j \in 1..more : f[n + j] <= p}
           k == Max({j \in 0..Len(rest) : \A i \in 1..j : rest[i].limit_price <= p})
<1>1. es \in Seq(Entry)
  BY DEF Shaped, EntriesOK
<1>2. \A i, j \in DOMAIN es : i < j => ~(es[j].limit_price < es[i].limit_price)
  BY DEF Ranked, LimitOf, Better
<1>3. \A i \in DOMAIN es : es[i].limit_price <= l <=> i \in 1..n
  BY DEF TradesAt, Trades, LimitOf
<1>4. n \in 0..len
  OBVIOUS
<1>5. TradesAt(c, FALSE, p) = {i \in DOMAIN es : es[i].limit_price <= p}
  BY DEF TradesAt, Trades, LimitOf
<1> SUFFICES n + k \in n..len /\ {i \in DOMAIN es : es[i].limit_price <= p} = 1..(n + k)
  <2>1. n = c.pricing.ask_scan => AskScan(c, p) = n + k
    BY DEF AskScan, prefix
  <2> HIDE DEF k
  <2>2. QED
    BY <1>5, <2>1
<1> HIDE DEF es
<1>6. len \in Nat /\ DOMAIN es = 1..len /\ \A i \in 1..len : es[i] \in Entry
  BY <1>1
<1>7. n \in Nat /\ n <= len /\ more \in Nat
  BY <1>4, <1>6
<1>8. Len(rest) = more /\ \A j \in 1..more : rest[j] = es[n + j] /\ n + j \in 1..len
  <2>1. \A j \in 1..more : n + j \in 1..len
    BY <1>6, <1>7
  <2>2. Len(rest) = more
    <3>1. Len(rest) = IF n + 1 <= len THEN len - (n + 1) + 1 ELSE 0
      BY <1>1, <1>6, <1>7
    <3> HIDE DEF rest, len
    <3>2. QED
      BY <1>6, <1>7, <3>1
  <2>3. \A j \in 1..more : rest[j] = es[n + j]
    BY <1>1, <1>6, <1>7
  <2>4. QED
    BY <2>1, <2>2, <2>3
<1> HIDE DEF len, rest
<1>9. \A i \in 1..len : f[i] = es[i].limit_price /\ f[i] \in Nat
  BY <1>6 DEF Entry
<1> HIDE DEF f
<1> DEFINE T == {j \in 0..more : \A i \in 1..j : i \in P}
<1>10. k = Max(T)
  <2>1. \A i \in 1..more : rest[i].limit_price <= p <=> i \in P
    BY <1>8, <1>9
  <2>2. \A j \in 0..more : \A i \in 1..j : i \in 1..more
    BY <1>7
  <2> HIDE DEF P, more
  <2>3. {j \in 0..Len(rest) : \A i \in 1..j : rest[i].limit_price <= p}
          = T
    BY <1>8, <2>1, <2>2
  <2>4. QED
    BY <2>3
<1> HIDE DEF k
<1>11. k \in 0..more /\ (\A i \in 1..k : i \in P) /\ (k + 1 <= more => k + 1 \notin P)
  <2> HIDE DEF P, more
  <2>1. T = {j \in 0..more : \A i \in 1..j : i \in P}
    OBVIOUS
  <2> HIDE DEF T
  <2>2. QED
    BY <1>7, <1>10, <2>1, ScanStops
<1>12. \A j \in 1..k : f[n + j] <= p
  BY <1>11
<1>13. k + 1 <= more => ~(f[n + (k + 1)] <= p)
  <2>1. k + 1 <= more => k + 1 \in 1..more
    BY <1>7, <1>11
  <2>2. QED
    BY <1>11, <2>1
<1>14. \A i, j \in 1..len : i < j => ~(f[j] < f[i])
  BY <1>2, <1>6, <1>9
<1>15. \A i \in 1..len : f[i] <= l <=> i <= n
  BY <1>3, <1>6, <1>7, <1>9
<1>16. n + k \in n..len /\ \A i \in 1..len : f[i] <= p <=> i <= n + k
  BY <1>4, <1>6, <1>9, <1>11, <1>12, <1>13, <1>14, <1>15, ScannedUpTo
<1> DEFINE m == n + k
<1>17. m \in Nat /\ m <= len /\ \A i \in 1..len : es[i].limit_price <= p <=> i <= m
  BY <1>6, <1>7, <1>9, <1>16
<1> HIDE DEF m
<1>18. {i \in DOMAIN es : es[i].limit_price <= p} = 1..m
  <2>1. {i \in DOMAIN es : es[i].limit_price <= p} = {i \in 1..len : i <= m}
    BY <1>6, <1>17
  <2>2. {i \in 1..len : i <= m} = 1..m
    BY <1>6, <1>17
  <2>3. QED
    BY <2>1, <2>2
<1>19. QED
  BY <1>16, <1>18 DEF m

-----------------------------------------------------------------------------
(* The candidates. *)

(* The limit prices of the book.                                            *)
Named(c) == {p \in Nat : \E s \in BOOLEAN : \E i \in DOMAIN c.entries[s] : p = LimitOf(c, s, i)}

(* They are the candidates, each once and the lowest first.                 *)
Ascends(q) == \A i, j \in DOMAIN q : i < j => q[i] < q[j]
Listed(c) ==
    /\ {c.pricing.candidates[i] : i \in DOMAIN c.pricing.candidates} = Named(c)
    /\ Ascends(c.pricing.candidates)

(* Two numbers of a set have two ranks.                                     *)
LEMMA RanksDiffer ==
    ASSUME NEW S, IsFiniteSet(S), S \subseteq Int, NEW x \in S, NEW y \in S, x < y
    PROVE  /\ Cardinality(Below(S, x)) \in Nat /\ Cardinality(Below(S, y)) \in Nat
           /\ Cardinality(Below(S, x)) < Cardinality(Below(S, y))
<1> DEFINE T == Below(S, x)
           U == Below(S, y)
<1>a. x \in Int /\ y \in Int /\ U \subseteq S
  BY DEF Below
<1>b. T \subseteq U
  <2> SUFFICES ASSUME NEW z \in S, z < x
               PROVE  z < y
    BY DEF Below
  <2>1. z \in Int
    OBVIOUS
  <2>2. QED
    BY <1>a, <2>1
<1>c. x \in U
  BY DEF Below
<1>d. x \notin T
  BY <1>a DEF Below
<1>1. T \subseteq U /\ U \subseteq S /\ x \in U /\ x \notin T
  BY <1>a, <1>b, <1>c, <1>d
<1> HIDE DEF T, U
<1>2. IsFiniteSet(U)
  BY <1>1, FS_Subset
<1>3. IsFiniteSet(T) /\ Cardinality(T) <= Cardinality(U) /\ (Cardinality(U) = Cardinality(T) => U = T)
  BY <1>1, <1>2, FS_Subset
<1>4. Cardinality(T) \in Nat /\ Cardinality(U) \in Nat
  BY <1>2, <1>3, FS_CardinalityType
<1>5. Cardinality(T) # Cardinality(U)
  BY <1>1, <1>3
<1>6. QED
  BY <1>3, <1>4, <1>5 DEF T, U

(* Numbers in ascending order are these numbers, and ascend.                *)
LEMMA AscendingLists ==
    ASSUME NEW S, IsFiniteSet(S), S \subseteq Nat \ {0}
    PROVE  /\ ascending(S) \in Seq(Nat \ {0}) /\ Ascends(ascending(S))
           /\ {ascending(S)[i] : i \in DOMAIN ascending(S)} = S
<1> DEFINE n == Cardinality(S)
           a == ascending(S)
           R(x) == Cardinality(Below(S, x))
<1>1. a \in Seq(Nat \ {0})
  BY AscendingIsSeq
<1>2. n \in Nat
  BY FS_CardinalityType
<1>3. S \subseteq Int
  OBVIOUS
<1>4. \A k \in 1..n : \E x \in S : R(x) = k - 1
  BY <1>3, RanksExist
<1>5. a = [k \in 1..n |-> CHOOSE x \in S : R(x) = k - 1]
  BY DEF ascending, Below
<1>6. \A k \in 1..n : a[k] \in S /\ R(a[k]) = k - 1
  <2> SUFFICES ASSUME NEW k \in 1..n
               PROVE  a[k] \in S /\ R(a[k]) = k - 1
    OBVIOUS
  <2>1. a[k] = CHOOSE x \in S : R(x) = k - 1
    BY <1>5
  <2> HIDE DEF a, R
  <2>2. \E x \in S : R(x) = k - 1
    BY <1>4
  <2>3. QED
    BY <2>1, <2>2
<1>7. DOMAIN a = 1..n
  BY <1>5
<1>8. \A x, y \in S : x < y => R(x) < R(y)
  BY <1>3, RanksDiffer
<1>9. \A x \in S : R(x) \in 0..(n - 1)
  <2> SUFFICES ASSUME NEW x \in S
               PROVE  R(x) \in 0..(n - 1)
    OBVIOUS
  <2> DEFINE T == Below(S, x)
  <2>1. T \subseteq S /\ x \notin T
    BY <1>3 DEF Below
  <2> HIDE DEF T
  <2>2. IsFiniteSet(T) /\ Cardinality(T) <= n /\ (n = Cardinality(T) => S = T)
    BY <2>1, FS_Subset
  <2>3. Cardinality(T) \in Nat
    BY <2>2, FS_CardinalityType
  <2>4. Cardinality(T) # n
    BY <2>1, <2>2
  <2> HIDE DEF n
  <2>5. QED
    BY <1>2, <2>2, <2>3, <2>4 DEF T
<1> HIDE DEF a, n, R
<1>10. ASSUME NEW i \in DOMAIN a, NEW j \in DOMAIN a, i < j
       PROVE  a[i] < a[j]
  <2>1. a[i] \in S /\ a[j] \in S /\ R(a[i]) = i - 1 /\ R(a[j]) = j - 1 /\ i \in Nat /\ j \in Nat
    BY <1>2, <1>6, <1>7
  <2>2. a[i] # a[j]
    BY <1>10, <2>1
  <2>3. ~(a[j] < a[i])
    <3> SUFFICES ASSUME a[j] < a[i]
                 PROVE  FALSE
      OBVIOUS
    <3>1. R(a[j]) < R(a[i])
      BY <1>8, <2>1
    <3>2. QED
      BY <1>10, <2>1, <3>1
  <2>4. a[i] \in Int /\ a[j] \in Int
    BY <1>3, <2>1
  <2>5. QED
    BY <2>2, <2>3, <2>4
<1>11. ASSUME NEW x \in S
       PROVE  \E i \in DOMAIN a : a[i] = x
  <2> DEFINE k == R(x) + 1
  <2>1. k \in 1..n /\ k - 1 = R(x)
    BY <1>2, <1>9
  <2> HIDE DEF k
  <2>2. a[k] \in S /\ R(a[k]) = R(x)
    BY <1>6, <2>1
  <2>3. ~(R(x) < R(x))
    BY <1>2, <1>9
  <2>4. ~(a[k] < x) /\ ~(x < a[k])
    BY <1>8, <2>2, <2>3
  <2>5. a[k] \in Int /\ x \in Int
    BY <1>3, <2>2
  <2>6. a[k] = x
    BY <2>4, <2>5
  <2>7. QED
    BY <1>7, <2>1, <2>6
<1>12. {a[i] : i \in DOMAIN a} = S
  BY <1>6, <1>7, <1>11
<1>13. Ascends(a)
  BY <1>10 DEF Ascends
<1>14. QED
  BY <1>1, <1>12, <1>13 DEF a

-----------------------------------------------------------------------------
(* What pricing knows. *)

(* The price looked at last, and none before the first.                     *)
LastPrice(c) == IF c.cursor = 0 THEN 0 ELSE c.pricing.candidates[c.cursor]

(* Where the scans are is what trades at that price, and their totals are   *)
(* what it amounts to.                                                      *)
Scanned(c) ==
    LET q == c.pricing
        p == LastPrice(c)
    IN  /\ q.bid_scan \in 0..Len(c.entries[TRUE]) /\ TradesAt(c, TRUE, p) = 1..q.bid_scan
        /\ q.ask_scan \in 0..Len(c.entries[FALSE]) /\ TradesAt(c, FALSE, p) = 1..q.ask_scan
        /\ q.demand_remaining = Offered(c, TRUE, p) /\ q.supply_acc = Offered(c, FALSE, p)

(* The prices looked at so far.                                             *)
Seen(c) == {c.pricing.candidates[j] : j \in 1..c.cursor}

(* q knows the best of prices S, if anything trades at any.                 *)
BestOf(q, c, S) ==
    IF q.found
    THEN /\ q.best_price \in S /\ q.best_vol > 0
         /\ q.best_vol = VolumeAt(c, q.best_price) /\ q.best_gap = GapAt(c, q.best_price)
         /\ \A p \in S : ~Beats(c, p, q.best_price)
    ELSE \A p \in S : VolumeAt(c, p) = 0

(* So it is of those looked at.                                             *)
BestSeen(c) == BestOf(c.pricing, c, Seen(c))

(* What is known between two transactions, and between two turns.           *)
Known(c) == Listed(c) /\ Scanned(c) /\ BestSeen(c)

(* These are matters of the entries and the price.                          *)
LEMMA SameEntriesTrade ==
    ASSUME NEW c, NEW d, d.entries = c.entries
    PROVE  /\ \A s \in BOOLEAN : \A p : TradesAt(d, s, p) = TradesAt(c, s, p)
           /\ \A s \in BOOLEAN : \A p : Offered(d, s, p) = Offered(c, s, p)
           /\ \A p : VolumeAt(d, p) = VolumeAt(c, p) /\ GapAt(d, p) = GapAt(c, p)
           /\ \A p, r : Beats(d, p, r) <=> Beats(c, p, r)
           /\ Named(d) = Named(c)
<1>1. \A s \in BOOLEAN : \A p : TradesAt(d, s, p) = TradesAt(c, s, p)
  BY DEF TradesAt, LimitOf
<1>2. \A s \in BOOLEAN : \A p : Offered(d, s, p) = Offered(c, s, p)
  BY <1>1 DEF Offered
<1>3. \A p : VolumeAt(d, p) = VolumeAt(c, p) /\ GapAt(d, p) = GapAt(c, p)
  BY <1>2 DEF VolumeAt, GapAt
<1>4. \A p, r : Beats(d, p, r) <=> Beats(c, p, r)
  BY <1>3 DEF Beats
<1>5. Named(d) = Named(c)
  BY DEF Named, LimitOf
<1>6. QED
  BY <1>1, <1>2, <1>3, <1>4, <1>5

(* What a turn makes of the totals, ...                                     *)
Looked(c, d, p) ==
    /\ d.entries = c.entries /\ d.cursor = c.cursor + 1
    /\ d.pricing.candidates = c.pricing.candidates
    /\ d.pricing.bid_scan = BidScan(c, p) /\ d.pricing.ask_scan = AskScan(c, p)
    /\ d.pricing.demand_remaining
         = c.pricing.demand_remaining
             - qty_over(c.entries[TRUE], BidScan(c, p) + 1..c.pricing.bid_scan)
    /\ d.pricing.supply_acc
         = c.pricing.supply_acc
             + qty_over(c.entries[FALSE], c.pricing.ask_scan + 1..AskScan(c, p))

(* ... and of the best price.                                               *)
Improved(q, r, p, vol, gap) ==
    IF improves(q, vol, gap)
    THEN r.found /\ r.best_vol = vol /\ r.best_gap = gap /\ r.best_price = p
    ELSE /\ r.found = q.found /\ r.best_vol = q.best_vol
         /\ r.best_gap = q.best_gap /\ r.best_price = q.best_price

(* A turn of price_step looks at the next candidate.                        *)
LEMMA TurnLooks ==
    ASSUME NEW c, DOMAIN c = ObjectFields, PricingOK(c), NEW k, NEW d, d = PriceTurn(c, k),
           NEW p, p = c.pricing.candidates[c.cursor + 1]
    PROVE  /\ Looked(c, d, p)
           /\ Improved(c.pricing, d.pricing, p,
                       min_u64(d.pricing.demand_remaining, d.pricing.supply_acc),
                       abs_diff_u64(d.pricing.demand_remaining, d.pricing.supply_acc))
<1> DEFINE q == c.pricing
           bids == c.entries[TRUE]
           asks == c.entries[FALSE]
           bid_scan == BidScan(c, p)
           ask_scan == AskScan(c, p)
           demand == q.demand_remaining - qty_over(bids, bid_scan + 1..q.bid_scan)
           supply == q.supply_acc + qty_over(asks, q.ask_scan + 1..ask_scan)
           vol == min_u64(demand, supply)
           gap == abs_diff_u64(demand, supply)
           better == improves(q, vol, gap)
           scanned == [q EXCEPT !.demand_remaining = demand, !.bid_scan = bid_scan,
                                !.supply_acc = supply, !.ask_scan = ask_scan]
           found == [scanned EXCEPT !.found = TRUE, !.best_vol = vol, !.best_gap = gap,
                                    !.best_price = p]
           new == IF better THEN found ELSE scanned
           n == c.cursor + 1
<1>1. d = [c EXCEPT !.pricing = new, !.cursor = n]
  <2>1. price_unit(c) = [c EXCEPT !.pricing = new]
    BY DEF price_unit, BidScan, AskScan
  <2> HIDE DEF new
  <2>2. QED
    BY <2>1 DEF PriceTurn
<1>2. DOMAIN q = {"candidates", "demand_remaining", "bid_scan", "supply_acc", "ask_scan",
                  "found", "best_price", "best_vol", "best_gap"}
  BY DEF PricingOK
<1> HIDE DEF q, bid_scan, ask_scan, demand, supply, vol, gap, better
<1>3. /\ DOMAIN scanned = DOMAIN q /\ scanned.candidates = q.candidates
      /\ scanned.demand_remaining = demand /\ scanned.supply_acc = supply
      /\ scanned.bid_scan = bid_scan /\ scanned.ask_scan = ask_scan
      /\ scanned.found = q.found /\ scanned.best_price = q.best_price
      /\ scanned.best_vol = q.best_vol /\ scanned.best_gap = q.best_gap
  BY <1>2
<1> HIDE DEF scanned
<1>4. /\ found.candidates = q.candidates
      /\ found.demand_remaining = demand /\ found.supply_acc = supply
      /\ found.bid_scan = bid_scan /\ found.ask_scan = ask_scan
      /\ found.found = TRUE /\ found.best_price = p
      /\ found.best_vol = vol /\ found.best_gap = gap
  BY <1>2, <1>3
<1> HIDE DEF found
<1>5. /\ new.candidates = q.candidates
      /\ new.demand_remaining = demand /\ new.supply_acc = supply
      /\ new.bid_scan = bid_scan /\ new.ask_scan = ask_scan
      /\ IF better
         THEN new.found /\ new.best_vol = vol /\ new.best_gap = gap /\ new.best_price = p
         ELSE /\ new.found = q.found /\ new.best_vol = q.best_vol
              /\ new.best_gap = q.best_gap /\ new.best_price = q.best_price
  BY <1>3, <1>4
<1> HIDE DEF new
<1>6. d.pricing = new /\ d.entries = c.entries /\ d.cursor = n
  BY <1>1 DEF ObjectFields
<1> HIDE DEF n
<1>7. Looked(c, d, p)
  BY <1>5, <1>6 DEF Looked, q, bid_scan, ask_scan, demand, supply, n
<1>8. Improved(q, new, p, min_u64(new.demand_remaining, new.supply_acc),
               abs_diff_u64(new.demand_remaining, new.supply_acc))
  BY <1>5 DEF Improved, better, vol, gap
<1>9. QED
  BY <1>6, <1>7, <1>8 DEF q

-----------------------------------------------------------------------------
(* A turn keeps what is known. *)

(* What the first b entries of a side offer is what the first a do and the  *)
(* ones between.                                                            *)
LEMMA OfferedMoves ==
    ASSUME NEW c, Shaped(c), NEW s \in BOOLEAN, NEW a \in Nat, NEW b \in Nat, a <= b,
           b <= Len(c.entries[s]), NEW x, TradesAt(c, s, x) = 1..a,
           NEW y, TradesAt(c, s, y) = 1..b
    PROVE  Offered(c, s, y) = Offered(c, s, x) + qty_over(c.entries[s], a + 1..b)
<1> DEFINE es == c.entries[s]
           f == Quantities(es)
<1>1. es \in Seq(Entry)
  BY DEF Shaped, EntriesOK
<1>2. DOMAIN es = 1..Len(es) /\ Len(es) \in Nat /\ b <= Len(es)
  BY <1>1
<1>3. Offered(c, s, y) = SumOf(f, 1..b) /\ Offered(c, s, x) = SumOf(f, 1..a)
  BY DEF Offered
<1> HIDE DEF es
<1>4. a + 1..b \subseteq DOMAIN es /\ 1..b \subseteq DOMAIN es
  BY <1>2
<1>5. qty_over(es, a + 1..b) = SumOf(f, a + 1..b)
  BY <1>1, <1>4, QtyOver
<1>6. \A i \in 1..b : f[i] \in Nat
  BY <1>1, <1>4, QtyOver
<1> HIDE DEF f
<1>7. SumOf(f, 1..b) = SumOf(f, 1..a) + SumOf(f, a + 1..b)
  <2>1. \A i \in 1..b : f[i] \in Int
    BY <1>6
  <2>2. 1 \in Int /\ a \in Int /\ b \in Int /\ 1 <= a + 1
    OBVIOUS
  <2>3. QED
    BY <2>1, <2>2, SumCut
<1>8. QED
  BY <1>3, <1>5, <1>7 DEF es

(* The scans and the totals are those of the price a turn looks at.         *)
LEMMA TurnScans ==
    ASSUME NEW c, Shaped(c), Ranked(c), Scanned(c), NEW l, l = LastPrice(c), l \in Nat,
           NEW p \in Nat, l <= p, NEW d, Looked(c, d, p), LastPrice(d) = p
    PROVE  Scanned(d)
<1> DEFINE q == c.pricing
           n == q.bid_scan
           m == BidScan(c, p)
           u == q.ask_scan
           v == AskScan(c, p)
           bids == c.entries[TRUE]
           asks == c.entries[FALSE]
<1>1. /\ n \in 0..Len(bids) /\ TradesAt(c, TRUE, l) = 1..n
      /\ u \in 0..Len(asks) /\ TradesAt(c, FALSE, l) = 1..u
      /\ q.demand_remaining = Offered(c, TRUE, l) /\ q.supply_acc = Offered(c, FALSE, l)
  BY DEF Scanned
<1>2. m \in 0..n /\ TradesAt(c, TRUE, p) = 1..m
  <2>1. n = c.pricing.bid_scan
    OBVIOUS
  <2> HIDE DEF n
  <2>2. n \in 0..Len(c.entries[TRUE]) /\ TradesAt(c, TRUE, l) = 1..n
    BY <1>1
  <2>3. QED
    BY <2>1, <2>2, BidsLeave
<1>3. v \in u..Len(asks) /\ TradesAt(c, FALSE, p) = 1..v
  <2>1. u = c.pricing.ask_scan
    OBVIOUS
  <2> HIDE DEF u
  <2>2. u \in 0..Len(c.entries[FALSE]) /\ TradesAt(c, FALSE, l) = 1..u
    BY <1>1
  <2>3. QED
    BY <2>1, <2>2, AsksJoin
<1>4. Len(bids) \in Nat /\ Len(asks) \in Nat
  <2>1. bids \in Seq(Entry) /\ asks \in Seq(Entry)
    BY DEF Shaped, EntriesOK
  <2> HIDE DEF bids, asks
  <2>2. QED
    BY <2>1
<1> HIDE DEF m, n, u, v, bids, asks
<1>5. m \in Nat /\ n \in Nat /\ m <= n /\ n <= Len(bids)
  BY <1>1, <1>2, <1>4
<1>6. u \in Nat /\ v \in Nat /\ u <= v /\ v <= Len(asks)
  BY <1>1, <1>3, <1>4
<1>7. Offered(c, TRUE, l) = Offered(c, TRUE, p) + qty_over(bids, m + 1..n)
  <2>1. n <= Len(c.entries[TRUE]) /\ TradesAt(c, TRUE, p) = 1..m /\ TradesAt(c, TRUE, l) = 1..n
    BY <1>1, <1>2, <1>3, <1>5, <1>6 DEF bids
  <2>2. ASSUME NEW s \in BOOLEAN, n <= Len(c.entries[s]),
               TradesAt(c, s, p) = 1..m, TradesAt(c, s, l) = 1..n
        PROVE  Offered(c, s, l) = Offered(c, s, p) + qty_over(c.entries[s], m + 1..n)
    BY <1>5, <2>2, OfferedMoves
  <2>3. QED
    BY <2>1, <2>2 DEF bids
<1>8. Offered(c, FALSE, p) = Offered(c, FALSE, l) + qty_over(asks, u + 1..v)
  <2>1. v <= Len(c.entries[FALSE]) /\ TradesAt(c, FALSE, l) = 1..u /\ TradesAt(c, FALSE, p) = 1..v
    BY <1>1, <1>2, <1>3, <1>5, <1>6 DEF asks
  <2>2. ASSUME NEW s \in BOOLEAN, v <= Len(c.entries[s]),
               TradesAt(c, s, l) = 1..u, TradesAt(c, s, p) = 1..v
        PROVE  Offered(c, s, p) = Offered(c, s, l) + qty_over(c.entries[s], u + 1..v)
    BY <1>6, <2>2, OfferedMoves
  <2>3. QED
    BY <2>1, <2>2 DEF asks
<1>9. /\ d.entries = c.entries /\ d.pricing.bid_scan = m /\ d.pricing.ask_scan = v
      /\ d.pricing.demand_remaining = q.demand_remaining - qty_over(bids, m + 1..n)
      /\ d.pricing.supply_acc = q.supply_acc + qty_over(asks, u + 1..v)
  BY DEF Looked, m, n, u, v, bids, asks
<1>10. Offered(c, TRUE, p) \in Nat /\ Offered(c, FALSE, p) \in Nat
  BY TradesFacts
<1>11. qty_over(bids, m + 1..n) \in Nat
  <2>1. bids \in Seq(Entry)
    BY DEF Shaped, EntriesOK, bids
  <2>2. m + 1..n \subseteq DOMAIN bids
    BY <1>5, <2>1
  <2>3. QED
    BY <2>1, <2>2, QtyOver
<1>12. d.pricing.demand_remaining = Offered(c, TRUE, p)
  <2> DEFINE x == Offered(c, TRUE, l)
             y == Offered(c, TRUE, p)
             z == qty_over(bids, m + 1..n)
             w == d.pricing.demand_remaining
  <2>1. w = x - z /\ x = y + z /\ y \in Nat /\ z \in Nat
    BY <1>1, <1>7, <1>9, <1>10, <1>11
  <2> HIDE DEF w, x, y, z
  <2>2. w = y
    BY <2>1
  <2>3. QED
    BY <2>2 DEF w, y
<1>13. d.pricing.supply_acc = Offered(c, FALSE, p)
  BY <1>1, <1>8, <1>9
<1>14. \A s \in BOOLEAN : TradesAt(d, s, p) = TradesAt(c, s, p) /\ Offered(d, s, p) = Offered(c, s, p)
  BY <1>9, SameEntriesTrade
<1>15. m \in 0..Len(d.entries[TRUE]) /\ v \in 0..Len(d.entries[FALSE])
  <2>1. d.entries[TRUE] = bids /\ d.entries[FALSE] = asks
    BY <1>9 DEF bids, asks
  <2>2. QED
    BY <1>4, <1>5, <1>6, <2>1
<1>16. QED
  BY <1>2, <1>3, <1>9, <1>12, <1>13, <1>14, <1>15 DEF Scanned

(* What improves on the best price so far beats it, and what does not, does *)
(* not.                                                                     *)
LEMMA ImprovesBeats ==
    ASSUME NEW c, Shaped(c), NEW q, NEW r \in Int, NEW p \in Int, r < p,
           q.best_vol = VolumeAt(c, r), q.best_gap = GapAt(c, r), q.best_vol > 0, q.found
    PROVE  improves(q, VolumeAt(c, p), GapAt(c, p)) <=> Beats(c, p, r)
<1> DEFINE a == VolumeAt(c, p)
           b == GapAt(c, p)
           k == VolumeAt(c, r)
           l == GapAt(c, r)
<1>1. a \in Nat /\ b \in Nat /\ k \in Nat /\ l \in Nat
  BY TradesFacts
<1>2. improves(q, a, b) <=> a > 0 /\ (a > k \/ (a = k /\ b < l))
  BY DEF improves
<1>3. Beats(c, p, r) <=> a > k \/ (a = k /\ (b < l \/ (b = l /\ p < r)))
  BY DEF Beats
<1>4. k > 0
  OBVIOUS
<1> HIDE DEF a, b, k, l
<1>5. improves(q, a, b) <=> Beats(c, p, r)
  BY <1>1, <1>2, <1>3, <1>4
<1>6. QED
  BY <1>5 DEF a, b

(* No price beats itself, nor does one where nothing trades beat another.   *)
LEMMA NothingBeats ==
    ASSUME NEW c, Shaped(c), NEW p \in Int, NEW x \in Int,
           x = p \/ (VolumeAt(c, x) = 0 /\ VolumeAt(c, p) > 0)
    PROVE  ~Beats(c, x, p)
<1> DEFINE a == VolumeAt(c, p)
           b == GapAt(c, p)
           k == VolumeAt(c, x)
           l == GapAt(c, x)
<1>1. a \in Nat /\ b \in Nat /\ k \in Nat /\ l \in Nat
  BY TradesFacts
<1>2. Beats(c, x, p) <=> k > a \/ (k = a /\ (l < b \/ (l = b /\ x < p)))
  BY DEF Beats
<1>3. (x = p /\ k = a /\ l = b) \/ (k = 0 /\ a > 0)
  OBVIOUS
<1> HIDE DEF a, b, k, l
<1>4. QED
  BY <1>1, <1>2, <1>3

(* The best of the prices is still the best when one more is looked at.     *)
LEMMA BestOfMore ==
    ASSUME NEW c, Shaped(c), NEW S, S \subseteq Int, NEW p \in Int, \A x \in S : x < p,
           NEW q, NEW r, Improved(q, r, p, VolumeAt(c, p), GapAt(c, p)),
           BestOf(q, c, S)
    PROVE  BestOf(r, c, S \cup {p})
<1> DEFINE vol == VolumeAt(c, p)
           gap == GapAt(c, p)
<1>1. vol \in Nat
  BY TradesFacts
<1>2. CASE improves(q, vol, gap)
  <2>1. r.found /\ r.best_vol = vol /\ r.best_gap = gap /\ r.best_price = p
    BY <1>2 DEF Improved
  <2>2. vol > 0
    BY <1>2 DEF improves
  <2>3. ~Beats(c, p, p)
    BY NothingBeats
  <2>4. ASSUME NEW x \in S
        PROVE  ~Beats(c, x, p)
    <3>1. CASE q.found
      <4>1. /\ q.best_price \in Int /\ q.best_price < p /\ ~Beats(c, x, q.best_price)
            /\ x \in Int /\ q.best_vol > 0
            /\ q.best_vol = VolumeAt(c, q.best_price) /\ q.best_gap = GapAt(c, q.best_price)
        BY <2>4, <3>1 DEF BestOf
      <4>2. Beats(c, p, q.best_price)
        BY <1>2, <3>1, <4>1, ImprovesBeats
      <4>3. QED
        BY <4>1, <4>2, BeatsThrough
    <3>2. CASE ~q.found
      <4>1. VolumeAt(c, x) = 0 /\ x \in Int
        BY <2>4, <3>2 DEF BestOf
      <4>2. QED
        BY <2>2, <4>1, NothingBeats
    <3>3. QED
      BY <3>1, <3>2
  <2>5. QED
    BY <2>1, <2>2, <2>3, <2>4 DEF BestOf
<1>3. CASE ~improves(q, vol, gap)
  <2>1. /\ r.found = q.found /\ r.best_vol = q.best_vol
        /\ r.best_gap = q.best_gap /\ r.best_price = q.best_price
    BY <1>3 DEF Improved
  <2>2. CASE q.found
    <3>1. /\ q.best_price \in Int /\ q.best_price < p /\ q.best_vol > 0
          /\ q.best_vol = VolumeAt(c, q.best_price) /\ q.best_gap = GapAt(c, q.best_price)
      BY <2>2 DEF BestOf
    <3>2. ~Beats(c, p, q.best_price)
      BY <1>3, <2>2, <3>1, ImprovesBeats
    <3>3. QED
      BY <2>1, <2>2, <3>2 DEF BestOf
  <2>3. CASE ~q.found
    <3>1. ~(vol > 0)
      BY <1>3, <2>3 DEF improves
    <3>2. vol = 0
      BY <1>1, <3>1
    <3>3. QED
      BY <2>1, <2>3, <3>2 DEF BestOf
  <2>4. QED
    BY <2>2, <2>3
<1>4. QED
  BY <1>2, <1>3

(* A turn of price_step keeps what is known.                                *)
LEMMA TurnKnows ==
    ASSUME NEW c, Shaped(c), PricingOK(c), Ranked(c), Known(c),
           c.cursor < Len(c.pricing.candidates), NEW k, NEW d, d = PriceTurn(c, k)
    PROVE  Known(d)
<1> DEFINE q == c.pricing
           a == q.candidates
           n == c.cursor
           p == a[n + 1]
           l == LastPrice(c)
<1>1. DOMAIN c = ObjectFields /\ n \in Nat /\ a \in Seq(Nat \ {0}) /\ n < Len(a)
  BY DEF Shaped, PricingOK
<1>2. /\ Looked(c, d, p)
      /\ Improved(q, d.pricing, p,
                  min_u64(d.pricing.demand_remaining, d.pricing.supply_acc),
                  abs_diff_u64(d.pricing.demand_remaining, d.pricing.supply_acc))
  BY <1>1, TurnLooks
<1>3. d.entries = c.entries /\ d.cursor = n + 1 /\ d.pricing.candidates = a
  BY <1>2 DEF Looked
<1>4. Listed(c) /\ Scanned(c) /\ BestSeen(c) /\ Ascends(a)
  BY DEF Known, Listed
<1>5. l = IF n = 0 THEN 0 ELSE a[n]
  BY DEF LastPrice
<1>6. LastPrice(d) = p
  BY <1>1, <1>3 DEF LastPrice
<1>17. Seen(c) = {a[j] : j \in 1..n} /\ Seen(d) = {a[j] : j \in 1..(n + 1)}
  BY <1>3 DEF Seen
<1> HIDE DEF a, n, l
<1>7. p \in Nat /\ l \in Nat /\ l <= p
  <2>1. n + 1 \in DOMAIN a /\ (n # 0 => n \in DOMAIN a /\ n < n + 1)
    BY <1>1
  <2>2. p \in Nat \ {0} /\ (n # 0 => a[n] \in Nat /\ a[n] < p)
    BY <1>1, <1>4, <2>1 DEF Ascends
  <2> HIDE DEF p
  <2>3. QED
    BY <1>5, <2>2
<1>8. Seen(c) \subseteq Int /\ Seen(d) = Seen(c) \cup {p} /\ \A x \in Seen(c) : x < p
  <2>1. \A j \in 1..n : j \in DOMAIN a /\ j < n + 1 /\ n + 1 \in DOMAIN a
    BY <1>1
  <2>2. \A j \in 1..n : a[j] \in Int /\ a[j] < p
    BY <1>1, <1>4, <2>1 DEF Ascends
  <2>3. \A j : j \in 1..(n + 1) <=> j \in 1..n \/ j = n + 1
    BY <1>1
  <2> HIDE DEF p
  <2>4. {a[j] : j \in 1..(n + 1)} = {a[j] : j \in 1..n} \cup {a[n + 1]}
    BY <2>3
  <2>5. QED
    BY <1>17, <2>2, <2>4 DEF p
<1> HIDE DEF p
<1>9. Scanned(d)
  <2>1. l = LastPrice(c)
    BY DEF l
  <2>2. QED
    BY <1>2, <1>4, <1>6, <1>7, <2>1, TurnScans
<1>10. /\ d.pricing.demand_remaining = Offered(c, TRUE, p)
       /\ d.pricing.supply_acc = Offered(c, FALSE, p)
  <2>1. \A s \in BOOLEAN : Offered(d, s, p) = Offered(c, s, p)
    BY <1>3, SameEntriesTrade
  <2>2. QED
    BY <1>6, <1>9, <2>1 DEF Scanned
<1>11. Improved(q, d.pricing, p, VolumeAt(c, p), GapAt(c, p))
  BY <1>2, <1>10 DEF VolumeAt, GapAt
<1>12. BestOf(q, c, Seen(c))
  BY <1>4 DEF BestSeen
<1>13. BestOf(d.pricing, c, Seen(c) \cup {p})
  <2> HIDE DEF q
  <2>1. p \in Int
    BY <1>7
  <2>2. QED
    BY <1>8, <1>11, <1>12, <2>1, BestOfMore
<1>14. BestSeen(d)
  <2>1. /\ \A x : VolumeAt(d, x) = VolumeAt(c, x) /\ GapAt(d, x) = GapAt(c, x)
        /\ \A x, y : Beats(d, x, y) <=> Beats(c, x, y)
    BY <1>3, SameEntriesTrade
  <2>2. QED
    BY <1>8, <1>13, <2>1 DEF BestSeen, BestOf
<1>15. Listed(d)
  <2>1. Named(d) = Named(c)
    BY <1>3, SameEntriesTrade
  <2>2. QED
    BY <1>3, <1>4, <2>1 DEF Listed, a
<1>16. QED
  BY <1>9, <1>14, <1>15 DEF Known

-----------------------------------------------------------------------------
(* Before the first price. *)

(* Nothing is scanned or found while the book is read.                      *)
Fresh(q) == ~q.found /\ q.supply_acc = 0 /\ q.ask_scan = 0

(* A price is of the book when it is an entry's.                            *)
LEMMA NamedIsPrices ==
    ASSUME NEW c, Shaped(c)
    PROVE  Named(c) = PricesIn(c)
<1>1. \A s \in BOOLEAN : \A i \in DOMAIN c.entries[s] : c.entries[s][i].limit_price \in Nat
  <2> SUFFICES ASSUME NEW s \in BOOLEAN, NEW i \in DOMAIN c.entries[s]
               PROVE  c.entries[s][i].limit_price \in Nat
    OBVIOUS
  <2>1. c.entries[s] \in Seq(Entry)
    BY DEF Shaped, EntriesOK
  <2>2. c.entries[s][i] \in Entry
    BY <2>1
  <2>3. QED
    BY <2>2 DEF Entry
<1>2. ASSUME NEW p
      PROVE  p \in PricesIn(c) <=>
                \E s \in BOOLEAN : \E i \in DOMAIN c.entries[s] : p = c.entries[s][i].limit_price
  BY DEF PricesIn, ToSet
<1>3. ASSUME NEW p
      PROVE  p \in Named(c) <=>
                p \in Nat /\ \E s \in BOOLEAN : \E i \in DOMAIN c.entries[s] :
                                 p = c.entries[s][i].limit_price
  BY DEF Named, LimitOf
<1>4. QED
  BY <1>1, <1>2, <1>3

(* At no price at all every bid trades and no ask does.                     *)
LEMMA TradesAtZero ==
    ASSUME NEW c, Shaped(c)
    PROVE  /\ TradesAt(c, TRUE, 0) = DOMAIN c.entries[TRUE]
           /\ TradesAt(c, FALSE, 0) = {}
<1>1. ASSUME NEW s \in BOOLEAN, NEW i \in DOMAIN c.entries[s]
      PROVE  LimitOf(c, s, i) >= 0 /\ ~(LimitOf(c, s, i) <= 0)
  <2>1. c.entries[s] \in Seq(Entry)
    BY DEF Shaped, EntriesOK
  <2>2. c.entries[s][i] \in Entry
    BY <2>1
  <2>3. LimitOf(c, s, i) \in Nat \ {0}
    BY <2>2 DEF Entry, LimitOf
  <2>4. QED
    BY <2>3
<1>2. \A i \in DOMAIN c.entries[TRUE] : LimitOf(c, TRUE, i) >= 0
  BY <1>1
<1>3. \A i \in DOMAIN c.entries[FALSE] : ~(LimitOf(c, FALSE, i) <= 0)
  BY <1>1
<1>4. QED
  BY <1>2, <1>3 DEF TradesAt, Trades

(* What is known at first.                                                  *)
LEMMA KnownAtFirst ==
    ASSUME NEW c, Shaped(c), Fresh(c.pricing), NEW x, BeforePrices(c, x)
    PROVE  Known(x) /\ (PricesIn(c) = {} => Len(x.pricing.candidates) = 0)
<1> DEFINE S == PricesIn(c)
           a == ascending(S)
           bids == c.entries[TRUE]
           asks == c.entries[FALSE]
<1>1. /\ x.entries = c.entries /\ x.cursor = 0 /\ x.pricing.candidates = a
      /\ x.pricing.bid_scan = Len(bids) /\ x.pricing.ask_scan = 0
      /\ x.pricing.demand_remaining = qty_over(bids, DOMAIN bids) /\ x.pricing.supply_acc = 0
      /\ ~x.pricing.found
  BY DEF BeforePrices, Fresh
<1>2. c.entries \in [BOOLEAN -> Seq(Entry)] /\ bids \in Seq(Entry) /\ asks \in Seq(Entry)
  BY DEF Shaped, EntriesOK
<1>3. IsFiniteSet(S) /\ S \subseteq Nat \ {0}
  BY <1>2, PricesAreNumbers
<1>4. Named(c) = S
  BY NamedIsPrices
<1>5. Named(x) = Named(c)
  BY <1>1, SameEntriesTrade
<1>a. DOMAIN a = 1..Cardinality(S)
  BY DEF ascending
<1> HIDE DEF S
<1>6. Ascends(a) /\ {a[i] : i \in DOMAIN a} = S /\ a \in Seq(Nat \ {0})
  BY <1>3, AscendingLists
<1> HIDE DEF a
<1>7. Listed(x)
  BY <1>1, <1>4, <1>5, <1>6 DEF Listed
<1>8. TradesAt(c, TRUE, 0) = DOMAIN bids /\ TradesAt(c, FALSE, 0) = {}
  BY TradesAtZero
<1>9. \A s \in BOOLEAN : TradesAt(x, s, 0) = TradesAt(c, s, 0) /\ Offered(x, s, 0) = Offered(c, s, 0)
  BY <1>1, SameEntriesTrade
<1>10. Offered(c, TRUE, 0) = qty_over(bids, DOMAIN bids)
  <2>1. Offered(c, TRUE, 0) = SumOf(Quantities(bids), DOMAIN bids)
    BY <1>8 DEF Offered
  <2>2. qty_over(bids, DOMAIN bids) = SumOf(Quantities(bids), DOMAIN bids)
    BY <1>2, QtyOver
  <2>3. QED
    BY <2>1, <2>2
<1>11. Offered(c, FALSE, 0) = 0
  BY <1>8, SumEmpty DEF Offered
<1>12. Scanned(x)
  <2>1. LastPrice(x) = 0
    BY <1>1 DEF LastPrice
  <2>2. Len(bids) \in 0..Len(bids) /\ 0 \in 0..Len(asks) /\ DOMAIN bids = 1..Len(bids) /\ 1..0 = {}
    <3> HIDE DEF bids, asks
    <3>1. QED
      BY <1>2
  <2>3. x.entries[TRUE] = bids /\ x.entries[FALSE] = asks
    BY <1>1
  <2> HIDE DEF bids, asks
  <2>4. /\ x.pricing.bid_scan \in 0..Len(x.entries[TRUE])
        /\ x.pricing.ask_scan \in 0..Len(x.entries[FALSE])
    BY <1>1, <2>2, <2>3
  <2>5. TradesAt(x, TRUE, 0) = 1..x.pricing.bid_scan /\ TradesAt(x, FALSE, 0) = 1..x.pricing.ask_scan
    BY <1>1, <1>8, <1>9, <2>2
  <2>6. /\ x.pricing.demand_remaining = Offered(x, TRUE, 0)
        /\ x.pricing.supply_acc = Offered(x, FALSE, 0)
    BY <1>1, <1>9, <1>10, <1>11
  <2>7. QED
    BY <2>1, <2>4, <2>5, <2>6 DEF Scanned
<1>13. BestSeen(x)
  BY <1>1 DEF BestSeen, BestOf, Seen
<1>14. S = {} => Len(x.pricing.candidates) = 0
  <2> SUFFICES ASSUME S = {}
               PROVE  Len(a) = 0
    BY <1>1
  <2>1. DOMAIN a = 1..0
    BY <1>a, FS_EmptySet
  <2>2. QED
    BY <1>6, <2>1
<1>15. QED
  BY <1>7, <1>12, <1>13, <1>14 DEF Known, S

(* Loading ends with what is known at first, and when there is no price at  *)
(* all, with what is known of all of them.                                  *)
LEMMA LoadingEndsKnown ==
    ASSUME NEW c, NEW v, OpenOK(c, v), Fresh(c.pricing), NEW d, d = finish_loading(c)
    PROVE  \E x : /\ OpenOK(x, v) /\ x.stage = STAGE_PRICING /\ Known(x)
                  /\ x.entries = c.entries /\ x.alloc = c.alloc
                  /\ \/ d = finish_pricing(x) /\ x.cursor = Len(x.pricing.candidates)
                     \/ d = x
<1>1. PICK x : /\ OpenOK(x, v) /\ x.stage = STAGE_PRICING /\ BeforePrices(c, x)
               /\ \/ d = finish_pricing(x) /\ PricesIn(c) = {}
                  \/ d = x /\ x.cursor <= Len(x.pricing.candidates)
  BY LoadingOpens
<1>2. Known(x) /\ (PricesIn(c) = {} => Len(x.pricing.candidates) = 0)
  BY <1>1, KnownAtFirst DEF OpenOK
<1>3. x.entries = c.entries /\ x.alloc = c.alloc /\ x.cursor = 0
  BY <1>1 DEF BeforePrices
<1>4. QED
  BY <1>1, <1>2, <1>3

-----------------------------------------------------------------------------
(* The prices are gone over. *)

(* What is kept: the entries, the price of the allocation, and what is known.*)
PriceKnows(k, x) ==
    PriceHolds(k, x) /\ x.entries = clearing.entries /\ x.alloc = clearing.alloc /\ Known(x)

(* The loop that prices.                                                    *)
KnownPrices == INSTANCE LoopRules WITH Body <- PriceTurn, Holds <- PriceKnows

(* The premise of the rules of this instance.                               *)
LEMMA KnownPricesInduction ==
    KnownPrices!Induction
  BY NatSetInduction DEF KnownPrices!Induction

(* Looking at a price leaves the allocation alone.                          *)
LEMMA PriceTurnAllocs ==
    ASSUME NEW c, DOMAIN c = ObjectFields, NEW k, NEW d, d = PriceTurn(c, k)
    PROVE  d.entries = c.entries /\ d.alloc = c.alloc
<1>1. \E q : d = [[c EXCEPT !.pricing = q] EXCEPT !.cursor = c.cursor + 1]
  BY DEF PriceTurn, price_unit
<1>2. PICK q : d = [[c EXCEPT !.pricing = q] EXCEPT !.cursor = c.cursor + 1]
  BY <1>1
<1>3. QED
  BY <1>2 DEF ObjectFields

(* However many prices a budget pays for, the best of those looked at is    *)
(* known.                                                                   *)
LEMMA KnownPricesLoop ==
    ASSUME OpenOK(clearing, vault), clearing.cursor <= Len(clearing.pricing.candidates),
           Ranked(clearing), Known(clearing), NEW budget \in Nat,
           NEW d, d = Advance(clearing, Len(clearing.pricing.candidates), budget, price_unit)
    PROVE  d.entries = clearing.entries /\ d.alloc = clearing.alloc /\ Known(d)
<1> DEFINE total == Len(clearing.pricing.candidates)
           n == min_u64(budget, total - clearing.cursor)
<1>1. total \in Nat /\ clearing.cursor \in Nat
  BY DEF OpenOK, Shaped, PricingOK
<1> HIDE DEF total
<1>2. n \in Nat /\ clearing.cursor + n <= total
  BY <1>1, TurnsLeft DEF total
<1>3. d = KnownPrices!LoopFrom(clearing)[n]
  BY DEF Advance, KnownPrices!LoopFrom, KnownPrices!Turns, PriceTurn, total
<1> HIDE DEF n
<1>4. PriceKnows(0, clearing)
  BY <1>1 DEF PriceHolds, PriceKnows
<1>5. ASSUME NEW k \in 0..(n - 1), NEW x, PriceKnows(k, x)
      PROVE  PriceKnows(k + 1, PriceTurn(x, k + 1))
  <2>1. x.cursor < Len(x.pricing.candidates)
    BY <1>1, <1>2, <1>5 DEF PriceHolds, PriceKnows, total
  <2>2. OpenOK(x, vault) /\ Known(x) /\ x.entries = clearing.entries
    BY <1>5 DEF PriceHolds, PriceKnows
  <2>3. Shaped(x) /\ PricingOK(x) /\ DOMAIN x = ObjectFields
    BY <2>2 DEF OpenOK, Shaped
  <2>4. Ranked(x)
    BY <2>2 DEF Ranked, LimitOf
  <2> DEFINE y == PriceTurn(x, k + 1)
  <2>5. /\ OpenOK(y, vault) /\ y.stage = x.stage /\ y.cursor = x.cursor + 1
        /\ y.pricing.candidates = x.pricing.candidates
    BY <2>1, <2>2, PriceTurnKeeps
  <2>6. y.entries = x.entries /\ y.alloc = x.alloc
    BY <2>3, PriceTurnAllocs
  <2>7. Known(y)
    BY <2>1, <2>2, <2>3, <2>4, TurnKnows
  <2> HIDE DEF y
  <2>8. y.cursor = clearing.cursor + (k + 1)
    BY <1>1, <1>5, <2>5 DEF PriceHolds, PriceKnows
  <2>9. QED
    BY <1>5, <2>5, <2>6, <2>7, <2>8 DEF PriceHolds, PriceKnows, y
<1>6. PriceKnows(n, KnownPrices!LoopFrom(clearing)[n])
  BY <1>2, <1>4, <1>5, KnownPricesInduction, KnownPrices!LoopRule
<1>7. QED
  BY <1>3, <1>6 DEF PriceKnows

-----------------------------------------------------------------------------
(* Loading looks at no price. *)

(* What loading leaves alone.                                               *)
LoadFresh(k, x) ==
    DOMAIN x = ObjectFields /\ x.pricing = clearing.pricing /\ x.alloc = clearing.alloc

(* The loop that loads.                                                     *)
FreshLoad == INSTANCE LoopRules WITH Body <- LoadTurn, Holds <- LoadFresh

(* The premise of the rules of this instance.                               *)
LEMMA FreshLoadInduction ==
    FreshLoad!Induction
  BY NatSetInduction DEF FreshLoad!Induction

(* A turn of load_step touches neither the prices nor the allocation.       *)
LEMMA LoadTurnFresh ==
    ASSUME NEW c, DOMAIN c = ObjectFields, NEW k, NEW d, d = LoadTurn(c, k)
    PROVE  DOMAIN d = ObjectFields /\ d.pricing = c.pricing /\ d.alloc = c.alloc
<1> DEFINE i == c.cursor + 1
           o == batch.revealed[i]
           e == [order_index |-> i, submitter |-> o.submitter, is_bid |-> o.is_bid,
                 limit_price |-> o.limit_price, qty_sats |-> o.qty_sats,
                 fill_base |-> 0, frac |-> 0, bumped |-> FALSE]
           f == ensure_funding_row(c, vault, o.submitter)
           g == insert_canonical(f, e)
           u == load_unit(c, batch, vault)
<1>1. d = [u EXCEPT !.cursor = c.cursor + 1]
  BY DEF LoadTurn
<1>2. u = c \/ u = f \/ u = g
  BY DEF load_unit
<1> HIDE DEF o, e, u
<1>3. DOMAIN f = ObjectFields /\ f.pricing = c.pricing /\ f.alloc = c.alloc
  <2>1. f = c \/ \E r : f = [c EXCEPT !.funding = r]
    BY DEF ensure_funding_row
  <2>2. QED
    BY <2>1 DEF ObjectFields
<1> HIDE DEF f
<1>4. DOMAIN g = ObjectFields /\ g.pricing = c.pricing /\ g.alloc = c.alloc
  <2>1. \E r : g = [f EXCEPT !.entries = r]
    BY DEF insert_canonical
  <2>2. QED
    BY <1>3, <2>1 DEF ObjectFields
<1> HIDE DEF g
<1>5. DOMAIN u = ObjectFields /\ u.pricing = c.pricing /\ u.alloc = c.alloc
  BY <1>2, <1>3, <1>4
<1>6. QED
  BY <1>1, <1>5 DEF ObjectFields

(* However many orders a budget pays for.                                   *)
LEMMA FreshLoadLoop ==
    ASSUME DOMAIN clearing = ObjectFields, clearing.cursor \in Nat,
           clearing.cursor <= Len(batch.revealed), BatchOK, NEW budget \in Nat,
           NEW d, d = Advance(clearing, Len(batch.revealed), budget,
                              LAMBDA x : load_unit(x, batch, vault))
    PROVE  d.pricing = clearing.pricing /\ d.alloc = clearing.alloc
<1> DEFINE total == Len(batch.revealed)
           n == min_u64(budget, total - clearing.cursor)
<1>1. total \in Nat
  BY RevealedLength
<1> HIDE DEF total
<1>2. n \in Nat
  BY <1>1, TurnsLeft DEF total
<1>3. d = FreshLoad!LoopFrom(clearing)[n]
  BY DEF Advance, FreshLoad!LoopFrom, FreshLoad!Turns, LoadTurn, total
<1> HIDE DEF n
<1>4. LoadFresh(0, clearing)
  BY DEF LoadFresh
<1>5. ASSUME NEW k \in 0..(n - 1), NEW x, LoadFresh(k, x)
      PROVE  LoadFresh(k + 1, LoadTurn(x, k + 1))
  BY <1>5, LoadTurnFresh DEF LoadFresh
<1>6. LoadFresh(n, FreshLoad!LoopFrom(clearing)[n])
  BY <1>2, <1>4, <1>5, FreshLoadInduction, FreshLoad!LoopRule
<1>7. QED
  BY <1>3, <1>6 DEF LoadFresh

-----------------------------------------------------------------------------
(* The book and the orders. *)

(* The orders are the records of what was revealed.                         *)
LEMMA OrdersAre ==
    orders_of(batch) = {order_at(k) : k \in revealed}
  BY DEF orders_of, order_at, revealed

(* The orders of side s that trade at price p.                              *)
Willing(s, p) == Atomic!eligible(orders_of(batch), s, p)

(* They are those of the revealed ones that do.                             *)
LEMMA WillingAre ==
    ASSUME NEW s \in BOOLEAN, NEW p, NEW o
    PROVE  o \in Willing(s, p) <=>
              \E k \in revealed : o = order_at(k) /\ o.is_bid = s /\ Trades(s, o.limit_price, p)
<1>1. o \in Willing(s, p) <=>
          o \in orders_of(batch) /\ o.is_bid = s /\ Atomic!crosses(o, p)
  BY DEF Willing, Atomic!eligible
<1>2. o.is_bid = s => (Atomic!crosses(o, p) <=> Trades(s, o.limit_price, p))
  BY DEF Atomic!crosses, Trades
<1>3. QED
  BY <1>1, <1>2, OrdersAre

(* An entry that trades, and the order it stands for.                       *)
LEMMA EntryIsWilling ==
    ASSUME BatchOK, NEW c, Shaped(c), Uncut(c, batch), Book(c, batch, Len(batch.revealed)),
           NEW s \in BOOLEAN, NEW p, NEW i \in TradesAt(c, s, p)
    PROVE  LET o == order_at(c.entries[s][i].order_index)
           IN  /\ o \in Willing(s, p) /\ o.qty_sats = Quantities(c.entries[s])[i]
               /\ o.order_index = c.entries[s][i].order_index
<1> DEFINE k == c.entries[s][i].order_index
           o == order_at(k)
<1>1. i \in DOMAIN c.entries[s] /\ Trades(s, LimitOf(c, s, i), p)
  BY DEF TradesAt
<1>2. /\ k \in 1..Len(batch.revealed) /\ batch.is_revealed[k]
      /\ batch.revealed[k].is_bid = s /\ batch.revealed[k].limit_price = LimitOf(c, s, i)
  <2> DEFINE e == c.entries[s][i]
  <2>1. Traced(c, batch, Len(batch.revealed))
    BY DEF Book
  <2>2. /\ k \in 1..Len(batch.revealed) /\ batch.is_revealed[k]
        /\ OrderOf(batch, e).is_bid = s /\ OrderOf(batch, e).limit_price = e.limit_price
    BY <1>1, <2>1 DEF Traced
  <2>3. OrderOf(batch, e) = batch.revealed[k] /\ e.limit_price = LimitOf(c, s, i)
    BY DEF OrderOf, LimitOf
  <2> HIDE DEF e, k
  <2>4. QED
    BY <2>2, <2>3
<1>3. k \in revealed
  <2> HIDE DEF k
  <2>1. k \in DOMAIN batch.revealed
    BY <1>2, ClearingAssumption DEF BatchOK
  <2>2. QED
    BY <1>2, <2>1 DEF revealed
<1>4. batch.revealed[k].qty_sats = c.entries[s][i].qty_sats
  BY <1>1 DEF Uncut, OrderOf
<1>5. c.entries[s][i].qty_sats = Quantities(c.entries[s])[i]
  BY <1>1 DEF Quantities
<1>6. /\ o.is_bid = s /\ o.limit_price = LimitOf(c, s, i) /\ o.order_index = k
      /\ o.qty_sats = batch.revealed[k].qty_sats
  BY <1>2 DEF order_at
<1> HIDE DEF k
<1>7. o \in Willing(s, p)
  BY <1>1, <1>3, <1>6, WillingAre
<1>8. QED
  BY <1>4, <1>5, <1>6, <1>7 DEF k

(* Every order that trades has an entry that does.                          *)
LEMMA WillingHasEntry ==
    ASSUME BatchOK, NEW c, Shaped(c), Book(c, batch, Len(batch.revealed)),
           NEW s \in BOOLEAN, NEW p, NEW o \in Willing(s, p)
    PROVE  \E i \in TradesAt(c, s, p) : /\ c.entries[s][i].order_index = o.order_index
                                        /\ o = order_at(o.order_index)
<1>1. PICK k \in revealed : o = order_at(k) /\ o.is_bid = s /\ Trades(s, o.limit_price, p)
  BY WillingAre
<1>2. o.order_index = k /\ batch.revealed[k].is_bid = s
      /\ batch.revealed[k].limit_price = o.limit_price
  BY <1>1 DEF order_at
<1>3. k \in 1..Len(batch.revealed) /\ batch.is_revealed[k]
  BY ClearingAssumption DEF revealed, BatchOK
<1>4. PICK t \in BOOLEAN : \E i \in DOMAIN c.entries[t] : c.entries[t][i].order_index = k
  BY <1>3 DEF Book, Complete
<1>5. PICK i \in DOMAIN c.entries[t] : c.entries[t][i].order_index = k
  BY <1>4
<1>6. batch.revealed[k].is_bid = t /\ batch.revealed[k].limit_price = LimitOf(c, t, i)
  BY <1>5 DEF Book, Traced, OrderOf, LimitOf
<1>7. i \in TradesAt(c, s, p) /\ c.entries[s][i].order_index = k
  BY <1>1, <1>2, <1>5, <1>6 DEF TradesAt
<1>8. QED
  BY <1>1, <1>2, <1>7

(* So the book offers what the orders do.                                   *)
LEMMA OfferedIsWilling ==
    ASSUME BatchOK, NEW c, Shaped(c), Uncut(c, batch), Book(c, batch, Len(batch.revealed)),
           NEW s \in BOOLEAN, NEW p
    PROVE  Offered(c, s, p) = Atomic!quantity(Willing(s, p))
<1> DEFINE S == TradesAt(c, s, p)
           T == Willing(s, p)
           es == c.entries[s]
           f == Quantities(es)
           g == [o \in T |-> o.qty_sats]
           h == [i \in S |-> order_at(es[i].order_index)]
           k == [o \in T |-> CHOOSE i \in S : es[i].order_index = o.order_index]
<1>1. IsFiniteSet(S) /\ S \subseteq DOMAIN es /\ \A i \in S : f[i] \in Nat
  BY TradesFacts
<1>2. \A i \in S : h[i] \in T /\ h[i].qty_sats = f[i] /\ h[i].order_index = es[i].order_index
  BY EntryIsWilling
<1>3. \A o \in T : \E i \in S : es[i].order_index = o.order_index /\ o = order_at(o.order_index)
  BY WillingHasEntry
<1>4. \A i, j \in S : es[i].order_index = es[j].order_index => i = j
  BY <1>1 DEF Book, Distinct
<1>5. Offered(c, s, p) = SumOf(f, S)
  BY DEF Offered
<1>6. Atomic!quantity(T) = SumOf(g, T)
  BY DEF SumOf, SumFunctionOnSet, FoldFunctionOnSet, Atomic!quantity, Atomic!total_over,
         Atomic!SumFunctionOnSet, Atomic!FoldFunctionOnSet, MapThenFoldSet,
         Atomic!MapThenFoldSet
<1> HIDE DEF S, T, es, f
<1>7. \A o \in T : g[o] = o.qty_sats
  OBVIOUS
<1>8. \A i \in S : h[i] = order_at(es[i].order_index)
  OBVIOUS
<1>9. \A o \in T : k[o] \in S /\ es[k[o]].order_index = o.order_index /\ o = order_at(o.order_index)
  BY <1>3
<1> HIDE DEF g, h, k
<1>10. \A i \in S : f[i] = g[h[i]]
  BY <1>2, <1>7
<1>11. \A o \in T : h[k[o]] = o
  BY <1>8, <1>9
<1>12. \A o \in T : g[o] = f[k[o]] /\ g[o] \in Nat
  BY <1>1, <1>9, <1>10, <1>11
<1>13. IsFiniteSet(T)
  <2>1. h \in [S -> T]
    BY <1>2 DEF h
  <2>2. h \in Surjection(S, T)
    BY <2>1, <1>9, <1>11 DEF Surjection
  <2>3. QED
    BY <1>1, <2>2, FS_Surjection
<1>14. Finds(f, g, h, S, T)
  <2>1. \A i \in S : h[i] \in T /\ f[i] <= g[h[i]]
    <3> SUFFICES ASSUME NEW i \in S
                 PROVE  h[i] \in T /\ f[i] <= g[h[i]]
      OBVIOUS
    <3>1. h[i] \in T /\ f[i] = g[h[i]] /\ f[i] \in Nat
      BY <1>1, <1>2, <1>10
    <3>2. QED
      BY <3>1
  <2>2. \A i, j \in S : h[i] = h[j] => i = j
    BY <1>2, <1>4
  <2>3. QED
    BY <2>1, <2>2 DEF Finds
<1>15. Finds(g, f, k, T, S)
  <2>1. \A o \in T : k[o] \in S /\ g[o] <= f[k[o]]
    <3> SUFFICES ASSUME NEW o \in T
                 PROVE  k[o] \in S /\ g[o] <= f[k[o]]
      OBVIOUS
    <3>1. k[o] \in S /\ g[o] = f[k[o]] /\ g[o] \in Nat
      BY <1>9, <1>12
    <3>2. QED
      BY <3>1
  <2>2. \A o, r \in T : k[o] = k[r] => o = r
    BY <1>9
  <2>3. QED
    BY <2>1, <2>2 DEF Finds
<1>16. \A o \in T : g[o] \in Nat
  BY <1>12
<1>17. SumOf(f, S) <= SumOf(g, T)
  BY <1>1, <1>13, <1>14, <1>16, SumFinds
<1>18. SumOf(g, T) <= SumOf(f, S)
  BY <1>1, <1>13, <1>15, <1>16, SumFinds
<1>19. SumOf(f, S) \in Nat /\ SumOf(g, T) \in Nat
  BY <1>1, <1>13, <1>16, SumNat
<1>20. SumOf(f, S) = SumOf(g, T)
  BY <1>17, <1>18, <1>19
<1>21. QED
  BY <1>5, <1>6, <1>20 DEF T

(* What is read of the book is true of the orders.                          *)
LEMMA BookIsOrders ==
    ASSUME BatchOK, NEW c, Shaped(c), Uncut(c, batch), Book(c, batch, Len(batch.revealed)), NEW p
    PROVE  /\ Atomic!volume(orders_of(batch), p) = VolumeAt(c, p)
           /\ Atomic!imbalance(orders_of(batch), p) = GapAt(c, p)
<1>1. \A s \in BOOLEAN : Offered(c, s, p) = Atomic!quantity(Willing(s, p))
  BY OfferedIsWilling
<1>2. /\ Atomic!demand(orders_of(batch), p) = Atomic!quantity(Willing(TRUE, p))
      /\ Atomic!supply(orders_of(batch), p) = Atomic!quantity(Willing(FALSE, p))
  BY DEF Atomic!demand, Atomic!supply, Willing
<1>3. /\ Atomic!demand(orders_of(batch), p) = Offered(c, TRUE, p)
      /\ Atomic!supply(orders_of(batch), p) = Offered(c, FALSE, p)
  BY <1>1, <1>2
<1>4. QED
  BY <1>3 DEF Atomic!volume, Atomic!imbalance, Atomic!min_u64, Atomic!abs_diff_u64,
              VolumeAt, GapAt, min_u64, abs_diff_u64

(* The orders name the prices of the book.                                  *)
LEMMA NamedByOrders ==
    ASSUME BatchOK, NEW c, Shaped(c), Book(c, batch, Len(batch.revealed))
    PROVE  {o.limit_price : o \in orders_of(batch)} = Named(c)
<1>1. ASSUME NEW o \in orders_of(batch)
      PROVE  o.limit_price \in Named(c)
  <2>1. PICK k \in revealed : o = order_at(k)
    BY OrdersAre
  <2>2. k \in 1..Len(batch.revealed) /\ batch.is_revealed[k]
    BY ClearingAssumption DEF revealed, BatchOK
  <2>3. batch.revealed[k].limit_price \in Nat
    BY <2>2, RevealedOrder, ScaleAssumption DEF Order
  <2>4. PICK s \in BOOLEAN : \E i \in DOMAIN c.entries[s] : c.entries[s][i].order_index = k
    BY <2>2 DEF Book, Complete
  <2>5. PICK i \in DOMAIN c.entries[s] : c.entries[s][i].order_index = k
    BY <2>4
  <2>6. batch.revealed[k].limit_price = LimitOf(c, s, i)
    BY <2>5 DEF Book, Traced, OrderOf, LimitOf
  <2>7. o.limit_price = batch.revealed[k].limit_price
    BY <2>1 DEF order_at
  <2>8. QED
    BY <2>3, <2>5, <2>6, <2>7 DEF Named
<1>2. ASSUME NEW p \in Named(c)
      PROVE  \E o \in orders_of(batch) : p = o.limit_price
  <2>1. PICK s \in BOOLEAN : \E i \in DOMAIN c.entries[s] : p = LimitOf(c, s, i)
    BY DEF Named
  <2>2. PICK i \in DOMAIN c.entries[s] : p = LimitOf(c, s, i)
    BY <2>1
  <2> DEFINE k == c.entries[s][i].order_index
  <2>3. /\ k \in 1..Len(batch.revealed) /\ batch.is_revealed[k]
        /\ batch.revealed[k].limit_price = p
    BY <2>2 DEF Book, Traced, OrderOf, LimitOf
  <2>4. k \in revealed
    BY <2>3, ClearingAssumption DEF BatchOK, revealed
  <2> HIDE DEF k
  <2>5. order_at(k) \in orders_of(batch) /\ order_at(k).limit_price = p
    BY <2>3, <2>4, OrdersAre DEF order_at
  <2>6. QED
    BY <2>5
<1>3. QED
  BY <1>1, <1>2

-----------------------------------------------------------------------------
(* The best of all prices. *)

(* The prices the book names are numbers, and some of them come no sooner   *)
(* than a given one or not.                                                 *)
LEMMA NamedAreNumbers ==
    ASSUME NEW c, Shaped(c)
    PROVE  /\ IsFiniteSet(Named(c)) /\ Named(c) \subseteq Nat \ {0}
           /\ \A s \in BOOLEAN : \A i \in DOMAIN c.entries[s] :
                 LimitOf(c, s, i) \in Named(c) /\ LimitOf(c, s, i) \in Nat
<1>1. IsFiniteSet(Named(c)) /\ Named(c) \subseteq Nat \ {0}
  <2>1. c.entries \in [BOOLEAN -> Seq(Entry)]
    BY DEF Shaped, EntriesOK
  <2>2. QED
    BY <2>1, NamedIsPrices, PricesAreNumbers
<1>2. ASSUME NEW s \in BOOLEAN, NEW i \in DOMAIN c.entries[s]
      PROVE  LimitOf(c, s, i) \in Named(c) /\ LimitOf(c, s, i) \in Nat
  <2>1. c.entries[s] \in Seq(Entry)
    BY DEF Shaped, EntriesOK
  <2>2. c.entries[s][i] \in Entry
    BY <2>1
  <2>3. LimitOf(c, s, i) \in Nat
    BY <2>2 DEF Entry, LimitOf
  <2>4. QED
    BY <2>3 DEF Named
<1>3. QED
  BY <1>1, <1>2

(* A price that no order names lets no more of the book trade than the next *)
(* one that an order does.                                                  *)
LEMMA VolumeAbove ==
    ASSUME NEW c, Shaped(c), NEW p \in Nat
    PROVE  VolumeAt(c, p) = 0 \/ \E q \in Named(c) : VolumeAt(c, p) <= VolumeAt(c, q)
<1> DEFINE U == {r \in Named(c) : r >= p}
<1>1. IsFiniteSet(U) /\ U \subseteq Int
  <2>1. U \subseteq Named(c)
    OBVIOUS
  <2>2. IsFiniteSet(Named(c)) /\ Named(c) \subseteq Nat \ {0}
    BY NamedAreNumbers
  <2> HIDE DEF U
  <2>3. QED
    BY <2>1, <2>2, FS_Subset
<1>2. /\ Offered(c, TRUE, p) \in Nat /\ Offered(c, FALSE, p) \in Nat
      /\ \A q : Offered(c, TRUE, q) \in Nat /\ Offered(c, FALSE, q) \in Nat
  BY TradesFacts
<1>3. CASE U = {}
  <2>1. TradesAt(c, TRUE, p) = {}
    <3> SUFFICES ASSUME NEW i \in TradesAt(c, TRUE, p)
                 PROVE  FALSE
      OBVIOUS
    <3>1. i \in DOMAIN c.entries[TRUE] /\ LimitOf(c, TRUE, i) >= p
      BY DEF TradesAt, Trades
    <3>2. LimitOf(c, TRUE, i) \in U
      BY <3>1, NamedAreNumbers
    <3>3. QED
      BY <1>3, <3>2
  <2>2. Offered(c, TRUE, p) = 0
    BY <2>1, SumEmpty DEF Offered
  <2> DEFINE a == Offered(c, TRUE, p)
             b == Offered(c, FALSE, p)
  <2>3. a = 0 /\ b \in Nat
    BY <1>2, <2>2
  <2> HIDE DEF a, b
  <2>4. min_u64(a, b) = 0
    BY <2>3 DEF min_u64
  <2>5. QED
    BY <2>4 DEF VolumeAt, a, b
<1>4. CASE U # {}
  <2> DEFINE q == Min(U)
  <2>1. q \in U /\ \A x \in U : q <= x
    <3> HIDE DEF U
    <3>1. QED
      BY <1>1, <1>4, MinOfSet
  <2> HIDE DEF q
  <2>2. q \in Named(c) /\ q \in Nat /\ q >= p
    BY <2>1, NamedAreNumbers
  <2>3. TradesAt(c, TRUE, p) \subseteq TradesAt(c, TRUE, q)
    <3> SUFFICES ASSUME NEW i \in TradesAt(c, TRUE, p)
                 PROVE  i \in TradesAt(c, TRUE, q)
      OBVIOUS
    <3>1. i \in DOMAIN c.entries[TRUE] /\ LimitOf(c, TRUE, i) >= p
      BY DEF TradesAt, Trades
    <3>2. LimitOf(c, TRUE, i) \in U /\ LimitOf(c, TRUE, i) \in Nat
      BY <3>1, NamedAreNumbers
    <3>3. LimitOf(c, TRUE, i) >= q
      BY <2>1, <2>2, <3>2
    <3>4. QED
      BY <3>1, <3>3 DEF TradesAt, Trades
  <2>4. TradesAt(c, FALSE, p) \subseteq TradesAt(c, FALSE, q)
    <3> SUFFICES ASSUME NEW i \in TradesAt(c, FALSE, p)
                 PROVE  i \in TradesAt(c, FALSE, q)
      OBVIOUS
    <3>1. i \in DOMAIN c.entries[FALSE] /\ LimitOf(c, FALSE, i) <= p
      BY DEF TradesAt, Trades
    <3>2. LimitOf(c, FALSE, i) \in Nat
      BY <3>1, NamedAreNumbers
    <3> DEFINE x == LimitOf(c, FALSE, i)
    <3>3. x \in Nat /\ x <= p
      BY <3>1, <3>2
    <3> HIDE DEF x, U
    <3>a. x <= q
      BY <2>2, <3>3
    <3>4. QED
      BY <3>1, <3>a DEF TradesAt, Trades, x
  <2> DEFINE a == Offered(c, TRUE, p)
             b == Offered(c, FALSE, p)
             k == Offered(c, TRUE, q)
             l == Offered(c, FALSE, q)
  <2>5. a <= k
    BY <2>3, LessTrades
  <2>6. b <= l
    BY <2>4, LessTrades
  <2>7. a \in Nat /\ b \in Nat /\ k \in Nat /\ l \in Nat
    BY <1>2
  <2> HIDE DEF a, b, k, l
  <2>8. min_u64(a, b) <= min_u64(k, l)
    BY <2>5, <2>6, <2>7 DEF min_u64
  <2>9. VolumeAt(c, p) <= VolumeAt(c, q)
    BY <2>8 DEF VolumeAt, a, b, k, l
  <2>10. QED
    BY <2>2, <2>9
<1>5. QED
  BY <1>3, <1>4

(* Once all prices were looked at, the best of them all is known.           *)
LEMMA BestOfAll ==
    ASSUME NEW c, Known(c), c.cursor = Len(c.pricing.candidates),
           c.pricing.candidates \in Seq(Nat \ {0})
    PROVE  BestOf(c.pricing, c, Named(c))
<1> DEFINE q == c.pricing.candidates
<1>1. DOMAIN q = 1..c.cursor
  <2>1. q \in Seq(Nat \ {0})
    OBVIOUS
  <2> HIDE DEF q
  <2>2. DOMAIN q = 1..Len(q)
    BY <2>1
  <2>3. QED
    BY <2>2 DEF q
<1>2. {q[i] : i \in DOMAIN q} = Named(c)
  BY DEF Known, Listed
<1>3. Seen(c) = Named(c)
  BY <1>1, <1>2 DEF Seen
<1>4. QED
  BY <1>3 DEF Known, BestSeen

(* What the price of a book is.  There is none only when nothing trades at  *)
(* any price an order names; and it is named by an order, lets as much      *)
(* trade as any price there is, and of the named ones that let as much      *)
(* leaves the least over, and on a tie is the least.                        *)
BestPrice(book, best) ==
    LET named == {o.limit_price : o \in book}
        vol(p) == Atomic!volume(book, p)
        gap(p) == Atomic!imbalance(book, p)
    IN  IF best = 0 THEN \A p \in named : vol(p) = 0
        ELSE /\ best \in named /\ \A p \in Nat : vol(p) <= vol(best)
             /\ \A p \in named \ {best} : vol(p) = vol(best) =>
                   (gap(p) > gap(best) \/ (gap(p) = gap(best) /\ p > best))

(* The price that pricing knows to be the best of all is that price.        *)
LEMMA KnownIsBest ==
    ASSUME BatchOK, NEW c, Shaped(c), Uncut(c, batch), Book(c, batch, Len(batch.revealed)),
           NEW q, BestOf(q, c, Named(c)),
           NEW best, best = (IF q.found THEN q.best_price ELSE 0)
    PROVE  BestPrice(orders_of(batch), best)
<1> DEFINE book == orders_of(batch)
           named == Named(c)
<1>1. {o.limit_price : o \in book} = named
  BY NamedByOrders
<1>2. \A p : Atomic!volume(book, p) = VolumeAt(c, p) /\ Atomic!imbalance(book, p) = GapAt(c, p)
  BY BookIsOrders
<1>3. named \subseteq Nat \ {0}
  BY NamedAreNumbers
<1>4. \A p : VolumeAt(c, p) \in Nat /\ GapAt(c, p) \in Nat
  BY TradesFacts
<1>5. \A p \in Nat : VolumeAt(c, p) = 0 \/ \E r \in named : VolumeAt(c, p) <= VolumeAt(c, r)
  BY VolumeAbove
<1> HIDE DEF book, named
<1>6. CASE ~q.found
  <2>1. best = 0 /\ \A p \in named : VolumeAt(c, p) = 0
    BY <1>6 DEF BestOf, named
  <2>2. QED
    BY <1>1, <1>2, <2>1 DEF BestPrice, book
<1>7. CASE q.found
  <2>1. /\ best = q.best_price /\ best \in named /\ best # 0 /\ best \in Nat
        /\ \A p \in named : ~Beats(c, p, best)
    BY <1>3, <1>7 DEF BestOf, named
  <2>2. ASSUME NEW p \in named
        PROVE  VolumeAt(c, p) <= VolumeAt(c, best)
    <3>1. ~(VolumeAt(c, p) > VolumeAt(c, best))
      BY <2>1 DEF Beats
    <3>2. QED
      BY <1>4, <3>1
  <2>3. ASSUME NEW p \in Nat
        PROVE  VolumeAt(c, p) <= VolumeAt(c, best)
    <3>1. CASE VolumeAt(c, p) = 0
      BY <1>4, <3>1
    <3>2. CASE \E r \in named : VolumeAt(c, p) <= VolumeAt(c, r)
      <4>1. PICK r \in named : VolumeAt(c, p) <= VolumeAt(c, r)
        BY <3>2
      <4>2. VolumeAt(c, r) <= VolumeAt(c, best)
        BY <2>2
      <4>3. VolumeAt(c, p) \in Nat /\ VolumeAt(c, r) \in Nat /\ VolumeAt(c, best) \in Nat
        BY <1>4
      <4>4. QED
        BY <4>1, <4>2, <4>3
    <3>3. QED
      BY <1>5, <3>1, <3>2
  <2>4. ASSUME NEW p \in named \ {best}, VolumeAt(c, p) = VolumeAt(c, best)
        PROVE  GapAt(c, p) > GapAt(c, best) \/ (GapAt(c, p) = GapAt(c, best) /\ p > best)
    <3>1. ~(GapAt(c, p) < GapAt(c, best) \/ (GapAt(c, p) = GapAt(c, best) /\ p < best))
      BY <2>1, <2>4 DEF Beats
    <3>2. GapAt(c, p) \in Nat /\ GapAt(c, best) \in Nat /\ p \in Nat /\ p # best
      BY <1>3, <1>4
    <3>3. QED
      BY <2>1, <3>1, <3>2
  <2>5. \A p \in Nat : Atomic!volume(book, p) <= Atomic!volume(book, best)
    BY <1>2, <2>3
  <2>6. \A p \in named \ {best} : Atomic!volume(book, p) = Atomic!volume(book, best) =>
            \/ Atomic!imbalance(book, p) > Atomic!imbalance(book, best)
            \/ Atomic!imbalance(book, p) = Atomic!imbalance(book, best) /\ p > best
    BY <1>2, <2>4
  <2>7. BestPrice(book, best)
    BY <1>1, <2>1, <2>5, <2>6 DEF BestPrice
  <2>8. QED
    BY <2>7 DEF book
<1>8. QED
  BY <1>6, <1>7

-----------------------------------------------------------------------------
(* The price through the stages. *)

(* The stages in which there is no price yet.                               *)
Unpriced == {STAGE_LOADING, STAGE_PRICING}

(* What is known of the price in each stage.                                *)
WellPriced(c, book) ==
    /\ c.stage \in Unpriced => c.alloc.clearing_price = 0
    /\ c.stage = STAGE_LOADING => Fresh(c.pricing)
    /\ c.stage = STAGE_PRICING => Known(c)
    /\ c.stage \notin Unpriced => BestPrice(book, c.alloc.clearing_price)

(* The end of pricing takes the best price there is.                        *)
LEMMA PricingEndsBest ==
    ASSUME BatchOK, NEW c, OpenOK(c, vault), Reading(c), Known(c),
           c.cursor = Len(c.pricing.candidates), c.alloc.clearing_price = 0,
           NEW d, d = finish_pricing(c)
    PROVE  WellPriced(d, orders_of(batch))
<1>1. DOMAIN c = ObjectFields /\ Shaped(c) /\ PricingOK(c)
  BY DEF OpenOK, Shaped
<1>2. DOMAIN c.alloc = AllocFields
  BY <1>1 DEF Shaped, AllocOK
<1> DEFINE best == IF c.pricing.found THEN c.pricing.best_price ELSE 0
<1>3. BestPrice(orders_of(batch), best)
  <2>1. BestOf(c.pricing, c, Named(c))
    BY <1>1, BestOfAll DEF PricingOK
  <2>2. Book(c, batch, Len(batch.revealed)) /\ Uncut(c, batch)
    BY DEF Reading, ReadSoFar
  <2> HIDE DEF best
  <2>3. best = IF c.pricing.found THEN c.pricing.best_price ELSE 0
    BY DEF best
  <2> DEFINE q == c.pricing
  <2>4. BestOf(q, c, Named(c)) /\ best = (IF q.found THEN q.best_price ELSE 0)
    BY <2>1, <2>3
  <2> HIDE DEF q
  <2>5. QED
    BY <1>1, <2>2, <2>4, KnownIsBest
<1>4. CASE ~c.pricing.found
  <2>1. d = [c EXCEPT !.cursor = 0, !.stage = STAGE_ROOTING]
    BY <1>4 DEF finish_pricing, enter
  <2>2. d.stage = STAGE_ROOTING /\ d.alloc = c.alloc
    BY <1>1, <2>1 DEF ObjectFields
  <2>3. best = 0
    BY <1>4
  <2> HIDE DEF best
  <2>4. QED
    BY <1>3, <2>2, <2>3, StagesDiffer DEF WellPriced, Unpriced
<1>5. CASE c.pricing.found
  <2> DEFINE p == c.pricing.best_price
             S(s) == {n \in 0..Len(c.entries[s]) : \A j \in 1..n :
                         IF s THEN c.entries[s][j].limit_price >= p
                         ELSE c.entries[s][j].limit_price <= p}
             elig == [s \in BOOLEAN |-> Max(S(s))]
             offered(s) == qty_over(c.entries[s], 1..elig[s])
             matched == min_u64(offered(TRUE), offered(FALSE))
             a == [c.alloc EXCEPT !.clearing_price = p, !.elig = elig, !.matched_base = matched]
  <2>1. d = [c EXCEPT !.alloc = a, !.cursor = 0, !.stage = STAGE_ALLOC_FULL]
    BY <1>5 DEF finish_pricing, enter, prefix
  <2>2. p = best
    BY <1>5
  <2> HIDE DEF p, elig, matched, best
  <2>3. a.clearing_price = p
    BY <1>2 DEF AllocFields
  <2> HIDE DEF a
  <2>4. d.stage = STAGE_ALLOC_FULL /\ d.alloc = a
    BY <1>1, <2>1 DEF ObjectFields
  <2>5. QED
    BY <1>3, <2>2, <2>3, <2>4, StagesDiffer DEF WellPriced, Unpriced
<1>6. QED
  BY <1>4, <1>5

(* A transaction of STAGE_PRICING keeps what is known, or ends with the     *)
(* best price.                                                              *)
LEMMA PriceWell ==
    ASSUME BatchOK, OpenOK(clearing, vault), clearing.cursor <= Len(clearing.pricing.candidates),
           clearing.stage = STAGE_PRICING, FairlyCleared(clearing, batch, frozen),
           WellPriced(clearing, orders_of(batch)),
           NEW budget \in Nat, NEW d, d = price_step(clearing, budget)
    PROVE  WellPriced(d, orders_of(batch))
<1> DEFINE total == Len(clearing.pricing.candidates)
           x == Advance(clearing, total, budget, price_unit)
<1>1. /\ OpenOK(x, vault) /\ x.stage = STAGE_PRICING
      /\ x.pricing.candidates = clearing.pricing.candidates /\ x.cursor <= total
  BY PriceLoop
<1>2. FairOpen(clearing, batch, frozen, Len(batch.revealed))
  BY DEF FairlyCleared
<1>3. Known(clearing) /\ clearing.alloc.clearing_price = 0
  BY DEF WellPriced, Unpriced
<1>4. Ranked(clearing)
  BY <1>2 DEF FairOpen, Book
<1>5. x.entries = clearing.entries /\ x.alloc = clearing.alloc /\ Known(x)
  BY <1>3, <1>4, KnownPricesLoop
<1>6. d = IF x.cursor >= total THEN finish_pricing(x) ELSE x
  BY DEF price_step
<1> HIDE DEF x
<1>7. CASE x.cursor >= total
  <2>1. x.cursor = Len(x.pricing.candidates)
    <3>1. x.cursor \in Nat
      BY <1>1 DEF OpenOK, Shaped
    <3>2. total \in Nat
      <4>1. clearing.pricing.candidates \in Seq(Nat \ {0})
        BY DEF OpenOK, PricingOK
      <4>2. QED
        BY <4>1
    <3>3. total = Len(x.pricing.candidates)
      BY <1>1
    <3> HIDE DEF total
    <3>4. QED
      BY <1>1, <1>7, <3>1, <3>2, <3>3
  <2>2. Reading(x)
    <3>1. Book(x, batch, Len(batch.revealed)) /\ Uncut(x, batch)
      BY <1>2, <1>5, BookOfEntries DEF FairOpen
    <3>2. QED
      BY <3>1 DEF Reading, ReadSoFar
  <2>3. d = finish_pricing(x)
    BY <1>6, <1>7
  <2>4. x.alloc.clearing_price = 0
    BY <1>3, <1>5
  <2>5. QED
    BY <1>1, <1>5, <2>1, <2>2, <2>3, <2>4, PricingEndsBest
<1>8. CASE ~(x.cursor >= total)
  <2>1. d = x
    BY <1>6, <1>8
  <2>2. d.stage = STAGE_PRICING /\ Known(d) /\ d.alloc.clearing_price = 0
    BY <1>1, <1>3, <1>5, <2>1
  <2>3. QED
    BY <2>2, StagesDiffer DEF WellPriced, Unpriced
<1>9. QED
  BY <1>7, <1>8

(* A transaction of STAGE_LOADING knows no price yet, or ends with what is  *)
(* known at first.                                                          *)
LEMMA LoadWell ==
    ASSUME OpenOK(clearing, vault), clearing.cursor <= Len(batch.revealed), VaultOK(vault),
           BatchOK, clearing.stage = STAGE_LOADING, FairlyCleared(clearing, batch, frozen),
           WellPriced(clearing, orders_of(batch)),
           NEW budget \in Nat, NEW d, d = load_step(clearing, batch, vault, budget)
    PROVE  WellPriced(d, orders_of(batch))
<1> DEFINE total == Len(batch.revealed)
           x == Advance(clearing, total, budget, LAMBDA y : load_unit(y, batch, vault))
<1>1. OpenOK(x, vault) /\ x.stage = STAGE_LOADING /\ x.cursor <= total
  BY LoadLoop
<1>2. ReadSoFar(clearing, clearing.cursor)
  BY DEF FairlyCleared, FairOpen, ReadSoFar
<1>3. ReadSoFar(x, x.cursor)
  BY <1>2, FairReadingLoop
<1>4. x.pricing = clearing.pricing /\ x.alloc = clearing.alloc
  <2>1. DOMAIN clearing = ObjectFields /\ clearing.cursor \in Nat
    BY DEF OpenOK, Shaped
  <2>2. QED
    BY <2>1, FreshLoadLoop
<1>5. Fresh(x.pricing) /\ x.alloc.clearing_price = 0
  BY <1>4 DEF WellPriced, Unpriced
<1>6. d = IF x.cursor >= total THEN finish_loading(x) ELSE x
  BY DEF load_step
<1>7. total \in Nat
  BY RevealedLength
<1> HIDE DEF x
<1>8. CASE x.cursor >= total
  <2>1. x.cursor = total
    <3>1. x.cursor \in Nat
      BY <1>1 DEF OpenOK, Shaped
    <3> HIDE DEF total
    <3>2. QED
      BY <1>1, <1>7, <1>8, <3>1
  <2>2. Reading(x)
    BY <1>3, <2>1 DEF Reading
  <2>3. d = finish_loading(x)
    BY <1>6, <1>8
  <2>4. PICK y : /\ OpenOK(y, vault) /\ y.stage = STAGE_PRICING /\ Known(y)
                 /\ y.entries = x.entries /\ y.alloc = x.alloc
                 /\ \/ d = finish_pricing(y) /\ y.cursor = Len(y.pricing.candidates)
                    \/ d = y
    BY <1>1, <1>5, <2>3, LoadingEndsKnown
  <2>5. Reading(y) /\ y.alloc.clearing_price = 0
    <3>1. Reading(y)
      BY <2>2, <2>4, BookOfEntries DEF Reading, ReadSoFar
    <3>2. QED
      BY <1>5, <2>4, <3>1
  <2>6. CASE d = finish_pricing(y) /\ y.cursor = Len(y.pricing.candidates)
    BY <2>4, <2>5, <2>6, PricingEndsBest
  <2>7. CASE d = y
    BY <2>4, <2>5, <2>7, StagesDiffer DEF WellPriced, Unpriced
  <2>8. QED
    BY <2>4, <2>6, <2>7
<1>9. CASE ~(x.cursor >= total)
  <2>1. d = x
    BY <1>6, <1>9
  <2>2. QED
    BY <1>1, <1>5, <2>1, StagesDiffer DEF WellPriced, Unpriced
<1>10. QED
  BY <1>8, <1>9

-----------------------------------------------------------------------------
(* The price is kept. *)

(* A price once taken is the price.                                         *)
SamePrice(c, d) ==
    d.stage \notin Unpriced /\ d.alloc.clearing_price = c.alloc.clearing_price

(* The passes do not touch it, not by the full fills, ...                   *)
LEMMA FullKeepsPrice ==
    ASSUME Shaped(clearing), Allocating(clearing, vault),
           clearing.stage \in {STAGE_ALLOC_FULL, STAGE_REALLOC_FULL}, NEW budget \in Nat,
           NEW d, d = alloc_full_step(clearing, budget, AfterFull(clearing))
    PROVE  SamePrice(clearing, d)
<1> DEFINE c == clearing
           total == eligible_count(c)
           x == Advance(c, total, budget, full_unit)
           m == [s \in BOOLEAN |-> marginal_level(c, s)]
           next == AfterFull(c)
<1>1. Beyond(c) /\ FullPass(c) /\ c.cursor <= total
  BY DEF Allocating, Passing, FirstPass, SecondPass
<1>2. Shaped(x) /\ Frame(c, x)
  BY <1>1, FullLoop
<1>3. d = IF x.cursor < total THEN x
          ELSE enter([x EXCEPT !.alloc = [@ EXCEPT
                 !.filled = [s \in BOOLEAN |-> m[s].cum],
                 !.pro_qty = [s \in BOOLEAN |-> m[s].lvl],
                 !.residual = [s \in BOOLEAN |-> c.alloc.matched_base - m[s].cum]]], next)
  BY DEF alloc_full_step
<1> HIDE DEF x, total
<1>4. x.stage = c.stage /\ x.alloc.clearing_price = c.alloc.clearing_price
  BY <1>2 DEF Frame, ObjectFields
<1>5. CASE x.cursor < total
  BY <1>3, <1>4, <1>5, StagesDiffer DEF SamePrice, Unpriced
<1>6. CASE ~(x.cursor < total)
  <2> DEFINE f == [s \in BOOLEAN |-> m[s].cum]
             w == [s \in BOOLEAN |-> m[s].lvl]
             r == [s \in BOOLEAN |-> c.alloc.matched_base - m[s].cum]
             z == [x.alloc EXCEPT !.filled = f, !.pro_qty = w, !.residual = r]
  <2>1. d = [x EXCEPT !.alloc = z, !.cursor = 0, !.stage = next]
    BY <1>3, <1>6 DEF enter
  <2> HIDE DEF f, w, r, m
  <2>2. z.elig = x.alloc.elig /\ z.matched_base = x.alloc.matched_base
        /\ z.clearing_price = x.alloc.clearing_price
    <3>1. DOMAIN x.alloc = AllocFields
      BY <1>2 DEF Shaped, AllocOK
    <3>2. QED
      BY <3>1 DEF AllocFields
  <2> HIDE DEF z, next
  <2>3. Turned(x, d, next)
    BY <1>2, <2>1, <2>2, EntersTurned
  <2>4. next \in {STAGE_ALLOC_PRORATA, STAGE_REALLOC_PRORATA}
    BY DEF AfterFull, next
  <2>5. QED
    BY <1>4, <2>3, <2>4, StagesDiffer DEF Turned, SamePrice, Unpriced
<1>7. QED
  BY <1>5, <1>6

(* ... neither by the shares ...                                            *)
LEMMA ProrataKeepsPrice ==
    ASSUME Shaped(clearing), Allocating(clearing, vault),
           clearing.stage \in {STAGE_ALLOC_PRORATA, STAGE_REALLOC_PRORATA}, NEW budget \in Nat,
           NEW d, d = alloc_prorata_step(clearing, budget, AfterProrata(clearing))
    PROVE  SamePrice(clearing, d)
<1> DEFINE c == clearing
           total == eligible_count(c)
           x == Advance(c, total, budget, prorata_unit)
           next == AfterProrata(c)
<1>1. Beyond(c) /\ ProrataPass(c) /\ c.cursor <= total
  BY DEF Allocating, Passing, FirstPass, SecondPass
<1>2. Shaped(x) /\ Frame(c, x)
  BY <1>1, ProrataLoop
<1>3. d = IF x.cursor < total THEN x
          ELSE enter([x EXCEPT !.alloc = [@ EXCEPT !.remainder_side = SIDE_BID]], next)
  BY DEF alloc_prorata_step
<1> HIDE DEF x, total
<1>4. x.stage = c.stage /\ x.alloc.clearing_price = c.alloc.clearing_price
  BY <1>2 DEF Frame, ObjectFields
<1>5. CASE x.cursor < total
  BY <1>3, <1>4, <1>5, StagesDiffer DEF SamePrice, Unpriced
<1>6. CASE ~(x.cursor < total)
  <2> DEFINE z == [x.alloc EXCEPT !.remainder_side = SIDE_BID]
  <2>1. d = [x EXCEPT !.alloc = z, !.cursor = 0, !.stage = next]
    BY <1>3, <1>6 DEF enter
  <2>2. z.elig = x.alloc.elig /\ z.matched_base = x.alloc.matched_base
        /\ z.clearing_price = x.alloc.clearing_price
    <3>1. DOMAIN x.alloc = AllocFields
      BY <1>2 DEF Shaped, AllocOK
    <3>2. QED
      BY <3>1 DEF AllocFields
  <2> HIDE DEF z, next
  <2>3. Turned(x, d, next)
    BY <1>2, <2>1, <2>2, EntersTurned
  <2>4. next \in {STAGE_ALLOC_REMAINDER, STAGE_REALLOC_REMAINDER}
    BY DEF AfterProrata, next
  <2>5. QED
    BY <1>4, <2>3, <2>4, StagesDiffer DEF Turned, SamePrice, Unpriced
<1>7. QED
  BY <1>5, <1>6

(* ... nor by the sats left over, ...                                        *)
LEMMA RemainderKeepsPrice ==
    ASSUME Shaped(clearing), Allocating(clearing, vault),
           clearing.stage \in {STAGE_ALLOC_REMAINDER, STAGE_REALLOC_REMAINDER},
           NEW budget \in Nat,
           NEW d, d = alloc_remainder_step(clearing, budget, AfterRemainder(clearing))
    PROVE  SamePrice(clearing, d)
<1> DEFINE c == clearing
           x == Remainder!LoopFrom(c)[budget]
           next == AfterRemainder(c)
<1>1. Beyond(c) /\ RemainderPass(c)
  BY DEF Allocating, Passing, FirstPass, SecondPass
<1>2. Shaped(x) /\ Frame(c, x)
  BY <1>1, RemainderLoop
<1>3. d = IF x.alloc.remainder_side = SIDE_NONE THEN enter(x, next) ELSE x
  BY DEF alloc_remainder_step, Remainder!LoopFrom, Remainder!Turns, RemainderTurn
<1> HIDE DEF x
<1>4. x.stage = c.stage /\ x.alloc.clearing_price = c.alloc.clearing_price
  BY <1>2 DEF Frame, ObjectFields
<1>5. CASE x.alloc.remainder_side # SIDE_NONE
  BY <1>3, <1>4, <1>5, StagesDiffer DEF SamePrice, Unpriced
<1>6. CASE x.alloc.remainder_side = SIDE_NONE
  <2>1. d = enter(x, next)
    BY <1>3, <1>6
  <2> HIDE DEF next
  <2>2. Turned(x, d, next)
    BY <1>2, <2>1, EnterTurns
  <2>3. next \in {STAGE_TRUNCATE, STAGE_ROOTING}
    BY DEF AfterRemainder, next
  <2>4. QED
    BY <1>4, <2>2, <2>3, StagesDiffer DEF Turned, SamePrice, Unpriced
<1>7. QED
  BY <1>5, <1>6

(* ... nor does truncation, ...                                             *)
LEMMA TruncateKeepsPrice ==
    ASSUME Shaped(clearing), Truncating(clearing, vault), VaultOK(vault), BatchOK,
           clearing.stage = STAGE_TRUNCATE, FairCut(clearing, batch, frozen), NEW budget \in Nat,
           NEW d, d = truncate_step(clearing, vault, budget)
    PROVE  SamePrice(clearing, d)
<1> DEFINE c == clearing
           total == eligible_count(c)
           x == Advance(c, total, budget, LAMBDA y : truncate_unit(y, vault))
<1>1. Priced(c) /\ Beyond(c) /\ GrantsCovered(c, vault) /\ c.cursor <= total
  BY DEF Truncating
<1>2. TruncateFrame(c, x) /\ x.alloc = c.alloc
  BY <1>1, FairCutsLoop
<1>3. d = IF x.cursor < total THEN x ELSE finish_truncation(x)
  BY DEF truncate_step
<1>4. DOMAIN x = ObjectFields /\ x.stage = STAGE_TRUNCATE
  BY <1>2 DEF TruncateFrame, Shaped
<1> HIDE DEF x, total
<1>5. CASE x.cursor < total
  BY <1>2, <1>3, <1>4, <1>5, StagesDiffer DEF SamePrice, Unpriced
<1>6. CASE ~(x.cursor < total)
  <2> DEFINE p == x.alloc.clearing_price
             elig == x.alloc.elig
             es == [s \in BOOLEAN |-> Survivors(x.entries[s], elig[s])]
             matched == min_u64(Kept(x.entries[TRUE], elig[TRUE]),
                                Kept(x.entries[FALSE], elig[FALSE]))
             a == new_allocation(p, matched, elig)
  <2>1. d = finish_truncation(x)
    BY <1>3, <1>6
  <2>2. finish_truncation(x)
          = [x EXCEPT !.entries = es, !.alloc = a, !.cursor = 0, !.stage = STAGE_REALLOC_FULL]
    BY DEF finish_truncation, enter, Survivors, Survivor, Kept
  <2>3. a.clearing_price = p
    BY DEF new_allocation
  <2> HIDE DEF a, es
  <2>4. d.alloc = a /\ d.stage = STAGE_REALLOC_FULL
    BY <1>4, <2>1, <2>2 DEF ObjectFields
  <2>5. QED
    BY <1>2, <2>3, <2>4, StagesDiffer DEF SamePrice, Unpriced
<1>7. QED
  BY <1>5, <1>6

(* ... nor the making of the fills, ...                                     *)
LEMMA RootKeepsPrice ==
    ASSUME Shaped(clearing), Rooting(clearing, vault), clearing.stage = STAGE_ROOTING,
           NEW budget \in Nat, NEW d, d = rooting_step(clearing, budget)
    PROVE  SamePrice(clearing, d)
<1> DEFINE c == clearing
           total == Len(all_entries(c))
           x == Advance(c, total, budget, root_unit)
<1>1. FillsOK(c) /\ FillsAddUp(c) /\ c.cursor <= total
  BY DEF Rooting
<1>2. SameBook(c, x)
  BY <1>1, RootLoop
<1>3. d = IF x.cursor < total THEN x
          ELSE enter([x EXCEPT !.fee_quote = x.quote_paid - x.quote_recv], STAGE_SETTLING)
  BY DEF rooting_step
<1> HIDE DEF x, total
<1>4. x.alloc = c.alloc /\ x.stage = STAGE_ROOTING /\ DOMAIN x = ObjectFields
  BY <1>2 DEF SameBook, Shaped
<1>5. CASE x.cursor < total
  BY <1>3, <1>4, <1>5, StagesDiffer DEF SamePrice, Unpriced
<1>6. CASE ~(x.cursor < total)
  <2>1. d = [[x EXCEPT !.fee_quote = x.quote_paid - x.quote_recv]
               EXCEPT !.cursor = 0, !.stage = STAGE_SETTLING]
    BY <1>3, <1>6 DEF enter
  <2>2. d.alloc = x.alloc /\ d.stage = STAGE_SETTLING
    BY <1>4, <2>1 DEF ObjectFields
  <2>3. QED
    BY <1>4, <2>2, StagesDiffer DEF SamePrice, Unpriced
<1>7. QED
  BY <1>5, <1>6

(* ... nor settlement.                                                      *)
LEMMA SettleKeepsPrice ==
    ASSUME Shaped(clearing), clearing.stage = STAGE_SETTLING, NEW budget \in Nat,
           NEW after, after = settle_step(clearing, vault, budget)
    PROVE  SamePrice(clearing, after.clearing)
<1> DEFINE c == clearing
           n == min_u64(budget, Len(c.fills) - c.cursor)
           now == SubSeq(c.fills, c.cursor + 1, c.cursor + n)
           pushes == push_fills(vault, now)
           last == c.cursor + n >= Len(c.fills)
           fee == IF last THEN c.fee_quote ELSE 0
           k == c.cursor + n
           td == c.total_debits + total_over(1..n, LAMBDA i : debit_of(now[i]))
           tc == c.total_credits + total_over(1..n, LAMBDA i : credit_of(now[i])) + fee
           d == [c EXCEPT !.cursor = k, !.total_debits = td, !.total_credits = tc]
           e == IF last THEN [d EXCEPT !.stage = STAGE_DONE] ELSE d
<1>1. after.clearing = e
  BY DEF settle_step
<1>2. DOMAIN c = ObjectFields
  BY DEF Shaped
<1> HIDE DEF n, td, tc, k, last
<1>3. DOMAIN d = ObjectFields /\ d.alloc = c.alloc /\ d.stage = STAGE_SETTLING
  BY <1>2 DEF ObjectFields
<1> HIDE DEF d
<1>4. e.alloc = c.alloc /\ e.stage \in {STAGE_SETTLING, STAGE_DONE}
  BY <1>3 DEF ObjectFields
<1> HIDE DEF e
<1>5. QED
  BY <1>1, <1>4, StagesDiffer DEF SamePrice, Unpriced

-----------------------------------------------------------------------------
(* The steps of the machine know the price. *)

(* The inductive invariant: what is known of the price.                     *)
PriceInv == clearing # NoClearing => WellPriced(clearing, orders_of(batch))

(* A price that is kept is still the best.                                  *)
LEMMA SamePriceWell ==
    ASSUME NEW c, NEW d, NEW book, c.stage \notin Unpriced, WellPriced(c, book), SamePrice(c, d)
    PROVE  WellPriced(d, book)
<1>1. BestPrice(book, c.alloc.clearing_price)
  BY DEF WellPriced
<1>2. d.stage \notin Unpriced /\ d.alloc.clearing_price = c.alloc.clearing_price
  BY DEF SamePrice
<1>3. BestPrice(book, d.alloc.clearing_price)
  BY <1>1, <1>2
<1>4. QED
  BY <1>2, <1>3 DEF WellPriced, Unpriced

(* After the first two stages the price is kept.                            *)
LEMMA StageKeepsPrice ==
    ASSUME BatchOK, VaultOK(vault), ClearingOK(clearing, batch, vault),
           FairlyCleared(clearing, batch, frozen), clearing.stage \notin Unpriced,
           NEW budget \in Nat, NEW after, after = stage_step(clearing, budget)
    PROVE  SamePrice(clearing, after.clearing)
<1>1. /\ Shaped(clearing) /\ Allocating(clearing, vault)
      /\ Truncating(clearing, vault) /\ Rooting(clearing, vault)
  BY DEF ClearingOK
<1>2. ASSUME NEW d
      PROVE  Alone(d).clearing = d
  BY DEF Alone
<1>3. clearing.stage \in Stages
  BY <1>1 DEF Shaped
<1>4. CASE clearing.stage \in {STAGE_ALLOC_FULL, STAGE_REALLOC_FULL}
  <2> DEFINE d == alloc_full_step(clearing, budget, AfterFull(clearing))
  <2>1. SamePrice(clearing, d)
    BY <1>1, <1>4, FullKeepsPrice
  <2>2. after = Alone(d)
    BY <1>4, StageTaken
  <2> HIDE DEF d
  <2>3. QED
    BY <1>2, <2>1, <2>2
<1>5. CASE clearing.stage \in {STAGE_ALLOC_PRORATA, STAGE_REALLOC_PRORATA}
  <2> DEFINE d == alloc_prorata_step(clearing, budget, AfterProrata(clearing))
  <2>1. SamePrice(clearing, d)
    BY <1>1, <1>5, ProrataKeepsPrice
  <2>2. after = Alone(d)
    BY <1>5, StageTaken
  <2> HIDE DEF d
  <2>3. QED
    BY <1>2, <2>1, <2>2
<1>6. CASE clearing.stage \in {STAGE_ALLOC_REMAINDER, STAGE_REALLOC_REMAINDER}
  <2> DEFINE d == alloc_remainder_step(clearing, budget, AfterRemainder(clearing))
  <2>1. SamePrice(clearing, d)
    BY <1>1, <1>6, RemainderKeepsPrice
  <2>2. after = Alone(d)
    BY <1>6, StageTaken
  <2> HIDE DEF d
  <2>3. QED
    BY <1>2, <2>1, <2>2
<1>7. CASE clearing.stage = STAGE_TRUNCATE
  <2> DEFINE d == truncate_step(clearing, vault, budget)
  <2>1. FairCut(clearing, batch, frozen)
    BY <1>7 DEF FairlyCleared
  <2>2. SamePrice(clearing, d)
    BY <1>1, <1>7, <2>1, TruncateKeepsPrice
  <2>3. after = Alone(d)
    BY <1>7, StageTaken
  <2> HIDE DEF d
  <2>4. QED
    BY <1>2, <2>2, <2>3
<1>8. CASE clearing.stage = STAGE_ROOTING
  <2> DEFINE d == rooting_step(clearing, budget)
             ok == rooting_asserts(clearing, budget)
  <2>1. SamePrice(clearing, d)
    BY <1>1, <1>8, RootKeepsPrice
  <2>2. after = [Alone(d) EXCEPT !.ok = ok]
    BY <1>8, StageTaken
  <2> HIDE DEF d, ok
  <2>3. after.clearing = d
    BY <2>2 DEF Alone
  <2>4. QED
    BY <2>1, <2>3
<1>9. CASE clearing.stage = STAGE_SETTLING
  <2>1. after = settle_step(clearing, vault, budget)
    BY <1>9, StageTaken
  <2>2. QED
    BY <1>1, <1>9, <2>1, SettleKeepsPrice
<1>10. CASE clearing.stage = STAGE_DONE
  <2>1. after = Alone(clearing)
    BY <1>10, StageTaken
  <2>2. after.clearing = clearing
    BY <1>2, <2>1
  <2>3. QED
    BY <2>2 DEF SamePrice
<1>11. QED
  BY <1>3, <1>4, <1>5, <1>6, <1>7, <1>8, <1>9, <1>10, StagesListed DEF Unpriced

(* Whatever the stage, what is known of the price is known after it.        *)
LEMMA StageWell ==
    ASSUME BatchOK, VaultOK(vault), ClearingOK(clearing, batch, vault),
           FairlyCleared(clearing, batch, frozen), WellPriced(clearing, orders_of(batch)),
           NEW budget \in Nat, NEW after, after = stage_step(clearing, budget)
    PROVE  WellPriced(after.clearing, orders_of(batch))
<1>1. Shaped(clearing) /\ Opening(clearing, batch, vault)
  BY DEF ClearingOK
<1>2. ASSUME NEW d
      PROVE  Alone(d).clearing = d
  BY DEF Alone
<1>3. CASE clearing.stage = STAGE_LOADING
  <2> DEFINE d == load_step(clearing, batch, vault, budget)
  <2>1. OpenOK(clearing, vault) /\ clearing.cursor <= Len(batch.revealed)
    BY <1>1, <1>3 DEF Opening, OpenOK
  <2>2. WellPriced(d, orders_of(batch))
    BY <1>3, <2>1, LoadWell
  <2>3. after = Alone(d)
    BY <1>3, StageTaken
  <2> HIDE DEF d
  <2>4. QED
    BY <1>2, <2>2, <2>3
<1>4. CASE clearing.stage = STAGE_PRICING
  <2> DEFINE d == price_step(clearing, budget)
  <2>1. OpenOK(clearing, vault) /\ clearing.cursor <= Len(clearing.pricing.candidates)
    BY <1>1, <1>4 DEF Opening, OpenOK
  <2>2. WellPriced(d, orders_of(batch))
    BY <1>4, <2>1, PriceWell
  <2>3. after = Alone(d)
    BY <1>4, StageTaken
  <2> HIDE DEF d
  <2>4. QED
    BY <1>2, <2>2, <2>3
<1>5. CASE clearing.stage \notin Unpriced
  <2>1. SamePrice(clearing, after.clearing)
    BY <1>5, StageKeepsPrice
  <2>2. QED
    BY <1>5, <2>1, SamePriceWell
<1>6. QED
  BY <1>3, <1>4, <1>5 DEF Unpriced

(* A transaction keeps what is known of the price.                          *)
LEMMA StepWell ==
    ASSUME Inv, FairInv, PriceInv, NEW budget \in Nat, step(budget)
    PROVE  PriceInv'
<1> DEFINE after == stage_step(clearing, budget)
           done == after.clearing.stage = STAGE_DONE
<1>1. /\ clearing # NoClearing /\ clearing' = after.clearing
      /\ batch' = IF done THEN [batch EXCEPT !.state = STATE_SETTLED] ELSE batch
  BY DEF step
<1>2. BatchOK /\ VaultOK(vault) /\ ClearingOK(clearing, batch, vault)
  BY <1>1 DEF Inv, ClearingInv
<1>3. FairlyCleared(clearing, batch, frozen) /\ WellPriced(clearing, orders_of(batch))
  BY <1>1 DEF FairInv, PriceInv
<1>4. WellPriced(after.clearing, orders_of(batch))
  BY <1>2, <1>3, StageWell
<1>5. batch'.revealed = batch.revealed /\ batch'.is_revealed = batch.is_revealed
  <2> HIDE DEF done
  <2>1. QED
    BY <1>1, <1>2 DEF BatchOK
<1> HIDE DEF after
<1>6. orders_of(batch') = orders_of(batch)
  BY <1>5 DEF orders_of
<1>7. WellPriced(clearing', orders_of(batch'))
  BY <1>1, <1>4, <1>6
<1>8. QED
  BY <1>7 DEF PriceInv

(* begin starts with no price.                                              *)
LEMMA BeginWell ==
    ASSUME begin
    PROVE  PriceInv'
<1>1. clearing' = new_clearing(vault)
  BY DEF begin
<1>2. /\ clearing'.stage = STAGE_LOADING /\ clearing'.alloc.clearing_price = 0
      /\ Fresh(clearing'.pricing)
  BY <1>1 DEF new_clearing, new_allocation, Fresh
<1>3. WellPriced(clearing', orders_of(batch'))
  BY <1>2, StagesDiffer DEF WellPriced, Unpriced
<1>4. QED
  BY <1>3 DEF PriceInv

(* Neither the vault nor the snapshot matters to it.                        *)
LEMMA OthersWell ==
    ASSUME PriceInv, UNCHANGED <<batch, clearing>>
    PROVE  PriceInv'
  BY DEF PriceInv, orders_of

(* PriceInv holds throughout: beside Inv and FairInv it is inductive.       *)
THEOREM PriceInvariance == Spec => []PriceInv
<1>1. Init => PriceInv
  BY DEF Init, PriceInv
<1>2. Inv /\ FairInv /\ PriceInv /\ [Next]_vars => PriceInv'
  <2> SUFFICES ASSUME Inv, FairInv, PriceInv, [Next]_vars
               PROVE  PriceInv'
    OBVIOUS
  <2>1. CASE begin
    BY <2>1, BeginWell
  <2>2. CASE Step
    <3>1. PICK budget \in Budgets : step(budget)
      BY <2>2 DEF Step
    <3>2. budget \in Nat
      BY ClearingAssumption
    <3>3. QED
      BY <3>1, <3>2, StepWell
  <2>3. CASE TopUp
    <3>1. UNCHANGED <<batch, clearing>>
      BY <2>3 DEF TopUp, TopUpBase, TopUpQuote
    <3>2. QED
      BY <3>1, OthersWell
  <2>4. CASE Withdraw
    <3>1. UNCHANGED <<batch, clearing>>
      BY <2>4 DEF Withdraw, WithdrawBase, WithdrawQuote
    <3>2. QED
      BY <3>1, OthersWell
  <2>5. CASE SetFee
    <3>1. UNCHANGED <<batch, clearing>>
      BY <2>5 DEF SetFee, set_fee_params
    <3>2. QED
      BY <3>1, OthersWell
  <2>6. CASE UNCHANGED vars
    <3>1. UNCHANGED <<batch, clearing>>
      BY <2>6 DEF vars
    <3>2. QED
      BY <3>1, OthersWell
  <2>7. QED
    BY <2>1, <2>2, <2>3, <2>4, <2>5, <2>6 DEF Next
<1>3. QED
  BY <1>1, <1>2, Invariance, FairInvariance, PTL DEF Spec

-----------------------------------------------------------------------------
(* The price. *)

(* Once the fills are final, the price is the best there is for the orders  *)
(* revealed, funded or not: no price, named or not, would have let more     *)
(* trade, none that an order names as much with less left over nor, on a    *)
(* tie, for less, and there is none only when nothing crosses.              *)
THEOREM PriceIsBest == Spec => []PriceMaximisesVolume
<1>1. Inv /\ PriceInv => PriceMaximisesVolume
  <2> SUFFICES ASSUME Inv, PriceInv, decided
               PROVE  PriceMaximisesVolume
    BY DEF PriceMaximisesVolume
  <2> DEFINE book == orders_of(batch)
             best == clearing.alloc.clearing_price
             named == {o.limit_price : o \in book}
  <2>1. clearing # NoClearing /\ clearing.stage \in {STAGE_SETTLING, STAGE_DONE}
    BY DEF decided, settling, finished, at_stage
  <2>2. BestPrice(book, best)
    BY <2>1, StagesDiffer DEF PriceInv, WellPriced, Unpriced
  <2>3. BatchOK
    BY DEF Inv
  <2>4. best # 0 => \A p \in 1..Max(named) + 1 : p \in Nat
    OBVIOUS
  <2> HIDE DEF book, best
  <2>5. IF best = 0 THEN \A p \in named : Atomic!volume(book, p) = 0
        ELSE /\ \A p \in 1..Max(named) + 1 : Atomic!volume(book, p) <= Atomic!volume(book, best)
             /\ \A p \in named \ {best} : Atomic!volume(book, p) = Atomic!volume(book, best) =>
                   \/ Atomic!imbalance(book, p) > Atomic!imbalance(book, best)
                   \/ /\ Atomic!imbalance(book, p) = Atomic!imbalance(book, best)
                      /\ p > best
    BY <2>2, <2>4 DEF BestPrice
  <2>6. QED
    BY <2>5 DEF PriceMaximisesVolume, book, best
<1>2. QED
  BY <1>1, Invariance, PriceInvariance, PTL
=============================================================================
