--------------------------- MODULE ClearingProofs ---------------------------
(***************************************************************************)
(* That the withdrawal lock and the settlement of Clearing do what they    *)
(* promise, for any orders, accounts, balances, budgets and interleaving.  *)
(*                                                                         *)
(* Inv says, stage by stage, what the clearing owes against what the books *)
(* hold: while the book is read and priced, every account still has its    *)
(* snapshot; during the first pass too; while fills are truncated, what    *)
(* was granted and what is left of the rows is covered; during the second  *)
(* pass, whatever survived is covered whole, and no share exceeds what was *)
(* asked (the remainder goes to entries that were rounded down); while the *)
(* fills are made, what is filled; while they are pushed, the rest of      *)
(* them.  Each stage is a loop cut short by a budget, so each is an        *)
(* instance of LoopRules: one lemma for its turn, one for the loop, one    *)
(* for the transaction.                                                    *)
(***************************************************************************)
EXTENDS Clearing, SumProofs, SequenceTheorems

-----------------------------------------------------------------------------
(* What things cost. *)

(* A product and a quotient.                                                *)
LEMMA QuotientBounds ==
    ASSUME NEW a \in Int, NEW b \in Nat \ {0}
    PROVE  /\ a \div b \in Int
           /\ (a \div b) * b <= a /\ a < (a \div b) * b + b
<1>1. a = (b * (a \div b)) + (a % b) /\ a % b \in 0..(b - 1) /\ a \div b \in Int
  OBVIOUS
<1> DEFINE q == a \div b
<1>2. (a \div b) * b = b * (a \div b)
  OBVIOUS
<1>3. (a \div b) * b \in Int
  OBVIOUS
<1>4. QED
  BY <1>1, <1>2, <1>3

(* Products grow with their factors.                                        *)
LEMMA ProductGrows ==
    ASSUME NEW a \in Int, NEW b \in Int, NEW c \in Nat, a <= b
    PROVE  a * c <= b * c
  OBVIOUS

(* A product of naturals is one.                                            *)
LEMMA ProductNat ==
    ASSUME NEW a \in Nat, NEW b \in Nat
    PROVE  a * b \in Nat
  OBVIOUS

(* A quotient is the greatest number of times.                              *)
LEMMA QuotientGreatest ==
    ASSUME NEW a \in Int, NEW b \in Nat \ {0}, NEW q \in Int, q * b <= a
    PROVE  q <= a \div b
<1> SUFFICES ASSUME a \div b < q
             PROVE  FALSE
  BY QuotientBounds
<1>1. a < (a \div b) * b + b /\ a \div b \in Int
  BY QuotientBounds
<1> DEFINE r == a \div b
<1>2. r + 1 <= q /\ r \in Int
  BY <1>1
<1> HIDE DEF r
<1>3. (r + 1) * b <= q * b
  BY <1>2, ProductGrows
<1>4. (r + 1) * b = r * b + b /\ r * b \in Int /\ q * b \in Int
  BY <1>2
<1>5. a < r * b + b
  BY <1>1 DEF r
<1>6. QED
  BY <1>3, <1>4, <1>5

(* Quotients grow with what is divided.                                     *)
LEMMA QuotientGrows ==
    ASSUME NEW a \in Int, NEW c \in Int, NEW b \in Nat \ {0}, a <= c
    PROVE  a \div b <= c \div b
<1>1. (a \div b) * b <= a /\ a \div b \in Int /\ (a \div b) * b \in Int
  BY QuotientBounds
<1>2. (a \div b) * b <= c
  BY <1>1
<1>3. QED
  BY <1>1, <1>2, QuotientGreatest

(* A quotient of naturals is one.                                           *)
LEMMA QuotientNat ==
    ASSUME NEW a \in Nat, NEW b \in Nat \ {0}
    PROVE  a \div b \in Nat
<1>1. 0 * b <= a
  OBVIOUS
<1>2. 0 <= a \div b /\ a \div b \in Int
  BY <1>1, QuotientGreatest, QuotientBounds
<1>3. QED
  BY <1>2

(* What a buyer pays for more is not less.                                  *)
LEMMA BidCostGrows ==
    ASSUME NEW m \in Nat, NEW n \in Nat, m <= n, NEW p \in Nat
    PROVE  /\ quote_of_bid(m, p) \in Nat /\ quote_of_bid(n, p) \in Nat
           /\ quote_of_bid(m, p) <= quote_of_bid(n, p)
<1>1. m * p \in Nat /\ n * p \in Nat /\ m * p <= n * p
  BY ProductNat, ProductGrows
<1>2. PRICE_SCALE \in Nat \ {0}
  BY ScaleAssumption
<1> DEFINE x == m * p
           y == n * p
           z == PRICE_SCALE
<1> HIDE DEF x, y, z
<1>3. x + z - 1 \in Nat /\ y + z - 1 \in Nat /\ x + z - 1 <= y + z - 1 /\ z \in Nat \ {0}
  BY <1>1, <1>2 DEF x, y, z
<1>4. /\ (x + z - 1) \div z \in Nat /\ (y + z - 1) \div z \in Nat
      /\ (x + z - 1) \div z <= (y + z - 1) \div z
  BY <1>3, QuotientNat, QuotientGrows
<1>5. QED
  BY <1>4 DEF quote_of_bid, ceil_mul_div, x, y, z

(* A buyer who is granted what the balance covers has the quote for it.     *)
LEMMA BidIsCovered ==
    ASSUME NEW q \in Nat, NEW p \in Nat \ {0}, NEW n \in Nat,
           n <= floor_mul_div(q, PRICE_SCALE, p)
    PROVE  quote_of_bid(n, p) <= q
<1> DEFINE z == PRICE_SCALE
           a == q * z
<1>1. z \in Nat \ {0}
  BY ScaleAssumption
<1>2. a \in Nat
  BY <1>1, ProductNat
<1>3. n <= a \div p
  BY DEF floor_mul_div
<1> HIDE DEF z
<1>4. n * p <= a
  <2> HIDE DEF a
  <2>1. (a \div p) * p <= a /\ a \div p \in Int
    BY <1>2, QuotientBounds
  <2>2. n * p <= (a \div p) * p
    BY <1>3, <2>1, ProductGrows
  <2>3. n * p \in Int /\ (a \div p) * p \in Int
    BY <2>1
  <2>4. QED
    BY <1>2, <2>1, <2>2, <2>3
<1> DEFINE x == n * p
           r == (x + z - 1) \div z
<1>5. x \in Nat
  BY ProductNat
<1> HIDE DEF x
<1>6. r * z <= x + z - 1 /\ r \in Int
  BY <1>1, <1>5, QuotientBounds
<1>7. x <= q * z
  BY <1>4 DEF x
<1> HIDE DEF r
<1>8. r <= q
  <2> SUFFICES ASSUME q < r
               PROVE  FALSE
    BY <1>6
  <2>1. q + 1 <= r
    BY <1>6
  <2>2. (q + 1) * z <= r * z
    BY <1>1, <1>6, <2>1, ProductGrows
  <2>3. (q + 1) * z = q * z + z /\ q * z \in Int /\ r * z \in Int
    BY <1>1, <1>6
  <2>4. QED
    BY <1>1, <1>5, <1>6, <1>7, <2>2, <2>3
<1>9. QED
  BY <1>8 DEF quote_of_bid, ceil_mul_div, r, x, z

(* A pro-rata share of what does not go round is less than was asked, and   *)
(* the fraction it leaves is a proper one.                                  *)
LEMMA ShareFacts ==
    ASSUME NEW r \in Nat, NEW q \in Nat, NEW p \in Nat, r < p
    PROVE  /\ prorata_share(r, q, p) \in Nat
           /\ prorata_share(r, q, p) <= q
           /\ r * q - prorata_share(r, q, p) * p \in 0..(p - 1)
<1> DEFINE a == r * q
           f == a \div p
<1>1. a \in Nat
  BY ProductNat
<1>2. a <= p * q
  <2>1. r * q <= p * q
    BY ProductGrows
  <2>2. QED
    BY <2>1
<1> HIDE DEF a
<1>3. f \in Nat /\ f * p <= a /\ a < f * p + p
  BY <1>1, QuotientNat, QuotientBounds
<1> HIDE DEF f
<1>4. f <= q
  <2> SUFFICES ASSUME q < f
               PROVE  FALSE
    BY <1>3
  <2>1. q + 1 <= f
    BY <1>3
  <2>2. (q + 1) * p <= f * p
    BY <1>3, <2>1, ProductGrows
  <2>3. (q + 1) * p = p * q + p /\ p * q \in Int /\ f * p \in Int
    BY <1>3
  <2>4. QED
    BY <1>1, <1>2, <1>3, <2>2, <2>3
<1>5. a - f * p \in 0..(p - 1)
  <2>1. f * p \in Int
    BY <1>3
  <2>2. QED
    BY <1>1, <1>3, <2>1
<1>6. prorata_share(r, q, p) = f
  BY DEF prorata_share, floor_mul_div, f, a
<1>7. QED
  BY <1>3, <1>4, <1>5, <1>6 DEF a

(* An entry whose share was rounded down can take one more.                 *)
LEMMA OneMoreFits ==
    ASSUME NEW r \in Nat, NEW q \in Nat, NEW p \in Nat, r < p, NEW f \in Nat,
           r * q - p * f > 0
    PROVE  f + 1 <= q
<1> SUFFICES ASSUME q <= f
             PROVE  FALSE
  OBVIOUS
<1>1. r * q <= p * q /\ q * p <= f * p
  BY ProductGrows
<1>2. p * q = q * p /\ f * p = p * f /\ r * q \in Int /\ q * p \in Int /\ f * p \in Int
  OBVIOUS
<1>3. QED
  BY <1>1, <1>2

-----------------------------------------------------------------------------
(* Quantities, prefixes and levels. *)

Entry ==
    [order_index : Nat, submitter : Addresses, is_bid : BOOLEAN, limit_price : Nat \ {0},
     qty_sats : Nat, fill_base : Nat, frac : Int, bumped : BOOLEAN]

Quantities(s) == [i \in DOMAIN s |-> s[i].qty_sats]

(* What some entries ask for together is a sum, and a natural.              *)
LEMMA QtyOver ==
    ASSUME NEW s \in Seq(Entry), NEW I, I \subseteq DOMAIN s
    PROVE  /\ IsFiniteSet(I)
           /\ qty_over(s, I) = SumOf(Quantities(s), I)
           /\ qty_over(s, I) \in Nat
           /\ \A i \in I : Quantities(s)[i] \in Nat
<1>1. IsFiniteSet(I)
  <2>1. DOMAIN s = 1..Len(s) /\ Len(s) \in Nat
    OBVIOUS
  <2>2. IsFiniteSet(1..Len(s))
    BY <2>1, FS_Interval
  <2>3. QED
    BY <2>1, <2>2, FS_Subset
<1> DEFINE f == [i \in I |-> s[i].qty_sats]
           g == Quantities(s)
<1>2. \A i \in I : f[i] = g[i] /\ g[i] \in Nat
  <2> SUFFICES ASSUME NEW i \in I
               PROVE  s[i].qty_sats \in Nat
    BY DEF Quantities
  <2>1. s[i] \in Entry
    OBVIOUS
  <2>2. QED
    BY <2>1 DEF Entry
<1>3. qty_over(s, I) = SumOf(f, I)
  BY DEF qty_over, total_over, SumOf
<1> HIDE DEF f, g
<1>4. SumOf(f, I) = SumOf(g, I) /\ SumOf(g, I) \in Nat
  BY <1>1, <1>2, SumSame, SumNat
<1>5. QED
  BY <1>1, <1>2, <1>3, <1>4 DEF g

(* How the greatest of some numbers and zero, and the least of some numbers *)
(* and a bound, are taken.                                                  *)
LEMMA AtMost ==
    ASSUME NEW n \in Nat, NEW S, S \subseteq 0..n
    PROVE  Max({0} \cup S) \in {0} \cup S /\ \A x \in S : x <= Max({0} \cup S)
<1> DEFINE T == {0} \cup S
<1>1. T # {} /\ T \subseteq 0..n /\ T \subseteq Int
  OBVIOUS
<1>2. IsFiniteSet(0..n)
  BY FS_Interval
<1>3. IsFiniteSet(T)
  BY <1>1, <1>2, FS_Subset
<1> HIDE DEF T
<1>4. Max(T) \in T /\ \A x \in T : x <= Max(T)
  BY <1>1, <1>3, MaxOfSet
<1>5. QED
  BY <1>4 DEF T

(* The least of some numbers and a bound is one of them.                    *)
LEMMA AtLeast ==
    ASSUME NEW n \in Nat, NEW S, S \subseteq 0..n
    PROVE  Min({n} \cup S) \in {n} \cup S /\ \A x \in S : Min({n} \cup S) <= x
<1> DEFINE T == {n} \cup S
<1>1. T # {} /\ T \subseteq 0..n /\ T \subseteq Int
  OBVIOUS
<1>2. IsFiniteSet(0..n)
  BY FS_Interval
<1>3. IsFiniteSet(T)
  BY <1>1, <1>2, FS_Subset
<1> HIDE DEF T
<1>4. Min(T) \in T /\ \A x \in T : Min(T) <= x
  BY <1>1, <1>3, MinOfSet
<1>5. QED
  BY <1>4 DEF T

(* A scan stops within the sequence.                                        *)
LEMMA PrefixWithin ==
    ASSUME NEW n \in Nat, NEW S, S \subseteq 0..n, 0 \in S
    PROVE  Max(S) \in S
<1>1. {0} \cup S = S
  OBVIOUS
<1>2. QED
  BY <1>1, AtMost

(* What the marginal level is: what lies before it fits, and with it does   *)
(* not.                                                                     *)
LEMMA LevelFacts ==
    ASSUME NEW s \in Seq(Entry), NEW n \in 0..Len(s), NEW room \in Nat
    PROVE  LET m == level_of(s, n, room)
           IN  /\ m.lo \in 0..n /\ m.hi \in m.lo..n
               /\ m.cum = SumOf(Quantities(s), 1..m.lo) /\ m.cum \in Nat /\ m.cum <= room
               /\ m.lvl = SumOf(Quantities(s), (m.lo + 1)..m.hi) /\ m.lvl \in Nat
               /\ m.lo < n => room < m.cum + m.lvl
               /\ m.lo = n => m.hi = n
<1> DEFINE ends == level_ends(s, n)
           fit == {i \in ends : qty_over(s, 1..i) <= room}
           lo == Max({0} \cup fit)
           late == {i \in ends : i > lo}
           hi == Min({n} \cup late)
           m == level_of(s, n, room)
<1>0. Len(s) \in Nat /\ DOMAIN s = 1..Len(s) /\ n \in Nat
  OBVIOUS
<1>1. ends \subseteq 1..n /\ ends \subseteq 0..n /\ (n > 0 => n \in ends)
  BY <1>0 DEF level_ends
<1>2. m.lo = lo /\ m.hi = hi /\ m.cum = qty_over(s, 1..lo) /\ m.lvl = qty_over(s, (lo + 1)..hi)
  BY DEF level_of
<1> HIDE DEF m, ends
<1>3. lo \in {0} \cup fit /\ \A x \in fit : x <= lo
  <2>1. fit \subseteq 0..n
    <3>1. fit \subseteq ends
      OBVIOUS
    <3> HIDE DEF fit
    <3>2. QED
      BY <1>1, <3>1
  <2> HIDE DEF fit
  <2>2. QED
    BY <1>0, <2>1, AtMost
<1>4. lo \in 0..n
  <2>1. fit \subseteq 0..n
    <3>1. fit \subseteq ends
      OBVIOUS
    <3> HIDE DEF fit
    <3>2. QED
      BY <1>1, <3>1
  <2> HIDE DEF lo, fit
  <2>2. QED
    BY <1>0, <1>3, <2>1
<1> HIDE DEF lo
<1>5. hi \in {n} \cup late /\ \A x \in late : hi <= x
  <2>1. late \subseteq 0..n
    <3>1. late \subseteq ends
      OBVIOUS
    <3> HIDE DEF late
    <3>2. QED
      BY <1>1, <3>1
  <2> HIDE DEF late
  <2>2. QED
    BY <1>0, <2>1, AtLeast
<1> HIDE DEF hi
<1>6. hi \in lo..n
  BY <1>1, <1>4, <1>5
<1>7. /\ qty_over(s, 1..lo) = SumOf(Quantities(s), 1..lo) /\ qty_over(s, 1..lo) \in Nat
  <2>1. 1..lo \subseteq DOMAIN s
    BY <1>0, <1>4
  <2>2. QED
    BY <2>1, QtyOver
<1>8. /\ qty_over(s, (lo + 1)..hi) = SumOf(Quantities(s), (lo + 1)..hi)
      /\ qty_over(s, (lo + 1)..hi) \in Nat
  <2>1. (lo + 1)..hi \subseteq DOMAIN s
    BY <1>0, <1>4, <1>6
  <2>2. QED
    BY <2>1, QtyOver
<1>9. qty_over(s, 1..lo) <= room
  <2>1. CASE lo \in fit
    BY <2>1
  <2>2. CASE lo = 0
    <3>1. 1..0 = {}
      OBVIOUS
    <3>2. SumOf(Quantities(s), 1..0) = 0
      BY <3>1, SumEmpty
    <3>3. QED
      BY <1>7, <2>2, <3>2
  <2>3. QED
    BY <1>3, <2>1, <2>2
<1>10. ASSUME lo < n
       PROVE  room < qty_over(s, 1..lo) + qty_over(s, (lo + 1)..hi)
  <2>1. n \in late
    BY <1>1, <1>4, <1>10
  <2>2. hi \in late
    BY <1>5, <2>1
  <2>3. hi \notin fit /\ hi \in ends
    BY <1>3, <1>4, <2>2, <1>1
  <2>4. 1..hi \subseteq DOMAIN s /\ hi \in 1..n
    BY <1>0, <1>1, <2>2
  <2>5. qty_over(s, 1..hi) > room
    <3>1. ~ (qty_over(s, 1..hi) <= room)
      BY <2>3
    <3>2. qty_over(s, 1..hi) \in Nat
      BY <2>4, QtyOver
    <3>3. QED
      BY <3>1, <3>2
  <2>6. SumOf(Quantities(s), 1..hi)
          = SumOf(Quantities(s), 1..lo) + SumOf(Quantities(s), (lo + 1)..hi)
    <3> DEFINE f == Quantities(s)
    <3>0. \A x \in 1..hi : Quantities(s)[x] \in Nat
      BY <2>4, QtyOver
    <3>1. \A x \in 1..hi : f[x] \in Int
      BY <3>0
    <3>2. lo \in Int /\ hi \in Int /\ 1 <= lo + 1 /\ lo <= hi
      BY <1>4, <2>2, <2>4
    <3> HIDE DEF f
    <3>3. QED
      BY <3>1, <3>2, SumCut DEF f
  <2>7. qty_over(s, 1..hi) = SumOf(Quantities(s), 1..hi)
    BY <2>4, QtyOver
  <2>8. QED
    BY <1>7, <1>8, <2>5, <2>6, <2>7
<1>11. lo = n => hi = n
  BY <1>0, <1>6
<1>12. QED
  BY <1>2, <1>4, <1>6, <1>7, <1>8, <1>9, <1>10, <1>11 DEF m

(* What the rule reads of a side: the prices and the weights.               *)
SameWeights(s, t) ==
    /\ DOMAIN s = DOMAIN t
    /\ \A i \in DOMAIN s : s[i].qty_sats = t[i].qty_sats /\ s[i].limit_price = t[i].limit_price

(* So the marginal level stays while a pass changes what is filled.         *)
LEMMA LevelStays ==
    ASSUME NEW s \in Seq(Entry), NEW t \in Seq(Entry), SameWeights(s, t),
           NEW n \in 0..Len(s), NEW room \in Nat
    PROVE  level_of(s, n, room) = level_of(t, n, room)
<1>0. DOMAIN s = 1..Len(s) /\ DOMAIN t = 1..Len(s) /\ Len(s) \in Nat
  BY DEF SameWeights
<1>1. level_ends(s, n) = level_ends(t, n)
  <2>1. ASSUME NEW i \in 1..n, i # n
        PROVE  s[i].limit_price = t[i].limit_price /\ s[i + 1].limit_price = t[i + 1].limit_price
    <3>1. i \in DOMAIN s /\ i + 1 \in DOMAIN s
      BY <1>0, <2>1
    <3>2. QED
      BY <3>1 DEF SameWeights
  <2>2. QED
    BY <2>1 DEF level_ends
<1>2. ASSUME NEW I, I \subseteq 1..n
      PROVE  qty_over(s, I) = qty_over(t, I)
  <2>1. \A i \in I : s[i].qty_sats = t[i].qty_sats
    BY <1>0, <1>2 DEF SameWeights
  <2>2. [i \in I |-> s[i].qty_sats] = [i \in I |-> t[i].qty_sats]
    BY <2>1
  <2>3. QED
    BY <2>2 DEF qty_over, total_over
<1>3. ASSUME NEW i \in level_ends(s, n)
      PROVE  qty_over(s, 1..i) = qty_over(t, 1..i)
  <2>1. i \in 1..n /\ n \in Nat
    BY <1>0 DEF level_ends
  <2>2. 1..i \subseteq 1..n
    BY <2>1
  <2>3. QED
    BY <1>2, <2>2
<1> DEFINE ends == level_ends(s, n)
           lo(x) == Max({0} \cup {i \in ends : qty_over(x, 1..i) <= room})
           hi(k) == Min({n} \cup {i \in ends : i > k})
<1>4. {i \in ends : qty_over(s, 1..i) <= room} = {i \in ends : qty_over(t, 1..i) <= room}
  BY <1>3
<1>5. lo(s) = lo(t)
  BY <1>4
<1>6. /\ level_of(s, n, room) = [lo |-> lo(s), hi |-> hi(lo(s)), cum |-> qty_over(s, 1..lo(s)),
                                 lvl |-> qty_over(s, (lo(s) + 1)..hi(lo(s)))]
      /\ level_of(t, n, room) = [lo |-> lo(t), hi |-> hi(lo(t)), cum |-> qty_over(t, 1..lo(t)),
                                 lvl |-> qty_over(t, (lo(t) + 1)..hi(lo(t)))]
  BY <1>1 DEF level_of
<1>7. lo(s) = level_of(s, n, room).lo /\ hi(lo(s)) = level_of(s, n, room).hi
  <2> HIDE DEF lo, hi
  <2>1. QED
    BY <1>6
<1> HIDE DEF lo, hi, ends
<1>8. lo(s) \in 0..n /\ hi(lo(s)) \in lo(s)..n
  BY <1>7, LevelFacts
<1>9. 1..lo(s) \subseteq 1..n /\ (lo(s) + 1)..hi(lo(s)) \subseteq 1..n
  BY <1>0, <1>8
<1>10. qty_over(s, 1..lo(s)) = qty_over(t, 1..lo(s))
       /\ qty_over(s, (lo(s) + 1)..hi(lo(s))) = qty_over(t, (lo(s) + 1)..hi(lo(s)))
  BY <1>2, <1>9
<1>11. QED
  BY <1>5, <1>6, <1>10

-----------------------------------------------------------------------------
(* The object, and what a turn of a loop leaves alone. *)

Stages == STAGE_LOADING..STAGE_REALLOC_REMAINDER

ObjectFields ==
    {"stage", "cursor", "funding", "entries", "pricing", "alloc", "fills", "quote_paid",
     "quote_recv", "fee_quote", "total_debits", "total_credits", "fee_bps", "fee_recipient"}

AllocFields ==
    {"clearing_price", "matched_base", "elig", "filled", "pro_qty", "residual", "awarded",
     "remainder_side"}

Row == [base : Nat, quote : Nat]

EntriesOK(c) ==
    /\ c.entries \in [BOOLEAN -> Seq(Entry)]
    /\ \A s \in BOOLEAN : \A i \in DOMAIN c.entries[s] :
          c.entries[s][i].is_bid = s /\ c.entries[s][i].submitter \in DOMAIN c.funding

AllocOK(c) ==
    /\ DOMAIN c.alloc = AllocFields
    /\ c.alloc.clearing_price \in Nat /\ c.alloc.matched_base \in Nat
    /\ c.alloc.elig \in [BOOLEAN -> Nat]
    /\ \A s \in BOOLEAN : c.alloc.elig[s] <= Len(c.entries[s])
    /\ c.alloc.awarded \in [BOOLEAN -> Nat]
    /\ c.alloc.remainder_side \in {SIDE_BID, SIDE_ASK, SIDE_NONE}

(* The fee terms, and what the fills were paid for and paid.                *)
Paid(c) ==
    c.fee_bps \in Nat /\ c.quote_paid \in Int /\ c.quote_recv \in Int /\ c.fee_quote \in Int

Shaped(c) ==
    /\ DOMAIN c = ObjectFields /\ Paid(c)
    /\ c.stage \in Stages /\ c.cursor \in Nat
    /\ \A who \in DOMAIN c.funding : c.funding[who] \in Row
    /\ EntriesOK(c) /\ AllocOK(c)

(* What is not written stays what it was.                                   *)
LEMMA PaidStays ==
    ASSUME NEW c, Shaped(c), NEW d,
           d.fee_bps = c.fee_bps, d.quote_paid = c.quote_paid,
           d.quote_recv = c.quote_recv, d.fee_quote = c.fee_quote
    PROVE  Paid(d)
  BY DEF Shaped, Paid

(* The orders behind the entries.                                           *)
SameOrders(s, t) ==
    /\ DOMAIN s = DOMAIN t
    /\ \A i \in DOMAIN s : /\ s[i].submitter = t[i].submitter /\ s[i].is_bid = t[i].is_bid
                           /\ s[i].qty_sats = t[i].qty_sats
                           /\ s[i].limit_price = t[i].limit_price
                           /\ s[i].order_index = t[i].order_index

(* d is c but for its cursor, what is filled and what was awarded.          *)
Frame(c, d) ==
    /\ DOMAIN d = DOMAIN c
    /\ \A x \in ObjectFields \ {"cursor", "entries", "alloc"} : d[x] = c[x]
    /\ d.alloc.elig = c.alloc.elig /\ d.alloc.matched_base = c.alloc.matched_base
    /\ d.alloc.clearing_price = c.alloc.clearing_price
    /\ d.alloc.residual = c.alloc.residual
    /\ \A s \in BOOLEAN : SameOrders(c.entries[s], d.entries[s])

(* Nothing changed is a frame.                                              *)
LEMMA FrameRefl ==
    ASSUME NEW c
    PROVE  Frame(c, c)
  BY DEF Frame, SameOrders

(* Two frames in a row are one.                                             *)
LEMMA FrameTrans ==
    ASSUME NEW c, NEW d, NEW e, Frame(c, d), Frame(d, e)
    PROVE  Frame(c, e)
<1>1. \A s \in BOOLEAN : SameOrders(c.entries[s], e.entries[s])
  <2> SUFFICES ASSUME NEW s \in BOOLEAN
               PROVE  SameOrders(c.entries[s], e.entries[s])
    OBVIOUS
  <2>1. SameOrders(c.entries[s], d.entries[s]) /\ SameOrders(d.entries[s], e.entries[s])
    BY DEF Frame
  <2>2. QED
    BY <2>1 DEF SameOrders
<1>2. QED
  BY <1>1 DEF Frame

(* One entry is replaced.                                                   *)
LEMMA EntryReplaced ==
    ASSUME NEW es \in [BOOLEAN -> Seq(Entry)], NEW s \in BOOLEAN, NEW i \in DOMAIN es[s],
           NEW e \in Entry
    PROVE  LET new == [es EXCEPT ![s][i] = e]
           IN  /\ new \in [BOOLEAN -> Seq(Entry)]
               /\ \A t \in BOOLEAN : DOMAIN new[t] = DOMAIN es[t] /\ Len(new[t]) = Len(es[t])
               /\ \A t \in BOOLEAN : \A j \in DOMAIN es[t] :
                     new[t][j] = IF t = s /\ j = i THEN e ELSE es[t][j]
<1> DEFINE q == [es[s] EXCEPT ![i] = e]
           new == [es EXCEPT ![s] = q]
<1>1. q \in Seq(Entry) /\ Len(q) = Len(es[s]) /\ DOMAIN q = DOMAIN es[s]
  <2>1. es[s] \in Seq(Entry)
    OBVIOUS
  <2>2. QED
    BY <2>1
<1>2. \A j \in DOMAIN es[s] : q[j] = IF j = i THEN e ELSE es[s][j]
  <2>1. es[s] \in Seq(Entry)
    OBVIOUS
  <2>2. QED
    BY <2>1
<1> HIDE DEF q
<1>3. new \in [BOOLEAN -> Seq(Entry)] /\ \A t \in BOOLEAN : new[t] = IF t = s THEN q ELSE es[t]
  BY <1>1
<1>4. [es EXCEPT ![s][i] = e] = new
  BY DEF q
<1> HIDE DEF new
<1>5. QED
  BY <1>1, <1>2, <1>3, <1>4

-----------------------------------------------------------------------------
(* The eligible entry under the cursor. *)

(* The turn in which an entry is visited: the bids come first.              *)
TurnOf(c, s, i) == IF s THEN i ELSE c.alloc.elig[TRUE] + i

(* The turns of the bids are 1, 2, ..., those of the asks come after.       *)
LEMMA TurnCases ==
    ASSUME NEW c, NEW i
    PROVE  TurnOf(c, TRUE, i) = i /\ TurnOf(c, FALSE, i) = c.alloc.elig[TRUE] + i
  BY DEF TurnOf

(* An entry keeps its turn while the prefixes stay.                         *)
LEMMA TurnStays ==
    ASSUME NEW c, NEW d, d.alloc.elig = c.alloc.elig
    PROVE  \A s \in BOOLEAN : \A i : TurnOf(d, s, i) = TurnOf(c, s, i)
  BY DEF TurnOf

(* The entry under the cursor is eligible, and the only one of its turn.    *)
LEMMA UnderCursor ==
    ASSUME NEW c, Shaped(c), c.cursor < eligible_count(c)
    PROVE  /\ at_bid(c) \in BOOLEAN /\ at_index(c) \in 1..c.alloc.elig[at_bid(c)]
           /\ at_index(c) \in DOMAIN c.entries[at_bid(c)]
           /\ TurnOf(c, at_bid(c), at_index(c)) = c.cursor + 1
           /\ \A s \in BOOLEAN : \A i \in 1..c.alloc.elig[s] :
                 /\ TurnOf(c, s, i) \in Nat
                 /\ TurnOf(c, s, i) = c.cursor + 1 => s = at_bid(c) /\ i = at_index(c)
<1> DEFINE k == c.cursor
           n == c.alloc.elig[TRUE]
           m == c.alloc.elig[FALSE]
           bids == c.entries[TRUE]
           asks == c.entries[FALSE]
<1>0. TRUE \in BOOLEAN /\ FALSE \in BOOLEAN
  BY Zenon
<1>1. /\ k \in Nat /\ n \in Nat /\ m \in Nat
      /\ n <= Len(bids) /\ m <= Len(asks) /\ bids \in Seq(Entry) /\ asks \in Seq(Entry)
  BY <1>0 DEF Shaped, AllocOK, EntriesOK
<1>2. k < n + m
  BY DEF eligible_count
<1>3. at_index(c) = IF k < n THEN k + 1 ELSE k - n + 1
  BY DEF at_index, at_bid
<1>4. \A i : TurnOf(c, TRUE, i) = i /\ TurnOf(c, FALSE, i) = n + i
  BY TurnCases
<1>5. ASSUME NEW i \in 1..n
      PROVE  TurnOf(c, TRUE, i) = i /\ i \in 1..n
  BY <1>4
<1>6. ASSUME NEW i \in 1..m
      PROVE  TurnOf(c, FALSE, i) = n + i /\ i \in 1..m
  BY <1>4
<1>7. ASSUME k < n
      PROVE  at_bid(c) = TRUE
  <2>1. at_bid(c)
    BY <1>7 DEF at_bid
  <2>2. QED
    BY <2>1 DEF at_bid
<1>8. ASSUME ~ (k < n)
      PROVE  at_bid(c) = FALSE
  <2>1. at_bid(c) \in BOOLEAN
    BY DEF at_bid
  <2>2. ~ at_bid(c)
    BY <1>8 DEF at_bid
  <2>3. QED
    BY <2>1, <2>2
<1> HIDE DEF k, n, m, bids, asks
<1>9. CASE k < n
  <2>1. at_index(c) = k + 1 /\ k + 1 \in 1..n /\ k + 1 \in DOMAIN bids
    BY <1>1, <1>3, <1>9
  <2>2. ASSUME NEW i \in 1..m
        PROVE  n + i \in Nat /\ n + i # k + 1
    BY <1>1, <1>9
  <2>3. ASSUME NEW s \in BOOLEAN, NEW i \in 1..c.alloc.elig[s]
        PROVE  /\ TurnOf(c, s, i) \in Nat
               /\ TurnOf(c, s, i) = k + 1 => s = TRUE /\ i = k + 1
    <3>1. CASE s = TRUE
      <4>1. i \in 1..n
        BY <3>1 DEF n
      <4>2. TurnOf(c, s, i) = i
        BY <1>4, <3>1
      <4>3. QED
        BY <3>1, <4>1, <4>2
    <3>2. CASE s = FALSE
      <4>1. i \in 1..m
        BY <3>2 DEF m
      <4>2. TurnOf(c, s, i) = n + i
        BY <1>4, <3>2
      <4>3. QED
        BY <2>2, <4>1, <4>2
    <3>3. QED
      BY <3>1, <3>2
  <2>4. TurnOf(c, TRUE, k + 1) = k + 1
    BY <1>4
  <2>5. at_bid(c) = TRUE
    BY <1>7, <1>9
  <2>6. at_index(c) \in 1..c.alloc.elig[TRUE] /\ at_index(c) \in DOMAIN c.entries[TRUE]
    BY <2>1 DEF n, bids
  <2>7. QED
    BY <1>0, <2>1, <2>3, <2>4, <2>5, <2>6 DEF k
<1>10. CASE ~ (k < n)
  <2>1. at_index(c) = k - n + 1 /\ k - n + 1 \in 1..m /\ k - n + 1 \in DOMAIN asks
    BY <1>1, <1>2, <1>3, <1>10
  <2>2. ASSUME NEW i \in 1..m
        PROVE  n + i \in Nat /\ (n + i = k + 1 => i = k - n + 1)
    BY <1>1
  <2>3. ASSUME NEW s \in BOOLEAN, NEW i \in 1..c.alloc.elig[s]
        PROVE  /\ TurnOf(c, s, i) \in Nat
               /\ TurnOf(c, s, i) = k + 1 => s = FALSE /\ i = k - n + 1
    <3>1. CASE s = TRUE
      <4>1. i \in 1..n /\ i \in Nat /\ i # k + 1
        <5>1. i \in 1..n
          BY <3>1 DEF n
        <5>2. QED
          BY <1>1, <1>10, <5>1
      <4>2. TurnOf(c, s, i) = i
        BY <1>4, <3>1
      <4>3. QED
        BY <4>1, <4>2
    <3>2. CASE s = FALSE
      <4>1. i \in 1..m
        BY <3>2 DEF m
      <4>2. TurnOf(c, s, i) = n + i
        BY <1>4, <3>2
      <4>3. QED
        BY <2>2, <3>2, <4>1, <4>2
    <3>3. QED
      BY <3>1, <3>2
  <2>4. TurnOf(c, FALSE, k - n + 1) = k + 1
    <3>1. n + (k - n + 1) = k + 1
      BY <1>1
    <3>2. QED
      BY <1>4, <3>1
  <2>5. at_bid(c) = FALSE
    BY <1>8, <1>10
  <2>6. at_index(c) \in 1..c.alloc.elig[FALSE] /\ at_index(c) \in DOMAIN c.entries[FALSE]
    BY <2>1 DEF m, asks
  <2>7. QED
    BY <1>0, <2>1, <2>3, <2>4, <2>5, <2>6 DEF k
<1>11. QED
  BY <1>9, <1>10

-----------------------------------------------------------------------------
(* One turn of a pass: one entry changes in what is filled. *)

SameOrder(e, f) ==
    /\ e.submitter = f.submitter /\ e.is_bid = f.is_bid
    /\ e.qty_sats = f.qty_sats /\ e.limit_price = f.limit_price
    /\ e.order_index = f.order_index

(* The part of the allocation that a pass does not change.                  *)
AllocKept(a, b) ==
    /\ DOMAIN b = AllocFields
    /\ b.elig = a.elig /\ b.matched_base = a.matched_base
    /\ b.clearing_price = a.clearing_price /\ b.residual = a.residual
    /\ b.awarded \in [BOOLEAN -> Nat]
    /\ b.remainder_side \in {SIDE_BID, SIDE_ASK, SIDE_NONE}

EntrySet(es, s, i, e, new) ==
    /\ \A t \in BOOLEAN : DOMAIN new[t] = DOMAIN es[t] /\ Len(new[t]) = Len(es[t])
    /\ new[s][i] = e
    /\ \A t \in BOOLEAN : \A j \in DOMAIN es[t] : ~ (t = s /\ j = i) => new[t][j] = es[t][j]

(* d is c with e for the entry i of side s, and the cursor moved.           *)
EntryWritten(c, s, i, e, d) ==
    /\ DOMAIN d = DOMAIN c /\ d.cursor \in Nat
    /\ \A x \in ObjectFields \ {"cursor", "entries", "alloc"} : d[x] = c[x]
    /\ d.entries = [c.entries EXCEPT ![s][i] = e]

(* A turn that writes one entry keeps the shape of the object, and is a     *)
(* frame.                                                                   *)
LEMMA EntryTurn ==
    ASSUME NEW c, Shaped(c), NEW s \in BOOLEAN, NEW i \in DOMAIN c.entries[s],
           NEW e \in Entry, SameOrder(c.entries[s][i], e),
           NEW d, EntryWritten(c, s, i, e, d), AllocKept(c.alloc, d.alloc)
    PROVE  Shaped(d) /\ Frame(c, d) /\ EntrySet(c.entries, s, i, e, d.entries)
<1> DEFINE es == c.entries
           new == d.entries
<1>1. es \in [BOOLEAN -> Seq(Entry)]
  BY DEF Shaped, EntriesOK
<1>0. /\ DOMAIN d = DOMAIN c /\ d.cursor \in Nat /\ new = [es EXCEPT ![s][i] = e]
      /\ \A x \in ObjectFields \ {"cursor", "entries", "alloc"} : d[x] = c[x]
  BY DEF EntryWritten
<1>2. /\ new \in [BOOLEAN -> Seq(Entry)]
      /\ \A t \in BOOLEAN : DOMAIN new[t] = DOMAIN es[t] /\ Len(new[t]) = Len(es[t])
      /\ \A t \in BOOLEAN : \A j \in DOMAIN es[t] :
            new[t][j] = IF t = s /\ j = i THEN e ELSE es[t][j]
  BY <1>0, <1>1, EntryReplaced
<1>3. EntrySet(es, s, i, e, new)
  BY <1>2 DEF EntrySet
<1>4. \A t \in BOOLEAN : \A j \in DOMAIN es[t] : SameOrder(es[t][j], new[t][j])
  BY <1>2 DEF SameOrder
<1>5. \A t \in BOOLEAN : SameOrders(es[t], new[t])
  BY <1>2, <1>4 DEF SameOrders, SameOrder
<1>6. d.funding = c.funding /\ d.stage = c.stage
  BY <1>0 DEF ObjectFields
<1>7. Frame(c, d)
  BY <1>0, <1>5 DEF Frame, AllocKept
<1>8. EntriesOK(d)
  <2>1. ASSUME NEW t \in BOOLEAN, NEW j \in DOMAIN new[t]
        PROVE  new[t][j].is_bid = t /\ new[t][j].submitter \in DOMAIN d.funding
    <3>1. j \in DOMAIN es[t]
      BY <1>2, <2>1
    <3>2. SameOrder(es[t][j], new[t][j])
      BY <1>4, <3>1
    <3>3. es[t][j].is_bid = t /\ es[t][j].submitter \in DOMAIN c.funding
      BY <3>1 DEF Shaped, EntriesOK
    <3>4. QED
      BY <1>6, <3>2, <3>3 DEF SameOrder
  <2>2. QED
    BY <1>2, <2>1 DEF EntriesOK
<1>9. AllocOK(d)
  BY <1>2 DEF AllocKept, AllocOK, Shaped
<1>11. Paid(d)
  <2>1. /\ d.fee_bps = c.fee_bps /\ d.quote_paid = c.quote_paid
        /\ d.quote_recv = c.quote_recv /\ d.fee_quote = c.fee_quote
    BY <1>0 DEF ObjectFields
  <2>2. QED
    BY <2>1, PaidStays
<1>10. QED
  BY <1>0, <1>3, <1>6, <1>7, <1>8, <1>9, <1>11 DEF Shaped

(* The marginal level of a side, and that it stays while a pass runs.       *)
Fills(c, s) == [i \in DOMAIN c.entries[s] |-> c.entries[s][i].fill_base]

InLevel(c, s) == marginal_level(c, s).lo + 1..marginal_level(c, s).hi

(* The marginal level of a side lies within its eligible prefix.            *)
LEMMA SideLevel ==
    ASSUME NEW c, Shaped(c), NEW s \in BOOLEAN
    PROVE  LET m == marginal_level(c, s)
               n == c.alloc.elig[s]
           IN  /\ m.lo \in 0..n /\ m.hi \in m.lo..n /\ n <= Len(c.entries[s])
               /\ m.cum \in Nat /\ m.cum <= c.alloc.matched_base
               /\ m.lvl = SumOf(Quantities(c.entries[s]), InLevel(c, s)) /\ m.lvl \in Nat
               /\ m.lo < n => c.alloc.matched_base < m.cum + m.lvl
               /\ m.lo = n => InLevel(c, s) = {}
               /\ InLevel(c, s) \subseteq 1..n /\ InLevel(c, s) \subseteq DOMAIN c.entries[s]
               /\ IsFiniteSet(InLevel(c, s))
<1> DEFINE es == c.entries[s]
           n == c.alloc.elig[s]
           room == c.alloc.matched_base
           m == level_of(es, n, room)
<1>1. es \in Seq(Entry) /\ n \in 0..Len(es) /\ room \in Nat
  <2>1. es \in Seq(Entry) /\ n \in Nat /\ n <= Len(es) /\ room \in Nat
    BY DEF Shaped, EntriesOK, AllocOK
  <2>2. QED
    BY <2>1
<1>2. marginal_level(c, s) = m
  BY DEF marginal_level
<1> HIDE DEF es, n, room
<1>3. /\ m.lo \in 0..n /\ m.hi \in m.lo..n
      /\ m.cum \in Nat /\ m.cum <= room
      /\ m.lvl = SumOf(Quantities(es), (m.lo + 1)..m.hi) /\ m.lvl \in Nat
      /\ m.lo < n => room < m.cum + m.lvl
      /\ m.lo = n => m.hi = n
  BY <1>1, LevelFacts
<1> HIDE DEF m
<1>4. /\ m.lo = n => (m.lo + 1)..m.hi = {}
      /\ (m.lo + 1)..m.hi \subseteq 1..n /\ (m.lo + 1)..m.hi \subseteq DOMAIN es
      /\ n <= Len(es)
  BY <1>1, <1>3
<1>5. IsFiniteSet((m.lo + 1)..m.hi)
  BY <1>4, <1>1, QtyOver
<1>6. InLevel(c, s) = (m.lo + 1)..m.hi
  BY <1>2 DEF InLevel
<1>7. QED
  BY <1>2, <1>3, <1>4, <1>5, <1>6 DEF es, n, room

(* A pass leaves the marginal level where it was.                           *)
LEMMA SideLevelStays ==
    ASSUME NEW c, Shaped(c), NEW d, Shaped(d), Frame(c, d), NEW s \in BOOLEAN
    PROVE  marginal_level(d, s) = marginal_level(c, s) /\ InLevel(d, s) = InLevel(c, s)
<1> DEFINE n == c.alloc.elig[s]
           room == c.alloc.matched_base
<1>1. c.entries[s] \in Seq(Entry) /\ d.entries[s] \in Seq(Entry)
  BY DEF Shaped, EntriesOK
<1>2. n \in 0..Len(c.entries[s]) /\ room \in Nat
  <2>1. n \in Nat /\ n <= Len(c.entries[s]) /\ room \in Nat
    BY DEF Shaped, AllocOK
  <2>2. QED
    BY <1>1, <2>1
<1>3. SameWeights(c.entries[s], d.entries[s])
  BY DEF Frame, SameOrders, SameWeights
<1>4. level_of(c.entries[s], n, room) = level_of(d.entries[s], n, room)
  BY <1>1, <1>2, <1>3, LevelStays
<1>5. marginal_level(d, s) = marginal_level(c, s)
  BY <1>4 DEF marginal_level, Frame
<1>6. QED
  BY <1>5 DEF InLevel

(* Nothing is filled beyond the eligible prefixes.                          *)
Beyond(c) ==
    \A s \in BOOLEAN : \A i \in DOMAIN c.entries[s] :
        i > c.alloc.elig[s] => c.entries[s][i].fill_base = 0

(* Writing an eligible entry fills nothing beyond the prefixes.             *)
LEMMA BeyondStays ==
    ASSUME NEW c, Shaped(c), Beyond(c), NEW s \in BOOLEAN, NEW i \in 1..c.alloc.elig[s], NEW e,
           NEW d, EntrySet(c.entries, s, i, e, d.entries), d.alloc.elig = c.alloc.elig
    PROVE  Beyond(d)
<1> SUFFICES ASSUME NEW t \in BOOLEAN, NEW j \in DOMAIN d.entries[t], j > d.alloc.elig[t]
             PROVE  d.entries[t][j].fill_base = 0
  BY DEF Beyond
<1>1. j \in DOMAIN c.entries[t] /\ ~ (t = s /\ j = i)
  <2>1. c.alloc.elig[s] \in Nat /\ i <= c.alloc.elig[s]
    BY DEF Shaped, AllocOK
  <2>2. QED
    BY <2>1 DEF EntrySet
<1>2. d.entries[t][j] = c.entries[t][j]
  BY <1>1 DEF EntrySet
<1>3. QED
  BY <1>1, <1>2 DEF Beyond

(* While the levels that fit are filled: what the turns so far have set.    *)
FullPass(c) ==
    /\ \A s \in BOOLEAN : c.alloc.awarded[s] = 0
    /\ \A s \in BOOLEAN : \A i \in 1..c.alloc.elig[s] :
          TurnOf(c, s, i) <= c.cursor =>
              c.entries[s][i].fill_base = IF i <= marginal_level(c, s).lo
                                          THEN c.entries[s][i].qty_sats ELSE 0

FullTurn(c, k) == [full_unit(c) EXCEPT !.cursor = c.cursor + 1]

(* A turn of alloc_full_step fills the entry whole, or not at all.          *)
LEMMA FullTurnKeeps ==
    ASSUME NEW c, Shaped(c), Beyond(c), FullPass(c), c.cursor < eligible_count(c),
           NEW k, NEW d, d = FullTurn(c, k)
    PROVE  Shaped(d) /\ Frame(c, d) /\ Beyond(d) /\ FullPass(d) /\ d.cursor = c.cursor + 1
<1> DEFINE s == at_bid(c)
           i == at_index(c)
           old == c.entries[s][i]
           lo == marginal_level(c, s).lo
           e == [old EXCEPT !.fill_base = IF i <= lo THEN old.qty_sats ELSE 0]
<1>1. /\ s \in BOOLEAN /\ i \in 1..c.alloc.elig[s] /\ i \in DOMAIN c.entries[s]
      /\ TurnOf(c, s, i) = c.cursor + 1
      /\ \A t \in BOOLEAN : \A j \in 1..c.alloc.elig[t] :
            /\ TurnOf(c, t, j) \in Nat
            /\ TurnOf(c, t, j) = c.cursor + 1 => t = s /\ j = i
  BY UnderCursor
<1>2. full_unit(c) = [c EXCEPT !.entries[s][i] = e]
  BY DEF full_unit
<1>3. /\ DOMAIN d = DOMAIN c /\ d.cursor = c.cursor + 1
      /\ \A x \in ObjectFields \ {"cursor", "entries", "alloc"} : d[x] = c[x]
      /\ d.entries = [c.entries EXCEPT ![s][i] = e] /\ d.alloc = c.alloc
  <2> HIDE DEF s, i, e
  <2>1. QED
    BY <1>2 DEF FullTurn, Shaped, ObjectFields
<1> HIDE DEF s, i, lo
<1>4. old \in Entry /\ c.cursor \in Nat
  BY <1>1 DEF Shaped, EntriesOK
<1> HIDE DEF old
<1>5. e \in Entry /\ SameOrder(old, e)
  BY <1>4 DEF Entry, SameOrder
<1>6. e.fill_base = IF i <= lo THEN e.qty_sats ELSE 0
  BY <1>4 DEF Entry
<1> HIDE DEF e
<1>7. AllocKept(c.alloc, d.alloc) /\ d.cursor \in Nat /\ SameOrder(c.entries[s][i], e)
  BY <1>3, <1>4, <1>5 DEF Shaped, AllocOK, AllocKept, old
<1>8. Shaped(d) /\ Frame(c, d) /\ EntrySet(c.entries, s, i, e, d.entries)
  <2>1. EntryWritten(c, s, i, e, d)
    BY <1>3, <1>7 DEF EntryWritten
  <2>2. QED
    BY <1>1, <1>5, <1>7, <2>1, EntryTurn
<1>9. Beyond(d)
  BY <1>1, <1>3, <1>8, BeyondStays
<1>10. FullPass(d)
  <2> SUFFICES ASSUME NEW t \in BOOLEAN, NEW j \in 1..d.alloc.elig[t], TurnOf(d, t, j) <= d.cursor
               PROVE  d.entries[t][j].fill_base = IF j <= marginal_level(d, t).lo
                                                  THEN d.entries[t][j].qty_sats ELSE 0
    BY <1>3 DEF FullPass
  <2>1. marginal_level(d, t) = marginal_level(c, t)
    BY <1>8, SideLevelStays
  <2>2. TurnOf(d, t, j) = TurnOf(c, t, j) /\ j \in 1..c.alloc.elig[t]
    <3>1. d.alloc.elig = c.alloc.elig
      BY <1>3
    <3>2. TurnOf(d, t, j) = TurnOf(c, t, j)
      BY <3>1 DEF TurnOf
    <3>3. QED
      BY <3>1, <3>2
  <2>3. CASE t = s /\ j = i
    BY <1>6, <1>8, <2>1, <2>3 DEF EntrySet, lo
  <2>4. CASE ~ (t = s /\ j = i)
    <3>1. TurnOf(c, t, j) \in Nat /\ TurnOf(c, t, j) # c.cursor + 1
      BY <1>1, <2>2, <2>4
    <3>2. TurnOf(c, t, j) <= c.cursor
      BY <1>3, <1>4, <2>2, <3>1
    <3>3. j \in DOMAIN c.entries[t]
      <4>1. c.alloc.elig[t] \in Nat /\ c.alloc.elig[t] <= Len(c.entries[t])
            /\ c.entries[t] \in Seq(Entry)
        BY DEF Shaped, AllocOK, EntriesOK
      <4>2. QED
        BY <2>2, <4>1
    <3>4. d.entries[t][j] = c.entries[t][j]
      BY <1>8, <2>4, <3>3 DEF EntrySet
    <3>5. QED
      BY <2>1, <2>2, <3>2, <3>4 DEF FullPass
  <2>5. QED
    BY <2>3, <2>4
<1>11. QED
  BY <1>3, <1>8, <1>9, <1>10

-----------------------------------------------------------------------------
(* The invariant. *)

(* What n sats cost at this price, in the asset that side pays with; what   *)
(* an account has of it, and what a row of the snapshot has.                *)
CostOf(p, s, n) == IF s THEN quote_of_bid(n, p) ELSE n

Has(v, s, who) == IF s THEN balance_of(v.quote_book, who) ELSE balance_of(v.base_book, who)

Held(row, s) == IF s THEN row.quote ELSE row.base

(* By entry of a side: what its fill costs its submitter who, what its      *)
(* whole quantity does, and what its fill does if the turns have reached it.*)
Eligible(c, s) == 1..c.alloc.elig[s]

Due(c, s, who) ==
    [i \in DOMAIN c.entries[s] |->
        IF c.entries[s][i].submitter = who
        THEN CostOf(c.alloc.clearing_price, s, c.entries[s][i].fill_base) ELSE 0]

Asked(c, s, who) ==
    [i \in DOMAIN c.entries[s] |->
        IF c.entries[s][i].submitter = who
        THEN CostOf(c.alloc.clearing_price, s, c.entries[s][i].qty_sats) ELSE 0]

Granted(c, s, who) ==
    [i \in DOMAIN c.entries[s] |->
        IF c.entries[s][i].submitter = who /\ TurnOf(c, s, i) <= c.cursor
        THEN CostOf(c.alloc.clearing_price, s, c.entries[s][i].fill_base) ELSE 0]

(* By entry in the order of the fills, and by fill.                         *)
RootDue(c, s, who) ==
    [k \in DOMAIN all_entries(c) |->
        IF all_entries(c)[k].submitter = who /\ all_entries(c)[k].is_bid = s
        THEN CostOf(c.alloc.clearing_price, s, all_entries(c)[k].fill_base) ELSE 0]

FillDue(fills, s, who) ==
    [k \in DOMAIN fills |->
        IF fills[k].submitter = who /\ fills[k].is_bid = s THEN debit_of(fills[k]) ELSE 0]

Fill ==
    [order_index : Nat, submitter : Addresses, is_bid : BOOLEAN, base_sats : Nat \ {0},
     price : Nat, quote_sats : Int]

PricingOK(c) ==
    /\ DOMAIN c.pricing = {"candidates", "demand_remaining", "bid_scan", "supply_acc", "ask_scan",
                           "found", "best_price", "best_vol", "best_gap"}
    /\ c.pricing.candidates \in Seq(Nat \ {0})
    /\ c.pricing.found => c.pricing.best_price \in Nat \ {0}

(* Nothing is filled yet.                                                   *)
Unfilled(c) ==
    /\ \A s \in BOOLEAN : \A i \in DOMAIN c.entries[s] : c.entries[s][i].fill_base = 0
    /\ \A s \in BOOLEAN : c.alloc.awarded[s] = 0
    /\ c.fills = <<>>

(* The snapshot is still there: an account has what its row says.           *)
Snapshots(c, v) ==
    \A who \in DOMAIN c.funding : \A s \in BOOLEAN :
        Held(c.funding[who], s) <= Has(v, s, who)

Priced(c) == c.alloc.clearing_price \in Nat \ {0} /\ c.fills = <<>>

(* The shares of the marginal level, to the reached ones.                   *)
Shared(e, r, p) ==
    LET kept == e.fill_base - IF e.bumped THEN 1 ELSE 0
    IN  /\ kept \in Nat /\ e.frac \in 0..(p - 1) /\ e.frac = r * e.qty_sats - kept * p
        /\ e.fill_base <= e.qty_sats

Residual(c, s) == c.alloc.matched_base - marginal_level(c, s).cum

Awards(c) ==
    \A s \in BOOLEAN : /\ c.alloc.awarded[s] = SumOf(Fills(c, s), InLevel(c, s))
                       /\ c.alloc.residual[s] = Residual(c, s)

ProrataPass(c) ==
    /\ Awards(c)
    /\ \A s \in BOOLEAN : \A i \in Eligible(c, s) :
          IF i \in InLevel(c, s)
          THEN IF TurnOf(c, s, i) <= c.cursor
               THEN /\ Shared(c.entries[s][i], Residual(c, s), marginal_level(c, s).lvl)
                    /\ ~c.entries[s][i].bumped
               ELSE c.entries[s][i].fill_base = 0
          ELSE c.entries[s][i].fill_base <= c.entries[s][i].qty_sats

RemainderPass(c) ==
    /\ Awards(c)
    /\ \A s \in BOOLEAN : \A i \in Eligible(c, s) :
          IF i \in InLevel(c, s)
          THEN Shared(c.entries[s][i], Residual(c, s), marginal_level(c, s).lvl)
          ELSE c.entries[s][i].fill_base <= c.entries[s][i].qty_sats

Passing(c) ==
    /\ c.stage \in {STAGE_ALLOC_FULL, STAGE_REALLOC_FULL} =>
          c.cursor <= eligible_count(c) /\ FullPass(c)
    /\ c.stage \in {STAGE_ALLOC_PRORATA, STAGE_REALLOC_PRORATA} =>
          c.cursor <= eligible_count(c) /\ ProrataPass(c)
    /\ c.stage \in {STAGE_ALLOC_REMAINDER, STAGE_REALLOC_REMAINDER} => RemainderPass(c)

FirstPass == {STAGE_ALLOC_FULL, STAGE_ALLOC_PRORATA, STAGE_ALLOC_REMAINDER}
SecondPass == {STAGE_REALLOC_FULL, STAGE_REALLOC_PRORATA, STAGE_REALLOC_REMAINDER}

(* Everything that survived truncation is paid for.                         *)
AskedCovered(c, v) ==
    \A who \in DOMAIN c.funding : \A s \in BOOLEAN :
        SumOf(Asked(c, s, who), Eligible(c, s)) <= Has(v, s, who)

Opening(c, b, v) ==
    /\ c.stage = STAGE_LOADING => c.cursor <= Len(b.revealed)
    /\ c.stage = STAGE_PRICING => c.cursor <= Len(c.pricing.candidates)
    /\ c.stage \in {STAGE_LOADING, STAGE_PRICING} =>
          PricingOK(c) /\ Unfilled(c) /\ Snapshots(c, v)

Allocating(c, v) ==
    /\ c.stage \in FirstPass \cup SecondPass => Priced(c) /\ Beyond(c) /\ Passing(c)
    /\ c.stage \in FirstPass => Snapshots(c, v)
    /\ c.stage \in SecondPass => AskedCovered(c, v)

(* What was granted so far is paid for beside what is left of the rows.     *)
GrantsCovered(c, v) ==
    \A who \in DOMAIN c.funding : \A s \in BOOLEAN :
        SumOf(Granted(c, s, who), Eligible(c, s)) + Held(c.funding[who], s) <= Has(v, s, who)

Truncating(c, v) ==
    c.stage = STAGE_TRUNCATE =>
        /\ c.cursor <= eligible_count(c) /\ Priced(c) /\ Beyond(c) /\ GrantsCovered(c, v)

FillsOK(c) ==
    /\ c.fills \in Seq(Fill)
    /\ \A k \in DOMAIN c.fills :
          c.fills[k].submitter \in DOMAIN c.funding /\ debit_of(c.fills[k]) \in Nat

(* What is filled is paid for.                                              *)
DueCovered(c, v) ==
    \A who \in DOMAIN c.funding : \A s \in BOOLEAN :
        SumOf(Due(c, s, who), DOMAIN c.entries[s]) <= Has(v, s, who)

(* The fills made so far are those of the entries gone over so far.         *)
FillsAddUp(c) ==
    \A who \in DOMAIN c.funding : \A s \in BOOLEAN :
        SumOf(FillDue(c.fills, s, who), DOMAIN c.fills) = SumOf(RootDue(c, s, who), 1..c.cursor)

Rooting(c, v) ==
    c.stage = STAGE_ROOTING =>
        /\ c.cursor <= Len(all_entries(c)) /\ FillsOK(c) /\ FillsAddUp(c) /\ DueCovered(c, v)

(* What is still to be pushed is paid for.                                  *)
RestCovered(c, v) ==
    \A who \in DOMAIN c.funding : \A s \in BOOLEAN :
        SumOf(FillDue(c.fills, s, who), (c.cursor + 1)..Len(c.fills)) <= Has(v, s, who)

Settling(c, v) ==
    c.stage = STAGE_SETTLING => c.cursor <= Len(c.fills) /\ FillsOK(c) /\ RestCovered(c, v)

BookOK(book) ==
    /\ DOMAIN book = {"custody", "accounts", "total_credited", "accounts_opened"}
    /\ book.accounts \in [DOMAIN book.accounts -> Nat] /\ book.total_credited \in Int

VaultOK(v) ==
    /\ DOMAIN v = {"base_book", "quote_book", "active_clearings", "fee_matched_bps",
                   "fee_recipient"}
    /\ BookOK(v.base_book) /\ BookOK(v.quote_book) /\ v.fee_matched_bps \in Nat

BatchOK ==
    /\ DOMAIN batch = {"state", "revealed", "is_revealed"}
    /\ \E b \in Batches : batch.revealed = b.revealed /\ batch.is_revealed = b.is_revealed

LockInv ==
    /\ batch.state \in {STATE_SEALED, STATE_CLEARING, STATE_SETTLED}
    /\ vault.active_clearings = IF batch.state = STATE_CLEARING THEN 1 ELSE 0
    /\ clearing = NoClearing <=> batch.state = STATE_SEALED
    /\ (batch.state = STATE_SETTLED) <=> finished
    /\ vault.active_clearings = 0 => solvent(vault.base_book) /\ solvent(vault.quote_book)

ClearingOK(c, b, v) ==
    /\ Shaped(c) /\ Opening(c, b, v) /\ Allocating(c, v)
    /\ Truncating(c, v) /\ Rooting(c, v) /\ Settling(c, v)
    /\ c.stage = STAGE_DONE => v.active_clearings = 0

ClearingInv == clearing # NoClearing => ClearingOK(clearing, batch, vault)

Inv == BatchOK /\ VaultOK(vault) /\ LockInv /\ ClearingInv

-----------------------------------------------------------------------------
(* One turn of each pass. *)

(* The level is shared when something of it does not fit.                   *)
LEMMA LevelIsShared ==
    ASSUME NEW c, Shaped(c), NEW s \in BOOLEAN, NEW i \in InLevel(c, s)
    PROVE  /\ Residual(c, s) \in Nat /\ marginal_level(c, s).lvl \in Nat
           /\ Residual(c, s) < marginal_level(c, s).lvl
           /\ i \in Eligible(c, s) /\ i \in DOMAIN c.entries[s]
<1> DEFINE m == marginal_level(c, s)
           n == c.alloc.elig[s]
<1>1. /\ m.lo \in 0..n /\ m.hi \in m.lo..n
      /\ m.cum \in Nat /\ m.cum <= c.alloc.matched_base /\ m.lvl \in Nat
      /\ m.lo < n => c.alloc.matched_base < m.cum + m.lvl
      /\ InLevel(c, s) \subseteq 1..n /\ InLevel(c, s) \subseteq DOMAIN c.entries[s]
  BY SideLevel
<1>2. c.alloc.matched_base \in Nat /\ n \in Nat
  BY DEF Shaped, AllocOK
<1>3. i \in m.lo + 1..m.hi
  BY DEF InLevel
<1> HIDE DEF m, n
<1>4. m.lo < n
  BY <1>1, <1>2, <1>3
<1>5. QED
  BY <1>1, <1>2, <1>4 DEF Residual, m, n, Eligible

(* The eligible entries other than the one that is written.                 *)
Untouched(c, d, t, j) == d.entries[t][j] = c.entries[t][j]

Elsewhere(s, i, t, j) == ~ (t = s /\ j = i)

SameTurn(c, d, t, j) == TurnOf(d, t, j) = TurnOf(c, t, j)

(* The entries a turn does not write are as before.                         *)
LEMMA OtherEntries ==
    ASSUME NEW c, Shaped(c), NEW d, Frame(c, d), NEW s, NEW i, NEW e,
           EntrySet(c.entries, s, i, e, d.entries)
    PROVE  \A t \in BOOLEAN : \A j \in Eligible(d, t) :
              /\ j \in Eligible(c, t) /\ j \in DOMAIN c.entries[t]
              /\ SameTurn(c, d, t, j)
              /\ Elsewhere(s, i, t, j) => Untouched(c, d, t, j)
<1> SUFFICES ASSUME NEW t \in BOOLEAN, NEW j \in Eligible(d, t)
             PROVE  /\ j \in Eligible(c, t) /\ j \in DOMAIN c.entries[t]
                    /\ SameTurn(c, d, t, j)
                    /\ Elsewhere(s, i, t, j) => Untouched(c, d, t, j)
  OBVIOUS
<1>0. d.alloc.elig = c.alloc.elig
  BY DEF Frame
<1>1. j \in 1..c.alloc.elig[t]
  BY <1>0 DEF Eligible
<1>2. j \in DOMAIN c.entries[t]
  <2>1. /\ c.alloc.elig[t] \in Nat /\ c.alloc.elig[t] <= Len(c.entries[t])
        /\ c.entries[t] \in Seq(Entry)
    BY DEF Shaped, AllocOK, EntriesOK
  <2>2. QED
    BY <1>1, <2>1
<1>3. TurnOf(d, t, j) = TurnOf(c, t, j)
  BY <1>0 DEF TurnOf
<1>4. ~ (t = s /\ j = i) => d.entries[t][j] = c.entries[t][j]
  BY <1>2 DEF EntrySet
<1>5. QED
  BY <1>1, <1>2, <1>3, <1>4 DEF Eligible, SameTurn, Untouched, Elsewhere

(* An award is counted as it is made.                                       *)
AwardedMore(c, s, n, d) ==
    d.alloc.awarded = [c.alloc.awarded EXCEPT ![s] = c.alloc.awarded[s] + n]

(* When one entry of the level is written, the award moves by what its fill *)
(* does.                                                                    *)
LEMMA AwardsMove ==
    ASSUME NEW c, Shaped(c), NEW d, Shaped(d), Frame(c, d), Awards(c),
           NEW s \in BOOLEAN, NEW i \in InLevel(c, s), NEW e,
           EntrySet(c.entries, s, i, e, d.entries),
           NEW n \in Int, e.fill_base = c.entries[s][i].fill_base + n, AwardedMore(c, s, n, d)
    PROVE  Awards(d)
<1> SUFFICES ASSUME NEW t \in BOOLEAN
             PROVE  /\ d.alloc.awarded[t] = SumOf(Fills(d, t), InLevel(d, t))
                    /\ d.alloc.residual[t] = Residual(d, t)
  BY DEF Awards
<1> DEFINE L == InLevel(c, t)
           f == Fills(c, t)
           g == Fills(d, t)
<1>1. marginal_level(d, t) = marginal_level(c, t) /\ InLevel(d, t) = L
  BY SideLevelStays
<1>2. d.alloc.residual[t] = Residual(d, t)
  BY <1>1 DEF Frame, Awards, Residual
<1>3. IsFiniteSet(L) /\ L \subseteq DOMAIN c.entries[t] /\ DOMAIN d.entries[t] = DOMAIN c.entries[t]
  BY SideLevel DEF EntrySet
<1>4. \A j \in L : f[j] \in Nat /\ g[j] \in Nat
  <2> SUFFICES ASSUME NEW j \in L
               PROVE  c.entries[t][j].fill_base \in Nat /\ d.entries[t][j].fill_base \in Nat
    BY <1>3 DEF Fills
  <2>1. c.entries[t][j] \in Entry /\ d.entries[t][j] \in Entry
    <3>1. c.entries[t] \in Seq(Entry) /\ d.entries[t] \in Seq(Entry)
      BY DEF Shaped, EntriesOK
    <3>2. j \in DOMAIN c.entries[t] /\ j \in DOMAIN d.entries[t]
      BY <1>3
    <3>3. QED
      BY <3>1, <3>2
  <2>2. QED
    BY <2>1 DEF Entry
<1>5. \A j \in L : ~ (t = s /\ j = i) => g[j] = f[j]
  BY <1>3 DEF Fills, EntrySet
<1>6. t = s => g[i] = f[i] + n /\ i \in L
  <2> SUFFICES ASSUME t = s
               PROVE  g[i] = f[i] + n /\ i \in L
    OBVIOUS
  <2>1. i \in L /\ i \in DOMAIN c.entries[s] /\ i \in DOMAIN d.entries[s]
    BY <1>3
  <2>2. d.entries[s][i] = e
    BY DEF EntrySet
  <2>3. QED
    BY <2>1, <2>2 DEF Fills
<1>7. c.alloc.awarded[t] = SumOf(f, L) /\ c.alloc.awarded \in [BOOLEAN -> Nat]
  BY DEF Awards, Shaped, AllocOK
<1>8. d.alloc.awarded[t] = IF t = s THEN c.alloc.awarded[s] + n ELSE c.alloc.awarded[t]
  BY <1>7 DEF AwardedMore
<1> HIDE DEF L, f, g
<1>9. SumOf(g, L) = d.alloc.awarded[t]
  <2>1. CASE t = s
    <3>1. \A j \in L \ {i} : f[j] = g[j]
      BY <1>5
    <3>2. \A j \in L : f[j] \in Int /\ g[j] \in Int
      BY <1>4
    <3>3. SumOf(g, L) = SumOf(f, L) + g[i] - f[i]
      BY <1>3, <1>6, <2>1, <3>1, <3>2, SumMoves
    <3>4. f[i] \in Nat /\ g[i] = f[i] + n /\ SumOf(f, L) \in Nat
      BY <1>4, <1>6, <1>7, <2>1
    <3>5. QED
      BY <1>7, <1>8, <2>1, <3>3, <3>4
  <2>2. CASE t # s
    <3>1. \A j \in L : g[j] = f[j]
      BY <1>5, <2>2
    <3>2. SumOf(g, L) = SumOf(f, L)
      BY <1>3, <3>1, SumSame
    <3>3. QED
      BY <1>7, <1>8, <2>2, <3>2
  <2>3. QED
    BY <2>1, <2>2
<1>10. QED
  BY <1>1, <1>2, <1>9 DEF L, g

(* The turn of an entry of the level: its share is computed and counted.    *)
LEMMA SharedByProrata ==
    ASSUME NEW e \in Entry, NEW r \in Nat, NEW p \in Nat, r < p
    PROVE  LET x == prorated(e, r, p)
           IN  /\ x \in Entry /\ SameOrder(e, x) /\ Shared(x, r, p) /\ ~x.bumped
<1> DEFINE q == e.qty_sats
           base == prorata_share(r, q, p)
           x == prorated(e, r, p)
<1>1. q \in Nat
  BY DEF Entry
<1> HIDE DEF q
<1>2. base \in Nat /\ base <= q /\ r * q - base * p \in 0..(p - 1)
  BY <1>1, ShareFacts
<1>3. x = [e EXCEPT !.fill_base = base, !.bumped = FALSE, !.frac = r * q - base * p]
  BY DEF prorated, q
<1> HIDE DEF base, x
<1> DEFINE g == r * q - base * p
<1>4. g \in Int /\ g \in 0..(p - 1)
  BY <1>2
<1>5. x = [e EXCEPT !.fill_base = base, !.bumped = FALSE, !.frac = g]
  BY <1>3
<1> HIDE DEF g
<1>6. x \in Entry /\ SameOrder(e, x) /\ x.bumped = FALSE /\ x.fill_base = base /\ x.frac = g
      /\ x.qty_sats = e.qty_sats
  BY <1>2, <1>4, <1>5 DEF Entry, SameOrder
<1>7. Shared(x, r, p)
  <2>1. x.fill_base - (IF x.bumped THEN 1 ELSE 0) = base
    BY <1>2, <1>6
  <2>2. g = r * q - base * p
    BY DEF g
  <2>3. QED
    BY <1>2, <1>4, <1>6, <2>1, <2>2 DEF Shared, q
<1>8. QED
  BY <1>6, <1>7 DEF x

(* A turn that leaves the entries alone.                                    *)
Passed(c, d) ==
    /\ DOMAIN d = DOMAIN c /\ d.cursor \in Nat
    /\ \A x \in ObjectFields \ {"cursor"} : d[x] = c[x]

(* After a turn, the turns gone over are those before it and its own.       *)
LEMMA PassedTurn ==
    ASSUME NEW c, Shaped(c), NEW d, Passed(c, d)
    PROVE  Shaped(d) /\ Frame(c, d) /\ d.entries = c.entries /\ d.alloc = c.alloc
           /\ d.funding = c.funding /\ d.stage = c.stage /\ d.fills = c.fills
<1>1. /\ d.entries = c.entries /\ d.alloc = c.alloc /\ d.funding = c.funding
      /\ d.stage = c.stage /\ d.fills = c.fills
      /\ d.fee_bps = c.fee_bps /\ d.quote_paid = c.quote_paid
      /\ d.quote_recv = c.quote_recv /\ d.fee_quote = c.fee_quote
  BY DEF Passed, ObjectFields
<1>2. \A s \in BOOLEAN : SameOrders(c.entries[s], d.entries[s])
  BY <1>1 DEF SameOrders
<1>3. Frame(c, d)
  BY <1>1, <1>2 DEF Frame, Passed
<1>4. EntriesOK(d) /\ AllocOK(d)
  BY <1>1 DEF Shaped, EntriesOK, AllocOK
<1>6. Paid(d)
  BY <1>1, PaidStays
<1>5. QED
  BY <1>1, <1>3, <1>4, <1>6 DEF Shaped, Passed

ProrataTurn(c, k) == [prorata_unit(c) EXCEPT !.cursor = c.cursor + 1]

(* A turn of alloc_prorata_step gives an entry of the level its rounded     *)
(* share.                                                                   *)
LEMMA ProrataTurnKeeps ==
    ASSUME NEW c, Shaped(c), Beyond(c), ProrataPass(c), c.cursor < eligible_count(c),
           NEW k, NEW d, d = ProrataTurn(c, k)
    PROVE  Shaped(d) /\ Frame(c, d) /\ Beyond(d) /\ ProrataPass(d) /\ d.cursor = c.cursor + 1
<1> DEFINE s == at_bid(c)
           i == at_index(c)
           m == marginal_level(c, s)
           old == c.entries[s][i]
           e == prorated(old, c.alloc.matched_base - m.cum, m.lvl)
<1>1. /\ s \in BOOLEAN /\ i \in 1..c.alloc.elig[s] /\ i \in DOMAIN c.entries[s]
      /\ TurnOf(c, s, i) = c.cursor + 1
      /\ \A t \in BOOLEAN : \A j \in 1..c.alloc.elig[t] :
            /\ TurnOf(c, t, j) \in Nat
            /\ TurnOf(c, t, j) = c.cursor + 1 => t = s /\ j = i
  BY UnderCursor
<1>2. prorata_unit(c) = IF i \in m.lo + 1..m.hi /\ m.lvl > 0 THEN prorata_entry(c, s, i, e) ELSE c
  BY DEF prorata_unit, prorata_at
<1>3. old \in Entry /\ c.cursor \in Nat
  BY <1>1 DEF Shaped, EntriesOK
<1>4. m = marginal_level(c, s) /\ InLevel(c, s) = m.lo + 1..m.hi
  BY DEF InLevel
<1>5. CASE i \in InLevel(c, s)
  <2>1. /\ Residual(c, s) \in Nat /\ m.lvl \in Nat /\ Residual(c, s) < m.lvl
        /\ Residual(c, s) = c.alloc.matched_base - m.cum
    BY <1>1, <1>5, LevelIsShared DEF Residual
  <2>2. prorata_unit(c) = prorata_entry(c, s, i, e)
    BY <1>2, <1>4, <1>5, <2>1
  <2>3. e = prorated(old, Residual(c, s), m.lvl)
    BY <2>1
  <2> DEFINE f == e.fill_base
  <2>4. /\ DOMAIN d = DOMAIN c /\ d.cursor = c.cursor + 1
        /\ \A x \in ObjectFields \ {"cursor", "entries", "alloc"} : d[x] = c[x]
        /\ d.entries = [c.entries EXCEPT ![s][i] = e]
        /\ d.alloc = [c.alloc EXCEPT !.awarded[s] = c.alloc.awarded[s] + f]
    <3> HIDE DEF s, i, e
    <3>1. QED
      BY <2>2 DEF ProrataTurn, prorata_entry, Shaped, ObjectFields
  <2> HIDE DEF s, i, m
  <2> HIDE DEF old, e
  <2>5. e \in Entry /\ SameOrder(old, e) /\ Shared(e, Residual(c, s), m.lvl) /\ ~e.bumped
    BY <1>3, <2>1, <2>3, SharedByProrata
  <2>6. f \in Nat /\ d.cursor \in Nat /\ SameOrder(c.entries[s][i], e)
    BY <1>3, <2>4, <2>5 DEF Entry, old
  <2> HIDE DEF f
  <2>7. c.alloc.awarded \in [BOOLEAN -> Nat] /\ DOMAIN c.alloc = AllocFields
        /\ c.alloc.remainder_side \in {SIDE_BID, SIDE_ASK, SIDE_NONE}
    BY DEF Shaped, AllocOK
  <2>8. /\ AllocKept(c.alloc, d.alloc) /\ AwardedMore(c, s, f, d)
    <3> DEFINE a == c.alloc
               b == d.alloc
               w == [a.awarded EXCEPT ![s] = a.awarded[s] + f]
    <3>1. b = [a EXCEPT !.awarded = w]
      BY <2>4
    <3>2. w \in [BOOLEAN -> Nat]
      BY <1>1, <2>6, <2>7
    <3> HIDE DEF w, a, b
    <3>3. a.awarded \in [BOOLEAN -> Nat] /\ DOMAIN a = AllocFields
          /\ a.remainder_side \in {SIDE_BID, SIDE_ASK, SIDE_NONE}
      BY <2>7 DEF a
    <3>4. AllocKept(a, b) /\ b.awarded = w
      BY <3>1, <3>2, <3>3 DEF AllocKept, AllocFields
    <3>5. QED
      BY <3>4 DEF AwardedMore, a, b, w
  <2>9. Shaped(d) /\ Frame(c, d) /\ EntrySet(c.entries, s, i, e, d.entries)
    <3>1. EntryWritten(c, s, i, e, d)
      BY <2>4, <2>6 DEF EntryWritten
    <3>2. QED
      BY <1>1, <2>5, <2>6, <2>8, <3>1, EntryTurn
  <2>10. d.alloc.elig = c.alloc.elig
    BY <2>8 DEF AllocKept
  <2>11. Beyond(d)
    BY <1>1, <2>9, <2>10, BeyondStays
  <2>12. Awards(d)
    <3>1. c.entries[s][i].fill_base = 0
      <4>1. ~ (TurnOf(c, s, i) <= c.cursor)
        BY <1>1, <1>3
      <4>2. QED
        BY <1>1, <1>5, <4>1 DEF ProrataPass, Eligible
    <3>2. e.fill_base = c.entries[s][i].fill_base + f
      BY <2>6, <3>1 DEF f
    <3>3. Awards(c) /\ f \in Int
      BY <2>6 DEF ProrataPass
    <3>4. QED
      BY <1>1, <1>5, <2>8, <2>9, <3>2, <3>3, AwardsMove
  <2>13. ASSUME NEW t \in BOOLEAN, NEW j \in Eligible(d, t)
         PROVE  IF j \in InLevel(d, t)
                THEN IF TurnOf(d, t, j) <= d.cursor
                     THEN /\ Shared(d.entries[t][j], Residual(d, t), marginal_level(d, t).lvl)
                          /\ ~d.entries[t][j].bumped
                     ELSE d.entries[t][j].fill_base = 0
                ELSE d.entries[t][j].fill_base <= d.entries[t][j].qty_sats
    <3>1. marginal_level(d, t) = marginal_level(c, t) /\ InLevel(d, t) = InLevel(c, t)
      BY <2>9, SideLevelStays
    <3>2. Residual(d, t) = Residual(c, t)
      BY <2>9, <3>1 DEF Residual, Frame
    <3>3. /\ j \in Eligible(c, t) /\ j \in DOMAIN c.entries[t]
          /\ TurnOf(d, t, j) = TurnOf(c, t, j)
          /\ ~ (t = s /\ j = i) => d.entries[t][j] = c.entries[t][j]
      <4>1. j \in Eligible(c, t)
        BY <2>9, OtherEntries
      <4>2. j \in DOMAIN c.entries[t]
        BY <2>9, OtherEntries
      <4>3. SameTurn(c, d, t, j)
        BY <2>9, OtherEntries
      <4>4. Elsewhere(s, i, t, j) => Untouched(c, d, t, j)
        BY <2>9, OtherEntries
      <4>5. QED
        BY <4>1, <4>2, <4>3, <4>4 DEF SameTurn, Untouched, Elsewhere
    <3>4. CASE t = s /\ j = i
      <4>1. d.entries[t][j] = e /\ TurnOf(d, t, j) <= d.cursor
        BY <1>1, <1>3, <2>4, <2>9, <3>3, <3>4 DEF EntrySet
      <4>2. QED
        BY <1>5, <2>5, <3>1, <3>2, <3>4, <4>1 DEF m
    <3>5. CASE ~ (t = s /\ j = i)
      <4>1. TurnOf(c, t, j) \in Nat /\ TurnOf(c, t, j) # c.cursor + 1
        BY <1>1, <3>3, <3>5 DEF Eligible
      <4>2. TurnOf(d, t, j) <= d.cursor <=> TurnOf(c, t, j) <= c.cursor
        BY <1>3, <2>4, <3>3, <4>1
      <4>3. QED
        BY <3>1, <3>2, <3>3, <3>5, <4>2 DEF ProrataPass
    <3>6. QED
      BY <3>4, <3>5
  <2>14. ProrataPass(d)
    BY <2>12, <2>13 DEF ProrataPass
  <2>15. QED
    BY <2>4, <2>9, <2>11, <2>14
<1>6. CASE i \notin InLevel(c, s)
  <2>1. d = [c EXCEPT !.cursor = c.cursor + 1]
    BY <1>2, <1>4, <1>6 DEF ProrataTurn
  <2>2. Passed(c, d) /\ d.cursor = c.cursor + 1
    BY <1>3, <2>1 DEF Passed, Shaped, ObjectFields
  <2> HIDE DEF s, i, m, old, e
  <2>3. Shaped(d) /\ Frame(c, d) /\ d.entries = c.entries /\ d.alloc = c.alloc
    BY <2>2, PassedTurn
  <2>4. \A t \in BOOLEAN :
            /\ marginal_level(d, t) = marginal_level(c, t) /\ InLevel(d, t) = InLevel(c, t)
            /\ Residual(d, t) = Residual(c, t)
    BY <2>3, SideLevelStays DEF Residual
  <2>5. Beyond(d)
    BY <2>3 DEF Beyond
  <2>6. Awards(d)
    BY <2>3, <2>4 DEF Awards, Fills, ProrataPass
  <2>7. ASSUME NEW t \in BOOLEAN, NEW j \in Eligible(d, t)
        PROVE  IF j \in InLevel(d, t)
               THEN IF TurnOf(d, t, j) <= d.cursor
                    THEN /\ Shared(d.entries[t][j], Residual(d, t), marginal_level(d, t).lvl)
                         /\ ~d.entries[t][j].bumped
                    ELSE d.entries[t][j].fill_base = 0
               ELSE d.entries[t][j].fill_base <= d.entries[t][j].qty_sats
    <3>1. j \in Eligible(c, t) /\ TurnOf(d, t, j) = TurnOf(c, t, j) /\ TurnOf(c, t, j) \in Nat
      <4>1. d.alloc.elig = c.alloc.elig
        BY <2>3
      <4>2. j \in 1..c.alloc.elig[t]
        BY <4>1 DEF Eligible
      <4>3. TurnOf(c, t, j) \in Nat
        BY <1>1, <4>2
      <4>4. TurnOf(d, t, j) = TurnOf(c, t, j)
        BY <4>1 DEF TurnOf
      <4>5. QED
        BY <4>2, <4>3, <4>4 DEF Eligible
    <3>2. ASSUME j \in InLevel(c, t)
          PROVE  TurnOf(c, t, j) # c.cursor + 1
      BY <1>1, <1>6, <3>1, <3>2 DEF Eligible
    <3>3. j \in InLevel(c, t) =>
             (TurnOf(d, t, j) <= d.cursor <=> TurnOf(c, t, j) <= c.cursor)
      BY <1>3, <2>2, <3>1, <3>2
    <3>4. QED
      BY <2>3, <2>4, <3>1, <3>3 DEF ProrataPass
  <2>8. ProrataPass(d)
    BY <2>6, <2>7 DEF ProrataPass
  <2>9. QED
    BY <2>2, <2>3, <2>5, <2>8
<1>7. QED
  BY <1>5, <1>6

-----------------------------------------------------------------------------
(* Handing out the remainder, one sat at a time. *)

(* While the shares do not add up to the residual, some share was rounded   *)
(* down.                                                                    *)
LEMMA PositiveRest ==
    ASSUME NEW r \in Nat, NEW a \in Nat, NEW p \in Nat \ {0}, a < r
    PROVE  r * p - p * a > 0
<1>1. (a + 1) * p <= r * p
  BY ProductGrows
<1>2. (a + 1) * p = p * a + p /\ p * a \in Nat /\ r * p \in Nat
  OBVIOUS
<1>3. QED
  BY <1>1, <1>2

(* An entry that had its sat already has no fraction left to speak of.      *)
LEMMA BumpedIsOver ==
    ASSUME NEW r \in Nat, NEW q \in Nat, NEW p \in Nat, NEW f \in Nat,
           r * q - (f - 1) * p \in 0..(p - 1)
    PROVE  ~ (r * q - p * f > 0)
<1>1. (f - 1) * p = p * f - p /\ p * f \in Int /\ r * q \in Int
  OBVIOUS
<1>2. QED
  BY <1>1

(* Some set of entries has a first largest fraction.                        *)
LEMMA FirstLargest ==
    ASSUME NEW s, NEW I, I \subseteq Nat, IsFiniteSet(I), I # {}, \A i \in I : s[i].frac \in Int
    PROVE  first_largest(s, I) \in I /\ \A j \in I : s[first_largest(s, I)].frac >= s[j].frac
<1> DEFINE g == [i \in I |-> s[i].frac]
           T == {i \in I : \A j \in I : s[i].frac >= s[j].frac}
<1>1. \A i \in I : g[i] \in Int /\ g[i] = s[i].frac
  OBVIOUS
<1> HIDE DEF g
<1>3. PICK i \in I : \A j \in I : g[i] >= g[j]
  BY <1>1, SomeLargest
<1>4. i \in T
  BY <1>1, <1>3
<1>5. T \subseteq I
  OBVIOUS
<1>6. Min(T) \in T
  <2> HIDE DEF T
  <2>1. T \subseteq Int /\ T # {}
    BY <1>4, <1>5
  <2>2. IsFiniteSet(T)
    BY <1>5, FS_Subset
  <2>3. QED
    BY <2>1, <2>2, MinOfSet
<1>7. first_largest(s, I) = Min(T)
  BY DEF first_largest
<1> DEFINE x == Min(T)
<1>8. x \in T
  BY <1>6
<1>9. x \in I /\ \A j \in I : s[x].frac >= s[j].frac
  <2> HIDE DEF x
  <2>1. QED
    BY <1>8
<1>10. QED
  BY <1>7, <1>9

(* While less was awarded than there is to award, the best of the entries   *)
(* not yet bumped was rounded down, and takes one more.                     *)
LEMMA BestHasRoom ==
    ASSUME NEW c, Shaped(c), RemainderPass(c), NEW s \in BOOLEAN, ~side_done(c, s)
    PROVE  LET b == best_fraction(c, s)
           IN  /\ b \in InLevel(c, s) /\ ~c.entries[s][b].bumped
               /\ c.entries[s][b].fill_base + 1 <= c.entries[s][b].qty_sats
<1> DEFINE L == InLevel(c, s)
           m == marginal_level(c, s)
           r == Residual(c, s)
           p == m.lvl
           es == c.entries[s]
           f == Fills(c, s)
           w == Quantities(es)
           h == [i \in L |-> r * w[i] - p * f[i]]
           U == unbumped(c, s)
           b == best_fraction(c, s)
<1>1. U = {i \in L : ~es[i].bumped} /\ U # {}
  BY DEF side_done, unbumped, unbumped_of, InLevel
<1>2. PICK k \in L : TRUE
  BY <1>1
<1>3. r \in Nat /\ p \in Nat /\ r < p
  BY <1>2, LevelIsShared
<1>4. /\ IsFiniteSet(L) /\ L \subseteq DOMAIN es /\ L \subseteq 1..c.alloc.elig[s]
      /\ p = SumOf(w, L)
  BY SideLevel
<1>5. ASSUME NEW i \in L
      PROVE  /\ es[i] \in Entry /\ Shared(es[i], r, p)
             /\ f[i] = es[i].fill_base /\ w[i] = es[i].qty_sats
  <2>1. i \in DOMAIN es /\ i \in Eligible(c, s)
    BY <1>4 DEF Eligible
  <2>2. es \in Seq(Entry)
    BY DEF Shaped, EntriesOK
  <2>3. es[i] \in Entry
    <3> HIDE DEF es
    <3>1. QED
      BY <2>1, <2>2
  <2>4. f[i] = es[i].fill_base /\ w[i] = es[i].qty_sats
    BY <2>1 DEF Fills, Quantities
  <2>5. Shared(es[i], r, p)
    BY <2>1 DEF RemainderPass
  <2>6. QED
    BY <2>3, <2>4, <2>5
<1>6. c.alloc.awarded[s] \in Nat /\ c.alloc.awarded[s] = SumOf(f, L) /\ c.alloc.awarded[s] < r
  <2>1. /\ c.alloc.awarded \in [BOOLEAN -> Nat] /\ c.alloc.awarded[s] = SumOf(f, L)
        /\ c.alloc.residual[s] = r
    BY DEF Shaped, AllocOK, RemainderPass, Awards
  <2>2. ~ (c.alloc.awarded[s] >= c.alloc.residual[s])
    BY DEF side_done
  <2> HIDE DEF f, L, r
  <2>3. QED
    BY <1>3, <2>1, <2>2
<1> HIDE DEF L, m, r, p, es, f, w
<1>7. \A i \in L : f[i] \in Int /\ w[i] \in Int /\ f[i] \in Nat /\ w[i] \in Nat
  BY <1>5 DEF Entry
<1>8. SumOf(h, L) > 0
  <2>1. Linear(h, L, r, w, p, f)
    BY <1>7 DEF Linear
  <2> HIDE DEF h
  <2>2. SumOf(h, L) = r * SumOf(w, L) - p * SumOf(f, L)
    BY <1>3, <1>4, <2>1, SumLinear
  <2> DEFINE a == c.alloc.awarded[s]
  <2>3. SumOf(h, L) = r * p - p * a /\ a \in Nat /\ a < r
    BY <1>4, <1>6, <2>2
  <2> HIDE DEF a
  <2>4. r * p - p * a > 0
    BY <1>3, <2>3, PositiveRest
  <2>5. QED
    BY <2>3, <2>4
<1>9. PICK i \in L : r * w[i] - p * f[i] > 0
  <2>1. \A x \in L : h[x] \in Int /\ h[x] = r * w[x] - p * f[x]
    <3> SUFFICES ASSUME NEW x \in L
                 PROVE  r * w[x] - p * f[x] \in Int
      OBVIOUS
    <3>1. w[x] \in Int /\ f[x] \in Int /\ r \in Int /\ p \in Int
      BY <1>3, <1>7
    <3>2. QED
      BY <3>1
  <2> HIDE DEF h
  <2>2. \E x \in L : h[x] > 0
    BY <1>4, <1>8, <2>1, SumPositive
  <2>3. QED
    BY <2>1, <2>2
<1>10. ASSUME NEW x \in L
       PROVE  /\ es[x].frac \in Int /\ es[x].bumped \in BOOLEAN
              /\ es[x].bumped => ~ (r * w[x] - p * f[x] > 0)
              /\ ~es[x].bumped => es[x].frac = r * w[x] - p * f[x]
  <2> DEFINE e == es[x]
  <2>1. e \in Entry /\ Shared(e, r, p) /\ f[x] = e.fill_base /\ w[x] = e.qty_sats
        /\ f[x] \in Nat /\ w[x] \in Nat
    BY <1>5, <1>7
  <2> HIDE DEF e
  <2>2. e.frac \in Int /\ e.bumped \in BOOLEAN
    BY <2>1 DEF Entry
  <2>3. ASSUME e.bumped
        PROVE  ~ (r * w[x] - p * f[x] > 0)
    <3>1. r * w[x] - (f[x] - 1) * p \in 0..(p - 1)
      BY <2>1, <2>3 DEF Shared
    <3>2. QED
      BY <1>3, <2>1, <3>1, BumpedIsOver
  <2>4. ASSUME ~e.bumped
        PROVE  e.frac = r * w[x] - p * f[x]
    <3>1. e.frac = r * w[x] - (f[x] - 0) * p
      BY <2>1, <2>4 DEF Shared
    <3> DEFINE y == f[x]
    <3>2. y \in Nat /\ e.frac = r * w[x] - (y - 0) * p
      BY <2>1, <3>1
    <3> HIDE DEF y
    <3>3. (y - 0) * p = p * y
      BY <1>3, <3>2
    <3>4. QED
      BY <3>2, <3>3 DEF y
  <2>5. QED
    BY <2>2, <2>3, <2>4 DEF e
<1>11. b \in U /\ \A j \in U : es[b].frac >= es[j].frac
  <2>1. b = first_largest(es, U)
    BY DEF best_fraction, es
  <2>2. IsFiniteSet(U) /\ U \subseteq Nat
    <3>1. U \subseteq L
      BY <1>1
    <3>2. L \subseteq Nat
      BY <1>4
    <3> HIDE DEF U
    <3>3. QED
      BY <1>4, <3>1, <3>2, FS_Subset
  <2>3. \A j \in U : es[j].frac \in Int
    BY <1>1, <1>10
  <2> HIDE DEF U, b
  <2>4. QED
    BY <1>1, <2>1, <2>2, <2>3, FirstLargest
<1> HIDE DEF U, b
<1>12. i \in U
  BY <1>1, <1>9, <1>10
<1>13. b \in L /\ ~es[b].bumped
  BY <1>1, <1>11
<1>14. r * w[b] - p * f[b] > 0
  <2>1. ~es[i].bumped
    BY <1>1, <1>12
  <2>2. es[i].frac = r * w[i] - p * f[i] /\ es[b].frac = r * w[b] - p * f[b]
        /\ es[i].frac \in Int /\ es[b].frac \in Int
    BY <1>10, <1>13, <2>1
  <2>3. es[b].frac >= es[i].frac /\ es[i].frac > 0
    BY <1>9, <1>11, <1>12, <2>2
  <2> DEFINE x == es[b].frac
             y == es[i].frac
  <2>4. x \in Int /\ y \in Int /\ x >= y /\ y > 0
    BY <2>2, <2>3
  <2> HIDE DEF x, y
  <2>5. x > 0
    BY <2>4
  <2>6. QED
    BY <2>2, <2>5 DEF x
<1>15. f[b] + 1 <= w[b]
  <2> DEFINE x == w[b]
             y == f[b]
  <2>1. x \in Nat /\ y \in Nat /\ r * x - p * y > 0
    BY <1>7, <1>13, <1>14
  <2> HIDE DEF x, y
  <2>2. y + 1 <= x
    BY <1>3, <2>1, OneMoreFits
  <2>3. QED
    BY <2>2 DEF x, y
<1>16. f[b] = es[b].fill_base /\ w[b] = es[b].qty_sats
  BY <1>5, <1>13
<1>17. QED
  BY <1>13, <1>15, <1>16 DEF b, L, es

(* The entry the remainder goes to has not had its one sat, and has room    *)
(* for it.                                                                  *)
LEMMA BumpFacts ==
    ASSUME NEW e \in Entry, NEW r \in Nat, NEW p \in Nat, Shared(e, r, p), ~e.bumped,
           e.fill_base + 1 <= e.qty_sats
    PROVE  /\ bump(e) \in Entry /\ SameOrder(e, bump(e)) /\ Shared(bump(e), r, p)
           /\ bump(e).fill_base = e.fill_base + 1
<1> DEFINE x == bump(e)
           f == e.fill_base
<1>1. f \in Nat /\ e.bumped = FALSE /\ f + 1 \in Nat
  BY DEF Entry
<1>2. x = [e EXCEPT !.fill_base = f + 1, !.bumped = TRUE]
  BY DEF bump
<1> DEFINE g == f + 1
<1>3. x = [e EXCEPT !.fill_base = g, !.bumped = TRUE] /\ g \in Nat
  BY <1>1, <1>2
<1> HIDE DEF x, g
<1>4. /\ x \in Entry /\ SameOrder(e, x) /\ x.fill_base = g /\ x.bumped = TRUE
      /\ x.frac = e.frac /\ x.qty_sats = e.qty_sats
  BY <1>3 DEF Entry, SameOrder
<1>5. /\ f - 0 \in Nat /\ e.frac \in 0..(p - 1)
      /\ e.frac = r * e.qty_sats - (f - 0) * p /\ g <= e.qty_sats
  BY <1>1 DEF Shared, g
<1>6. g - 1 = f - 0
  BY <1>1 DEF g
<1>7. Shared(x, r, p)
  <2>1. x.fill_base - (IF x.bumped THEN 1 ELSE 0) = f - 0
    BY <1>4, <1>6
  <2> HIDE DEF f
  <2>2. QED
    BY <1>4, <1>5, <2>1 DEF Shared
<1>8. QED
  BY <1>4, <1>7 DEF x, g

(* An award keeps every share within what was asked.                        *)
LEMMA AwardKeeps ==
    ASSUME NEW c, Shaped(c), Beyond(c), RemainderPass(c), NEW s \in BOOLEAN, ~side_done(c, s),
           NEW d, d = award(c, s)
    PROVE  Shaped(d) /\ Frame(c, d) /\ Beyond(d) /\ RemainderPass(d)
<1> DEFINE i == best_fraction(c, s)
           m == marginal_level(c, s)
           r == Residual(c, s)
           old == c.entries[s][i]
           e == bump(old)
           side == IF s THEN SIDE_BID ELSE SIDE_ASK
<1>1. i \in InLevel(c, s) /\ ~old.bumped /\ old.fill_base + 1 <= old.qty_sats
  BY BestHasRoom
<1> HIDE DEF i
<1>2. /\ r \in Nat /\ m.lvl \in Nat /\ r < m.lvl
      /\ i \in Eligible(c, s) /\ i \in DOMAIN c.entries[s]
  BY <1>1, LevelIsShared
<1>3. /\ DOMAIN d = DOMAIN c
      /\ \A x \in ObjectFields \ {"entries", "alloc"} : d[x] = c[x]
      /\ d.entries = [c.entries EXCEPT ![s][i] = e]
      /\ d.alloc = [c.alloc EXCEPT !.remainder_side = side,
                                   !.awarded[s] = c.alloc.awarded[s] + 1]
  <2> HIDE DEF old, side, m, r
  <2>1. e = bump(c.entries[s][i])
    BY DEF old
  <2> HIDE DEF e
  <2>2. QED
    BY <2>1 DEF award, i, side, Shaped, ObjectFields
<1>4. old \in Entry /\ c.cursor \in Nat /\ Shared(old, r, m.lvl)
  <2>1. c.entries[s] \in Seq(Entry) /\ c.cursor \in Nat
    BY DEF Shaped, EntriesOK
  <2>2. Shared(old, r, m.lvl)
    BY <1>1, <1>2 DEF RemainderPass
  <2>3. QED
    BY <1>2, <2>1, <2>2
<1> HIDE DEF m, r, old
<1>5. /\ e \in Entry /\ SameOrder(old, e) /\ Shared(e, r, m.lvl)
      /\ e.fill_base = old.fill_base + 1
  BY <1>1, <1>2, <1>4, BumpFacts
<1> HIDE DEF e
<1>6. side \in {SIDE_BID, SIDE_ASK, SIDE_NONE}
  OBVIOUS
<1> HIDE DEF side
<1>7. c.alloc.awarded \in [BOOLEAN -> Nat] /\ DOMAIN c.alloc = AllocFields
  BY DEF Shaped, AllocOK
<1>8. AllocKept(c.alloc, d.alloc) /\ AwardedMore(c, s, 1, d)
  <2> DEFINE a == c.alloc
             b == d.alloc
             w == [a.awarded EXCEPT ![s] = a.awarded[s] + 1]
  <2>1. b = [a EXCEPT !.remainder_side = side, !.awarded = w]
    BY <1>3
  <2>2. w \in [BOOLEAN -> Nat]
    BY <1>7
  <2>3. DOMAIN a = AllocFields
    BY <1>7
  <2> HIDE DEF w, a, b
  <2>4. AllocKept(a, b) /\ b.awarded = w
    BY <1>6, <2>1, <2>2, <2>3 DEF AllocKept, AllocFields
  <2>5. QED
    BY <2>4 DEF AwardedMore, a, b, w
<1>9. Shaped(d) /\ Frame(c, d) /\ EntrySet(c.entries, s, i, e, d.entries)
  <2>1. EntryWritten(c, s, i, e, d)
    BY <1>3, <1>4 DEF EntryWritten, ObjectFields
  <2>2. SameOrder(c.entries[s][i], e)
    BY <1>5 DEF old
  <2>3. QED
    BY <1>2, <1>5, <1>8, <2>1, <2>2, EntryTurn
<1>10. d.alloc.elig = c.alloc.elig
  BY <1>8 DEF AllocKept
<1>11. Beyond(d)
  BY <1>2, <1>9, <1>10, BeyondStays DEF Eligible
<1>12. Awards(d)
  <2>1. e.fill_base = c.entries[s][i].fill_base + 1
    BY <1>5 DEF old
  <2>2. Awards(c)
    BY DEF RemainderPass
  <2>3. QED
    BY <1>1, <1>8, <1>9, <2>1, <2>2, AwardsMove
<1>13. ASSUME NEW t \in BOOLEAN, NEW j \in Eligible(d, t)
       PROVE  IF j \in InLevel(d, t)
              THEN Shared(d.entries[t][j], Residual(d, t), marginal_level(d, t).lvl)
              ELSE d.entries[t][j].fill_base <= d.entries[t][j].qty_sats
  <2>1. marginal_level(d, t) = marginal_level(c, t) /\ InLevel(d, t) = InLevel(c, t)
    BY <1>9, SideLevelStays
  <2>2. Residual(d, t) = Residual(c, t)
    BY <1>9, <2>1 DEF Residual, Frame
  <2>3. j \in Eligible(c, t)
    BY <1>9, OtherEntries
  <2>4. Elsewhere(s, i, t, j) => Untouched(c, d, t, j)
    BY <1>9, OtherEntries
  <2>5. CASE t = s /\ j = i
    <3>1. d.entries[t][j] = e
      BY <1>9, <2>5 DEF EntrySet
    <3>2. QED
      BY <1>1, <1>5, <2>1, <2>2, <2>5, <3>1 DEF m, r
  <2>6. CASE ~ (t = s /\ j = i)
    <3>1. d.entries[t][j] = c.entries[t][j]
      BY <2>4, <2>6 DEF Untouched, Elsewhere
    <3>2. QED
      BY <2>1, <2>2, <2>3, <3>1 DEF RemainderPass
  <2>7. QED
    BY <2>5, <2>6
<1>14. RemainderPass(d)
  BY <1>12, <1>13 DEF RemainderPass
<1>15. QED
  BY <1>9, <1>11, <1>14

-----------------------------------------------------------------------------
(* Steps of the passes. *)

(* The stages are twelve numbers.                                           *)
LEMMA StagesDiffer ==
    /\ STAGE_LOADING = 0 /\ STAGE_PRICING = 1 /\ STAGE_ALLOC_FULL = 2
    /\ STAGE_ALLOC_PRORATA = 3 /\ STAGE_ALLOC_REMAINDER = 4 /\ STAGE_ROOTING = 5
    /\ STAGE_SETTLING = 6 /\ STAGE_DONE = 7 /\ STAGE_TRUNCATE = 8 /\ STAGE_REALLOC_FULL = 9
    /\ STAGE_REALLOC_PRORATA = 10 /\ STAGE_REALLOC_REMAINDER = 11 /\ Stages = 0..11
  BY DEF STAGE_LOADING, STAGE_PRICING, STAGE_ALLOC_FULL, STAGE_ALLOC_PRORATA,
         STAGE_ALLOC_REMAINDER, STAGE_ROOTING, STAGE_SETTLING, STAGE_DONE, STAGE_TRUNCATE,
         STAGE_REALLOC_FULL, STAGE_REALLOC_PRORATA, STAGE_REALLOC_REMAINDER, Stages

(* What a pass that goes well amounts to.                                   *)
LEMMA AllocatingIsOK ==
    ASSUME NEW c, NEW b, NEW v, Shaped(c), Allocating(c, v), c.stage \in FirstPass \cup SecondPass
    PROVE  ClearingOK(c, b, v)
  BY StagesDiffer DEF ClearingOK, FirstPass, SecondPass, Opening, Truncating, Rooting, Settling

(* How many turns a loop takes.                                             *)
LEMMA TurnsLeft ==
    ASSUME NEW budget \in Nat, NEW total \in Nat, NEW k \in Nat, k <= total
    PROVE  min_u64(budget, total - k) \in Nat /\ k + min_u64(budget, total - k) <= total
  BY DEF min_u64

(* The eligible entries can be counted.                                     *)
LEMMA EligibleCount ==
    ASSUME NEW c, Shaped(c)
    PROVE  /\ eligible_count(c) \in Nat
           /\ \A s \in BOOLEAN : \A i \in Eligible(c, s) : TurnOf(c, s, i) \in 1..eligible_count(c)
<1> DEFINE n == c.alloc.elig[TRUE]
           m == c.alloc.elig[FALSE]
<1>1. n \in Nat /\ m \in Nat
  BY DEF Shaped, AllocOK
<1>2. eligible_count(c) = n + m
  BY DEF eligible_count
<1>3. ASSUME NEW s \in BOOLEAN, NEW i \in Eligible(c, s)
      PROVE  TurnOf(c, s, i) \in 1..(n + m)
  <2>1. CASE s = TRUE
    <3>1. i \in 1..n
      BY <2>1 DEF Eligible
    <3>2. TurnOf(c, s, i) = i
      BY <2>1, TurnCases
    <3> HIDE DEF n, m
    <3>3. QED
      BY <1>1, <3>1, <3>2
  <2>2. CASE s = FALSE
    <3>1. i \in 1..m
      BY <2>2 DEF Eligible
    <3>2. TurnOf(c, s, i) = n + i
      BY <2>2, TurnCases
    <3> HIDE DEF n, m
    <3>3. QED
      BY <1>1, <3>1, <3>2
  <2>3. QED
    BY <2>1, <2>2
<1>4. n + m \in Nat
  <2> HIDE DEF n, m
  <2>1. QED
    BY <1>1
<1>5. QED
  BY <1>2, <1>3, <1>4

(* A pass leaves their number alone.                                        *)
LEMMA FrameCounts ==
    ASSUME NEW c, NEW d, Frame(c, d)
    PROVE  eligible_count(d) = eligible_count(c)
<1>1. d.alloc.elig = c.alloc.elig
  BY DEF Frame
<1>2. QED
  BY <1>1 DEF eligible_count

(* What matters of the orders and the snapshot to the rest of the clearing. *)
Carried(c, d) ==
    /\ d.funding = c.funding /\ d.fills = c.fills
    /\ d.alloc.elig = c.alloc.elig /\ d.alloc.clearing_price = c.alloc.clearing_price
    /\ \A s \in BOOLEAN : SameOrders(c.entries[s], d.entries[s])

(* A pass leaves alone what the snapshots and the prices are.               *)
LEMMA FrameCarries ==
    ASSUME NEW c, NEW d, Frame(c, d)
    PROVE  Carried(c, d)
  BY DEF Frame, Carried, ObjectFields

(* So what they cover stays covered.                                        *)
LEMMA CarriedStays ==
    ASSUME NEW c, NEW d, Carried(c, d), NEW v
    PROVE  /\ Priced(c) => Priced(d)
           /\ Snapshots(c, v) => Snapshots(d, v)
           /\ AskedCovered(c, v) => AskedCovered(d, v)
<1>1. Priced(c) => Priced(d)
  BY DEF Carried, Priced
<1>2. Snapshots(c, v) => Snapshots(d, v)
  BY DEF Carried, Snapshots
<1>3. ASSUME NEW who, NEW s \in BOOLEAN
      PROVE  Asked(d, s, who) = Asked(c, s, who) /\ Eligible(d, s) = Eligible(c, s)
  <2> DEFINE es == c.entries[s]
             fs == d.entries[s]
  <2>1. SameOrders(es, fs)
    BY DEF Carried
  <2>2. d.alloc.clearing_price = c.alloc.clearing_price /\ d.alloc.elig = c.alloc.elig
    BY DEF Carried
  <2> HIDE DEF es, fs
  <2>3. Asked(c, s, who) = [i \in DOMAIN es |->
                             IF es[i].submitter = who
                             THEN CostOf(c.alloc.clearing_price, s, es[i].qty_sats) ELSE 0]
    BY DEF Asked, es
  <2>4. Asked(d, s, who) = [i \in DOMAIN fs |->
                             IF fs[i].submitter = who
                             THEN CostOf(d.alloc.clearing_price, s, fs[i].qty_sats) ELSE 0]
    BY DEF Asked, fs
  <2>5. Asked(d, s, who) = Asked(c, s, who)
    BY <2>1, <2>2, <2>3, <2>4 DEF SameOrders
  <2>6. QED
    BY <2>2, <2>5 DEF Eligible
<1>4. AskedCovered(c, v) => AskedCovered(d, v)
  BY <1>3 DEF AskedCovered, Carried
<1>5. QED
  BY <1>1, <1>2, <1>4

-----------------------------------------------------------------------------
(* The levels that fit are filled. *)

FullHolds(k, x) ==
    /\ Shaped(x) /\ Frame(clearing, x) /\ Beyond(x) /\ FullPass(x)
    /\ x.cursor = clearing.cursor + k

Full == INSTANCE LoopRules WITH Body <- FullTurn, Holds <- FullHolds

(* The premise of the rules of this instance.                               *)
LEMMA FullInduction ==
    Full!Induction
  BY NatSetInduction DEF Full!Induction

(* However many turns of the first part of a pass a budget pays for.        *)
LEMMA FullLoop ==
    ASSUME Shaped(clearing), Beyond(clearing), FullPass(clearing),
           clearing.cursor <= eligible_count(clearing), NEW budget \in Nat,
           NEW d, d = Advance(clearing, eligible_count(clearing), budget, full_unit)
    PROVE  /\ Shaped(d) /\ Frame(clearing, d) /\ Beyond(d) /\ FullPass(d)
           /\ d.cursor <= eligible_count(clearing)
<1> DEFINE total == eligible_count(clearing)
           n == min_u64(budget, total - clearing.cursor)
<1>1. total \in Nat /\ clearing.cursor \in Nat
  BY EligibleCount DEF Shaped
<1> HIDE DEF total
<1>2. n \in Nat /\ clearing.cursor + n <= total
  BY <1>1, TurnsLeft DEF total
<1>3. d = Full!LoopFrom(clearing)[n]
  BY DEF Advance, Full!LoopFrom, Full!Turns, FullTurn, total
<1> HIDE DEF n
<1>4. FullHolds(0, clearing)
  BY <1>1, FrameRefl DEF FullHolds
<1>5. ASSUME NEW k \in 0..(n - 1), NEW x, FullHolds(k, x)
      PROVE  FullHolds(k + 1, FullTurn(x, k + 1))
  <2>1. eligible_count(x) = total
    BY <1>5, FrameCounts DEF FullHolds, total
  <2>2. x.cursor < eligible_count(x)
    BY <1>1, <1>2, <1>5, <2>1 DEF FullHolds
  <2> DEFINE y == FullTurn(x, k + 1)
  <2>3. Shaped(y) /\ Frame(x, y) /\ Beyond(y) /\ FullPass(y) /\ y.cursor = x.cursor + 1
    BY <1>5, <2>2, FullTurnKeeps DEF FullHolds
  <2> HIDE DEF y
  <2>4. Frame(clearing, y)
    BY <1>5, <2>3, FrameTrans DEF FullHolds
  <2>5. y.cursor = clearing.cursor + (k + 1)
    BY <1>1, <1>5, <2>3 DEF FullHolds
  <2>6. QED
    BY <2>3, <2>4, <2>5 DEF FullHolds, y
<1>6. FullHolds(n, Full!LoopFrom(clearing)[n])
  BY <1>2, <1>4, <1>5, FullInduction, Full!LoopRule
<1>7. QED
  BY <1>1, <1>2, <1>3, <1>6 DEF FullHolds, total

(* The next stage begins with the entries of this one.                      *)
Entered(c, d, next) ==
    /\ DOMAIN d = ObjectFields /\ Paid(d) /\ d.stage = next /\ d.cursor = 0
    /\ d.entries = c.entries /\ d.funding = c.funding /\ d.fills = c.fills
    /\ DOMAIN d.alloc = AllocFields
    /\ d.alloc.elig = c.alloc.elig /\ d.alloc.matched_base = c.alloc.matched_base
    /\ d.alloc.clearing_price = c.alloc.clearing_price /\ d.alloc.awarded = c.alloc.awarded
    /\ d.alloc.remainder_side \in {SIDE_BID, SIDE_ASK, SIDE_NONE}

(* Entering the next stage keeps the shape of the object.                   *)
LEMMA EnteredKeeps ==
    ASSUME NEW c, Shaped(c), NEW next \in Stages, NEW d, Entered(c, d, next)
    PROVE  /\ Shaped(d) /\ Carried(c, d) /\ (Beyond(c) => Beyond(d))
           /\ eligible_count(d) = eligible_count(c)
           /\ \A s \in BOOLEAN :
                 /\ marginal_level(d, s) = marginal_level(c, s) /\ InLevel(d, s) = InLevel(c, s)
                 /\ Residual(d, s) = Residual(c, s) /\ Fills(d, s) = Fills(c, s)
                 /\ Eligible(d, s) = Eligible(c, s)
<1>1. Carried(c, d)
  BY DEF Entered, Carried, SameOrders
<1>2. EntriesOK(d) /\ AllocOK(d)
  BY DEF Entered, Shaped, EntriesOK, AllocOK
<1>3. Shaped(d)
  BY <1>2 DEF Entered, Shaped
<1>4. Beyond(c) => Beyond(d)
  BY DEF Entered, Beyond
<1>5. \A s \in BOOLEAN :
                 /\ marginal_level(d, s) = marginal_level(c, s) /\ InLevel(d, s) = InLevel(c, s)
                 /\ Residual(d, s) = Residual(c, s) /\ Fills(d, s) = Fills(c, s)
                 /\ Eligible(d, s) = Eligible(c, s)
  BY DEF Entered, marginal_level, InLevel, Residual, Fills, Eligible
<1>6. eligible_count(d) = eligible_count(c)
  BY DEF Entered, eligible_count
<1>7. QED
  BY <1>1, <1>3, <1>4, <1>5, <1>6

(* Filled levels are what the shares are taken beside.                      *)
LEMMA ProrataBegins ==
    ASSUME NEW c, Shaped(c), FullPass(c), c.cursor = eligible_count(c), NEW next \in Stages,
           NEW d, Entered(c, d, next), \A s \in BOOLEAN : d.alloc.residual[s] = Residual(c, s)
    PROVE  ProrataPass(d)
<1>1. /\ Shaped(d)
      /\ \A s \in BOOLEAN :
            /\ marginal_level(d, s) = marginal_level(c, s) /\ InLevel(d, s) = InLevel(c, s)
            /\ Residual(d, s) = Residual(c, s) /\ Fills(d, s) = Fills(c, s)
            /\ Eligible(d, s) = Eligible(c, s)
  BY EnteredKeeps
<1>2. ASSUME NEW s \in BOOLEAN, NEW i \in Eligible(c, s)
      PROVE  /\ c.entries[s][i].fill_base = IF i <= marginal_level(c, s).lo
                                            THEN c.entries[s][i].qty_sats ELSE 0
             /\ i \in DOMAIN c.entries[s] /\ c.entries[s][i].qty_sats \in Nat
             /\ i \in InLevel(c, s) => ~ (i <= marginal_level(c, s).lo)
  <2>1. TurnOf(c, s, i) <= c.cursor
    <3>1. TurnOf(c, s, i) \in 1..eligible_count(c) /\ eligible_count(c) \in Nat
      BY EligibleCount
    <3>2. QED
      BY <3>1
  <2>2. i \in 1..c.alloc.elig[s]
    BY DEF Eligible
  <2>3. /\ c.alloc.elig[s] \in Nat /\ c.alloc.elig[s] <= Len(c.entries[s])
        /\ c.entries[s] \in Seq(Entry)
    BY DEF Shaped, AllocOK, EntriesOK
  <2>4. i \in DOMAIN c.entries[s] /\ c.entries[s][i] \in Entry
    BY <2>2, <2>3
  <2>5. i \in InLevel(c, s) => ~ (i <= marginal_level(c, s).lo)
    <3> DEFINE lo == marginal_level(c, s).lo
               hi == marginal_level(c, s).hi
    <3>1. lo \in 0..c.alloc.elig[s]
      BY SideLevel
    <3>2. InLevel(c, s) = (lo + 1)..hi
      BY DEF InLevel
    <3> HIDE DEF lo, hi
    <3>3. i \in (lo + 1)..hi => ~ (i <= lo)
      BY <2>2, <3>1
    <3>4. QED
      BY <3>2, <3>3 DEF lo
  <2>6. QED
    BY <2>1, <2>2, <2>4, <2>5 DEF FullPass, Entry
<1>3. Awards(d)
  <2> SUFFICES ASSUME NEW s \in BOOLEAN
               PROVE  d.alloc.awarded[s] = SumOf(Fills(c, s), InLevel(c, s))
    BY <1>1 DEF Awards
  <2>1. d.alloc.awarded[s] = 0
    BY DEF Entered, FullPass
  <2>2. /\ IsFiniteSet(InLevel(c, s)) /\ InLevel(c, s) \subseteq 1..c.alloc.elig[s]
    BY SideLevel
  <2>3. \A i \in InLevel(c, s) : Fills(c, s)[i] = 0
    <3> SUFFICES ASSUME NEW i \in InLevel(c, s)
                 PROVE  Fills(c, s)[i] = 0
      OBVIOUS
    <3>1. i \in Eligible(c, s)
      BY <2>2 DEF Eligible
    <3>2. c.entries[s][i].fill_base = 0 /\ i \in DOMAIN c.entries[s]
      BY <1>2, <3>1
    <3>3. QED
      BY <3>2 DEF Fills
  <2>4. SumOf(Fills(c, s), InLevel(c, s)) = 0
    BY <2>2, <2>3, SumZeros
  <2>5. QED
    BY <2>1, <2>4
<1>4. ASSUME NEW s \in BOOLEAN, NEW i \in Eligible(d, s)
      PROVE  IF i \in InLevel(d, s)
             THEN IF TurnOf(d, s, i) <= d.cursor
                  THEN /\ Shared(d.entries[s][i], Residual(d, s), marginal_level(d, s).lvl)
                       /\ ~d.entries[s][i].bumped
                  ELSE d.entries[s][i].fill_base = 0
             ELSE d.entries[s][i].fill_base <= d.entries[s][i].qty_sats
  <2>1. ~ (TurnOf(d, s, i) <= d.cursor)
    <3>1. TurnOf(d, s, i) \in 1..eligible_count(d)
      BY <1>1, EligibleCount
    <3>2. d.cursor = 0
      BY DEF Entered
    <3>3. QED
      BY <3>1, <3>2
  <2>2. d.entries = c.entries /\ i \in Eligible(c, s) /\ InLevel(d, s) = InLevel(c, s)
    BY <1>1 DEF Entered
  <2> DEFINE e == c.entries[s][i]
  <2>3. /\ e.fill_base = IF i <= marginal_level(c, s).lo THEN e.qty_sats ELSE 0
        /\ e.qty_sats \in Nat
        /\ i \in InLevel(c, s) => ~ (i <= marginal_level(c, s).lo)
    BY <1>2, <2>2
  <2>4. d.entries[s][i] = e
    BY <2>2
  <2> HIDE DEF e
  <2>5. e.fill_base <= e.qty_sats
    <3>1. CASE i <= marginal_level(c, s).lo
      BY <2>3, <3>1
    <3>2. CASE ~ (i <= marginal_level(c, s).lo)
      BY <2>3, <3>2
    <3>3. QED
      BY <3>1, <3>2
  <2>6. i \in InLevel(d, s) => e.fill_base = 0
    BY <2>2, <2>3
  <2>7. QED
    BY <2>1, <2>4, <2>5, <2>6
<1>5. QED
  BY <1>3, <1>4 DEF ProrataPass

AfterFull(c) ==
    IF c.stage = STAGE_ALLOC_FULL THEN STAGE_ALLOC_PRORATA ELSE STAGE_REALLOC_PRORATA

(* A transaction of STAGE_ALLOC_FULL or STAGE_REALLOC_FULL keeps the        *)
(* invariant.                                                               *)
LEMMA FullStep ==
    ASSUME Shaped(clearing), Allocating(clearing, vault),
           clearing.stage \in {STAGE_ALLOC_FULL, STAGE_REALLOC_FULL}, NEW budget \in Nat,
           NEW d, d = alloc_full_step(clearing, budget, AfterFull(clearing))
    PROVE  ClearingOK(d, batch, vault)
<1> DEFINE c == clearing
           total == eligible_count(c)
           x == Advance(c, total, budget, full_unit)
           m == [s \in BOOLEAN |-> marginal_level(c, s)]
           next == AfterFull(c)
<1>1. /\ Priced(c) /\ Beyond(c) /\ FullPass(c) /\ c.cursor <= total
      /\ c.stage \in FirstPass => Snapshots(c, vault)
      /\ c.stage \in SecondPass => AskedCovered(c, vault)
  BY DEF Allocating, Passing, FirstPass, SecondPass
<1>2. Shaped(x) /\ Frame(c, x) /\ Beyond(x) /\ FullPass(x) /\ x.cursor <= total
  BY <1>1, FullLoop
<1>3. d = IF x.cursor < total THEN x
          ELSE enter([x EXCEPT !.alloc = [@ EXCEPT
                 !.filled = [s \in BOOLEAN |-> m[s].cum],
                 !.pro_qty = [s \in BOOLEAN |-> m[s].lvl],
                 !.residual = [s \in BOOLEAN |-> c.alloc.matched_base - m[s].cum]]], next)
  BY DEF alloc_full_step
<1>4. total \in Nat /\ eligible_count(x) = total
  BY <1>2, EligibleCount, FrameCounts
<1>5. /\ Carried(c, x) /\ Priced(x)
      /\ c.stage \in FirstPass => Snapshots(x, vault)
      /\ c.stage \in SecondPass => AskedCovered(x, vault)
  BY <1>1, <1>2, FrameCarries, CarriedStays
<1>6. x.stage = c.stage /\ x.cursor \in Nat
  BY <1>2 DEF Frame, ObjectFields, Shaped
<1> HIDE DEF x, total
<1>7. CASE x.cursor < total
  <2>1. Passing(x)
    BY <1>2, <1>4, <1>6, StagesDiffer DEF Passing
  <2>2. Allocating(x, vault)
    BY <1>2, <1>5, <1>6, <2>1 DEF Allocating
  <2>3. d = x
    BY <1>3, <1>7
  <2>4. QED
    BY <1>2, <1>6, <2>2, <2>3, AllocatingIsOK DEF FirstPass, SecondPass
<1>8. CASE ~ (x.cursor < total)
  <2>1. x.cursor = eligible_count(x)
    BY <1>2, <1>4, <1>6, <1>8
  <2> DEFINE r == [s \in BOOLEAN |-> Residual(c, s)]
             f == [s \in BOOLEAN |-> m[s].cum]
             w == [s \in BOOLEAN |-> m[s].lvl]
  <2>2. [s \in BOOLEAN |-> c.alloc.matched_base - m[s].cum] = r
    BY DEF Residual
  <2>3. d = enter([x EXCEPT !.alloc = [@ EXCEPT !.filled = f, !.pro_qty = w, !.residual = r]],
                  next)
    BY <1>3, <1>8, <2>2
  <2>4. \A s \in BOOLEAN : r[s] = Residual(x, s)
    <3> SUFFICES ASSUME NEW s \in BOOLEAN
                 PROVE  Residual(c, s) = Residual(x, s)
      OBVIOUS
    <3>1. marginal_level(x, s) = marginal_level(c, s)
      BY <1>2, SideLevelStays
    <3>2. QED
      BY <1>2, <3>1 DEF Residual, Frame
  <2> HIDE DEF r, f, w, m
  <2> HIDE DEF next
  <2>5. Entered(x, d, next) /\ d.alloc.residual = r
    <3> DEFINE a == x.alloc
               z == [a EXCEPT !.filled = f, !.pro_qty = w, !.residual = r]
    <3>1. d = [x EXCEPT !.alloc = z, !.cursor = 0, !.stage = next]
      BY <2>3 DEF enter
    <3>2. /\ DOMAIN a = AllocFields /\ a.remainder_side \in {SIDE_BID, SIDE_ASK, SIDE_NONE}
          /\ DOMAIN x = ObjectFields
      BY <1>2 DEF Shaped, AllocOK
    <3> HIDE DEF a
    <3>3. /\ DOMAIN z = AllocFields /\ z.elig = a.elig /\ z.matched_base = a.matched_base
          /\ z.clearing_price = a.clearing_price /\ z.awarded = a.awarded
          /\ z.remainder_side = a.remainder_side /\ z.residual = r
      BY <3>2 DEF AllocFields
    <3> HIDE DEF z
    <3>4. /\ DOMAIN d = ObjectFields /\ d.stage = next /\ d.cursor = 0 /\ d.alloc = z
          /\ d.entries = x.entries /\ d.funding = x.funding /\ d.fills = x.fills
          /\ d.fee_bps = x.fee_bps /\ d.quote_paid = x.quote_paid
          /\ d.quote_recv = x.quote_recv /\ d.fee_quote = x.fee_quote
      BY <3>1, <3>2 DEF ObjectFields
    <3>5. Paid(d)
      BY <1>2, <3>4, PaidStays
    <3>6. QED
      BY <3>2, <3>3, <3>4, <3>5 DEF Entered, a
  <2>6. next \in {STAGE_ALLOC_PRORATA, STAGE_REALLOC_PRORATA} /\ next \in Stages
        /\ (next = STAGE_ALLOC_PRORATA => c.stage = STAGE_ALLOC_FULL)
        /\ (next = STAGE_REALLOC_PRORATA => c.stage = STAGE_REALLOC_FULL)
    BY StagesDiffer DEF AfterFull, next
  <2>7. Shaped(d) /\ Carried(x, d) /\ Beyond(d) /\ ProrataPass(d) /\ eligible_count(d) \in Nat
    <3>1. Shaped(d) /\ Carried(x, d) /\ Beyond(d)
      BY <1>2, <2>5, <2>6, EnteredKeeps
    <3>2. ProrataPass(d)
      BY <1>2, <2>1, <2>4, <2>5, <2>6, ProrataBegins
    <3>3. QED
      BY <3>1, <3>2, EligibleCount
  <2>8. d.stage = next /\ d.cursor = 0
    BY <2>5 DEF Entered
  <2>9. Passing(d)
    BY <2>6, <2>7, <2>8, StagesDiffer DEF Passing
  <2>10. /\ Priced(d) /\ (d.stage \in FirstPass => Snapshots(d, vault))
         /\ (d.stage \in SecondPass => AskedCovered(d, vault))
    <3>1. (d.stage \in FirstPass => c.stage \in FirstPass)
          /\ (d.stage \in SecondPass => c.stage \in SecondPass)
      BY <2>6, <2>8, StagesDiffer DEF FirstPass, SecondPass
    <3>2. QED
      BY <1>5, <2>7, <3>1, CarriedStays
  <2>11. d.stage \in FirstPass \cup SecondPass
    BY <2>6, <2>8 DEF FirstPass, SecondPass
  <2>12. Allocating(d, vault)
    BY <2>7, <2>9, <2>10 DEF Allocating
  <2>13. QED
    BY <2>7, <2>11, <2>12, AllocatingIsOK
<1>9. QED
  BY <1>7, <1>8

-----------------------------------------------------------------------------
(* The marginal level is shared. *)

ProrataHolds(k, x) ==
    /\ Shaped(x) /\ Frame(clearing, x) /\ Beyond(x) /\ ProrataPass(x)
    /\ x.cursor = clearing.cursor + k

Prorata == INSTANCE LoopRules WITH Body <- ProrataTurn, Holds <- ProrataHolds

(* The premise of the rules of this instance.                               *)
LEMMA ProrataInduction ==
    Prorata!Induction
  BY NatSetInduction DEF Prorata!Induction

(* However many turns of the second part of a pass a budget pays for.       *)
LEMMA ProrataLoop ==
    ASSUME Shaped(clearing), Beyond(clearing), ProrataPass(clearing),
           clearing.cursor <= eligible_count(clearing), NEW budget \in Nat,
           NEW d, d = Advance(clearing, eligible_count(clearing), budget, prorata_unit)
    PROVE  /\ Shaped(d) /\ Frame(clearing, d) /\ Beyond(d) /\ ProrataPass(d)
           /\ d.cursor <= eligible_count(clearing)
<1> DEFINE total == eligible_count(clearing)
           n == min_u64(budget, total - clearing.cursor)
<1>1. total \in Nat /\ clearing.cursor \in Nat
  BY EligibleCount DEF Shaped
<1> HIDE DEF total
<1>2. n \in Nat /\ clearing.cursor + n <= total
  BY <1>1, TurnsLeft DEF total
<1>3. d = Prorata!LoopFrom(clearing)[n]
  BY DEF Advance, Prorata!LoopFrom, Prorata!Turns, ProrataTurn, total
<1> HIDE DEF n
<1>4. ProrataHolds(0, clearing)
  BY <1>1, FrameRefl DEF ProrataHolds
<1>5. ASSUME NEW k \in 0..(n - 1), NEW x, ProrataHolds(k, x)
      PROVE  ProrataHolds(k + 1, ProrataTurn(x, k + 1))
  <2>1. eligible_count(x) = total
    BY <1>5, FrameCounts DEF ProrataHolds, total
  <2>2. x.cursor < eligible_count(x)
    BY <1>1, <1>2, <1>5, <2>1 DEF ProrataHolds
  <2> DEFINE y == ProrataTurn(x, k + 1)
  <2>3. Shaped(y) /\ Frame(x, y) /\ Beyond(y) /\ ProrataPass(y) /\ y.cursor = x.cursor + 1
    BY <1>5, <2>2, ProrataTurnKeeps DEF ProrataHolds
  <2> HIDE DEF y
  <2>4. Frame(clearing, y)
    BY <1>5, <2>3, FrameTrans DEF ProrataHolds
  <2>5. y.cursor = clearing.cursor + (k + 1)
    BY <1>1, <1>5, <2>3 DEF ProrataHolds
  <2>6. QED
    BY <2>3, <2>4, <2>5 DEF ProrataHolds, y
<1>6. ProrataHolds(n, Prorata!LoopFrom(clearing)[n])
  BY <1>2, <1>4, <1>5, ProrataInduction, Prorata!LoopRule
<1>7. QED
  BY <1>1, <1>2, <1>3, <1>6 DEF ProrataHolds, total

(* The shares are all taken: what is left is a sat at a time.               *)
LEMMA RemainderBegins ==
    ASSUME NEW c, Shaped(c), ProrataPass(c), c.cursor = eligible_count(c), NEW next \in Stages,
           NEW d, Entered(c, d, next), d.alloc.residual = c.alloc.residual
    PROVE  RemainderPass(d)
<1>1. /\ Shaped(d) /\ d.entries = c.entries /\ d.alloc.awarded = c.alloc.awarded
      /\ \A s \in BOOLEAN :
            /\ marginal_level(d, s) = marginal_level(c, s) /\ InLevel(d, s) = InLevel(c, s)
            /\ Residual(d, s) = Residual(c, s) /\ Fills(d, s) = Fills(c, s)
            /\ Eligible(d, s) = Eligible(c, s)
  BY EnteredKeeps DEF Entered
<1>2. Awards(d)
  BY <1>1 DEF Awards, ProrataPass
<1>3. ASSUME NEW s \in BOOLEAN, NEW i \in Eligible(d, s)
      PROVE  IF i \in InLevel(d, s)
             THEN Shared(d.entries[s][i], Residual(d, s), marginal_level(d, s).lvl)
             ELSE d.entries[s][i].fill_base <= d.entries[s][i].qty_sats
  <2>1. i \in Eligible(c, s)
    BY <1>1
  <2>2. TurnOf(c, s, i) <= c.cursor
    <3>1. TurnOf(c, s, i) \in 1..eligible_count(c) /\ eligible_count(c) \in Nat
      BY <2>1, EligibleCount
    <3>2. QED
      BY <3>1
  <2>3. QED
    BY <1>1, <2>1, <2>2 DEF ProrataPass
<1>4. QED
  BY <1>2, <1>3 DEF RemainderPass

AfterProrata(c) ==
    IF c.stage = STAGE_ALLOC_PRORATA THEN STAGE_ALLOC_REMAINDER ELSE STAGE_REALLOC_REMAINDER

(* A transaction of STAGE_ALLOC_PRORATA or STAGE_REALLOC_PRORATA keeps the  *)
(* invariant.                                                               *)
LEMMA ProrataStep ==
    ASSUME Shaped(clearing), Allocating(clearing, vault),
           clearing.stage \in {STAGE_ALLOC_PRORATA, STAGE_REALLOC_PRORATA}, NEW budget \in Nat,
           NEW d, d = alloc_prorata_step(clearing, budget, AfterProrata(clearing))
    PROVE  ClearingOK(d, batch, vault)
<1> DEFINE c == clearing
           total == eligible_count(c)
           x == Advance(c, total, budget, prorata_unit)
           next == AfterProrata(c)
<1>1. /\ Priced(c) /\ Beyond(c) /\ ProrataPass(c) /\ c.cursor <= total
      /\ c.stage \in FirstPass => Snapshots(c, vault)
      /\ c.stage \in SecondPass => AskedCovered(c, vault)
  BY DEF Allocating, Passing, FirstPass, SecondPass
<1>2. Shaped(x) /\ Frame(c, x) /\ Beyond(x) /\ ProrataPass(x) /\ x.cursor <= total
  BY <1>1, ProrataLoop
<1>3. d = IF x.cursor < total THEN x
          ELSE enter([x EXCEPT !.alloc = [@ EXCEPT !.remainder_side = SIDE_BID]], next)
  BY DEF alloc_prorata_step
<1>4. total \in Nat /\ eligible_count(x) = total
  BY <1>2, EligibleCount, FrameCounts
<1>5. /\ Carried(c, x) /\ Priced(x)
      /\ c.stage \in FirstPass => Snapshots(x, vault)
      /\ c.stage \in SecondPass => AskedCovered(x, vault)
  BY <1>1, <1>2, FrameCarries, CarriedStays
<1>6. x.stage = c.stage /\ x.cursor \in Nat
  BY <1>2 DEF Frame, ObjectFields, Shaped
<1> HIDE DEF x, total
<1>7. CASE x.cursor < total
  <2>1. Passing(x)
    BY <1>2, <1>4, <1>6, StagesDiffer DEF Passing
  <2>2. Allocating(x, vault)
    BY <1>2, <1>5, <1>6, <2>1 DEF Allocating
  <2>3. d = x
    BY <1>3, <1>7
  <2>4. QED
    BY <1>2, <1>6, <2>2, <2>3, AllocatingIsOK DEF FirstPass, SecondPass
<1>8. CASE ~ (x.cursor < total)
  <2>1. x.cursor = eligible_count(x)
    BY <1>2, <1>4, <1>6, <1>8
  <2> HIDE DEF next
  <2>2. Entered(x, d, next) /\ d.alloc.residual = x.alloc.residual
    <3> DEFINE a == x.alloc
               z == [a EXCEPT !.remainder_side = SIDE_BID]
    <3>1. d = [x EXCEPT !.alloc = z, !.cursor = 0, !.stage = next]
      BY <1>3, <1>8 DEF enter
    <3>2. /\ DOMAIN a = AllocFields /\ DOMAIN x = ObjectFields
      BY <1>2 DEF Shaped, AllocOK
    <3> HIDE DEF a
    <3>3. /\ DOMAIN z = AllocFields /\ z.elig = a.elig /\ z.matched_base = a.matched_base
          /\ z.clearing_price = a.clearing_price /\ z.awarded = a.awarded
          /\ z.remainder_side = SIDE_BID /\ z.residual = a.residual
      BY <3>2 DEF AllocFields
    <3> HIDE DEF z
    <3>4. /\ DOMAIN d = ObjectFields /\ d.stage = next /\ d.cursor = 0 /\ d.alloc = z
          /\ d.entries = x.entries /\ d.funding = x.funding /\ d.fills = x.fills
          /\ d.fee_bps = x.fee_bps /\ d.quote_paid = x.quote_paid
          /\ d.quote_recv = x.quote_recv /\ d.fee_quote = x.fee_quote
      BY <3>1, <3>2 DEF ObjectFields
    <3>5. Paid(d)
      BY <1>2, <3>4, PaidStays
    <3>6. QED
      BY <3>2, <3>3, <3>4, <3>5 DEF Entered, a
  <2>3. next \in {STAGE_ALLOC_REMAINDER, STAGE_REALLOC_REMAINDER} /\ next \in Stages
        /\ (next = STAGE_ALLOC_REMAINDER => c.stage = STAGE_ALLOC_PRORATA)
        /\ (next = STAGE_REALLOC_REMAINDER => c.stage = STAGE_REALLOC_PRORATA)
    BY StagesDiffer DEF AfterProrata, next
  <2>4. Shaped(d) /\ Carried(x, d) /\ Beyond(d) /\ RemainderPass(d)
    <3>1. Shaped(d) /\ Carried(x, d) /\ Beyond(d)
      BY <1>2, <2>2, <2>3, EnteredKeeps
    <3>2. RemainderPass(d)
      BY <1>2, <2>1, <2>2, <2>3, RemainderBegins
    <3>3. QED
      BY <3>1, <3>2
  <2>5. d.stage = next
    BY <2>2 DEF Entered
  <2>6. Passing(d)
    BY <2>3, <2>4, <2>5, StagesDiffer DEF Passing
  <2>7. /\ Priced(d) /\ (d.stage \in FirstPass => Snapshots(d, vault))
        /\ (d.stage \in SecondPass => AskedCovered(d, vault))
    <3>1. (d.stage \in FirstPass => c.stage \in FirstPass)
          /\ (d.stage \in SecondPass => c.stage \in SecondPass)
      BY <2>3, <2>5, StagesDiffer DEF FirstPass, SecondPass
    <3>2. QED
      BY <1>5, <2>4, <3>1, CarriedStays
  <2>8. d.stage \in FirstPass \cup SecondPass
    BY <2>3, <2>5 DEF FirstPass, SecondPass
  <2>9. Allocating(d, vault)
    BY <2>4, <2>6, <2>7 DEF Allocating
  <2>10. QED
    BY <2>4, <2>8, <2>9, AllocatingIsOK
<1>9. QED
  BY <1>7, <1>8

-----------------------------------------------------------------------------
(* What things cost their submitters. *)

(* What is asked costs a natural, and less costs no more.                   *)
LEMMA CostFacts ==
    ASSUME NEW p \in Nat, NEW s \in BOOLEAN, NEW m \in Nat, NEW n \in Nat, m <= n
    PROVE  /\ CostOf(p, s, m) \in Nat /\ CostOf(p, s, n) \in Nat
           /\ CostOf(p, s, m) <= CostOf(p, s, n)
           /\ CostOf(p, s, 0) = 0
<1>1. /\ quote_of_bid(m, p) \in Nat /\ quote_of_bid(n, p) \in Nat
      /\ quote_of_bid(m, p) <= quote_of_bid(n, p)
  BY BidCostGrows
<1>2. quote_of_bid(0, p) = 0
  <2> DEFINE z == PRICE_SCALE
             q == (z - 1) \div z
  <2>1. z \in Nat \ {0}
    BY ScaleAssumption
  <2>2. quote_of_bid(0, p) = (0 * p + z - 1) \div z
    BY DEF quote_of_bid, ceil_mul_div
  <2> HIDE DEF z
  <2>3. 0 * p + z - 1 = z - 1 /\ z - 1 \in Nat
    BY <2>1
  <2>4. q \in Nat /\ q * z <= z - 1
    BY <2>1, <2>3, QuotientNat, QuotientBounds
  <2>5. q = 0
    <3> HIDE DEF q
    <3> SUFFICES ASSUME q # 0
                 PROVE  FALSE
      OBVIOUS
    <3>1. 1 * z <= q * z /\ q * z \in Int
      BY <2>1, <2>4, ProductGrows
    <3>2. QED
      BY <2>1, <2>4, <3>1
  <2>6. QED
    BY <2>2, <2>3, <2>5
<1>3. QED
  BY <1>1, <1>2 DEF CostOf

(* What entries cost is natural, and a fill costs no more than the whole    *)
(* quantity.                                                                *)
LEMMA DueFacts ==
    ASSUME NEW c, Shaped(c), NEW s \in BOOLEAN, NEW who
    PROVE  /\ \A i \in DOMAIN c.entries[s] :
                 /\ Due(c, s, who)[i] \in Nat /\ Asked(c, s, who)[i] \in Nat
                 /\ Granted(c, s, who)[i] \in Nat
                 /\ c.entries[s][i].fill_base <= c.entries[s][i].qty_sats
                       => Due(c, s, who)[i] <= Asked(c, s, who)[i]
                 /\ c.entries[s][i].fill_base = 0 => Due(c, s, who)[i] = 0
           /\ IsFiniteSet(DOMAIN c.entries[s]) /\ Eligible(c, s) \subseteq DOMAIN c.entries[s]
           /\ IsFiniteSet(Eligible(c, s))
<1> DEFINE p == c.alloc.clearing_price
           es == c.entries[s]
           n == c.alloc.elig[s]
<1>1. p \in Nat /\ es \in Seq(Entry) /\ n \in Nat /\ n <= Len(es)
  BY DEF Shaped, AllocOK, EntriesOK
<1>2. ASSUME NEW i \in DOMAIN es
      PROVE  /\ Due(c, s, who)[i] \in Nat /\ Asked(c, s, who)[i] \in Nat
             /\ Granted(c, s, who)[i] \in Nat
             /\ es[i].fill_base <= es[i].qty_sats
                   => Due(c, s, who)[i] <= Asked(c, s, who)[i]
             /\ es[i].fill_base = 0 => Due(c, s, who)[i] = 0
  <2> DEFINE f == es[i].fill_base
             q == es[i].qty_sats
  <2>1. f \in Nat /\ q \in Nat
    <3>1. es[i] \in Entry
      <4> HIDE DEF es
      <4>1. QED
        BY <1>1, <1>2
    <3>2. QED
      BY <3>1 DEF Entry
  <2>2. /\ Due(c, s, who)[i] = IF es[i].submitter = who THEN CostOf(p, s, f) ELSE 0
        /\ Asked(c, s, who)[i] = IF es[i].submitter = who THEN CostOf(p, s, q) ELSE 0
        /\ Granted(c, s, who)[i] = IF es[i].submitter = who /\ TurnOf(c, s, i) <= c.cursor
                                   THEN CostOf(p, s, f) ELSE 0
    BY <1>2 DEF Due, Asked, Granted
  <2> DEFINE x == Due(c, s, who)[i]
             y == Asked(c, s, who)[i]
             z == Granted(c, s, who)[i]
  <2>3. CostOf(p, s, f) \in Nat /\ CostOf(p, s, q) \in Nat
        /\ (f <= q => CostOf(p, s, f) <= CostOf(p, s, q)) /\ CostOf(p, s, 0) = 0
    <3> HIDE DEF p, f, q
    <3>1. f <= f /\ q <= q
      BY <2>1
    <3>2. QED
      BY <1>1, <2>1, <3>1, CostFacts
  <2>4. x \in Nat /\ y \in Nat /\ z \in Nat /\ (f <= q => x <= y) /\ (f = 0 => x = 0)
    <3> DEFINE u == CostOf(p, s, f)
               w == CostOf(p, s, q)
    <3>1. /\ x \in {u, 0} /\ z \in {u, 0} /\ y \in {w, 0} /\ u \in Nat /\ w \in Nat
          /\ (f <= q => u <= w) /\ (f = 0 => u = 0)
          /\ (es[i].submitter = who => x = u /\ y = w) /\ (es[i].submitter # who => x = 0 /\ y = 0)
      BY <2>2, <2>3
    <3> HIDE DEF u, w, x, y, z, f, q
    <3>2. QED
      BY <3>1
  <2>5. QED
    BY <2>4
<1>3. IsFiniteSet(DOMAIN es) /\ Eligible(c, s) \subseteq DOMAIN es
  <2>1. Eligible(c, s) = 1..n
    BY DEF Eligible
  <2> HIDE DEF es, n
  <2>2. DOMAIN es = 1..Len(es) /\ Len(es) \in Nat
    BY <1>1
  <2>3. IsFiniteSet(1..Len(es))
    BY <2>2, FS_Interval
  <2>4. 1..n \subseteq DOMAIN es
    BY <1>1, <2>2
  <2>5. QED
    BY <2>1, <2>2, <2>3, <2>4
<1>4. IsFiniteSet(Eligible(c, s))
  BY <1>3, FS_Subset
<1>5. QED
  BY <1>2, <1>3, <1>4

-----------------------------------------------------------------------------
(* The remainder is handed out. *)

SidesOver(c) == [c EXCEPT !.alloc = [@ EXCEPT !.remainder_side = SIDE_NONE]]

(* Passing to the other side awards nothing.                                *)
LEMMA SidesOverKeeps ==
    ASSUME NEW c, Shaped(c), Beyond(c), RemainderPass(c), NEW d, d = SidesOver(c)
    PROVE  Shaped(d) /\ Frame(c, d) /\ Beyond(d) /\ RemainderPass(d)
<1> DEFINE a == c.alloc
           b == [a EXCEPT !.remainder_side = SIDE_NONE]
<1>1. DOMAIN a = AllocFields /\ DOMAIN c = ObjectFields
  BY DEF Shaped, AllocOK
<1>2. d = [c EXCEPT !.alloc = b]
  BY DEF SidesOver
<1> HIDE DEF a
<1>3. /\ DOMAIN b = AllocFields /\ b.remainder_side = SIDE_NONE
      /\ \A x \in AllocFields \ {"remainder_side"} : b[x] = a[x]
  BY <1>1 DEF AllocFields
<1> HIDE DEF b
<1>4. d.alloc = b /\ DOMAIN d = DOMAIN c /\ \A x \in ObjectFields \ {"alloc"} : d[x] = c[x]
  BY <1>1, <1>2 DEF ObjectFields
<1>5. /\ d.entries = c.entries /\ d.funding = c.funding /\ d.stage = c.stage
      /\ d.cursor = c.cursor
      /\ d.alloc.elig = a.elig /\ d.alloc.matched_base = a.matched_base
      /\ d.alloc.clearing_price = a.clearing_price /\ d.alloc.residual = a.residual
      /\ d.alloc.awarded = a.awarded
  BY <1>3, <1>4 DEF ObjectFields, AllocFields
<1>6. Frame(c, d)
  BY <1>4, <1>5 DEF Frame, SameOrders, a
<1>7. AllocOK(d)
  BY <1>3, <1>4, <1>5 DEF AllocOK, Shaped, a
<1>8. EntriesOK(d)
  BY <1>5 DEF EntriesOK, Shaped
<1>13. Paid(d)
  <2>1. /\ d.fee_bps = c.fee_bps /\ d.quote_paid = c.quote_paid
        /\ d.quote_recv = c.quote_recv /\ d.fee_quote = c.fee_quote
    BY <1>4 DEF ObjectFields
  <2>2. QED
    BY <2>1, PaidStays
<1>9. Shaped(d)
  BY <1>1, <1>4, <1>5, <1>7, <1>8, <1>13 DEF Shaped
<1>10. Beyond(d)
  BY <1>5 DEF Beyond, a
<1>11. \A s \in BOOLEAN : /\ marginal_level(d, s) = marginal_level(c, s)
                          /\ InLevel(d, s) = InLevel(c, s) /\ Residual(d, s) = Residual(c, s)
                          /\ Fills(d, s) = Fills(c, s) /\ Eligible(d, s) = Eligible(c, s)
  BY <1>5 DEF marginal_level, InLevel, Residual, Fills, Eligible, a
<1>12. RemainderPass(d)
  BY <1>5, <1>11 DEF RemainderPass, Awards, a
<1>14. QED
  BY <1>6, <1>9, <1>10, <1>12

RemainderTurn(c, k) == remainder_unit(c)

(* A turn of alloc_remainder_step gives one sat, or passes to the other     *)
(* side.                                                                    *)
LEMMA RemainderTurnKeeps ==
    ASSUME NEW c, Shaped(c), Beyond(c), RemainderPass(c), NEW k, NEW d, d = RemainderTurn(c, k)
    PROVE  Shaped(d) /\ Frame(c, d) /\ Beyond(d) /\ RemainderPass(d)
<1>1. TRUE \in BOOLEAN /\ FALSE \in BOOLEAN
  BY Zenon
<1>2. CASE c.alloc.remainder_side = SIDE_BID /\ ~side_done(c, TRUE)
  <2>1. d = award(c, TRUE)
    BY <1>2 DEF RemainderTurn, remainder_unit
  <2>2. QED
    BY <1>1, <1>2, <2>1, AwardKeeps
<1>3. CASE /\ ~ (c.alloc.remainder_side = SIDE_BID /\ ~side_done(c, TRUE))
           /\ c.alloc.remainder_side # SIDE_NONE /\ ~side_done(c, FALSE)
  <2>1. d = award(c, FALSE)
    BY <1>3 DEF RemainderTurn, remainder_unit
  <2>2. QED
    BY <1>1, <1>3, <2>1, AwardKeeps
<1>4. CASE /\ ~ (c.alloc.remainder_side = SIDE_BID /\ ~side_done(c, TRUE))
           /\ ~ (c.alloc.remainder_side # SIDE_NONE /\ ~side_done(c, FALSE))
  <2>1. d = SidesOver(c)
    BY <1>4 DEF RemainderTurn, remainder_unit, SidesOver
  <2>2. QED
    BY <2>1, SidesOverKeeps
<1>5. QED
  BY <1>2, <1>3, <1>4

RemainderHolds(k, x) == Shaped(x) /\ Frame(clearing, x) /\ Beyond(x) /\ RemainderPass(x)

Remainder == INSTANCE LoopRules WITH Body <- RemainderTurn, Holds <- RemainderHolds

(* The premise of the rules of this instance.                               *)
LEMMA RemainderInduction ==
    Remainder!Induction
  BY NatSetInduction DEF Remainder!Induction

(* However many sats of the remainder a budget pays for.                    *)
LEMMA RemainderLoop ==
    ASSUME Shaped(clearing), Beyond(clearing), RemainderPass(clearing), NEW budget \in Nat,
           NEW d, d = Remainder!LoopFrom(clearing)[budget]
    PROVE  Shaped(d) /\ Frame(clearing, d) /\ Beyond(d) /\ RemainderPass(d)
<1>1. RemainderHolds(0, clearing)
  BY FrameRefl DEF RemainderHolds
<1>2. ASSUME NEW k \in 0..(budget - 1), NEW x, RemainderHolds(k, x)
      PROVE  RemainderHolds(k + 1, RemainderTurn(x, k + 1))
  <2> DEFINE y == RemainderTurn(x, k + 1)
  <2>1. Shaped(y) /\ Frame(x, y) /\ Beyond(y) /\ RemainderPass(y)
    BY <1>2, RemainderTurnKeeps DEF RemainderHolds
  <2> HIDE DEF y
  <2>2. Frame(clearing, y)
    BY <1>2, <2>1, FrameTrans DEF RemainderHolds
  <2>3. QED
    BY <2>1, <2>2 DEF RemainderHolds, y
<1>3. RemainderHolds(budget, Remainder!LoopFrom(clearing)[budget])
  BY <1>1, <1>2, RemainderInduction, Remainder!LoopRule
<1>4. QED
  BY <1>3 DEF RemainderHolds

(* Nothing of an eligible prefix is filled for more than was asked.         *)
Within(c) ==
    \A s \in BOOLEAN : \A i \in Eligible(c, s) :
        c.entries[s][i].fill_base <= c.entries[s][i].qty_sats

(* No pass fills more than was asked.                                       *)
LEMMA RemainderIsWithin ==
    ASSUME NEW c, RemainderPass(c)
    PROVE  Within(c)
  BY DEF RemainderPass, Within, Shared

(* What is filled costs no more than what was asked.                        *)
LEMMA DueWithinAsked ==
    ASSUME NEW c, Shaped(c), Beyond(c), Within(c), NEW s \in BOOLEAN, NEW who
    PROVE  /\ SumOf(Due(c, s, who), DOMAIN c.entries[s])
                 <= SumOf(Asked(c, s, who), Eligible(c, s))
           /\ SumOf(Due(c, s, who), DOMAIN c.entries[s]) \in Nat
           /\ SumOf(Asked(c, s, who), Eligible(c, s)) \in Nat
<1> DEFINE f == Due(c, s, who)
           g == Asked(c, s, who)
           S == DOMAIN c.entries[s]
           T == Eligible(c, s)
           R == S \ T
<1>1. /\ \A i \in S : /\ f[i] \in Nat /\ g[i] \in Nat
                      /\ c.entries[s][i].fill_base <= c.entries[s][i].qty_sats => f[i] <= g[i]
                      /\ c.entries[s][i].fill_base = 0 => f[i] = 0
      /\ IsFiniteSet(S) /\ T \subseteq S /\ IsFiniteSet(T)
  BY DueFacts
<1>2. \A i \in T : f[i] \in Int /\ g[i] \in Int /\ f[i] <= g[i]
  BY <1>1 DEF Within
<1>3. \A i \in R : f[i] = 0
  <2> SUFFICES ASSUME NEW i \in R
               PROVE  f[i] = 0
    OBVIOUS
  <2>1. i \in S /\ i \notin 1..c.alloc.elig[s]
    BY DEF Eligible
  <2>2. c.entries[s] \in Seq(Entry) /\ c.alloc.elig[s] \in Nat
    BY DEF Shaped, EntriesOK, AllocOK
  <2>3. i > c.alloc.elig[s]
    <3> DEFINE es == c.entries[s]
               n == c.alloc.elig[s]
    <3>1. es \in Seq(Entry) /\ n \in Nat /\ i \in DOMAIN es /\ i \notin 1..n
      BY <2>1, <2>2
    <3> HIDE DEF es, n
    <3>2. i \in Nat /\ i >= 1
      BY <3>1
    <3>3. i > n
      BY <3>1, <3>2
    <3>4. QED
      BY <3>3 DEF n
  <2>4. c.entries[s][i].fill_base = 0
    BY <2>1, <2>3 DEF Beyond
  <2>5. QED
    BY <1>1, <2>1, <2>4
<1>4. S = T \cup R /\ T \cap R = {}
  BY <1>1
<1>5. IsFiniteSet(R)
  BY <1>1, FS_Difference
<1> HIDE DEF f, g, S, T, R
<1>6. SumOf(f, S) = SumOf(f, T) + SumOf(f, R) /\ SumOf(f, R) = 0
  <2>1. \A i \in T \cup R : f[i] \in Int
    BY <1>1, <1>4
  <2>2. SumOf(f, T \cup R) = SumOf(f, T) + SumOf(f, R)
    BY <1>1, <1>4, <1>5, <2>1, SumUnion
  <2>3. QED
    BY <1>3, <1>4, <1>5, <2>2, SumZeros
<1>7. SumOf(f, T) <= SumOf(g, T)
  BY <1>1, <1>2, SumGrows
<1>8. SumOf(f, T) \in Nat /\ SumOf(g, T) \in Nat
  <2>1. \A i \in T : f[i] \in Nat /\ g[i] \in Nat
    BY <1>1
  <2>2. QED
    BY <1>1, <2>1, SumNat
<1>9. SumOf(f, S) = SumOf(f, T)
  BY <1>6, <1>8
<1>10. QED
  BY <1>7, <1>8, <1>9 DEF f, g, S, T

-----------------------------------------------------------------------------
(* What follows the passes. *)

(* No balance is negative.                                                  *)
LEMMA HasNat ==
    ASSUME NEW v, VaultOK(v), NEW s \in BOOLEAN, NEW who
    PROVE  Has(v, s, who) \in Nat
<1>1. ASSUME NEW book, BookOK(book)
      PROVE  balance_of(book, who) \in Nat
  BY <1>1 DEF BookOK, balance_of, has_account
<1>2. balance_of(v.quote_book, who) \in Nat /\ balance_of(v.base_book, who) \in Nat
  BY <1>1 DEF VaultOK
<1>3. QED
  BY <1>2 DEF Has

(* No row of the snapshot is negative.                                      *)
LEMMA HeldNat ==
    ASSUME NEW c, Shaped(c), NEW who \in DOMAIN c.funding, NEW s \in BOOLEAN
    PROVE  Held(c.funding[who], s) \in Nat
<1>1. c.funding[who] \in Row
  BY DEF Shaped
<1>2. QED
  BY <1>1 DEF Held, Row

(* The first pass is over: nothing is granted yet, the snapshots are whole. *)
LEMMA TruncateBegins ==
    ASSUME NEW c, Shaped(c), Beyond(c), Priced(c), NEW v, Snapshots(c, v), VaultOK(v), NEW b,
           NEW d, Entered(c, d, STAGE_TRUNCATE)
    PROVE  ClearingOK(d, b, v)
<1>0. STAGE_TRUNCATE \in Stages
  BY StagesDiffer
<1>1. Shaped(d) /\ Carried(c, d) /\ Beyond(d)
  BY <1>0, EnteredKeeps
<1>2. Priced(d) /\ Snapshots(d, v)
  BY <1>1, CarriedStays
<1>3. d.stage = STAGE_TRUNCATE /\ d.cursor = 0
  BY DEF Entered
<1>4. eligible_count(d) \in Nat
  BY <1>1, EligibleCount
<1>5. GrantsCovered(d, v)
  <2> SUFFICES ASSUME NEW who \in DOMAIN d.funding, NEW s \in BOOLEAN
               PROVE  SumOf(Granted(d, s, who), Eligible(d, s)) + Held(d.funding[who], s)
                        <= Has(v, s, who)
    BY DEF GrantsCovered
  <2> DEFINE f == Granted(d, s, who)
             T == Eligible(d, s)
  <2>1. IsFiniteSet(T) /\ T \subseteq DOMAIN d.entries[s]
    BY <1>1, DueFacts
  <2>2. \A i \in T : f[i] = 0
    <3> SUFFICES ASSUME NEW i \in T
                 PROVE  f[i] = 0
      OBVIOUS
    <3>1. TurnOf(d, s, i) \in 1..eligible_count(d)
      BY <1>1, EligibleCount
    <3>2. ~ (TurnOf(d, s, i) <= d.cursor)
      BY <1>3, <1>4, <3>1
    <3>3. i \in DOMAIN d.entries[s]
      BY <2>1
    <3>4. QED
      BY <3>2, <3>3 DEF Granted
  <2> HIDE DEF f, T
  <2>3. SumOf(f, T) = 0
    BY <2>1, <2>2, SumZeros
  <2>4. Held(d.funding[who], s) \in Nat /\ Held(d.funding[who], s) <= Has(v, s, who)
    BY <1>1, <1>2, HeldNat DEF Snapshots
  <2>5. Has(v, s, who) \in Nat
    BY HasNat
  <2>6. QED
    BY <2>3, <2>4, <2>5 DEF f, T
<1>6. 0 <= eligible_count(d)
  BY <1>4
<1>7. Truncating(d, v)
  BY <1>1, <1>2, <1>3, <1>5, <1>6 DEF Truncating
<1>8. QED
  BY <1>1, <1>3, <1>7, StagesDiffer
     DEF ClearingOK, Opening, Allocating, FirstPass, SecondPass, Rooting, Settling

(* The two sides in a row: the bids, then the asks.                         *)
LEMMA AllEntries ==
    ASSUME NEW c, Shaped(c)
    PROVE  /\ all_entries(c) \in Seq(Entry)
           /\ Len(all_entries(c)) = Len(c.entries[TRUE]) + Len(c.entries[FALSE])
           /\ DOMAIN all_entries(c) = 1..Len(all_entries(c)) /\ Len(all_entries(c)) \in Nat
<1> DEFINE s == c.entries[TRUE]
           t == c.entries[FALSE]
<1>1. s \in Seq(Entry) /\ t \in Seq(Entry)
  BY DEF Shaped, EntriesOK
<1>2. all_entries(c) = s \o t
  BY DEF all_entries
<1> HIDE DEF s, t
<1> DEFINE g == s \o t
<1>3. g \in Seq(Entry) /\ Len(g) = Len(s) + Len(t)
  BY <1>1
<1>4. Len(s) \in Nat /\ Len(t) \in Nat
  BY <1>1
<1>5. g = all_entries(c)
  BY <1>2
<1> HIDE DEF g
<1>6. DOMAIN g = 1..Len(g) /\ Len(g) \in Nat
  BY <1>3
<1>7. /\ all_entries(c) \in Seq(Entry) /\ Len(all_entries(c)) = Len(s) + Len(t)
      /\ DOMAIN all_entries(c) = 1..Len(all_entries(c)) /\ Len(all_entries(c)) \in Nat
  BY <1>3, <1>5, <1>6, Zenon
<1>8. QED
  BY <1>7 DEF s, t

(* The second pass is over: what is filled is paid for, no fill is made     *)
(* yet.                                                                     *)
LEMMA RootingBegins ==
    ASSUME NEW c, Shaped(c), c.fills = <<>>, NEW v, DueCovered(c, v), NEW b,
           NEW d, Entered(c, d, STAGE_ROOTING)
    PROVE  ClearingOK(d, b, v)
<1>0. STAGE_ROOTING \in Stages
  BY StagesDiffer
<1>1. Shaped(d)
  BY <1>0, EnteredKeeps
<1>2. d.stage = STAGE_ROOTING /\ d.cursor = 0 /\ d.fills = <<>> /\ d.entries = c.entries
      /\ d.funding = c.funding /\ d.alloc.clearing_price = c.alloc.clearing_price
  BY DEF Entered
<1>3. FillsOK(d)
  BY <1>2 DEF FillsOK
<1>4. DueCovered(d, v)
  BY <1>2 DEF DueCovered, Due
<1>5. FillsAddUp(d)
  <2> SUFFICES ASSUME NEW who, NEW s \in BOOLEAN
               PROVE  SumOf(FillDue(d.fills, s, who), DOMAIN d.fills)
                        = SumOf(RootDue(d, s, who), 1..d.cursor)
    BY DEF FillsAddUp
  <2>1. DOMAIN d.fills = {} /\ 1..d.cursor = {}
    BY <1>2
  <2>2. SumOf(FillDue(d.fills, s, who), {}) = 0 /\ SumOf(RootDue(d, s, who), {}) = 0
    BY SumEmpty
  <2>3. QED
    BY <2>1, <2>2
<1>6. d.cursor <= Len(all_entries(d))
  BY <1>1, <1>2, AllEntries
<1>7. Rooting(d, v)
  BY <1>3, <1>4, <1>5, <1>6 DEF Rooting
<1>8. QED
  BY <1>1, <1>2, <1>7, StagesDiffer
     DEF ClearingOK, Opening, Allocating, FirstPass, SecondPass, Truncating, Settling

AfterRemainder(c) == IF c.stage = STAGE_ALLOC_REMAINDER THEN STAGE_TRUNCATE ELSE STAGE_ROOTING

(* A transaction of STAGE_ALLOC_REMAINDER or STAGE_REALLOC_REMAINDER keeps  *)
(* the                                                                      *)
(* invariant.                                                               *)
LEMMA RemainderStep ==
    ASSUME Shaped(clearing), Allocating(clearing, vault), VaultOK(vault),
           clearing.stage \in {STAGE_ALLOC_REMAINDER, STAGE_REALLOC_REMAINDER},
           NEW budget \in Nat,
           NEW d, d = alloc_remainder_step(clearing, budget, AfterRemainder(clearing))
    PROVE  ClearingOK(d, batch, vault)
<1> DEFINE c == clearing
           x == Remainder!LoopFrom(c)[budget]
           next == AfterRemainder(c)
<1>1. /\ Priced(c) /\ Beyond(c) /\ RemainderPass(c)
      /\ c.stage \in FirstPass => Snapshots(c, vault)
      /\ c.stage \in SecondPass => AskedCovered(c, vault)
  BY DEF Allocating, Passing, FirstPass, SecondPass
<1>2. Shaped(x) /\ Frame(c, x) /\ Beyond(x) /\ RemainderPass(x)
  BY <1>1, RemainderLoop
<1>3. d = IF x.alloc.remainder_side = SIDE_NONE THEN enter(x, next) ELSE x
  BY DEF alloc_remainder_step, Remainder!LoopFrom, Remainder!Turns, RemainderTurn
<1> HIDE DEF x
<1>4. /\ Priced(x)
      /\ c.stage \in FirstPass => Snapshots(x, vault)
      /\ c.stage \in SecondPass => AskedCovered(x, vault)
  BY <1>1, <1>2, FrameCarries, CarriedStays
<1>5. x.stage = c.stage
  BY <1>2 DEF Frame, ObjectFields
<1>6. CASE x.alloc.remainder_side # SIDE_NONE
  <2>1. Passing(x)
    BY <1>2, <1>5, StagesDiffer DEF Passing
  <2>2. Allocating(x, vault)
    BY <1>2, <1>4, <1>5, <2>1 DEF Allocating
  <2>3. d = x
    BY <1>3, <1>6
  <2>4. QED
    BY <1>2, <1>5, <2>2, <2>3, AllocatingIsOK DEF FirstPass, SecondPass
<1>7. CASE x.alloc.remainder_side = SIDE_NONE
  <2>1. d = enter(x, next)
    BY <1>3, <1>7
  <2> HIDE DEF next
  <2>2. Entered(x, d, next)
    <3>1. DOMAIN x.alloc = AllocFields /\ DOMAIN x = ObjectFields
      BY <1>2 DEF Shaped, AllocOK
    <3>2. d = [x EXCEPT !.cursor = 0, !.stage = next]
      BY <2>1 DEF enter
    <3>3. /\ DOMAIN d = ObjectFields /\ d.stage = next /\ d.cursor = 0 /\ d.alloc = x.alloc
          /\ d.entries = x.entries /\ d.funding = x.funding /\ d.fills = x.fills
          /\ d.fee_bps = x.fee_bps /\ d.quote_paid = x.quote_paid
          /\ d.quote_recv = x.quote_recv /\ d.fee_quote = x.fee_quote
      BY <3>1, <3>2 DEF ObjectFields
    <3>4. Paid(d)
      BY <1>2, <3>3, PaidStays
    <3>5. QED
      BY <1>7, <3>1, <3>3, <3>4 DEF Entered
  <2>3. CASE c.stage = STAGE_ALLOC_REMAINDER
    <3>1. next = STAGE_TRUNCATE
      BY <2>3 DEF AfterRemainder, next
    <3>2. Snapshots(x, vault)
      BY <1>4, <2>3 DEF FirstPass
    <3>3. QED
      BY <1>2, <1>4, <2>2, <3>1, <3>2, TruncateBegins
  <2>4. CASE c.stage = STAGE_REALLOC_REMAINDER
    <3>1. next = STAGE_ROOTING
      BY <2>4, StagesDiffer DEF AfterRemainder, next
    <3>2. AskedCovered(x, vault)
      BY <1>4, <2>4 DEF SecondPass
    <3>3. DueCovered(x, vault)
      <4> SUFFICES ASSUME NEW who \in DOMAIN x.funding, NEW s \in BOOLEAN
                   PROVE  SumOf(Due(x, s, who), DOMAIN x.entries[s]) <= Has(vault, s, who)
        BY DEF DueCovered
      <4>1. Within(x)
        BY <1>2, RemainderIsWithin
      <4>2. /\ SumOf(Due(x, s, who), DOMAIN x.entries[s])
                  <= SumOf(Asked(x, s, who), Eligible(x, s))
            /\ SumOf(Due(x, s, who), DOMAIN x.entries[s]) \in Nat
            /\ SumOf(Asked(x, s, who), Eligible(x, s)) \in Nat
        BY <1>2, <4>1, DueWithinAsked
      <4>3. SumOf(Asked(x, s, who), Eligible(x, s)) <= Has(vault, s, who)
        BY <3>2 DEF AskedCovered
      <4>4. Has(vault, s, who) \in Nat
        BY HasNat
      <4> DEFINE k == SumOf(Due(x, s, who), DOMAIN x.entries[s])
                 l == SumOf(Asked(x, s, who), Eligible(x, s))
                 m == Has(vault, s, who)
      <4>5. k \in Nat /\ l \in Nat /\ m \in Nat /\ k <= l /\ l <= m
        BY <4>2, <4>3, <4>4
      <4> HIDE DEF k, l, m
      <4>6. k <= m
        BY <4>5
      <4>7. QED
        BY <4>6 DEF k, m
    <3>4. x.fills = <<>>
      BY <1>4 DEF Priced
    <3>5. QED
      BY <1>2, <2>2, <3>1, <3>3, <3>4, RootingBegins
  <2>5. QED
    BY <2>3, <2>4
<1>8. QED
  BY <1>6, <1>7

-----------------------------------------------------------------------------
(* Truncation. *)

(* What a row pays for at most, and what it is once it paid.                *)
Afford(row, s, p) ==
    IF s THEN min_u64(floor_mul_div(row.quote, PRICE_SCALE, p), MAX_U64) ELSE row.base

Left(row, s, p, n) ==
    IF s THEN [row EXCEPT !.quote = @ - quote_of_bid(n, p)] ELSE [row EXCEPT !.base = @ - n]

(* What is granted is paid out of the row of its side.                      *)
LEMMA GrantFits ==
    ASSUME NEW row \in Row, NEW s \in BOOLEAN, NEW p \in Nat \ {0}, NEW want \in Nat,
           NEW n, n = min_u64(want, Afford(row, s, p))
    PROVE  /\ n \in Nat /\ CostOf(p, s, n) \in Nat /\ Left(row, s, p, n) \in Row
           /\ Held(Left(row, s, p, n), s) = Held(row, s) - CostOf(p, s, n)
           /\ \A t \in BOOLEAN : t # s => Held(Left(row, s, p, n), t) = Held(row, t)
<1> DEFINE q == row.quote
           b == row.base
<1>1. q \in Nat /\ b \in Nat /\ row = [base |-> b, quote |-> q]
  BY DEF Row
<1>2. CASE s = TRUE
  <2> DEFINE most == floor_mul_div(q, PRICE_SCALE, p)
  <2>1. most \in Nat
    <3>1. q * PRICE_SCALE \in Nat
      BY <1>1, ScaleAssumption, ProductNat
    <3>2. QED
      BY <3>1, QuotientNat DEF floor_mul_div
  <2> HIDE DEF most
  <2>2. n \in Nat /\ n <= most
    <3>1. n = min_u64(want, min_u64(most, MAX_U64))
      BY <1>2 DEF Afford, most
    <3>2. MAX_U64 \in Nat
      BY ScaleAssumption
    <3>3. QED
      BY <2>1, <3>1, <3>2 DEF min_u64
  <2> DEFINE k == quote_of_bid(n, p)
  <2>3. k <= q
    <3> HIDE DEF q
    <3>1. q \in Nat
      BY <1>1
    <3>2. QED
      BY <2>2, <3>1, BidIsCovered DEF most
  <2>4. k \in Nat
    <3>1. n <= n /\ p \in Nat
      BY <2>2
    <3>2. QED
      BY <2>2, <3>1, BidCostGrows
  <2>5. CostOf(p, s, n) = k
    BY <1>2 DEF CostOf
  <2>6. Left(row, s, p, n) = [row EXCEPT !.quote = q - k]
    BY <1>2 DEF Left
  <2> HIDE DEF q, b, k
  <2>7. q - k \in Nat
    BY <1>1, <2>3, <2>4
  <2>8. Left(row, s, p, n) = [base |-> b, quote |-> q - k]
    BY <1>1, <2>6
  <2>9. Left(row, s, p, n) \in Row
    BY <1>1, <2>7, <2>8 DEF Row
  <2> DEFINE l == Left(row, s, p, n)
  <2>13. l.quote = q - k /\ l.base = b
    BY <2>8
  <2> HIDE DEF l
  <2>14. row.quote = q /\ row.base = b
    BY DEF q, b
  <2>10. /\ Held(l, s) = q - k /\ Held(row, s) = q
         /\ Held(l, FALSE) = b /\ Held(row, FALSE) = b
    BY <1>2, <2>13, <2>14 DEF Held
  <2>11. \A t \in BOOLEAN : t # s => t = FALSE
    BY <1>2
  <2>12. QED
    BY <2>2, <2>4, <2>5, <2>9, <2>10, <2>11 DEF l
<1>3. CASE s = FALSE
  <2>1. n \in Nat /\ n <= b
    BY <1>1, <1>3 DEF Afford, min_u64
  <2>2. CostOf(p, s, n) = n /\ Left(row, s, p, n) = [row EXCEPT !.base = b - n]
    BY <1>3 DEF CostOf, Left
  <2> HIDE DEF q, b
  <2>3. b - n \in Nat
    BY <1>1, <2>1
  <2>4. Left(row, s, p, n) = [base |-> b - n, quote |-> q]
    BY <1>1, <2>2
  <2>5. Left(row, s, p, n) \in Row
    BY <1>1, <2>3, <2>4 DEF Row
  <2> DEFINE l == Left(row, s, p, n)
  <2>9. l.quote = q /\ l.base = b - n
    BY <2>4
  <2> HIDE DEF l
  <2>10. row.quote = q /\ row.base = b
    BY DEF q, b
  <2>6. /\ Held(l, s) = b - n /\ Held(row, s) = b
        /\ Held(l, TRUE) = q /\ Held(row, TRUE) = q
    BY <1>3, <2>9, <2>10 DEF Held
  <2>7. \A t \in BOOLEAN : t # s => t = TRUE
    BY <1>3
  <2>8. QED
    BY <2>1, <2>2, <2>5, <2>6, <2>7 DEF l
<1>4. QED
  BY <1>2, <1>3

(* d is c with another row for who.                                         *)
RowWritten(c, who, row, d) ==
    /\ DOMAIN d = DOMAIN c
    /\ \A x \in ObjectFields \ {"funding"} : d[x] = c[x]
    /\ d.funding = [c.funding EXCEPT ![who] = row]

(* A turn of truncate_step takes from one row what it grants one entry.     *)
LEMMA RowTurn ==
    ASSUME NEW c, Shaped(c), NEW who \in DOMAIN c.funding, NEW row \in Row,
           NEW d, RowWritten(c, who, row, d)
    PROVE  /\ Shaped(d) /\ DOMAIN d.funding = DOMAIN c.funding /\ d.funding[who] = row
           /\ \A a \in DOMAIN c.funding : a # who => d.funding[a] = c.funding[a]
           /\ d.entries = c.entries /\ d.alloc = c.alloc /\ d.stage = c.stage
           /\ d.fills = c.fills /\ d.cursor = c.cursor
<1>1. /\ DOMAIN d = DOMAIN c /\ \A x \in ObjectFields \ {"funding"} : d[x] = c[x]
      /\ d.funding = [c.funding EXCEPT ![who] = row]
  BY DEF RowWritten
<1>2. /\ d.entries = c.entries /\ d.alloc = c.alloc /\ d.stage = c.stage
      /\ d.fills = c.fills /\ d.cursor = c.cursor
      /\ d.fee_bps = c.fee_bps /\ d.quote_paid = c.quote_paid
      /\ d.quote_recv = c.quote_recv /\ d.fee_quote = c.fee_quote
  BY <1>1 DEF ObjectFields
<1>3. /\ DOMAIN d.funding = DOMAIN c.funding /\ d.funding[who] = row
      /\ \A a \in DOMAIN c.funding : a # who => d.funding[a] = c.funding[a]
  BY <1>1
<1>4. \A a \in DOMAIN d.funding : d.funding[a] \in Row
  BY <1>3 DEF Shaped
<1>5. EntriesOK(d) /\ AllocOK(d)
  BY <1>2, <1>3 DEF Shaped, EntriesOK, AllocOK
<1>7. Paid(d)
  BY <1>2, PaidStays
<1>6. Shaped(d)
  BY <1>1, <1>2, <1>4, <1>5, <1>7 DEF Shaped
<1>8. QED
  BY <1>2, <1>3, <1>6

TruncateTurn(c, k) == [truncate_unit(c, vault) EXCEPT !.cursor = c.cursor + 1]

(* What a turn of truncation keeps.                                         *)
TruncateFrame(c, d) ==
    /\ Shaped(d) /\ Beyond(d) /\ Priced(d)
    /\ d.stage = c.stage /\ d.alloc.elig = c.alloc.elig

(* A turn counts what it grants, and nothing else counts more.              *)
LEMMA GrantsMove ==
    ASSUME NEW c, Shaped(c), NEW d, Shaped(d), d.alloc = c.alloc, d.cursor = c.cursor + 1,
           NEW s \in BOOLEAN, NEW i \in Eligible(c, s), TurnOf(c, s, i) = c.cursor + 1,
           \A t \in BOOLEAN : \A j \in Eligible(c, t) :
               /\ TurnOf(c, t, j) \in Nat
               /\ TurnOf(c, t, j) = c.cursor + 1 => t = s /\ j = i,
           NEW e, EntrySet(c.entries, s, i, e, d.entries),
           e.submitter = c.entries[s][i].submitter,
           NEW a, NEW t \in BOOLEAN
    PROVE  SumOf(Granted(d, t, a), Eligible(d, t))
             = SumOf(Granted(c, t, a), Eligible(c, t))
               + IF t = s /\ a = e.submitter
                 THEN CostOf(c.alloc.clearing_price, s, e.fill_base) ELSE 0
<1> DEFINE f == Granted(c, t, a)
           g == Granted(d, t, a)
           T == Eligible(c, t)
           p == c.alloc.clearing_price
<1>0. c.cursor \in Nat
  BY DEF Shaped
<1>1. Eligible(d, t) = T
  BY DEF Eligible
<1>2. /\ IsFiniteSet(T) /\ T \subseteq DOMAIN c.entries[t]
      /\ \A j \in DOMAIN c.entries[t] : f[j] \in Nat
  BY DueFacts
<1>3. DOMAIN d.entries[t] = DOMAIN c.entries[t]
  BY DEF EntrySet
<1>4. \A j \in DOMAIN d.entries[t] : g[j] \in Nat
  BY DueFacts
<1>5. ASSUME NEW j \in T, ~ (t = s /\ j = i)
      PROVE  g[j] = f[j]
  <2>1. j \in DOMAIN c.entries[t] /\ j \in DOMAIN d.entries[t]
    BY <1>2, <1>3
  <2>2. d.entries[t][j] = c.entries[t][j]
    BY <1>5, <2>1 DEF EntrySet
  <2>3. TurnOf(d, t, j) = TurnOf(c, t, j)
    BY DEF TurnOf
  <2>4. TurnOf(c, t, j) \in Nat /\ TurnOf(c, t, j) # c.cursor + 1
    BY <1>5
  <2>5. TurnOf(d, t, j) <= d.cursor <=> TurnOf(c, t, j) <= c.cursor
    BY <1>0, <2>3, <2>4
  <2>6. QED
    BY <2>1, <2>2, <2>5 DEF Granted
<1>6. CASE t = s /\ a = e.submitter
  <2>1. i \in T /\ i \in DOMAIN c.entries[t] /\ i \in DOMAIN d.entries[t]
    BY <1>2, <1>3, <1>6
  <2>2. f[i] = 0
    <3>1. ~ (TurnOf(c, t, i) <= c.cursor)
      BY <1>0, <1>6
    <3>2. QED
      BY <2>1, <3>1 DEF Granted
  <2>3. g[i] = CostOf(p, s, e.fill_base)
    <3>1. d.entries[t][i] = e
      BY <1>6 DEF EntrySet
    <3>2. TurnOf(d, t, i) = TurnOf(c, t, i)
      BY DEF TurnOf
    <3>3. TurnOf(d, t, i) <= d.cursor
      BY <1>0, <1>6, <3>2
    <3>4. QED
      BY <1>6, <2>1, <3>1, <3>3 DEF Granted
  <2>4. \A j \in T : f[j] \in Int /\ g[j] \in Int
    BY <1>2, <1>3, <1>4
  <2>5. \A j \in T \ {i} : f[j] = g[j]
    BY <1>5
  <2> HIDE DEF f, g, T
  <2>6. SumOf(g, T) = SumOf(f, T) + g[i] - f[i]
    BY <1>2, <2>1, <2>4, <2>5, SumMoves
  <2>7. SumOf(f, T) \in Int /\ g[i] \in Int
    BY <1>2, <2>1, <2>4, SumInt
  <2>8. SumOf(g, T) = SumOf(f, T) + g[i]
    BY <2>2, <2>6, <2>7
  <2>9. QED
    BY <1>1, <1>6, <2>3, <2>8 DEF f, g, T
<1>7. CASE ~ (t = s /\ a = e.submitter)
  <2>1. \A j \in T : f[j] = g[j]
    <3> SUFFICES ASSUME NEW j \in T
                 PROVE  f[j] = g[j]
      OBVIOUS
    <3>1. CASE ~ (t = s /\ j = i)
      BY <1>5, <3>1
    <3>2. CASE t = s /\ j = i
      <4>1. a # c.entries[t][j].submitter /\ j \in DOMAIN c.entries[t]
        BY <1>2, <1>7, <3>2
      <4>2. d.entries[t][j].submitter # a /\ j \in DOMAIN d.entries[t]
        BY <1>3, <1>7, <3>2, <4>1 DEF EntrySet
      <4>3. f[j] = 0 /\ g[j] = 0
        BY <4>1, <4>2 DEF Granted
      <4>4. QED
        BY <4>3
    <3>3. QED
      BY <3>1, <3>2
  <2>2. SumOf(f, T) \in Int
    <3>1. \A j \in T : f[j] \in Int
      BY <1>2
    <3> HIDE DEF f, T
    <3>2. QED
      BY <1>2, <3>1, SumInt
  <2> HIDE DEF f, g, T
  <2>3. SumOf(f, T) = SumOf(g, T)
    BY <1>2, <2>1, SumSame
  <2>4. SumOf(g, T) = SumOf(f, T) + 0
    BY <2>2, <2>3
  <2>5. QED
    BY <1>1, <1>7, <2>4 DEF f, g, T
<1>8. QED
  BY <1>6, <1>7

(* So the grants and what is left of the rows stay covered.                 *)
LEMMA TruncateTurnKeeps ==
    ASSUME NEW c, Shaped(c), Beyond(c), Priced(c), GrantsCovered(c, vault), VaultOK(vault),
           c.cursor < eligible_count(c), NEW k, NEW d, d = TruncateTurn(c, k)
    PROVE  TruncateFrame(c, d) /\ GrantsCovered(d, vault) /\ d.cursor = c.cursor + 1
<1> DEFINE s == at_bid(c)
           i == at_index(c)
           old == c.entries[s][i]
           p == c.alloc.clearing_price
           who == old.submitter
           row == c.funding[who]
           want == old.fill_base
           n == min_u64(want, Afford(row, s, p))
           e == [old EXCEPT !.fill_base = n]
           left == Left(row, s, p, n)
<1>1. /\ s \in BOOLEAN /\ i \in Eligible(c, s) /\ i \in DOMAIN c.entries[s]
      /\ TurnOf(c, s, i) = c.cursor + 1
      /\ \A t \in BOOLEAN : \A j \in Eligible(c, t) :
            /\ TurnOf(c, t, j) \in Nat
            /\ TurnOf(c, t, j) = c.cursor + 1 => t = s /\ j = i
  BY UnderCursor DEF Eligible
<1>2. old \in Entry /\ who \in DOMAIN c.funding /\ c.cursor \in Nat
  BY <1>1 DEF Shaped, EntriesOK
<1>3. row \in Row /\ want \in Nat /\ p \in Nat \ {0}
  <2>1. row \in Row
    BY <1>2 DEF Shaped
  <2>2. want \in Nat
    <3> HIDE DEF old
    <3>1. QED
      BY <1>2 DEF Entry
  <2>3. QED
    BY <2>1, <2>2 DEF Priced
<1>4. /\ n \in Nat /\ CostOf(p, s, n) \in Nat /\ left \in Row
      /\ Held(left, s) = Held(row, s) - CostOf(p, s, n)
      /\ \A t \in BOOLEAN : t # s => Held(left, t) = Held(row, t)
  <2> HIDE DEF s, row, p, want
  <2>1. QED
    BY <1>1, <1>3, GrantFits
<1>5. truncate_unit(c, vault) =
          IF want = 0 THEN c
          ELSE [c EXCEPT !.funding[who] = left, !.entries[s][i] = e]
  <2>1. ensure_funding_row(c, vault, who) = c
    BY <1>2 DEF ensure_funding_row
  <2>2. QED
    BY <2>1 DEF truncate_unit, Left, Afford
<1>6. DOMAIN c = ObjectFields
  BY DEF Shaped
<1>7. e \in Entry /\ SameOrder(old, e) /\ e.fill_base = n /\ e.submitter = who
  <2> HIDE DEF old, n
  <2>1. QED
    BY <1>2, <1>4 DEF Entry, SameOrder
<1>8. CASE want = 0
  <2>1. d = [c EXCEPT !.cursor = c.cursor + 1]
    BY <1>5, <1>8 DEF TruncateTurn
  <2> HIDE DEF s, i, old, p, row, want, n, left, e
  <2>2. Passed(c, d) /\ d.cursor = c.cursor + 1
    BY <1>2, <1>6, <2>1 DEF Passed, ObjectFields
  <2>3. /\ Shaped(d) /\ Frame(c, d) /\ d.entries = c.entries /\ d.alloc = c.alloc
        /\ d.funding = c.funding /\ d.stage = c.stage /\ d.fills = c.fills
    BY <2>2, PassedTurn
  <2>4. Beyond(d) /\ Priced(d)
    BY <2>3 DEF Beyond, Priced
  <2>5. EntrySet(c.entries, s, i, c.entries[s][i], d.entries)
    BY <2>3 DEF EntrySet
  <2>6. n = 0
    <3>1. Afford(row, s, p) \in Nat
      <4>1. CASE s = TRUE
        <5>1. row.quote \in Nat /\ PRICE_SCALE \in Nat
          BY <1>3, ScaleAssumption DEF Row
        <5>2. row.quote * PRICE_SCALE \in Nat
          BY <5>1, ProductNat
        <5>3. floor_mul_div(row.quote, PRICE_SCALE, p) \in Nat
          BY <1>3, <5>2, QuotientNat DEF floor_mul_div
        <5>4. QED
          BY <4>1, <5>3, ScaleAssumption DEF Afford, min_u64
      <4>2. CASE s = FALSE
        BY <1>3, <4>2 DEF Afford, Row
      <4>3. QED
        BY <1>1, <4>1, <4>2
    <3>2. QED
      BY <1>8, <3>1 DEF n, min_u64
  <2>7. ASSUME NEW a \in DOMAIN d.funding, NEW t \in BOOLEAN
        PROVE  SumOf(Granted(d, t, a), Eligible(d, t)) + Held(d.funding[a], t)
                 <= Has(vault, t, a)
    <3> DEFINE x == SumOf(Granted(d, t, a), Eligible(d, t))
               y == SumOf(Granted(c, t, a), Eligible(c, t))
               more == IF t = s /\ a = c.entries[s][i].submitter
                       THEN CostOf(c.alloc.clearing_price, s, c.entries[s][i].fill_base) ELSE 0
    <3>1. x = y + more
      BY <1>1, <2>2, <2>3, <2>5, GrantsMove
    <3>2. more = 0
      <4>1. c.entries[s][i].fill_base = 0
        BY <1>8 DEF want, old
      <4>2. CostOf(p, s, 0) = 0
        <5>1. p \in Nat /\ 0 \in Nat /\ 0 <= 0
          BY <1>3
        <5>2. QED
          BY <1>1, <5>1, CostFacts
      <4>3. QED
        BY <4>1, <4>2 DEF p
    <3>3. y + Held(c.funding[a], t) <= Has(vault, t, a) /\ d.funding = c.funding
      BY <2>3, <2>7 DEF GrantsCovered
    <3>4. y \in Nat
      <4>1. \A j \in Eligible(c, t) : Granted(c, t, a)[j] \in Nat
        BY DueFacts
      <4>2. IsFiniteSet(Eligible(c, t))
        BY DueFacts
      <4>3. QED
        BY <4>1, <4>2, SumNat
    <3> HIDE DEF x, y, more
    <3>5. x = y
      BY <3>1, <3>2, <3>4
    <3>6. QED
      BY <3>3, <3>5 DEF x
  <2>8. GrantsCovered(d, vault)
    BY <2>7 DEF GrantsCovered
  <2>9. QED
    BY <2>2, <2>3, <2>4, <2>8 DEF TruncateFrame
<1>9. CASE want # 0
  <2> DEFINE es == [c.entries EXCEPT ![s][i] = e]
             b == [c EXCEPT !.entries = es, !.cursor = c.cursor + 1]
             fu == [c.funding EXCEPT ![who] = left]
  <2>0. d = [[c EXCEPT !.funding[who] = left, !.entries[s][i] = e]
                EXCEPT !.cursor = c.cursor + 1]
    BY <1>5, <1>9 DEF TruncateTurn
  <2> HIDE DEF s, i, old, p, row, want, n, left, e, who
  <2>1. EntryWritten(c, s, i, e, b) /\ AllocKept(c.alloc, b.alloc) /\ b.cursor = c.cursor + 1
    <3>1. /\ DOMAIN b = DOMAIN c /\ b.cursor = c.cursor + 1
          /\ \A x \in ObjectFields \ {"cursor", "entries", "alloc"} : b[x] = c[x]
          /\ b.entries = es /\ b.alloc = c.alloc
      BY <1>6 DEF ObjectFields
    <3> HIDE DEF b
    <3>2. EntryWritten(c, s, i, e, b)
      BY <1>2, <3>1 DEF EntryWritten
    <3>3. AllocKept(c.alloc, b.alloc)
      BY <3>1 DEF Shaped, AllocOK, AllocKept
    <3>4. QED
      BY <3>1, <3>2, <3>3
  <2>2. d = [b EXCEPT !.funding = fu]
    BY <1>6, <2>0 DEF ObjectFields
  <2> HIDE DEF b, es
  <2>3. SameOrder(c.entries[s][i], e)
    BY <1>7 DEF old
  <2>4. Shaped(b) /\ Frame(c, b) /\ EntrySet(c.entries, s, i, e, b.entries)
    BY <1>1, <1>7, <2>1, <2>3, EntryTurn
  <2>5. b.funding = c.funding /\ b.stage = c.stage /\ b.fills = c.fills /\ DOMAIN b = ObjectFields
        /\ b.alloc.elig = c.alloc.elig /\ b.alloc.clearing_price = c.alloc.clearing_price
    BY <2>4 DEF Frame, ObjectFields, Shaped
  <2>6. RowWritten(b, who, left, d)
    <3> HIDE DEF fu
    <3>1. /\ DOMAIN d = DOMAIN b /\ d.funding = fu
          /\ \A x \in ObjectFields \ {"funding"} : d[x] = b[x]
      BY <2>2, <2>5 DEF ObjectFields
    <3>2. QED
      BY <2>5, <3>1 DEF RowWritten, fu
  <2>7. /\ Shaped(d) /\ DOMAIN d.funding = DOMAIN c.funding /\ d.funding[who] = left
        /\ \A a \in DOMAIN c.funding : a # who => d.funding[a] = c.funding[a]
        /\ d.entries = b.entries /\ d.alloc = b.alloc /\ d.stage = b.stage
        /\ d.fills = b.fills /\ d.cursor = b.cursor
    BY <1>2, <1>4, <2>4, <2>5, <2>6, RowTurn
  <2>8. EntrySet(c.entries, s, i, e, d.entries) /\ d.cursor = c.cursor + 1
    BY <2>1, <2>4, <2>7
  <2>9. d.alloc = c.alloc
    BY <2>1, <2>7 DEF EntryWritten, b
  <2>10. Beyond(d)
    BY <1>1, <2>8, <2>9, BeyondStays DEF Eligible
  <2>11. Priced(d)
    BY <2>5, <2>7, <2>9 DEF Priced
  <2>12. ASSUME NEW a \in DOMAIN d.funding, NEW t \in BOOLEAN
         PROVE  SumOf(Granted(d, t, a), Eligible(d, t)) + Held(d.funding[a], t)
                  <= Has(vault, t, a)
    <3> DEFINE x == SumOf(Granted(d, t, a), Eligible(d, t))
               y == SumOf(Granted(c, t, a), Eligible(c, t))
               more == IF t = s /\ a = e.submitter
                       THEN CostOf(c.alloc.clearing_price, s, e.fill_base) ELSE 0
               h == Held(c.funding[a], t)
               l == Held(d.funding[a], t)
    <3>1. x = y + more
      <4>1. e.submitter = c.entries[s][i].submitter
        BY <2>3 DEF SameOrder
      <4>2. QED
        BY <1>1, <2>7, <2>8, <2>9, <4>1, GrantsMove
    <3>2. a \in DOMAIN c.funding
      BY <2>7, <2>12
    <3>3. y + h <= Has(vault, t, a)
      BY <3>2 DEF GrantsCovered
    <3>4. y \in Nat
      <4>1. \A j \in Eligible(c, t) : Granted(c, t, a)[j] \in Nat
        BY DueFacts
      <4>2. IsFiniteSet(Eligible(c, t))
        BY DueFacts
      <4>3. QED
        BY <4>1, <4>2, SumNat
    <3>5. more \in Nat /\ l = h - more
      <4>1. CASE t = s /\ a = who
        <5>1. more = CostOf(p, s, n)
          BY <1>7, <4>1 DEF p
        <5>2. l = Held(left, s) /\ h = Held(row, s)
          BY <2>7, <4>1 DEF row
        <5>3. QED
          BY <1>4, <5>1, <5>2
      <4>2. CASE ~ (t = s /\ a = who)
        <5>1. more = 0
          BY <1>7, <4>2
        <5>2. l = h
          <6>1. CASE a = who
            <7>1. t # s /\ d.funding[a] = left /\ c.funding[a] = row
              BY <2>7, <4>2, <6>1 DEF row
            <7>2. Held(left, t) = Held(row, t)
              BY <1>4, <7>1
            <7>3. QED
              BY <7>1, <7>2
          <6>2. CASE a # who
            BY <2>7, <3>2, <6>2
          <6>3. QED
            BY <6>1, <6>2
        <5>3. h \in Nat
          BY <3>2, HeldNat
        <5> HIDE DEF more, l, h
        <5>4. QED
          BY <5>1, <5>2, <5>3
      <4>3. QED
        BY <4>1, <4>2
    <3>6. h \in Nat /\ Has(vault, t, a) \in Nat
      BY <3>2, HeldNat, HasNat
    <3> DEFINE z == Has(vault, t, a)
    <3>7. x = y + more /\ y + h <= z /\ y \in Nat /\ more \in Nat /\ l = h - more /\ h \in Nat
          /\ z \in Nat
      BY <3>1, <3>3, <3>4, <3>5, <3>6
    <3> HIDE DEF x, y, more, h, l, z
    <3>8. x + l <= z
      BY <3>7
    <3>9. QED
      BY <3>8 DEF x, l, z
  <2>13. GrantsCovered(d, vault)
    BY <2>12 DEF GrantsCovered
  <2>14. QED
    BY <2>5, <2>7, <2>8, <2>9, <2>10, <2>11, <2>13 DEF TruncateFrame
<1>10. QED
  BY <1>8, <1>9

TruncateHolds(k, x) ==
    TruncateFrame(clearing, x) /\ GrantsCovered(x, vault) /\ x.cursor = clearing.cursor + k

Truncate == INSTANCE LoopRules WITH Body <- TruncateTurn, Holds <- TruncateHolds

(* The premise of the rules of this instance.                               *)
LEMMA TruncateInduction ==
    Truncate!Induction
  BY NatSetInduction DEF Truncate!Induction

(* However many entries a budget pays for truncating.                       *)
LEMMA TruncateLoop ==
    ASSUME Shaped(clearing), Beyond(clearing), Priced(clearing), GrantsCovered(clearing, vault),
           VaultOK(vault), clearing.cursor <= eligible_count(clearing), NEW budget \in Nat,
           NEW d, d = Advance(clearing, eligible_count(clearing), budget,
                              LAMBDA x : truncate_unit(x, vault))
    PROVE  /\ TruncateFrame(clearing, d) /\ GrantsCovered(d, vault)
           /\ d.cursor <= eligible_count(clearing)
<1> DEFINE total == eligible_count(clearing)
           n == min_u64(budget, total - clearing.cursor)
<1>1. total \in Nat /\ clearing.cursor \in Nat
  BY EligibleCount DEF Shaped
<1> HIDE DEF total
<1>2. n \in Nat /\ clearing.cursor + n <= total
  BY <1>1, TurnsLeft DEF total
<1>3. d = Truncate!LoopFrom(clearing)[n]
  BY DEF Advance, Truncate!LoopFrom, Truncate!Turns, TruncateTurn, total
<1> HIDE DEF n
<1>4. TruncateHolds(0, clearing)
  BY <1>1 DEF TruncateHolds, TruncateFrame
<1>5. ASSUME NEW k \in 0..(n - 1), NEW x, TruncateHolds(k, x)
      PROVE  TruncateHolds(k + 1, TruncateTurn(x, k + 1))
  <2>1. eligible_count(x) = total
    BY <1>5 DEF TruncateHolds, TruncateFrame, eligible_count, total
  <2>2. x.cursor < eligible_count(x)
    BY <1>1, <1>2, <1>5, <2>1 DEF TruncateHolds
  <2> DEFINE y == TruncateTurn(x, k + 1)
  <2>3. TruncateFrame(x, y) /\ GrantsCovered(y, vault) /\ y.cursor = x.cursor + 1
    BY <1>5, <2>2, TruncateTurnKeeps DEF TruncateHolds, TruncateFrame
  <2> HIDE DEF y
  <2>4. TruncateFrame(clearing, y)
    BY <1>5, <2>3 DEF TruncateHolds, TruncateFrame
  <2>5. y.cursor = clearing.cursor + (k + 1)
    BY <1>1, <1>5, <2>3 DEF TruncateHolds
  <2>6. QED
    BY <2>3, <2>4, <2>5 DEF TruncateHolds, y
<1>6. TruncateHolds(n, Truncate!LoopFrom(clearing)[n])
  BY <1>2, <1>4, <1>5, TruncateInduction, Truncate!LoopRule
<1>7. QED
  BY <1>1, <1>2, <1>3, <1>6 DEF TruncateHolds, total

(* A side after truncation: what survived is what is asked from now on.     *)
Survivor(e) == [e EXCEPT !.qty_sats = e.fill_base, !.fill_base = 0, !.frac = 0, !.bumped = FALSE]

Survivors(es, n) == [i \in DOMAIN es |-> IF i > n THEN es[i] ELSE Survivor(es[i])]

Kept(es, n) == total_over(1..n, LAMBDA i : es[i].fill_base)

(* What survives of an entry is an entry again.                             *)
LEMMA SurvivorFacts ==
    ASSUME NEW e \in Entry
    PROVE  /\ Survivor(e) \in Entry /\ Survivor(e).is_bid = e.is_bid
           /\ Survivor(e).submitter = e.submitter /\ Survivor(e).qty_sats = e.fill_base
           /\ Survivor(e).fill_base = 0
<1> DEFINE f == e.fill_base
           x == Survivor(e)
<1>1. f \in Nat /\ 0 \in Nat /\ 0 \in Int /\ FALSE \in BOOLEAN
  BY DEF Entry
<1>2. x = [e EXCEPT !.qty_sats = f, !.fill_base = 0, !.frac = 0, !.bumped = FALSE]
  BY DEF Survivor
<1> HIDE DEF f, x
<1>3. x \in Entry
  BY <1>1, <1>2 DEF Entry
<1>4. x.is_bid = e.is_bid /\ x.submitter = e.submitter /\ x.qty_sats = f /\ x.fill_base = 0
  BY <1>2 DEF Entry
<1>5. QED
  BY <1>3, <1>4 DEF f, x

(* What survives of a side is a side again, in the same order.              *)
LEMMA SurvivorsFacts ==
    ASSUME NEW es \in Seq(Entry), NEW n \in Nat, n <= Len(es)
    PROVE  /\ Survivors(es, n) \in Seq(Entry) /\ Len(Survivors(es, n)) = Len(es)
           /\ DOMAIN Survivors(es, n) = DOMAIN es
           /\ \A i \in DOMAIN es :
                 Survivors(es, n)[i] = IF i > n THEN es[i] ELSE Survivor(es[i])
           /\ Kept(es, n) \in Nat
<1>1. DOMAIN es = 1..Len(es) /\ Len(es) \in Nat
  OBVIOUS
<1> DEFINE t == Survivors(es, n)
<1>2. DOMAIN t = DOMAIN es /\ t = [i \in DOMAIN es |-> t[i]]
      /\ \A i \in DOMAIN es : t[i] = IF i > n THEN es[i] ELSE Survivor(es[i])
  BY DEF Survivors
<1> HIDE DEF t
<1>3. \A i \in DOMAIN es : t[i] \in Entry
  <2> SUFFICES ASSUME NEW i \in DOMAIN es
               PROVE  t[i] \in Entry
    OBVIOUS
  <2>1. es[i] \in Entry
    OBVIOUS
  <2>2. Survivor(es[i]) \in Entry
    BY <2>1, SurvivorFacts
  <2>3. QED
    BY <1>2, <2>1, <2>2
<1>4. t \in [1..Len(es) -> Entry]
  BY <1>1, <1>2, <1>3
<1>5. t \in Seq(Entry) /\ Len(t) = Len(es)
  BY <1>1, <1>4
<1>6. Kept(es, n) \in Nat
  <2> DEFINE f == [i \in 1..n |-> es[i].fill_base]
  <2>1. Kept(es, n) = SumOf(f, 1..n)
    BY DEF Kept, total_over, SumOf
  <2>2. \A i \in 1..n : f[i] \in Nat
    <3> SUFFICES ASSUME NEW i \in 1..n
                 PROVE  es[i].fill_base \in Nat
      OBVIOUS
    <3>1. es[i] \in Entry
      BY <1>1
    <3>2. QED
      BY <3>1 DEF Entry
  <2> HIDE DEF f
  <2>3. IsFiniteSet(1..n)
    BY FS_Interval
  <2>4. QED
    BY <2>1, <2>2, <2>3, SumNat
<1>7. QED
  BY <1>2, <1>5, <1>6 DEF t

(* Truncation is over: the second pass starts with what survived, which was *)
(* all paid out of the rows.                                                *)
LEMMA TruncationEnds ==
    ASSUME NEW c, Shaped(c), Beyond(c), Priced(c), NEW v, GrantsCovered(c, v), VaultOK(v),
           c.cursor = eligible_count(c), NEW b, NEW d, d = finish_truncation(c)
    PROVE  ClearingOK(d, b, v)
<1> DEFINE p == c.alloc.clearing_price
           elig == c.alloc.elig
           es == [s \in BOOLEAN |-> Survivors(c.entries[s], elig[s])]
           matched == min_u64(Kept(c.entries[TRUE], elig[TRUE]), Kept(c.entries[FALSE], elig[FALSE]))
           a == new_allocation(p, matched, elig)
<1>1. d = [c EXCEPT !.entries = es, !.alloc = a, !.cursor = 0, !.stage = STAGE_REALLOC_FULL]
  BY DEF finish_truncation, enter, Survivors, Survivor, Kept
<1>2. /\ DOMAIN c = ObjectFields /\ p \in Nat \ {0} /\ elig \in [BOOLEAN -> Nat]
      /\ \A s \in BOOLEAN : elig[s] <= Len(c.entries[s])
      /\ c.entries \in [BOOLEAN -> Seq(Entry)]
  BY DEF Shaped, AllocOK, EntriesOK, Priced
<1>3. \A s \in BOOLEAN :
         /\ es[s] \in Seq(Entry) /\ Len(es[s]) = Len(c.entries[s])
         /\ DOMAIN es[s] = DOMAIN c.entries[s]
         /\ \A i \in DOMAIN c.entries[s] :
               es[s][i] = IF i > elig[s] THEN c.entries[s][i] ELSE Survivor(c.entries[s][i])
         /\ Kept(c.entries[s], elig[s]) \in Nat
  <2> SUFFICES ASSUME NEW s \in BOOLEAN
               PROVE  LET t == Survivors(c.entries[s], elig[s])
                      IN  /\ t \in Seq(Entry) /\ Len(t) = Len(c.entries[s])
                          /\ DOMAIN t = DOMAIN c.entries[s]
                          /\ \A i \in DOMAIN c.entries[s] :
                                t[i] = IF i > elig[s] THEN c.entries[s][i]
                                       ELSE Survivor(c.entries[s][i])
                          /\ Kept(c.entries[s], elig[s]) \in Nat
    OBVIOUS
  <2>1. c.entries[s] \in Seq(Entry) /\ elig[s] \in Nat /\ elig[s] <= Len(c.entries[s])
    BY <1>2
  <2> HIDE DEF elig
  <2>2. QED
    BY <2>1, SurvivorsFacts
<1>4. es \in [BOOLEAN -> Seq(Entry)]
  BY <1>3
<1>5. matched \in Nat
  <2>1. Kept(c.entries[TRUE], elig[TRUE]) \in Nat /\ Kept(c.entries[FALSE], elig[FALSE]) \in Nat
    BY <1>3
  <2>2. QED
    BY <2>1 DEF min_u64
<1>6. /\ DOMAIN a = AllocFields /\ a.clearing_price = p /\ a.matched_base = matched
      /\ a.elig = elig /\ a.awarded = both(0) /\ a.remainder_side = SIDE_BID
  BY DEF new_allocation, AllocFields
<1> HIDE DEF a, es, matched
<1>7. /\ DOMAIN d = ObjectFields /\ d.entries = es /\ d.alloc = a /\ d.cursor = 0
      /\ d.stage = STAGE_REALLOC_FULL /\ d.funding = c.funding /\ d.fills = c.fills
      /\ d.fee_bps = c.fee_bps /\ d.quote_paid = c.quote_paid
      /\ d.quote_recv = c.quote_recv /\ d.fee_quote = c.fee_quote
  BY <1>1, <1>2 DEF ObjectFields
<1>8. \A s \in BOOLEAN : \A i \in DOMAIN c.entries[s] :
         /\ Survivor(c.entries[s][i]).is_bid = c.entries[s][i].is_bid
         /\ Survivor(c.entries[s][i]).submitter = c.entries[s][i].submitter
         /\ Survivor(c.entries[s][i]).qty_sats = c.entries[s][i].fill_base
         /\ Survivor(c.entries[s][i]).fill_base = 0
  <2> SUFFICES ASSUME NEW s \in BOOLEAN, NEW i \in DOMAIN c.entries[s]
               PROVE  /\ Survivor(c.entries[s][i]).is_bid = c.entries[s][i].is_bid
                      /\ Survivor(c.entries[s][i]).submitter = c.entries[s][i].submitter
                      /\ Survivor(c.entries[s][i]).qty_sats = c.entries[s][i].fill_base
                      /\ Survivor(c.entries[s][i]).fill_base = 0
    OBVIOUS
  <2>1. c.entries[s][i] \in Entry
    BY <1>2
  <2>2. QED
    BY <2>1, SurvivorFacts
<1>9. EntriesOK(d)
  <2> SUFFICES ASSUME NEW s \in BOOLEAN, NEW i \in DOMAIN es[s]
               PROVE  es[s][i].is_bid = s /\ es[s][i].submitter \in DOMAIN c.funding
    BY <1>4, <1>7 DEF EntriesOK
  <2>1. c.entries[s][i].is_bid = s /\ c.entries[s][i].submitter \in DOMAIN c.funding
        /\ i \in DOMAIN c.entries[s]
    BY <1>3 DEF Shaped, EntriesOK
  <2>2. QED
    BY <1>3, <1>8, <2>1
<1>10. AllocOK(d)
  <2>1. both(0) \in [BOOLEAN -> Nat]
    BY DEF both
  <2>2. \A s \in BOOLEAN : elig[s] <= Len(d.entries[s])
    BY <1>2, <1>3, <1>7
  <2> HIDE DEF p, elig
  <2>3. QED
    BY <1>2, <1>5, <1>6, <1>7, <2>1, <2>2 DEF AllocOK
<1>18. Paid(d)
  BY <1>7, PaidStays
<1>11. Shaped(d)
  BY <1>7, <1>9, <1>10, <1>18, StagesDiffer DEF Shaped
<1>12. Beyond(d) /\ Priced(d)
  <2>1. d.alloc.clearing_price = p /\ d.fills = <<>>
    BY <1>6, <1>7 DEF Priced
  <2>2. Priced(d)
    BY <1>2, <2>1 DEF Priced
  <2>3. Beyond(d)
    <3> SUFFICES ASSUME NEW s \in BOOLEAN, NEW i \in DOMAIN es[s], i > elig[s]
                 PROVE  es[s][i].fill_base = 0
      BY <1>6, <1>7 DEF Beyond
    <3>1. i \in DOMAIN c.entries[s] /\ es[s][i] = c.entries[s][i]
      BY <1>3
    <3>2. QED
      BY <3>1 DEF Beyond
  <2>4. QED
    BY <2>2, <2>3
<1>13. FullPass(d)
  <2>1. \A s \in BOOLEAN : d.alloc.awarded[s] = 0
    BY <1>6, <1>7 DEF both
  <2>2. ASSUME NEW s \in BOOLEAN, NEW i \in Eligible(d, s)
        PROVE  ~ (TurnOf(d, s, i) <= d.cursor)
    <3>1. TurnOf(d, s, i) \in 1..eligible_count(d) /\ eligible_count(d) \in Nat
      BY <1>11, EligibleCount
    <3>2. QED
      BY <1>7, <3>1
  <2>3. QED
    BY <2>1, <2>2 DEF FullPass, Eligible
<1>14. AskedCovered(d, v)
  <2> SUFFICES ASSUME NEW who \in DOMAIN c.funding, NEW s \in BOOLEAN
               PROVE  SumOf(Asked(d, s, who), Eligible(d, s)) <= Has(v, s, who)
    BY <1>7 DEF AskedCovered
  <2> DEFINE f == Asked(d, s, who)
             g == Granted(c, s, who)
             T == Eligible(c, s)
  <2>1. Eligible(d, s) = T
    BY <1>6, <1>7 DEF Eligible
  <2>2. IsFiniteSet(T) /\ T \subseteq DOMAIN c.entries[s]
        /\ \A i \in DOMAIN c.entries[s] : g[i] \in Nat
    BY DueFacts
  <2>3. ASSUME NEW i \in T
        PROVE  f[i] = g[i]
    <3>1. i \in DOMAIN c.entries[s] /\ i \in DOMAIN es[s] /\ ~ (i > elig[s])
      <4>1. i \in 1..elig[s] /\ elig[s] \in Nat
        BY <1>2 DEF Eligible
      <4> HIDE DEF elig
      <4>2. ~ (i > elig[s])
        BY <4>1
      <4>3. QED
        BY <1>3, <2>2, <4>2
    <3>2. es[s][i] = Survivor(c.entries[s][i])
      BY <1>3, <3>1
    <3>3. TurnOf(c, s, i) <= c.cursor
      <4>1. TurnOf(c, s, i) \in 1..eligible_count(c)
        BY EligibleCount
      <4>2. eligible_count(c) \in Nat
        BY EligibleCount
      <4>3. QED
        BY <4>1, <4>2
    <3>4. g[i] = IF c.entries[s][i].submitter = who
                 THEN CostOf(p, s, c.entries[s][i].fill_base) ELSE 0
      BY <3>1, <3>3 DEF Granted
    <3>5. f[i] = IF es[s][i].submitter = who THEN CostOf(p, s, es[s][i].qty_sats) ELSE 0
      BY <1>6, <1>7, <3>1 DEF Asked
    <3>6. QED
      BY <1>8, <3>1, <3>2, <3>4, <3>5
  <2> DEFINE k == SumOf(g, T)
             h == Held(c.funding[who], s)
             z == Has(v, s, who)
  <2>4. k + h <= z
    BY DEF GrantsCovered
  <2>5. h \in Nat /\ z \in Nat
    BY HeldNat, HasNat
  <2> HIDE DEF f, g, T
  <2>6. k \in Nat
    BY <2>2, SumNat
  <2>7. SumOf(f, T) = k
    BY <2>2, <2>3, SumSame
  <2> HIDE DEF k, h, z
  <2>8. k <= z
    BY <2>4, <2>5, <2>6
  <2>9. QED
    BY <2>1, <2>7, <2>8 DEF f, z
<1>15. Allocating(d, v)
  <2>1. eligible_count(d) \in Nat
    BY <1>11, EligibleCount
  <2>2. d.cursor <= eligible_count(d)
    BY <1>7, <2>1
  <2>3. Passing(d)
    BY <1>7, <1>13, <2>2, StagesDiffer DEF Passing
  <2>4. d.stage \notin FirstPass
    BY <1>7, StagesDiffer DEF FirstPass
  <2>5. QED
    BY <1>12, <1>14, <2>3, <2>4 DEF Allocating
<1>16. d.stage \in FirstPass \cup SecondPass
  BY <1>7 DEF SecondPass
<1>17. QED
  BY <1>11, <1>15, <1>16, AllocatingIsOK

(* A transaction of STAGE_TRUNCATE keeps the invariant.                     *)
LEMMA TruncateStep ==
    ASSUME Shaped(clearing), Truncating(clearing, vault), VaultOK(vault),
           clearing.stage = STAGE_TRUNCATE, NEW budget \in Nat,
           NEW d, d = truncate_step(clearing, vault, budget)
    PROVE  ClearingOK(d, batch, vault)
<1> DEFINE c == clearing
           total == eligible_count(c)
           x == Advance(c, total, budget, LAMBDA y : truncate_unit(y, vault))
<1>1. Priced(c) /\ Beyond(c) /\ GrantsCovered(c, vault) /\ c.cursor <= total
  BY DEF Truncating
<1>2. TruncateFrame(c, x) /\ GrantsCovered(x, vault) /\ x.cursor <= total
  BY <1>1, TruncateLoop
<1>3. d = IF x.cursor < total THEN x ELSE finish_truncation(x)
  BY DEF truncate_step
<1>4. eligible_count(x) = total /\ total \in Nat
  BY <1>2, EligibleCount DEF TruncateFrame, eligible_count
<1>5. Shaped(x) /\ Beyond(x) /\ Priced(x) /\ x.stage = STAGE_TRUNCATE /\ x.cursor \in Nat
  BY <1>2 DEF TruncateFrame, Shaped
<1> HIDE DEF x, total
<1>6. CASE x.cursor < total
  <2>1. Truncating(x, vault)
    BY <1>2, <1>4, <1>5 DEF Truncating
  <2>2. d = x
    BY <1>3, <1>6
  <2>3. QED
    BY <1>5, <2>1, <2>2, StagesDiffer
       DEF ClearingOK, Opening, Allocating, FirstPass, SecondPass, Rooting, Settling
<1>7. CASE ~ (x.cursor < total)
  <2>1. x.cursor = eligible_count(x)
    BY <1>2, <1>4, <1>5, <1>7
  <2>2. d = finish_truncation(x)
    BY <1>3, <1>7
  <2>3. QED
    BY <1>2, <1>5, <2>1, <2>2, TruncationEnds
<1>8. QED
  BY <1>6, <1>7

-----------------------------------------------------------------------------
(* Making the fills. *)

(* The entry under the cursor, bids first.                                  *)
LEMMA EntryAt ==
    ASSUME NEW c, Shaped(c), NEW k \in DOMAIN all_entries(c)
    PROVE  LET nb == Len(c.entries[TRUE])
           IN  /\ nb \in Nat
               /\ k <= nb => k \in DOMAIN c.entries[TRUE] /\ all_entries(c)[k] = c.entries[TRUE][k]
               /\ k > nb => /\ k - nb \in DOMAIN c.entries[FALSE]
                            /\ all_entries(c)[k] = c.entries[FALSE][k - nb]
<1> DEFINE s == c.entries[TRUE]
           t == c.entries[FALSE]
<1>1. s \in Seq(Entry) /\ t \in Seq(Entry)
  BY DEF Shaped, EntriesOK
<1>2. all_entries(c) = s \o t
  BY DEF all_entries
<1>3. k \in 1..(Len(s) + Len(t))
  BY AllEntries
<1> HIDE DEF s, t
<1>4. Len(s) \in Nat /\ Len(t) \in Nat /\ DOMAIN s = 1..Len(s) /\ DOMAIN t = 1..Len(t)
  BY <1>1
<1>5. k <= Len(s) => k \in DOMAIN s /\ (s \o t)[k] = s[k]
  BY <1>1, <1>3, <1>4
<1>6. k > Len(s) => k - Len(s) \in DOMAIN t /\ (s \o t)[k] = t[k - Len(s)]
  BY <1>1, <1>3, <1>4
<1>7. QED
  BY <1>2, <1>4, <1>5, <1>6 DEF s, t

(* The entry under the cursor of STAGE_ROOTING.                             *)
LEMMA EntryAtIsOK ==
    ASSUME NEW c, Shaped(c), NEW k \in DOMAIN all_entries(c)
    PROVE  LET e == all_entries(c)[k]
               nb == Len(c.entries[TRUE])
           IN  /\ e \in Entry /\ e.submitter \in DOMAIN c.funding
               /\ k <= nb => e.is_bid = TRUE
               /\ k > nb => e.is_bid = FALSE
<1> DEFINE nb == Len(c.entries[TRUE])
           e == all_entries(c)[k]
<1>1. /\ nb \in Nat
      /\ k <= nb => k \in DOMAIN c.entries[TRUE] /\ e = c.entries[TRUE][k]
      /\ k > nb => k - nb \in DOMAIN c.entries[FALSE] /\ e = c.entries[FALSE][k - nb]
  BY EntryAt
<1>2. k \in Nat
  BY AllEntries
<1>3. \A s \in BOOLEAN : \A i \in DOMAIN c.entries[s] :
         /\ c.entries[s][i] \in Entry /\ c.entries[s][i].is_bid = s
         /\ c.entries[s][i].submitter \in DOMAIN c.funding
  BY DEF Shaped, EntriesOK
<1>4. TRUE \in BOOLEAN /\ FALSE \in BOOLEAN
  BY Zenon
<1> HIDE DEF nb, e
<1>5. CASE k <= nb
  <2>1. e \in Entry /\ e.submitter \in DOMAIN c.funding /\ e.is_bid = TRUE
    BY <1>1, <1>3, <1>4, <1>5
  <2>2. ~ (k > nb)
    BY <1>1, <1>2, <1>5
  <2>3. QED
    BY <2>1, <2>2 DEF nb, e
<1>6. CASE k > nb
  <2>1. e \in Entry /\ e.submitter \in DOMAIN c.funding /\ e.is_bid = FALSE
    BY <1>1, <1>3, <1>4, <1>6
  <2>2. ~ (k <= nb)
    BY <1>1, <1>2, <1>6
  <2>3. QED
    BY <2>1, <2>2 DEF nb, e
<1>7. k <= nb \/ k > nb
  BY <1>1, <1>2
<1>8. QED
  BY <1>5, <1>6, <1>7 DEF nb, e

(* What the fills cost is a number of sats.                                 *)
LEMMA RootDueFacts ==
    ASSUME NEW c, Shaped(c), NEW s, NEW who, NEW k \in DOMAIN all_entries(c)
    PROVE  /\ RootDue(c, s, who)[k] \in Nat
           /\ all_entries(c)[k].fill_base = 0 => RootDue(c, s, who)[k] = 0
<1> DEFINE e == all_entries(c)[k]
           f == e.fill_base
           b == e.is_bid
           p == c.alloc.clearing_price
<1>1. f \in Nat /\ b \in BOOLEAN /\ p \in Nat
  <2>1. e \in Entry /\ p \in Nat
    BY EntryAtIsOK DEF Shaped, AllocOK
  <2> HIDE DEF e
  <2>2. QED
    BY <2>1 DEF Entry
<1>2. RootDue(c, s, who)[k] = IF e.submitter = who /\ b = s THEN CostOf(p, s, f) ELSE 0
  BY DEF RootDue
<1> DEFINE m == CostOf(p, b, f)
<1>3. m \in Nat /\ (f = 0 => m = 0)
  <2> HIDE DEF p, f, b
  <2>1. f <= f
    BY <1>1
  <2>2. QED
    BY <1>1, <2>1, CostFacts
<1>4. RootDue(c, s, who)[k] \in {m, 0}
  BY <1>2
<1>5. QED
  BY <1>3, <1>4

(* A fill is one, and its debit is its cost.                                *)
LEMMA FillIsOK ==
    ASSUME NEW c, Shaped(c), NEW e \in Entry, e.fill_base # 0
    PROVE  /\ fill_for(c, e) \in Fill /\ fill_for(c, e).submitter = e.submitter
           /\ fill_for(c, e).is_bid = e.is_bid
           /\ debit_of(fill_for(c, e)) = CostOf(c.alloc.clearing_price, e.is_bid, e.fill_base)
           /\ debit_of(fill_for(c, e)) \in Nat /\ fill_for(c, e).quote_sats \in Int
<1> DEFINE p == c.alloc.clearing_price
           n == e.fill_base
           b == e.is_bid
           o == e.order_index
           w == e.submitter
           q == IF b THEN quote_of_bid(n, p) ELSE quote_of_ask(n, p, c.fee_bps)
           f == fill_for(c, e)
<1>1. p \in Nat /\ n \in Nat /\ n # 0 /\ b \in BOOLEAN /\ o \in Nat /\ w \in Addresses
      /\ c.fee_bps \in Nat
  BY DEF Shaped, AllocOK, Entry, Paid
<1>2. f = [order_index |-> o, submitter |-> w, is_bid |-> b, base_sats |-> n, price |-> p,
           quote_sats |-> q]
  BY DEF fill_for
<1> HIDE DEF f
<1>3. quote_of_bid(n, p) \in Nat
  <2> HIDE DEF p, n
  <2>1. n <= n
    BY <1>1
  <2>2. QED
    BY <1>1, <2>1, BidCostGrows
<1>4. quote_of_ask(n, p, c.fee_bps) \in Int
  <2> DEFINE gross == floor_mul_div(n, p, PRICE_SCALE)
             cut == floor_mul_div(gross, c.fee_bps, BPS_DENOMINATOR)
             h == c.fee_bps
  <2> HIDE DEF p, n, h
  <2>1. gross \in Nat
    <3>1. n * p \in Nat /\ PRICE_SCALE \in Nat \ {0}
      BY <1>1, ScaleAssumption, ProductNat
    <3>2. QED
      BY <3>1, QuotientNat DEF floor_mul_div
  <2> HIDE DEF gross
  <2>2. cut \in Nat
    <3>1. h \in Nat /\ BPS_DENOMINATOR \in Nat \ {0}
      BY <1>1, ScaleAssumption DEF h
    <3>2. gross * h \in Nat
      BY <2>1, <3>1, ProductNat
    <3>3. (gross * h) \div BPS_DENOMINATOR \in Nat
      BY <3>1, <3>2, QuotientNat
    <3>4. QED
      BY <3>3 DEF floor_mul_div, h
  <2>3. quote_of_ask(n, p, c.fee_bps) = gross - cut
    BY DEF quote_of_ask, gross
  <2> HIDE DEF cut
  <2>4. QED
    BY <2>1, <2>2, <2>3
<1>5. q \in Int
  BY <1>1, <1>3, <1>4
<1> HIDE DEF q
<1>6. f \in Fill /\ f.submitter = w /\ f.is_bid = b /\ f.quote_sats = q /\ f.base_sats = n
  <2> HIDE DEF p, n, b, o, w
  <2>1. QED
    BY <1>1, <1>2, <1>5 DEF Fill
<1>7. debit_of(f) = CostOf(p, b, n)
  BY <1>6 DEF debit_of, CostOf, q
<1>8. CostOf(p, b, n) \in Nat
  BY <1>1, <1>3 DEF CostOf
<1>9. QED
  BY <1>5, <1>6, <1>7, <1>8 DEF f

RootTurn(c, k) == [root_unit(c) EXCEPT !.cursor = c.cursor + 1]

(* What a turn of the rooting loop leaves alone.                            *)
SameBook(c, d) ==
    /\ Shaped(d) /\ d.entries = c.entries /\ d.alloc = c.alloc /\ d.funding = c.funding
    /\ d.stage = c.stage

(* A turn of rooting_step appends the fill of its entry, or nothing.        *)
LEMMA RootTurnKeeps ==
    ASSUME NEW c, Shaped(c), FillsOK(c), FillsAddUp(c), c.cursor < Len(all_entries(c)),
           NEW k, NEW d, d = RootTurn(c, k)
    PROVE  SameBook(c, d) /\ FillsOK(d) /\ FillsAddUp(d) /\ d.cursor = c.cursor + 1
<1> DEFINE es == all_entries(c)
           n == c.cursor + 1
           e == es[n]
           f == fill_for(c, e)
           m == Len(c.fills)
           paid == c.quote_paid + IF e.is_bid THEN f.quote_sats ELSE 0
           recv == c.quote_recv + IF e.is_bid THEN 0 ELSE f.quote_sats
<1>1. c.cursor \in Nat /\ n \in DOMAIN es /\ DOMAIN es = 1..Len(es) /\ Len(es) \in Nat
  <2>1. c.cursor \in Nat
    BY DEF Shaped
  <2>2. DOMAIN es = 1..Len(es) /\ Len(es) \in Nat
    BY AllEntries
  <2> HIDE DEF es
  <2>3. n \in 1..Len(es)
    BY <2>1, <2>2 DEF es
  <2>4. QED
    BY <2>1, <2>2, <2>3
<1>2. e \in Entry /\ e.submitter \in DOMAIN c.funding
  <2> HIDE DEF n
  <2>1. QED
    BY <1>1, EntryAtIsOK
<1>3. root_unit(c) = IF e.fill_base = 0 THEN c
                     ELSE [c EXCEPT !.fills = Append(c.fills, f), !.quote_paid = paid,
                                    !.quote_recv = recv]
  BY DEF root_unit
<1>4. DOMAIN c = ObjectFields
  BY DEF Shaped
<1>5. \A s, who : \A j \in 1..n : RootDue(c, s, who)[j] \in Nat
  <2>1. \A j \in 1..n : j \in DOMAIN es
    <3> HIDE DEF es
    <3>1. QED
      BY <1>1
  <2>2. QED
    BY <2>1, RootDueFacts
<1>6. \A s, who : SumOf(RootDue(c, s, who), 1..n)
                    = SumOf(RootDue(c, s, who), 1..c.cursor) + RootDue(c, s, who)[n]
  <2> SUFFICES ASSUME NEW s, NEW who
               PROVE  SumOf(RootDue(c, s, who), 1..n)
                        = SumOf(RootDue(c, s, who), 1..c.cursor) + RootDue(c, s, who)[n]
    OBVIOUS
  <2> DEFINE g == RootDue(c, s, who)
             r == c.cursor
  <2>1. \A j \in 1..(r + 1) : g[j] \in Int
    BY <1>5
  <2>2. r \in Int /\ 1 <= r + 1
    BY <1>1
  <2> HIDE DEF g, r
  <2>3. SumOf(g, 1..(r + 1)) = SumOf(g, 1..r) + g[r + 1]
    BY <2>1, <2>2, SumNext
  <2>4. QED
    BY <2>3 DEF g, r
<1>7. CASE e.fill_base = 0
  <2>1. d = [c EXCEPT !.cursor = n]
    BY <1>3, <1>7 DEF RootTurn
  <2> HIDE DEF es, f, m, paid, recv
  <2>2. Passed(c, d) /\ d.cursor = c.cursor + 1
    BY <1>1, <1>4, <2>1 DEF Passed, ObjectFields
  <2>3. /\ Shaped(d) /\ d.entries = c.entries /\ d.alloc = c.alloc
        /\ d.funding = c.funding /\ d.stage = c.stage /\ d.fills = c.fills
    BY <2>2, PassedTurn
  <2>4. FillsOK(d)
    BY <2>3 DEF FillsOK
  <2>5. FillsAddUp(d)
    <3> SUFFICES ASSUME NEW who \in DOMAIN c.funding, NEW s \in BOOLEAN
                 PROVE  SumOf(FillDue(c.fills, s, who), DOMAIN c.fills)
                          = SumOf(RootDue(d, s, who), 1..d.cursor)
      BY <2>3 DEF FillsAddUp
    <3>1. RootDue(d, s, who) = RootDue(c, s, who)
      BY <2>3 DEF RootDue, all_entries
    <3> DEFINE x == SumOf(RootDue(c, s, who), 1..n)
               y == SumOf(RootDue(c, s, who), 1..c.cursor)
               z == RootDue(c, s, who)[n]
    <3>2. x = y + z
      BY <1>6
    <3>3. z = 0
      <4> HIDE DEF n
      <4>1. e = all_entries(c)[n] /\ n \in DOMAIN all_entries(c)
        BY <1>1 DEF es
      <4>2. QED
        BY <1>7, <4>1, RootDueFacts
    <3>4. y \in Int
      <4>1. IsFiniteSet(1..c.cursor)
        <5> HIDE DEF es, n, e, x, y, z
        <5>1. c.cursor \in Nat
          BY <1>1
        <5>2. QED
          BY <5>1, FS_Interval
      <4>2. \A j \in 1..c.cursor : RootDue(c, s, who)[j] \in Int
        BY <1>1, <1>5
      <4>3. QED
        BY <4>1, <4>2, SumInt
    <3>5. y = SumOf(FillDue(c.fills, s, who), DOMAIN c.fills)
      BY DEF FillsAddUp
    <3> HIDE DEF x, y, z
    <3>6. x = y
      BY <3>2, <3>3, <3>4
    <3>7. QED
      BY <2>2, <3>1, <3>5, <3>6 DEF x, n
  <2>6. QED
    BY <2>2, <2>3, <2>4, <2>5 DEF SameBook
<1>8. CASE e.fill_base # 0
  <2>1. /\ f \in Fill /\ f.submitter = e.submitter /\ f.is_bid = e.is_bid
        /\ debit_of(f) = CostOf(c.alloc.clearing_price, e.is_bid, e.fill_base)
        /\ debit_of(f) \in Nat /\ f.quote_sats \in Int
    <3> HIDE DEF e
    <3>1. QED
      BY <1>2, <1>8, FillIsOK
  <2>2. paid \in Int /\ recv \in Int
    <3>1. c.quote_paid \in Int /\ c.quote_recv \in Int
      BY DEF Shaped, Paid
    <3> HIDE DEF f, e
    <3>2. QED
      BY <2>1, <3>1
  <2> DEFINE fs == Append(c.fills, f)
  <2>3. /\ d = [c EXCEPT !.fills = fs, !.quote_paid = paid, !.quote_recv = recv, !.cursor = n]
    BY <1>3, <1>8 DEF RootTurn
  <2> HIDE DEF paid, recv, fs, es, f
  <2>4. /\ DOMAIN d = ObjectFields /\ d.cursor = c.cursor + 1 /\ d.fills = fs
        /\ d.entries = c.entries /\ d.alloc = c.alloc /\ d.funding = c.funding
        /\ d.stage = c.stage /\ d.quote_paid = paid /\ d.quote_recv = recv
        /\ d.fee_bps = c.fee_bps /\ d.fee_quote = c.fee_quote
    BY <1>4, <2>3 DEF ObjectFields
  <2>5. Shaped(d)
    <3>1. Paid(d)
      BY <2>2, <2>4 DEF Shaped, Paid
    <3>2. EntriesOK(d) /\ AllocOK(d)
      BY <2>4 DEF Shaped, EntriesOK, AllocOK
    <3>3. d.cursor \in Nat
      BY <1>1, <2>4
    <3>4. QED
      BY <2>4, <3>1, <3>2, <3>3 DEF Shaped
  <2>6. /\ c.fills \in Seq(Fill) /\ m \in Nat /\ DOMAIN c.fills = 1..m
    BY DEF FillsOK
  <2>7. /\ fs \in Seq(Fill) /\ DOMAIN fs = 1..(m + 1) /\ fs[m + 1] = f
        /\ \A j \in 1..m : fs[j] = c.fills[j]
    BY <2>1, <2>6 DEF fs, m
  <2> HIDE DEF m
  <2>8. FillsOK(d)
    <3>1. \A j \in 1..(m + 1) : fs[j].submitter \in DOMAIN c.funding /\ debit_of(fs[j]) \in Nat
      <4> SUFFICES ASSUME NEW j \in 1..(m + 1)
                   PROVE  fs[j].submitter \in DOMAIN c.funding /\ debit_of(fs[j]) \in Nat
        OBVIOUS
      <4>1. CASE j = m + 1
        BY <1>2, <2>1, <2>7, <4>1
      <4>2. CASE j # m + 1
        <5>1. j \in 1..m
          BY <2>6, <4>2
        <5>2. QED
          BY <2>6, <2>7, <5>1 DEF FillsOK
      <4>3. QED
        BY <4>1, <4>2
    <3>2. QED
      BY <2>4, <2>7, <3>1 DEF FillsOK
  <2>9. FillsAddUp(d)
    <3> SUFFICES ASSUME NEW who \in DOMAIN c.funding, NEW s \in BOOLEAN
                 PROVE  SumOf(FillDue(fs, s, who), 1..(m + 1)) = SumOf(RootDue(d, s, who), 1..n)
      BY <2>4, <2>7 DEF FillsAddUp
    <3>1. RootDue(d, s, who) = RootDue(c, s, who)
      BY <2>4 DEF RootDue, all_entries
    <3> DEFINE g == FillDue(fs, s, who)
               h == FillDue(c.fills, s, who)
               z == RootDue(c, s, who)[n]
    <3>2. \A j \in 1..m : g[j] = h[j]
      BY <2>6, <2>7 DEF FillDue
    <3>3. \A j \in 1..(m + 1) : g[j] \in Int
      <4> SUFFICES ASSUME NEW j \in 1..(m + 1)
                   PROVE  g[j] \in Int
        OBVIOUS
      <4>1. debit_of(fs[j]) \in Nat
        BY <2>4, <2>7, <2>8 DEF FillsOK
      <4>2. g[j] = IF fs[j].submitter = who /\ fs[j].is_bid = s THEN debit_of(fs[j]) ELSE 0
        BY <2>7 DEF FillDue
      <4>3. QED
        BY <4>1, <4>2
    <3>4. g[m + 1] = z
      <4>1. m + 1 \in DOMAIN fs
        BY <2>6, <2>7
      <4>2. g[m + 1] = IF f.submitter = who /\ f.is_bid = s THEN debit_of(f) ELSE 0
        BY <2>7, <4>1 DEF FillDue
      <4>3. z = IF e.submitter = who /\ e.is_bid = s
                THEN CostOf(c.alloc.clearing_price, s, e.fill_base) ELSE 0
        <5> HIDE DEF n
        <5>1. QED
          BY <1>1 DEF RootDue, es
      <4>4. QED
        BY <2>1, <4>2, <4>3
    <3>5. SumOf(h, 1..m) = SumOf(RootDue(c, s, who), 1..c.cursor)
      BY <2>6 DEF FillsAddUp
    <3> HIDE DEF g, h, z, n
    <3>6. SumOf(g, 1..(m + 1)) = SumOf(g, 1..m) + g[m + 1]
      <4>1. m \in Int /\ 1 <= m + 1 /\ 1 \in Int
        BY <2>6
      <4>2. QED
        BY <3>3, <4>1, SumNext
    <3>7. SumOf(g, 1..m) = SumOf(h, 1..m)
      <4>1. IsFiniteSet(1..m)
        BY <2>6, FS_Interval
      <4>2. QED
        BY <3>2, <4>1, SumSame
    <3>8. SumOf(RootDue(c, s, who), 1..n) = SumOf(RootDue(c, s, who), 1..c.cursor) + z
      BY <1>6 DEF z
    <3>9. SumOf(g, 1..(m + 1)) = SumOf(RootDue(c, s, who), 1..n)
      BY <3>4, <3>5, <3>6, <3>7, <3>8
    <3>10. QED
      BY <3>1, <3>9 DEF g
  <2>10. QED
    BY <2>4, <2>5, <2>8, <2>9 DEF SameBook
<1>9. QED
  BY <1>7, <1>8

RootHolds(k, x) ==
    SameBook(clearing, x) /\ FillsOK(x) /\ FillsAddUp(x) /\ x.cursor = clearing.cursor + k

Root == INSTANCE LoopRules WITH Body <- RootTurn, Holds <- RootHolds

(* The premise of the rules of this instance.                               *)
LEMMA RootInduction ==
    Root!Induction
  BY NatSetInduction DEF Root!Induction

(* However many fills a budget pays for making.                             *)
LEMMA RootLoop ==
    ASSUME Shaped(clearing), FillsOK(clearing), FillsAddUp(clearing),
           clearing.cursor <= Len(all_entries(clearing)), NEW budget \in Nat,
           NEW d, d = Advance(clearing, Len(all_entries(clearing)), budget, root_unit)
    PROVE  /\ SameBook(clearing, d) /\ FillsOK(d) /\ FillsAddUp(d)
           /\ d.cursor <= Len(all_entries(clearing))
<1> DEFINE total == Len(all_entries(clearing))
           n == min_u64(budget, total - clearing.cursor)
<1>1. total \in Nat /\ clearing.cursor \in Nat
  BY AllEntries DEF Shaped
<1> HIDE DEF total
<1>2. n \in Nat /\ clearing.cursor + n <= total
  BY <1>1, TurnsLeft DEF total
<1>3. d = Root!LoopFrom(clearing)[n]
  BY DEF Advance, Root!LoopFrom, Root!Turns, RootTurn, total
<1> HIDE DEF n
<1>4. RootHolds(0, clearing)
  BY <1>1 DEF RootHolds, SameBook
<1>5. ASSUME NEW k \in 0..(n - 1), NEW x, RootHolds(k, x)
      PROVE  RootHolds(k + 1, RootTurn(x, k + 1))
  <2>1. Len(all_entries(x)) = total
    BY <1>5 DEF RootHolds, SameBook, all_entries, total
  <2>2. x.cursor < Len(all_entries(x))
    BY <1>1, <1>2, <1>5, <2>1 DEF RootHolds
  <2> DEFINE y == RootTurn(x, k + 1)
  <2>3. SameBook(x, y) /\ FillsOK(y) /\ FillsAddUp(y) /\ y.cursor = x.cursor + 1
    BY <1>5, <2>2, RootTurnKeeps DEF RootHolds, SameBook
  <2> HIDE DEF y
  <2>4. SameBook(clearing, y)
    BY <1>5, <2>3 DEF RootHolds, SameBook
  <2>5. y.cursor = clearing.cursor + (k + 1)
    BY <1>1, <1>5, <2>3 DEF RootHolds
  <2>6. QED
    BY <2>3, <2>4, <2>5 DEF RootHolds, y
<1>6. RootHolds(n, Root!LoopFrom(clearing)[n])
  BY <1>2, <1>4, <1>5, RootInduction, Root!LoopRule
<1>7. QED
  BY <1>1, <1>2, <1>3, <1>6 DEF RootHolds, total

(* Over the whole book, the fills cost what is filled on each side.         *)
LEMMA RootDueIsDue ==
    ASSUME NEW c, Shaped(c), NEW s \in BOOLEAN, NEW who
    PROVE  SumOf(RootDue(c, s, who), 1..Len(all_entries(c)))
             = SumOf(Due(c, s, who), DOMAIN c.entries[s])
<1> DEFINE g == RootDue(c, s, who)
           h == Due(c, s, who)
           nb == Len(c.entries[TRUE])
           na == Len(c.entries[FALSE])
           n == Len(all_entries(c))
           p == c.alloc.clearing_price
<1>1. /\ n = nb + na /\ DOMAIN all_entries(c) = 1..n /\ nb \in Nat /\ na \in Nat
      /\ DOMAIN c.entries[TRUE] = 1..nb /\ DOMAIN c.entries[FALSE] = 1..na
  <2>1. DOMAIN all_entries(c) = 1..n /\ n = nb + na
    BY AllEntries
  <2> DEFINE x == c.entries[TRUE]
             y == c.entries[FALSE]
  <2>2. x \in Seq(Entry) /\ y \in Seq(Entry)
    BY DEF Shaped, EntriesOK
  <2>3. nb = Len(x) /\ na = Len(y)
    OBVIOUS
  <2> HIDE DEF nb, na, n, x, y
  <2>4. nb \in Nat /\ na \in Nat /\ DOMAIN x = 1..nb /\ DOMAIN y = 1..na
    BY <2>2, <2>3
  <2>5. QED
    BY <2>1, <2>4 DEF x, y
<1> HIDE DEF n
<1>2. \A k \in 1..n : g[k] \in Int
  <2>1. \A k \in DOMAIN all_entries(c) : g[k] \in Nat
    BY RootDueFacts
  <2> HIDE DEF g, nb, na
  <2>2. QED
    BY <1>1, <2>1
<1>3. ASSUME NEW k \in 1..nb
      PROVE  g[k] = IF s = TRUE THEN h[k] ELSE 0
  <2>1. k \in DOMAIN all_entries(c) /\ k <= nb
    <3> HIDE DEF nb, na
    <3>1. k \in 1..n /\ k <= nb
      BY <1>1
    <3>2. QED
      BY <1>1, <3>1
  <2>2. all_entries(c)[k] = c.entries[TRUE][k] /\ k \in DOMAIN c.entries[TRUE]
    BY <2>1, EntryAt
  <2>3. all_entries(c)[k].is_bid = TRUE
    BY <2>1, EntryAtIsOK
  <2>4. CASE s = TRUE
    BY <2>1, <2>2, <2>3, <2>4 DEF RootDue, Due
  <2>5. CASE s = FALSE
    BY <2>1, <2>3, <2>5 DEF RootDue
  <2>6. QED
    BY <2>4, <2>5
<1>4. ASSUME NEW k \in 1..na
      PROVE  g[nb + k] = IF s = TRUE THEN 0 ELSE h[k]
  <2>1. nb + k \in DOMAIN all_entries(c) /\ nb + k > nb /\ (nb + k) - nb = k
    <3> HIDE DEF nb, na
    <3>1. nb + k \in 1..n /\ nb + k > nb /\ (nb + k) - nb = k
      BY <1>1
    <3>2. QED
      BY <1>1, <3>1
  <2>2. all_entries(c)[nb + k] = c.entries[FALSE][k] /\ k \in DOMAIN c.entries[FALSE]
    <3> DEFINE l == nb + k
    <3> HIDE DEF l
    <3>1. l \in DOMAIN all_entries(c) /\ l > nb /\ l - nb = k
      BY <2>1 DEF l
    <3>2. l - nb \in DOMAIN c.entries[FALSE] /\ all_entries(c)[l] = c.entries[FALSE][l - nb]
      BY <3>1, EntryAt
    <3>3. QED
      BY <3>1, <3>2 DEF l
  <2>3. all_entries(c)[nb + k].is_bid = FALSE
    <3> DEFINE l == nb + k
    <3> HIDE DEF l
    <3>1. l \in DOMAIN all_entries(c) /\ l > nb
      BY <2>1 DEF l
    <3>2. all_entries(c)[l].is_bid = FALSE
      BY <3>1, EntryAtIsOK
    <3>3. QED
      BY <3>2 DEF l
  <2>4. CASE s = TRUE
    BY <2>1, <2>3, <2>4 DEF RootDue
  <2>5. CASE s = FALSE
    BY <2>1, <2>2, <2>3, <2>5 DEF RootDue, Due
  <2>6. QED
    BY <2>4, <2>5
<1>5. \A i \in DOMAIN c.entries[s] : h[i] \in Int
  BY DueFacts
<1> HIDE DEF g, h, nb, na, n
<1>6. SumOf(g, 1..n) = SumOf(g, 1..nb) + SumOf(g, (nb + 1)..n)
  <2>1. 1 \in Int /\ nb \in Int /\ n \in Int /\ 1 <= nb + 1 /\ nb <= n
    BY <1>1
  <2>2. QED
    BY <1>2, <2>1, SumCut
<1>7. IsFiniteSet(1..nb) /\ IsFiniteSet((nb + 1)..n)
  BY <1>1, FS_Interval
<1>8. CASE s = TRUE
  <2>1. \A k \in (nb + 1)..n : g[k] = 0
    <3> SUFFICES ASSUME NEW k \in (nb + 1)..n
                 PROVE  g[k] = 0
      OBVIOUS
    <3>1. k - nb \in 1..na /\ nb + (k - nb) = k
      BY <1>1
    <3>2. g[nb + (k - nb)] = 0
      BY <1>4, <1>8, <3>1
    <3>3. QED
      BY <3>1, <3>2
  <2>2. SumOf(g, (nb + 1)..n) = 0
    BY <1>7, <2>1, SumZeros
  <2>3. SumOf(g, 1..nb) = SumOf(h, 1..nb)
    <3>1. \A k \in 1..nb : g[k] = h[k]
      BY <1>3, <1>8
    <3>2. QED
      BY <1>7, <3>1, SumSame
  <2>4. SumOf(g, 1..nb) \in Int
    <3>1. \A k \in 1..nb : g[k] \in Int
      BY <1>1, <1>2
    <3>2. QED
      BY <1>7, <3>1, SumInt
  <2>5. DOMAIN c.entries[s] = 1..nb
    BY <1>1, <1>8
  <2>6. SumOf(g, 1..n) = SumOf(h, 1..nb)
    BY <1>6, <2>2, <2>3, <2>4
  <2>7. SumOf(g, 1..n) = SumOf(h, DOMAIN c.entries[s])
    BY <2>5, <2>6, Zenon
  <2>8. QED
    BY <2>7 DEF g, h, n
<1>9. CASE s = FALSE
  <2>1. SumOf(g, 1..nb) = 0
    <3>1. \A k \in 1..nb : g[k] = 0
      BY <1>3, <1>9
    <3>2. QED
      BY <1>7, <3>1, SumZeros
  <2>2. SumOf(g, (nb + 1)..(nb + na)) = SumOf(h, 1..na)
    <3>1. Shifted(g, h, nb, na)
      BY <1>1, <1>4, <1>5, <1>9 DEF Shifted
    <3>2. nb \in Int /\ na \in Int
      BY <1>1
    <3>3. QED
      BY <3>1, <3>2, SumShift
  <2>3. SumOf(h, 1..na) \in Int
    <3>1. IsFiniteSet(1..na)
      BY <1>1, FS_Interval
    <3>2. \A j \in 1..na : h[j] \in Int
      BY <1>1, <1>5, <1>9
    <3>3. QED
      BY <3>1, <3>2, SumInt
  <2>4. SumOf(g, 1..n) = SumOf(h, 1..na)
    <3>1. n = nb + na
      BY <1>1
    <3>2. SumOf(g, (nb + 1)..n) = SumOf(h, 1..na)
      BY <2>2, <3>1
    <3>3. QED
      BY <1>6, <2>1, <2>3, <3>2
  <2>5. DOMAIN c.entries[s] = 1..na
    BY <1>1, <1>9
  <2>6. SumOf(g, 1..n) = SumOf(h, DOMAIN c.entries[s])
    BY <2>4, <2>5, Zenon
  <2>7. QED
    BY <2>6 DEF g, h, n
<1>10. QED
  BY <1>8, <1>9

(* All fills are made: what is to be pushed is what is filled.              *)
LEMMA SettlingBegins ==
    ASSUME NEW c, Shaped(c), FillsOK(c), FillsAddUp(c), c.cursor = Len(all_entries(c)),
           NEW v, DueCovered(c, v), NEW b,
           NEW d, d = enter([c EXCEPT !.fee_quote = c.quote_paid - c.quote_recv], STAGE_SETTLING)
    PROVE  ClearingOK(d, b, v)
<1> DEFINE fee == c.quote_paid - c.quote_recv
<1>1. DOMAIN c = ObjectFields /\ fee \in Int
  BY DEF Shaped, Paid
<1> HIDE DEF fee
<1>2. d = [c EXCEPT !.fee_quote = fee, !.cursor = 0, !.stage = STAGE_SETTLING]
  BY DEF enter, fee
<1>3. /\ DOMAIN d = ObjectFields /\ d.cursor = 0 /\ d.stage = STAGE_SETTLING
      /\ d.entries = c.entries /\ d.alloc = c.alloc /\ d.funding = c.funding
      /\ d.fills = c.fills /\ d.fee_quote = fee /\ d.quote_paid = c.quote_paid
      /\ d.quote_recv = c.quote_recv /\ d.fee_bps = c.fee_bps
  BY <1>1, <1>2 DEF ObjectFields
<1>4. Shaped(d)
  <2>1. Paid(d)
    BY <1>1, <1>3 DEF Shaped, Paid
  <2>2. EntriesOK(d) /\ AllocOK(d)
    BY <1>3 DEF Shaped, EntriesOK, AllocOK
  <2>3. QED
    BY <1>3, <2>1, <2>2, StagesDiffer DEF Shaped
<1>5. FillsOK(d)
  BY <1>3 DEF FillsOK
<1>6. Len(d.fills) \in Nat /\ DOMAIN c.fills = 1..Len(d.fills)
  BY <1>3 DEF FillsOK
<1>7. RestCovered(d, v)
  <2> SUFFICES ASSUME NEW who \in DOMAIN c.funding, NEW s \in BOOLEAN
               PROVE  SumOf(FillDue(d.fills, s, who), (d.cursor + 1)..Len(d.fills))
                        <= Has(v, s, who)
    BY <1>3 DEF RestCovered
  <2>1. (d.cursor + 1)..Len(d.fills) = DOMAIN c.fills
    BY <1>3, <1>6
  <2>2. SumOf(FillDue(c.fills, s, who), DOMAIN c.fills)
          = SumOf(RootDue(c, s, who), 1..Len(all_entries(c)))
    BY DEF FillsAddUp
  <2>3. SumOf(RootDue(c, s, who), 1..Len(all_entries(c)))
          = SumOf(Due(c, s, who), DOMAIN c.entries[s])
    BY RootDueIsDue
  <2>4. SumOf(Due(c, s, who), DOMAIN c.entries[s]) <= Has(v, s, who)
    BY DEF DueCovered
  <2>5. SumOf(FillDue(d.fills, s, who), (d.cursor + 1)..Len(d.fills))
          = SumOf(FillDue(c.fills, s, who), DOMAIN c.fills)
    BY <1>3, <2>1, Zenon
  <2>6. QED
    BY <2>2, <2>3, <2>4, <2>5
<1>8. 0 <= Len(d.fills)
  BY <1>6
<1>9. Settling(d, v)
  BY <1>3, <1>5, <1>7, <1>8 DEF Settling
<1>10. QED
  BY <1>3, <1>4, <1>9, StagesDiffer
     DEF ClearingOK, Opening, Allocating, FirstPass, SecondPass, Truncating, Rooting

(* A transaction of STAGE_ROOTING keeps the invariant.                      *)
LEMMA RootStep ==
    ASSUME Shaped(clearing), Rooting(clearing, vault), clearing.stage = STAGE_ROOTING,
           NEW budget \in Nat, NEW d, d = rooting_step(clearing, budget)
    PROVE  ClearingOK(d, batch, vault)
<1> DEFINE c == clearing
           total == Len(all_entries(c))
           x == Advance(c, total, budget, root_unit)
<1>1. FillsOK(c) /\ FillsAddUp(c) /\ DueCovered(c, vault) /\ c.cursor <= total
  BY DEF Rooting
<1>2. SameBook(c, x) /\ FillsOK(x) /\ FillsAddUp(x) /\ x.cursor <= total
  BY <1>1, RootLoop
<1>3. d = IF x.cursor < total THEN x
          ELSE enter([x EXCEPT !.fee_quote = x.quote_paid - x.quote_recv], STAGE_SETTLING)
  BY DEF rooting_step
<1>4. Len(all_entries(x)) = total /\ total \in Nat
  BY <1>2, AllEntries DEF SameBook, all_entries
<1>5. Shaped(x) /\ x.stage = STAGE_ROOTING /\ x.cursor \in Nat /\ DueCovered(x, vault)
  BY <1>1, <1>2 DEF SameBook, Shaped, DueCovered, Due
<1> HIDE DEF x, total
<1>6. CASE x.cursor < total
  <2>1. Rooting(x, vault)
    BY <1>2, <1>4, <1>5 DEF Rooting
  <2>2. d = x
    BY <1>3, <1>6
  <2>3. QED
    BY <1>5, <2>1, <2>2, StagesDiffer
       DEF ClearingOK, Opening, Allocating, FirstPass, SecondPass, Truncating, Settling
<1>7. CASE ~ (x.cursor < total)
  <2>1. x.cursor = Len(all_entries(x))
    BY <1>2, <1>4, <1>5, <1>7
  <2>2. d = enter([x EXCEPT !.fee_quote = x.quote_paid - x.quote_recv], STAGE_SETTLING)
    BY <1>3, <1>7
  <2>3. QED
    BY <1>2, <1>5, <2>1, <2>2, SettlingBegins
<1>8. QED
  BY <1>6, <1>7

-----------------------------------------------------------------------------
(* Loading the book. *)

(* The rank of a member of a set of numbers.                                *)
Below(S, x) == {y \in S : y < x}

(* Every rank is somebody's.                                                *)
LEMMA RanksExist ==
    ASSUME NEW S, IsFiniteSet(S), S \subseteq Int
    PROVE  \A k \in 1..Cardinality(S) : \E x \in S : Cardinality(Below(S, x)) = k - 1
<1> DEFINE Ranked(t) == \A k \in 1..Cardinality(t) : \E x \in t : Cardinality(Below(t, x)) = k - 1
           Good == {t \in SUBSET S : Ranked(t)}
<1>1. ASSUME NEW t \in SUBSET S, \A u \in SUBSET t : u # t => u \in Good
      PROVE  t \in Good
  <2>1. IsFiniteSet(t) /\ t \subseteq Int
    BY FS_Subset
  <2>2. CASE t = {}
    <3>1. Cardinality(t) = 0
      BY <2>2, FS_EmptySet
    <3>2. 1..Cardinality(t) = {}
      BY <3>1
    <3>3. QED
      BY <3>2
  <2>3. CASE t # {}
    <3> DEFINE m == Max(t)
               r == t \ {m}
               n == Cardinality(t)
    <3>1. m \in t /\ \A x \in t : x <= m
      BY <2>1, <2>3, MaxOfSet
    <3> HIDE DEF m
    <3>2. Ranked(r)
      <4>1. r \in SUBSET t /\ r # t
        BY <3>1
      <4> HIDE DEF r, Ranked
      <4>2. QED
        BY <1>1, <4>1
    <3>3. n \in Nat /\ IsFiniteSet(r) /\ Cardinality(r) = n - 1
      BY <2>1, <3>1, FS_RemoveElement, FS_CardinalityType
    <3> HIDE DEF n
    <3>4. ASSUME NEW k \in 1..n
          PROVE  \E x \in t : Cardinality(Below(t, x)) = k - 1
      <4>1. CASE k = n
        <5>1. Below(t, m) = r
          <6>1. ASSUME NEW x \in t
                PROVE  x < m <=> x # m
            <7>1. x \in Int /\ m \in Int /\ x <= m
              BY <2>1, <3>1
            <7>2. QED
              BY <7>1
          <6>2. \A x : x \in Below(t, m) <=> x \in t /\ x # m
            BY <6>1, Zenon DEF Below
          <6>3. \A x : x \in r <=> x \in t /\ x # m
            OBVIOUS
          <6> HIDE DEF r
          <6>4. QED
            BY <6>2, <6>3, Zenon
        <5>2. QED
          BY <3>1, <3>3, <4>1, <5>1
      <4>2. CASE k # n
        <5>1. k \in 1..Cardinality(r)
          BY <3>3, <4>2
        <5>2. PICK x \in r : Cardinality(Below(r, x)) = k - 1
          BY <3>2, <5>1
        <5>3. Below(t, x) = Below(r, x)
          BY <2>1, <3>1 DEF Below
        <5>4. QED
          BY <5>2, <5>3
      <4>3. QED
        BY <4>1, <4>2
    <3>5. Ranked(t)
      BY <3>4 DEF n
    <3>6. QED
      BY <3>5
  <2>4. QED
    BY <2>2, <2>3
<1> HIDE DEF Ranked
<1>2. S \in Good
  <2> HIDE DEF Good
  <2>1. QED
    BY <1>1, SetInduction
<1>3. QED
  BY <1>2 DEF Ranked

(* Numbers in ascending order are those numbers.                            *)
LEMMA AscendingIsSeq ==
    ASSUME NEW S, IsFiniteSet(S), S \subseteq Nat \ {0}
    PROVE  ascending(S) \in Seq(Nat \ {0})
<1> DEFINE n == Cardinality(S)
           a == ascending(S)
<1>1. n \in Nat
  BY FS_CardinalityType
<1>2. \A k \in 1..n : \E x \in S : Cardinality(Below(S, x)) = k - 1
  <2>1. S \subseteq Int
    OBVIOUS
  <2>2. QED
    BY <2>1, RanksExist
<1>3. a = [k \in 1..n |-> CHOOSE x \in S : Cardinality(Below(S, x)) = k - 1]
  BY DEF ascending, Below
<1>4. \A k \in 1..n : a[k] \in S
  <2> SUFFICES ASSUME NEW k \in 1..n
               PROVE  a[k] \in S
    OBVIOUS
  <2>1. a[k] = CHOOSE x \in S : Cardinality(Below(S, x)) = k - 1
    BY <1>3
  <2> HIDE DEF a
  <2>2. \E x \in S : Cardinality(Below(S, x)) = k - 1
    BY <1>2
  <2>3. QED
    BY <2>1, <2>2
<1>5. a \in [1..n -> Nat \ {0}]
  <2>1. a = [k \in 1..n |-> a[k]]
    BY <1>3
  <2> HIDE DEF a, n
  <2>2. \A k \in 1..n : a[k] \in Nat \ {0}
    BY <1>4
  <2>3. QED
    BY <2>1, <2>2
<1> HIDE DEF a, n
<1>6. a \in Seq(Nat \ {0})
  BY <1>1, <1>5
<1>7. QED
  BY <1>6 DEF a

(* Two sequences, one after the other.                                      *)
Joined(X, a, b, m, n) ==
    /\ a \o b \in Seq(X) /\ Len(a \o b) = m + n
    /\ \A j \in 1..m : (a \o b)[j] = a[j]
    /\ \A j \in (m + 1)..(m + n) : (a \o b)[j] = b[j - m]

(* The elements of two sequences in a row.                                  *)
LEMMA ConcatAt ==
    ASSUME NEW X, NEW a \in Seq(X), NEW b \in Seq(X),
           NEW m \in Nat, NEW n \in Nat, Len(a) = m, Len(b) = n
    PROVE  Joined(X, a, b, m, n)
<1>1. a \o b \in Seq(X) /\ Len(a \o b) = m + n
  OBVIOUS
<1>2. ASSUME NEW j \in 1..m
      PROVE  (a \o b)[j] = a[j]
  OBVIOUS
<1>3. ASSUME NEW j \in (m + 1)..(m + n)
      PROVE  (a \o b)[j] = b[j - m]
  OBVIOUS
<1>4. QED
  BY <1>1, <1>2, <1>3 DEF Joined

(* A sequence in which something was inserted, place by place.               *)
LEMMA InsertedAt ==
    ASSUME NEW X, NEW s \in Seq(X), NEW i \in 1..(Len(s) + 1), NEW e \in X
    PROVE  LET t == InsertAt(s, i, e)
           IN  /\ t \in Seq(X) /\ Len(t) = Len(s) + 1
               /\ \A j \in DOMAIN t : t[j] = e \/ \E k \in DOMAIN s : t[j] = s[k]
               /\ \A j \in 1..(i - 1) : t[j] = s[j]
               /\ t[i] = e
               /\ \A j \in i..Len(s) : t[j + 1] = s[j]
<1> DEFINE a == SubSeq(s, 1, i - 1)
           b == SubSeq(s, i, Len(s))
           n == Len(s)
           o == <<e>>
           ao == a \o o
           t == ao \o b
<1>0. n \in Nat /\ i \in Int /\ 1 <= i /\ i <= n + 1 /\ DOMAIN s = 1..n
  OBVIOUS
<1>1. InsertAt(s, i, e) = t
  BY DEF InsertAt
<1>2. a \in Seq(X) /\ Len(a) = i - 1 /\ \A j \in 1..(i - 1) : a[j] = s[j]
  BY <1>0
<1>3. b \in Seq(X) /\ Len(b) = n - i + 1 /\ \A j \in 1..(n - i + 1) : b[j] = s[i + j - 1]
  BY <1>0
<1>4. o \in Seq(X) /\ Len(o) = 1 /\ o[1] = e
  OBVIOUS
<1> HIDE DEF a, b, o, n
<1>5. /\ ao \in Seq(X) /\ Len(ao) = i
      /\ \A j \in 1..(i - 1) : ao[j] = a[j]
      /\ ao[i] = e
  <2> DEFINE h == i - 1
  <2>1. h \in Nat /\ 1 \in Nat /\ i \in (h + 1)..(h + 1) /\ i - h = 1 /\ h + 1 = i
    BY <1>0
  <2>2. Len(a) = h
    BY <1>2
  <2> HIDE DEF h
  <2>3. /\ a \o o \in Seq(X) /\ Len(a \o o) = h + 1
        /\ \A j \in 1..h : (a \o o)[j] = a[j]
        /\ \A j \in (h + 1)..(h + 1) : (a \o o)[j] = o[j - h]
    <3>1. a \in Seq(X) /\ o \in Seq(X) /\ h \in Nat /\ 1 \in Nat /\ Len(a) = h /\ Len(o) = 1
      BY <1>2, <1>4, <2>1, <2>2
    <3>2. Joined(X, a, o, h, 1)
      BY <3>1, ConcatAt
    <3>3. QED
      BY <3>2, Zenon DEF Joined
  <2>4. ao \in Seq(X) /\ Len(ao) = i /\ \A j \in 1..h : ao[j] = a[j]
    BY <2>1, <2>3
  <2>5. ao[i] = o[1]
    BY <2>1, <2>3
  <2>6. QED
    BY <1>4, <2>4, <2>5 DEF h
<1> HIDE DEF ao
<1>6. /\ t \in Seq(X) /\ Len(t) = n + 1 /\ DOMAIN t = 1..(n + 1)
      /\ \A j \in 1..i : t[j] = ao[j]
      /\ \A j \in (i + 1)..(n + 1) : t[j] = b[j - i]
  <2> DEFINE h == n - i + 1
  <2>1. h \in Nat /\ i \in Nat /\ i + h = n + 1
    BY <1>0
  <2>2. Len(b) = h
    BY <1>3
  <2> HIDE DEF h
  <2>3. /\ ao \o b \in Seq(X) /\ Len(ao \o b) = i + h
        /\ \A j \in 1..i : (ao \o b)[j] = ao[j]
        /\ \A j \in (i + 1)..(i + h) : (ao \o b)[j] = b[j - i]
    <3>1. ao \in Seq(X) /\ b \in Seq(X) /\ i \in Nat /\ h \in Nat /\ Len(ao) = i /\ Len(b) = h
      BY <1>3, <1>5, <2>1, <2>2
    <3>2. Joined(X, ao, b, i, h)
      BY <3>1, ConcatAt
    <3>3. QED
      BY <3>2, Zenon DEF Joined
  <2>4. t = ao \o b
    OBVIOUS
  <2> HIDE DEF t
  <2>5. /\ t \in Seq(X) /\ Len(t) = i + h
        /\ \A j \in 1..i : t[j] = ao[j]
        /\ \A j \in (i + 1)..(i + h) : t[j] = b[j - i]
    BY <2>3, <2>4, Zenon
  <2>6. DOMAIN t = 1..Len(t)
    BY <2>5
  <2>7. QED
    BY <2>1, <2>5, <2>6
<1> HIDE DEF t
<1>7. ASSUME NEW j \in 1..(i - 1)
      PROVE  t[j] = s[j] /\ j \in DOMAIN s
  <2>1. j \in 1..i /\ j \in DOMAIN s
    BY <1>0
  <2>2. QED
    BY <1>2, <1>5, <1>6, <2>1
<1>8. t[i] = e
  <2>1. i \in 1..i
    BY <1>0
  <2>2. QED
    BY <1>5, <1>6, <2>1
<1>9. ASSUME NEW j \in i..n
      PROVE  t[j + 1] = s[j] /\ j \in DOMAIN s
  <2> DEFINE l == j + 1 - i
  <2>1. j + 1 \in (i + 1)..(n + 1) /\ l \in 1..(n - i + 1) /\ i + l - 1 = j /\ j \in DOMAIN s
    <3>1. i \in Nat /\ n \in Nat /\ 1 <= i /\ j \in Int /\ i <= j /\ j <= n
      BY <1>0
    <3>2. j + 1 \in (i + 1)..(n + 1) /\ j \in 1..n
      BY <3>1
    <3>3. l \in 1..(n - i + 1) /\ i + l - 1 = j
      BY <3>1
    <3>4. QED
      BY <1>0, <3>2, <3>3
  <2>2. t[j + 1] = b[l]
    <3> DEFINE k == j + 1
    <3>1. k \in (i + 1)..(n + 1) /\ l = k - i
      BY <2>1
    <3> HIDE DEF k, l
    <3>2. t[k] = b[k - i]
      BY <1>6, <3>1
    <3>3. QED
      BY <3>1, <3>2 DEF k
  <2> HIDE DEF l
  <2>3. b[l] = s[i + l - 1]
    BY <1>3, <2>1
  <2>4. QED
    BY <2>1, <2>2, <2>3
<1>10. ASSUME NEW j \in DOMAIN t
       PROVE  t[j] = e \/ \E k \in DOMAIN s : t[j] = s[k]
  <2>1. j \in 1..(n + 1)
    BY <1>6
  <2>2. CASE j < i
    <3>1. j \in 1..(i - 1)
      BY <1>0, <2>1, <2>2
    <3>2. QED
      BY <1>7, <3>1
  <2>3. CASE j = i
    BY <1>8, <2>3
  <2>4. CASE j > i
    <3> DEFINE k == j - 1
    <3>1. k \in i..n /\ k + 1 = j
      BY <1>0, <2>1, <2>4
    <3> HIDE DEF k
    <3>2. QED
      BY <1>9, <3>1
  <2>5. QED
    BY <1>0, <2>1, <2>2, <2>3, <2>4
<1>11. QED
  BY <1>1, <1>6, <1>7, <1>8, <1>9, <1>10 DEF n

(* All of it was there before, or is what was inserted.                     *)
LEMMA Inserted ==
    ASSUME NEW X, NEW s \in Seq(X), NEW i \in 1..(Len(s) + 1), NEW e \in X
    PROVE  LET t == InsertAt(s, i, e)
           IN  /\ t \in Seq(X) /\ Len(t) = Len(s) + 1
               /\ \A j \in DOMAIN t : t[j] = e \/ \E k \in DOMAIN s : t[j] = s[k]
  BY InsertedAt

-----------------------------------------------------------------------------
(* Loading an order. *)

(* While the book is read and priced.                                       *)
OpenOK(c, v) == Shaped(c) /\ PricingOK(c) /\ Unfilled(c) /\ Snapshots(c, v)

(* The fields that neither a row nor an entry is in.                        *)
SameRest(c, d) ==
    /\ DOMAIN d = ObjectFields
    /\ d.pricing = c.pricing /\ d.alloc = c.alloc /\ d.fills = c.fills
    /\ d.stage = c.stage /\ d.cursor = c.cursor
    /\ d.fee_bps = c.fee_bps /\ d.quote_paid = c.quote_paid
    /\ d.quote_recv = c.quote_recv /\ d.fee_quote = c.fee_quote

(* A row says what the account has.                                         *)
LEMMA RowTaken ==
    ASSUME NEW v, VaultOK(v), NEW who
    PROVE  /\ snapshot_of(v, who) \in Row
           /\ \A s \in BOOLEAN : Held(snapshot_of(v, who), s) <= Has(v, s, who)
<1> DEFINE r == snapshot_of(v, who)
<1>1. Has(v, TRUE, who) \in Nat /\ Has(v, FALSE, who) \in Nat
  BY HasNat
<1>2. r = [base |-> Has(v, FALSE, who), quote |-> Has(v, TRUE, who)]
  BY DEF snapshot_of, Has
<1>3. \A s \in BOOLEAN : Held(r, s) = Has(v, s, who)
  <2>1. r.base = Has(v, FALSE, who) /\ r.quote = Has(v, TRUE, who)
    BY <1>2
  <2>2. Held(r, TRUE) = Has(v, TRUE, who) /\ Held(r, FALSE) = Has(v, FALSE, who)
    BY <2>1 DEF Held
  <2>3. QED
    BY <2>2
<1>4. r \in Row
  <2> DEFINE x == Has(v, FALSE, who)
             y == Has(v, TRUE, who)
  <2>1. r = [base |-> x, quote |-> y] /\ x \in Nat /\ y \in Nat
    BY <1>1, <1>2
  <2> HIDE DEF r, x, y
  <2>2. QED
    BY <2>1 DEF Row
<1> HIDE DEF r
<1>5. \A s \in BOOLEAN : Held(r, s) <= Has(v, s, who)
  <2> SUFFICES ASSUME NEW s \in BOOLEAN
               PROVE  Held(r, s) <= Has(v, s, who)
    OBVIOUS
  <2>1. Has(v, s, who) \in Nat /\ Held(r, s) = Has(v, s, who)
    BY <1>3, HasNat
  <2>2. QED
    BY <2>1
<1>6. QED
  BY <1>4, <1>5 DEF r

(* The submitter of an order has a row.                                     *)
LEMMA RowJoins ==
    ASSUME NEW c, NEW v, OpenOK(c, v), VaultOK(v), NEW who,
           NEW d, d = ensure_funding_row(c, v, who)
    PROVE  OpenOK(d, v) /\ SameRest(c, d) /\ who \in DOMAIN d.funding
<1>1. DOMAIN c = ObjectFields /\ Shaped(c) /\ PricingOK(c) /\ Unfilled(c) /\ Snapshots(c, v)
  BY DEF OpenOK, Shaped
<1>2. CASE who \in DOMAIN c.funding
  <2>1. d = c
    BY <1>2 DEF ensure_funding_row
  <2>2. QED
    BY <1>1, <1>2, <2>1 DEF OpenOK, SameRest
<1>3. CASE who \notin DOMAIN c.funding
  <2> DEFINE row == snapshot_of(v, who)
             fs == [a \in DOMAIN c.funding \cup {who} |-> IF a = who THEN row ELSE c.funding[a]]
  <2>1. d = [c EXCEPT !.funding = fs]
    BY <1>3 DEF ensure_funding_row
  <2>2. row \in Row /\ \A s \in BOOLEAN : Held(row, s) <= Has(v, s, who)
    BY RowTaken
  <2> HIDE DEF row
  <2>3. /\ DOMAIN fs = DOMAIN c.funding \cup {who} /\ fs[who] = row
        /\ \A a \in DOMAIN c.funding : fs[a] = c.funding[a]
    BY <1>3
  <2> HIDE DEF fs
  <2>4. SameRest(c, d) /\ d.entries = c.entries /\ d.funding = fs
    BY <1>1, <2>1 DEF SameRest, ObjectFields
  <2>5. Shaped(d)
    <3>1. \A a \in DOMAIN fs : fs[a] \in Row
      BY <1>1, <2>2, <2>3 DEF Shaped
    <3>2. EntriesOK(d) /\ AllocOK(d)
      BY <1>1, <2>3, <2>4 DEF SameRest, Shaped, EntriesOK, AllocOK
    <3>3. Paid(d)
      BY <1>1, <2>4, PaidStays DEF SameRest
    <3>4. QED
      BY <1>1, <2>4, <3>1, <3>2, <3>3 DEF SameRest, Shaped
  <2>6. PricingOK(d) /\ Unfilled(d)
    BY <1>1, <2>4 DEF SameRest, PricingOK, Unfilled
  <2>7. Snapshots(d, v)
    BY <1>1, <2>2, <2>3, <2>4 DEF Snapshots
  <2>8. QED
    BY <2>3, <2>4, <2>5, <2>6, <2>7 DEF OpenOK
<1>4. QED
  BY <1>2, <1>3

(* An order joins its side.                                                 *)
LEMMA EntryJoins ==
    ASSUME NEW c, NEW v, OpenOK(c, v), NEW e \in Entry, e.fill_base = 0,
           e.submitter \in DOMAIN c.funding, NEW d, d = insert_canonical(c, e)
    PROVE  OpenOK(d, v) /\ SameRest(c, d)
<1> DEFINE t == e.is_bid
           old == c.entries[t]
           n == Len(old)
           S == {j \in 0..n : \A i \in 1..j : ~precedes(e, old[i])}
           m == Max(S)
           new == InsertAt(old, m + 1, e)
           es == [c.entries EXCEPT ![t] = new]
<1>1. /\ DOMAIN c = ObjectFields /\ Shaped(c) /\ PricingOK(c) /\ Unfilled(c) /\ Snapshots(c, v)
      /\ c.entries \in [BOOLEAN -> Seq(Entry)]
  BY DEF OpenOK, Shaped, EntriesOK
<1>2. t \in BOOLEAN
  BY DEF Entry
<1>3. d = [c EXCEPT !.entries = es]
  BY DEF insert_canonical, prefix
<1> HIDE DEF t
<1>4. old \in Seq(Entry) /\ n \in Nat
  BY <1>1, <1>2
<1>5. m + 1 \in 1..(n + 1)
  <2>1. S \subseteq 0..n /\ 0 \in S
    BY <1>4
  <2> HIDE DEF S
  <2>2. m \in 0..n
    BY <1>4, <2>1, PrefixWithin
  <2> HIDE DEF m, n
  <2>3. QED
    BY <1>4, <2>2
<1> HIDE DEF m
<1>6. /\ new \in Seq(Entry) /\ Len(new) = n + 1
      /\ \A j \in DOMAIN new : new[j] = e \/ \E k \in DOMAIN old : new[j] = old[k]
  BY <1>4, <1>5, Inserted
<1> HIDE DEF new
<1>7. /\ es \in [BOOLEAN -> Seq(Entry)]
      /\ \A s \in BOOLEAN : es[s] = IF s = t THEN new ELSE c.entries[s]
  BY <1>1, <1>2, <1>6
<1>8. \A s \in BOOLEAN : \A i \in DOMAIN es[s] :
         \/ s = t /\ es[s][i] = e
         \/ \E k \in DOMAIN c.entries[s] : es[s][i] = c.entries[s][k]
  BY <1>6, <1>7
<1> HIDE DEF es
<1>9. SameRest(c, d) /\ d.entries = es /\ d.funding = c.funding
  BY <1>1, <1>3 DEF SameRest, ObjectFields
<1>10. EntriesOK(d)
  <2> SUFFICES ASSUME NEW s \in BOOLEAN, NEW i \in DOMAIN es[s]
               PROVE  es[s][i].is_bid = s /\ es[s][i].submitter \in DOMAIN c.funding
    BY <1>7, <1>9 DEF EntriesOK
  <2>1. CASE s = t /\ es[s][i] = e
    BY <2>1 DEF t
  <2>2. CASE \E k \in DOMAIN c.entries[s] : es[s][i] = c.entries[s][k]
    BY <1>1, <2>2 DEF Shaped, EntriesOK
  <2>3. QED
    BY <1>8, <2>1, <2>2
<1>11. AllocOK(d)
  <2>1. \A s \in BOOLEAN : d.alloc.elig[s] <= Len(d.entries[s])
    <3> SUFFICES ASSUME NEW s \in BOOLEAN
                 PROVE  c.alloc.elig[s] <= Len(es[s])
      BY <1>9 DEF SameRest
    <3>1. c.alloc.elig[s] \in Nat /\ c.alloc.elig[s] <= Len(c.entries[s])
      BY <1>1 DEF Shaped, AllocOK
    <3>2. CASE s = t
      BY <1>4, <1>6, <1>7, <3>1, <3>2
    <3>3. CASE s # t
      BY <1>7, <3>1, <3>3
    <3>4. QED
      BY <3>2, <3>3
  <2>2. QED
    BY <1>1, <1>9, <2>1 DEF SameRest, Shaped, AllocOK
<1>12. Shaped(d)
  <2>1. Paid(d)
    BY <1>1, <1>9, PaidStays DEF SameRest
  <2>2. QED
    BY <1>1, <1>9, <1>10, <1>11, <2>1 DEF SameRest, Shaped
<1>13. Unfilled(d)
  <2>1. ASSUME NEW s \in BOOLEAN, NEW i \in DOMAIN es[s]
        PROVE  es[s][i].fill_base = 0
    BY <1>1, <1>8 DEF Unfilled
  <2>2. QED
    BY <1>1, <1>9, <2>1 DEF SameRest, Unfilled
<1>14. PricingOK(d) /\ Snapshots(d, v)
  BY <1>1, <1>9 DEF SameRest, PricingOK, Snapshots
<1>15. QED
  BY <1>9, <1>12, <1>13, <1>14 DEF OpenOK

(* The revealed orders are a sequence.                                      *)
LEMMA RevealedLength ==
    ASSUME BatchOK
    PROVE  Len(batch.revealed) \in Nat
BY ClearingAssumption DEF BatchOK

(* What was revealed is an order.                                           *)
LEMMA RevealedOrder ==
    ASSUME BatchOK, NEW i \in 1..Len(batch.revealed), batch.is_revealed[i]
    PROVE  batch.revealed[i] \in Order
<1>1. PICK b \in Batches : batch.revealed = b.revealed /\ batch.is_revealed = b.is_revealed
  BY DEF BatchOK
<1>2. i \in DOMAIN b.revealed
  <2>1. b.revealed \in Seq([submitter : Nat, is_bid : BOOLEAN, limit_price : Nat, qty_sats : Nat])
    BY ClearingAssumption
  <2>2. QED
    BY <1>1, <2>1
<1>3. QED
  BY <1>1, <1>2, ClearingAssumption

LoadTurn(c, k) == [load_unit(c, batch, vault) EXCEPT !.cursor = c.cursor + 1]

(* Moving the cursor, and nothing else.                                     *)
LEMMA CursorMoves ==
    ASSUME NEW c, NEW v, OpenOK(c, v), NEW d, Passed(c, d)
    PROVE  OpenOK(d, v) /\ d.stage = c.stage /\ d.pricing = c.pricing
<1>1. Shaped(c)
  BY DEF OpenOK
<1>2. /\ Shaped(d) /\ d.entries = c.entries /\ d.alloc = c.alloc /\ d.funding = c.funding
      /\ d.stage = c.stage /\ d.fills = c.fills
  BY <1>1, PassedTurn
<1>3. d.pricing = c.pricing
  BY DEF Passed, ObjectFields
<1>4. QED
  BY <1>2, <1>3 DEF OpenOK, PricingOK, Unfilled, Snapshots

(* A turn of load_step takes the row and the entry of one revealed order.   *)
LEMMA LoadTurnKeeps ==
    ASSUME NEW c, OpenOK(c, vault), VaultOK(vault), BatchOK, c.cursor < Len(batch.revealed),
           NEW k, NEW d, d = LoadTurn(c, k)
    PROVE  OpenOK(d, vault) /\ d.stage = c.stage /\ d.cursor = c.cursor + 1
<1> DEFINE i == c.cursor + 1
           o == batch.revealed[i]
           e == [order_index |-> i, submitter |-> o.submitter, is_bid |-> o.is_bid,
                 limit_price |-> o.limit_price, qty_sats |-> o.qty_sats,
                 fill_base |-> 0, frac |-> 0, bumped |-> FALSE]
           f == ensure_funding_row(c, vault, o.submitter)
           g == insert_canonical(f, e)
           x == load_unit(c, batch, vault)
<1>1. c.cursor \in Nat /\ DOMAIN c = ObjectFields
  BY DEF OpenOK, Shaped
<1>2. x = IF ~batch.is_revealed[i] THEN c ELSE IF o.qty_sats > 0 THEN g ELSE f
  BY DEF load_unit
<1>3. OpenOK(f, vault) /\ SameRest(c, f) /\ o.submitter \in DOMAIN f.funding
  BY RowJoins
<1> HIDE DEF f
<1>4. ASSUME batch.is_revealed[i]
      PROVE  OpenOK(g, vault) /\ SameRest(f, g)
  <2>1. i \in 1..Len(batch.revealed)
    <3>1. Len(batch.revealed) \in Nat
      BY RevealedLength
    <3>2. QED
      BY <1>1, <3>1
  <2>2. o \in Order
    BY <1>4, <2>1, RevealedOrder
  <2> HIDE DEF o
  <2>3. i \in Nat
    BY <1>1
  <2> HIDE DEF i
  <2>4. e \in Entry /\ e.fill_base = 0 /\ e.submitter = o.submitter
    BY <2>2, <2>3 DEF Entry, Order
  <2> HIDE DEF e
  <2>5. QED
    BY <1>3, <2>4, EntryJoins
<1> HIDE DEF g
<1>5. OpenOK(x, vault) /\ DOMAIN x = ObjectFields /\ x.stage = c.stage /\ x.cursor = c.cursor
  <2>1. CASE ~batch.is_revealed[i]
    BY <1>1, <1>2, <2>1
  <2>2. CASE batch.is_revealed[i] /\ o.qty_sats > 0
    <3>1. x = g
      BY <1>2, <2>2
    <3>2. QED
      BY <1>3, <1>4, <2>2, <3>1 DEF SameRest
  <2>3. CASE batch.is_revealed[i] /\ ~ (o.qty_sats > 0)
    <3>1. x = f
      BY <1>2, <2>3
    <3>2. QED
      BY <1>3, <3>1 DEF SameRest
  <2>4. QED
    BY <2>1, <2>2, <2>3
<1>6. d = [x EXCEPT !.cursor = i]
  BY DEF LoadTurn
<1> HIDE DEF x
<1>7. d.cursor = i /\ Passed(x, d)
  BY <1>1, <1>5, <1>6 DEF Passed, ObjectFields
<1>8. QED
  BY <1>5, <1>7, CursorMoves

LoadHolds(k, x) ==
    OpenOK(x, vault) /\ x.stage = clearing.stage /\ x.cursor = clearing.cursor + k

Load == INSTANCE LoopRules WITH Body <- LoadTurn, Holds <- LoadHolds

(* The premise of the rules of this instance.                               *)
LEMMA LoadInduction ==
    Load!Induction
  BY NatSetInduction DEF Load!Induction

(* However many orders a budget pays for loading.                           *)
LEMMA LoadLoop ==
    ASSUME OpenOK(clearing, vault), VaultOK(vault), BatchOK,
           clearing.cursor <= Len(batch.revealed), NEW budget \in Nat,
           NEW d, d = Advance(clearing, Len(batch.revealed), budget,
                              LAMBDA x : load_unit(x, batch, vault))
    PROVE  /\ OpenOK(d, vault) /\ d.stage = clearing.stage
           /\ d.cursor <= Len(batch.revealed)
<1> DEFINE total == Len(batch.revealed)
           n == min_u64(budget, total - clearing.cursor)
<1>1. total \in Nat /\ clearing.cursor \in Nat
  <2>2. total \in Nat
    BY RevealedLength
  <2>3. QED
    BY <2>2 DEF OpenOK, Shaped
<1> HIDE DEF total
<1>2. n \in Nat /\ clearing.cursor + n <= total
  BY <1>1, TurnsLeft DEF total
<1>3. d = Load!LoopFrom(clearing)[n]
  BY DEF Advance, Load!LoopFrom, Load!Turns, LoadTurn, total
<1> HIDE DEF n
<1>4. LoadHolds(0, clearing)
  BY <1>1 DEF LoadHolds
<1>5. ASSUME NEW k \in 0..(n - 1), NEW x, LoadHolds(k, x)
      PROVE  LoadHolds(k + 1, LoadTurn(x, k + 1))
  <2>1. x.cursor < Len(batch.revealed)
    BY <1>1, <1>2, <1>5 DEF LoadHolds, total
  <2> DEFINE y == LoadTurn(x, k + 1)
  <2>2. OpenOK(y, vault) /\ y.stage = x.stage /\ y.cursor = x.cursor + 1
    BY <1>5, <2>1, LoadTurnKeeps DEF LoadHolds
  <2> HIDE DEF y
  <2>3. y.cursor = clearing.cursor + (k + 1)
    BY <1>1, <1>5, <2>2 DEF LoadHolds
  <2>4. QED
    BY <1>5, <2>2, <2>3 DEF LoadHolds, y
<1>6. LoadHolds(n, Load!LoopFrom(clearing)[n])
  BY <1>2, <1>4, <1>5, LoadInduction, Load!LoopRule
<1>7. QED
  BY <1>1, <1>2, <1>3, <1>6 DEF LoadHolds, total

-----------------------------------------------------------------------------
(* Pricing the book. *)

(* An unfilled book costs nobody anything.                                  *)
LEMMA NothingIsDue ==
    ASSUME NEW c, Shaped(c), Unfilled(c), NEW v, VaultOK(v)
    PROVE  DueCovered(c, v)
<1> SUFFICES ASSUME NEW who \in DOMAIN c.funding, NEW s \in BOOLEAN
             PROVE  SumOf(Due(c, s, who), DOMAIN c.entries[s]) <= Has(v, s, who)
  BY DEF DueCovered
<1> DEFINE f == Due(c, s, who)
           T == DOMAIN c.entries[s]
<1>1. IsFiniteSet(T)
  BY DueFacts
<1>2. \A i \in T : f[i] = 0
  <2>1. \A i \in T : c.entries[s][i].fill_base = 0
    BY DEF Unfilled
  <2>2. QED
    BY <2>1, DueFacts
<1>3. Has(v, s, who) \in Nat
  BY HasNat
<1> HIDE DEF f, T
<1>4. SumOf(f, T) = 0
  BY <1>1, <1>2, SumZeros
<1>5. QED
  BY <1>3, <1>4 DEF f, T

(* The allocation that pricing makes of the one there was.                  *)
PricedAlloc(a, p, elig, matched, b) ==
    /\ DOMAIN b = AllocFields /\ b.clearing_price = p /\ b.elig = elig
    /\ b.matched_base = matched /\ b.awarded = a.awarded
    /\ b.remainder_side = a.remainder_side

(* The first pass begins with an unfilled book.                             *)
LEMMA FullBegins ==
    ASSUME NEW c, NEW v, OpenOK(c, v), NEW p \in Nat \ {0}, NEW matched \in Nat,
           NEW elig \in [BOOLEAN -> Nat], \A s \in BOOLEAN : elig[s] <= Len(c.entries[s]),
           NEW a, PricedAlloc(c.alloc, p, elig, matched, a), NEW b,
           NEW d, d = [c EXCEPT !.alloc = a, !.cursor = 0, !.stage = STAGE_ALLOC_FULL]
    PROVE  ClearingOK(d, b, v)
<1>1. DOMAIN c = ObjectFields /\ Shaped(c) /\ PricingOK(c) /\ Unfilled(c) /\ Snapshots(c, v)
  BY DEF OpenOK, Shaped
<1>2. /\ DOMAIN d = ObjectFields /\ d.alloc = a /\ d.cursor = 0 /\ d.stage = STAGE_ALLOC_FULL
      /\ d.entries = c.entries /\ d.funding = c.funding /\ d.fills = c.fills
      /\ d.fee_bps = c.fee_bps /\ d.quote_paid = c.quote_paid
      /\ d.quote_recv = c.quote_recv /\ d.fee_quote = c.fee_quote
  BY <1>1 DEF ObjectFields
<1>3. /\ DOMAIN a = AllocFields /\ a.clearing_price = p /\ a.elig = elig
      /\ a.matched_base = matched /\ a.awarded = c.alloc.awarded
      /\ a.remainder_side = c.alloc.remainder_side
  BY DEF PricedAlloc
<1>4. Shaped(d)
  <2>1. EntriesOK(d)
    BY <1>1, <1>2 DEF Shaped, EntriesOK
  <2>2. AllocOK(d)
    BY <1>1, <1>2, <1>3 DEF Shaped, AllocOK
  <2>3. Paid(d)
    BY <1>1, <1>2, PaidStays
  <2>4. QED
    BY <1>1, <1>2, <2>1, <2>2, <2>3, StagesDiffer DEF Shaped
<1>5. Priced(d) /\ Beyond(d) /\ Snapshots(d, v)
  BY <1>1, <1>2, <1>3 DEF Unfilled, Priced, Beyond, Snapshots
<1>6. FullPass(d)
  <2>1. \A s \in BOOLEAN : d.alloc.awarded[s] = 0
    BY <1>1, <1>2, <1>3 DEF Unfilled
  <2>2. ASSUME NEW s \in BOOLEAN, NEW i \in Eligible(d, s)
        PROVE  ~ (TurnOf(d, s, i) <= d.cursor)
    <3>1. TurnOf(d, s, i) \in 1..eligible_count(d) /\ eligible_count(d) \in Nat
      BY <1>4, EligibleCount
    <3>2. QED
      BY <1>2, <3>1
  <2>3. QED
    BY <2>1, <2>2 DEF FullPass, Eligible
<1>7. Allocating(d, v)
  <2>1. d.cursor <= eligible_count(d)
    BY <1>2, <1>4, EligibleCount
  <2>2. Passing(d)
    BY <1>2, <1>6, <2>1, StagesDiffer DEF Passing
  <2>3. d.stage \notin SecondPass
    BY <1>2, StagesDiffer DEF SecondPass
  <2>4. QED
    BY <1>5, <2>2, <2>3 DEF Allocating
<1>8. d.stage \in FirstPass \cup SecondPass
  BY <1>2 DEF FirstPass
<1>9. QED
  BY <1>4, <1>7, <1>8, AllocatingIsOK

(* The prices are gone over: there is one and a first pass, or nothing to   *)
(* fill.                                                                    *)
LEMMA PricingEnds ==
    ASSUME NEW c, NEW v, OpenOK(c, v), VaultOK(v), NEW b, NEW d, d = finish_pricing(c)
    PROVE  ClearingOK(d, b, v)
<1>1. DOMAIN c = ObjectFields /\ Shaped(c) /\ PricingOK(c) /\ Unfilled(c) /\ Snapshots(c, v)
  BY DEF OpenOK, Shaped
<1>2. DOMAIN c.alloc = AllocFields /\ c.entries \in [BOOLEAN -> Seq(Entry)]
  BY <1>1 DEF Shaped, AllocOK, EntriesOK
<1>3. CASE ~c.pricing.found
  <2>1. d = [c EXCEPT !.cursor = 0, !.stage = STAGE_ROOTING]
    BY <1>3 DEF finish_pricing, enter
  <2>2. /\ DOMAIN d = ObjectFields /\ d.cursor = 0 /\ d.stage = STAGE_ROOTING
        /\ d.alloc = c.alloc /\ d.entries = c.entries /\ d.funding = c.funding
        /\ d.fills = c.fills
        /\ d.fee_bps = c.fee_bps /\ d.quote_paid = c.quote_paid
        /\ d.quote_recv = c.quote_recv /\ d.fee_quote = c.fee_quote
    BY <1>1, <2>1 DEF ObjectFields
  <2>3. Paid(d)
    BY <1>1, <2>2, PaidStays
  <2>4. Entered(c, d, STAGE_ROOTING)
    BY <1>1, <2>2, <2>3 DEF Entered, Shaped, AllocOK
  <2>5. DueCovered(c, v) /\ c.fills = <<>>
    BY <1>1, NothingIsDue DEF Unfilled
  <2>6. QED
    BY <1>1, <2>4, <2>5, RootingBegins
<1>4. CASE c.pricing.found
  <2> DEFINE p == c.pricing.best_price
             S(s) == {n \in 0..Len(c.entries[s]) : \A j \in 1..n :
                         IF s THEN c.entries[s][j].limit_price >= p
                         ELSE c.entries[s][j].limit_price <= p}
             elig == [s \in BOOLEAN |-> Max(S(s))]
             offered(s) == qty_over(c.entries[s], 1..elig[s])
             matched == min_u64(offered(TRUE), offered(FALSE))
             a == [c.alloc EXCEPT !.clearing_price = p, !.elig = elig, !.matched_base = matched]
  <2>1. d = [c EXCEPT !.alloc = a, !.cursor = 0, !.stage = STAGE_ALLOC_FULL]
    BY <1>4 DEF finish_pricing, enter, prefix
  <2>2. p \in Nat \ {0}
    BY <1>1, <1>4 DEF PricingOK
  <2>3. ASSUME NEW s \in BOOLEAN
        PROVE  elig[s] \in 0..Len(c.entries[s])
    <3> DEFINE m == Len(c.entries[s])
               T == S(s)
    <3>1. m \in Nat
      BY <1>2
    <3>2. T \subseteq 0..m /\ 0 \in T
      BY <3>1
    <3>3. elig[s] = Max(T)
      OBVIOUS
    <3> HIDE DEF m, T, elig
    <3>4. Max(T) \in T
      BY <3>1, <3>2, PrefixWithin
    <3>5. QED
      BY <3>2, <3>3, <3>4 DEF m
  <2>4. elig \in [BOOLEAN -> Nat] /\ \A s \in BOOLEAN : elig[s] <= Len(c.entries[s])
    <3> HIDE DEF S
    <3>1. elig = [s \in BOOLEAN |-> elig[s]]
      OBVIOUS
    <3> HIDE DEF elig
    <3>2. \A s \in BOOLEAN : elig[s] \in Nat /\ elig[s] <= Len(c.entries[s])
      BY <1>2, <2>3
    <3>3. QED
      BY <3>1, <3>2
  <2> HIDE DEF p, elig
  <2>5. ASSUME NEW s \in BOOLEAN
        PROVE  offered(s) \in Nat
    <3>1. c.entries[s] \in Seq(Entry) /\ 1..elig[s] \subseteq DOMAIN c.entries[s]
      BY <1>2, <2>3
    <3>2. QED
      BY <3>1, QtyOver
  <2>6. matched \in Nat
    <3>1. offered(TRUE) \in Nat /\ offered(FALSE) \in Nat
      BY <2>5
    <3> HIDE DEF offered
    <3>2. QED
      BY <3>1 DEF min_u64
  <2> HIDE DEF matched
  <2>7. PricedAlloc(c.alloc, p, elig, matched, a)
    BY <1>2 DEF PricedAlloc, AllocFields
  <2> HIDE DEF a
  <2>8. QED
    BY <2>1, <2>2, <2>4, <2>6, <2>7, FullBegins
<1>5. QED
  BY <1>3, <1>4

(* Only the prices under consideration, the stage and the cursor change.    *)
Repriced(c, d) ==
    /\ DOMAIN d = ObjectFields
    /\ d.entries = c.entries /\ d.alloc = c.alloc /\ d.funding = c.funding /\ d.fills = c.fills
    /\ d.fee_bps = c.fee_bps /\ d.quote_paid = c.quote_paid
    /\ d.quote_recv = c.quote_recv /\ d.fee_quote = c.fee_quote
    /\ d.cursor \in Nat /\ d.stage \in Stages

(* Going over prices touches neither the book nor the snapshots.            *)
LEMMA RepricedIsOK ==
    ASSUME NEW c, NEW v, OpenOK(c, v), NEW d, Repriced(c, d), PricingOK(d)
    PROVE  OpenOK(d, v)
<1>1. Shaped(c) /\ Unfilled(c) /\ Snapshots(c, v)
  BY DEF OpenOK
<1>2. EntriesOK(d) /\ AllocOK(d)
  BY <1>1 DEF Repriced, Shaped, EntriesOK, AllocOK
<1>3. Paid(d)
  BY <1>1, PaidStays DEF Repriced
<1>4. Shaped(d)
  BY <1>1, <1>2, <1>3 DEF Repriced, Shaped
<1>5. Unfilled(d) /\ Snapshots(d, v)
  BY <1>1 DEF Repriced, Unfilled, Snapshots
<1>6. QED
  BY <1>4, <1>5 DEF OpenOK

(* While the book is read or priced, that is all there is to say.           *)
LEMMA OpenIsOK ==
    ASSUME NEW c, NEW b, NEW v, OpenOK(c, v), c.stage \in {STAGE_LOADING, STAGE_PRICING},
           c.stage = STAGE_LOADING => c.cursor <= Len(b.revealed),
           c.stage = STAGE_PRICING => c.cursor <= Len(c.pricing.candidates)
    PROVE  ClearingOK(c, b, v)
BY StagesDiffer
   DEF OpenOK, ClearingOK, Opening, Allocating, FirstPass, SecondPass, Truncating, Rooting, Settling

PriceTurn(c, k) == [price_unit(c) EXCEPT !.cursor = c.cursor + 1]

(* A turn of price_step looks at one price.                                 *)
LEMMA PriceTurnKeeps ==
    ASSUME NEW c, NEW v, OpenOK(c, v), c.cursor < Len(c.pricing.candidates),
           NEW k, NEW d, d = PriceTurn(c, k)
    PROVE  /\ OpenOK(d, v) /\ d.stage = c.stage /\ d.cursor = c.cursor + 1
           /\ d.pricing.candidates = c.pricing.candidates
<1> DEFINE q == c.pricing
           p == q.candidates[c.cursor + 1]
           bids == c.entries[TRUE]
           asks == c.entries[FALSE]
           bid_scan == Max({0} \cup {i \in 1..q.bid_scan : bids[i].limit_price >= p})
           ask_scan == q.ask_scan + prefix(SubSeq(asks, q.ask_scan + 1, Len(asks)),
                                           LAMBDA e : e.limit_price <= p)
           demand == q.demand_remaining - qty_over(bids, bid_scan + 1..q.bid_scan)
           supply == q.supply_acc + qty_over(asks, q.ask_scan + 1..ask_scan)
           vol == min_u64(demand, supply)
           gap == abs_diff_u64(demand, supply)
           better == improves(q, vol, gap)
           scanned == [q EXCEPT !.demand_remaining = demand, !.bid_scan = bid_scan,
                                !.supply_acc = supply, !.ask_scan = ask_scan]
           found == [scanned EXCEPT !.found = TRUE, !.best_vol = vol, !.best_gap = gap,
                                    !.best_price = p]
           new == IF better THEN found ELSE scanned
           n == c.cursor + 1
<1>1. d = [c EXCEPT !.pricing = new, !.cursor = n]
  BY DEF PriceTurn, price_unit
<1>2. DOMAIN c = ObjectFields /\ c.cursor \in Nat /\ PricingOK(c) /\ c.stage \in Stages
  BY DEF OpenOK, Shaped
<1>3. p \in Nat \ {0}
  BY <1>2 DEF PricingOK
<1> HIDE DEF p, bids, asks, bid_scan, ask_scan, demand, supply, vol, gap, better
<1>4. /\ DOMAIN q = {"candidates", "demand_remaining", "bid_scan", "supply_acc", "ask_scan",
                      "found", "best_price", "best_vol", "best_gap"}
      /\ q.candidates \in Seq(Nat \ {0})
      /\ q.found => q.best_price \in Nat \ {0}
  BY <1>2 DEF PricingOK
<1> HIDE DEF q
<1>5. /\ DOMAIN scanned = DOMAIN q /\ scanned.candidates = q.candidates
      /\ scanned.found = q.found /\ scanned.best_price = q.best_price
  BY <1>4
<1> HIDE DEF scanned
<1>6. DOMAIN found = DOMAIN q /\ found.candidates = q.candidates /\ found.best_price = p
  BY <1>4, <1>5
<1> HIDE DEF found
<1>7. /\ DOMAIN new = DOMAIN q /\ new.candidates = q.candidates
      /\ new.found => new.best_price \in Nat \ {0}
  BY <1>3, <1>4, <1>5, <1>6
<1> HIDE DEF new
<1>8. Repriced(c, d) /\ d.pricing = new /\ d.cursor = n /\ d.stage = c.stage
  <2>1. n \in Nat
    BY <1>2
  <2> HIDE DEF n
  <2>2. QED
    BY <1>1, <1>2, <2>1 DEF Repriced, ObjectFields
<1>9. PricingOK(d)
  BY <1>4, <1>7, <1>8 DEF PricingOK
<1>10. OpenOK(d, v)
  BY <1>8, <1>9, RepricedIsOK
<1>11. QED
  BY <1>7, <1>8, <1>10 DEF q

PriceHolds(k, x) ==
    /\ OpenOK(x, vault) /\ x.stage = clearing.stage /\ x.cursor = clearing.cursor + k
    /\ x.pricing.candidates = clearing.pricing.candidates

Price == INSTANCE LoopRules WITH Body <- PriceTurn, Holds <- PriceHolds

(* The premise of the rules of this instance.                               *)
LEMMA PriceInduction ==
    Price!Induction
  BY NatSetInduction DEF Price!Induction

(* However many prices a budget pays for.                                   *)
LEMMA PriceLoop ==
    ASSUME OpenOK(clearing, vault), clearing.cursor <= Len(clearing.pricing.candidates),
           NEW budget \in Nat,
           NEW d, d = Advance(clearing, Len(clearing.pricing.candidates), budget, price_unit)
    PROVE  /\ OpenOK(d, vault) /\ d.stage = clearing.stage
           /\ d.pricing.candidates = clearing.pricing.candidates
           /\ d.cursor <= Len(clearing.pricing.candidates)
<1> DEFINE total == Len(clearing.pricing.candidates)
           n == min_u64(budget, total - clearing.cursor)
<1>1. total \in Nat /\ clearing.cursor \in Nat
  BY DEF OpenOK, Shaped, PricingOK
<1> HIDE DEF total
<1>2. n \in Nat /\ clearing.cursor + n <= total
  BY <1>1, TurnsLeft DEF total
<1>3. d = Price!LoopFrom(clearing)[n]
  BY DEF Advance, Price!LoopFrom, Price!Turns, PriceTurn, total
<1> HIDE DEF n
<1>4. PriceHolds(0, clearing)
  BY <1>1 DEF PriceHolds
<1>5. ASSUME NEW k \in 0..(n - 1), NEW x, PriceHolds(k, x)
      PROVE  PriceHolds(k + 1, PriceTurn(x, k + 1))
  <2>1. x.cursor < Len(x.pricing.candidates)
    BY <1>1, <1>2, <1>5 DEF PriceHolds, total
  <2> DEFINE y == PriceTurn(x, k + 1)
  <2>2. /\ OpenOK(y, vault) /\ y.stage = x.stage /\ y.cursor = x.cursor + 1
        /\ y.pricing.candidates = x.pricing.candidates
    BY <1>5, <2>1, PriceTurnKeeps DEF PriceHolds
  <2> HIDE DEF y
  <2>3. y.cursor = clearing.cursor + (k + 1)
    BY <1>1, <1>5, <2>2 DEF PriceHolds
  <2>4. QED
    BY <1>5, <2>2, <2>3 DEF PriceHolds, y
<1>6. PriceHolds(n, Price!LoopFrom(clearing)[n])
  BY <1>2, <1>4, <1>5, PriceInduction, Price!LoopRule
<1>7. QED
  BY <1>1, <1>2, <1>3, <1>6 DEF PriceHolds, total

(* A transaction of STAGE_PRICING keeps the invariant.                      *)
LEMMA PriceStep ==
    ASSUME Shaped(clearing), Opening(clearing, batch, vault), VaultOK(vault),
           clearing.stage = STAGE_PRICING, NEW budget \in Nat,
           NEW d, d = price_step(clearing, budget)
    PROVE  ClearingOK(d, batch, vault)
<1> DEFINE total == Len(clearing.pricing.candidates)
           x == Advance(clearing, total, budget, price_unit)
<1>1. OpenOK(clearing, vault) /\ clearing.cursor <= total
  BY DEF Opening, OpenOK
<1>2. /\ OpenOK(x, vault) /\ x.stage = clearing.stage /\ x.cursor <= total
      /\ x.pricing.candidates = clearing.pricing.candidates
  BY <1>1, PriceLoop
<1>3. d = IF x.cursor >= total THEN finish_pricing(x) ELSE x
  BY DEF price_step
<1> HIDE DEF x
<1>4. CASE x.cursor >= total
  BY <1>2, <1>3, <1>4, PricingEnds
<1>5. CASE ~ (x.cursor >= total)
  <2>1. d = x /\ x.cursor <= Len(x.pricing.candidates) /\ x.stage = STAGE_PRICING
    BY <1>2, <1>3, <1>5
  <2>2. QED
    BY <1>2, <2>1, OpenIsOK, StagesDiffer
<1>6. QED
  BY <1>4, <1>5

(* Some price is above all of a side.                                       *)
LEMMA LimitsAreBounded ==
    ASSUME NEW s \in Seq(Entry)
    PROVE  \E m \in Nat : \A i \in DOMAIN s : s[i].limit_price \in Nat \ {0} /\ s[i].limit_price <= m
<1> DEFINE f == [i \in DOMAIN s |-> s[i].limit_price]
           T == DOMAIN s
<1>1. \A i \in T : f[i] \in Nat \ {0}
  <2> SUFFICES ASSUME NEW i \in DOMAIN s
               PROVE  s[i].limit_price \in Nat \ {0}
    OBVIOUS
  <2>1. s[i] \in Entry
    OBVIOUS
  <2>2. QED
    BY <2>1 DEF Entry
<1>2. IsFiniteSet(T)
  <2>1. T = 1..Len(s) /\ Len(s) \in Nat
    OBVIOUS
  <2>2. IsFiniteSet(1..Len(s))
    BY <2>1, FS_Interval
  <2>3. QED
    BY <2>1, <2>2
<1>3. \A i \in T : f[i] = s[i].limit_price
  OBVIOUS
<1> HIDE DEF f, T
<1>4. CASE T = {}
  BY <1>4 DEF T
<1>5. CASE T # {}
  <2>1. \A i \in T : f[i] \in Int
    BY <1>1
  <2>2. PICK i \in T : \A j \in T : f[i] >= f[j]
    BY <1>2, <1>5, <2>1, SomeLargest
  <2> DEFINE m == f[i]
  <2>3. m \in Nat
    BY <1>1
  <2>4. \A j \in T : f[j] \in Nat \ {0} /\ f[j] <= m
    BY <1>1, <2>2
  <2> HIDE DEF m
  <2>5. \A j \in T : s[j].limit_price \in Nat \ {0} /\ s[j].limit_price <= m
    BY <1>3, <2>4
  <2>6. QED
    BY <2>3, <2>5 DEF T
<1>6. QED
  BY <1>4, <1>5

(* The prices of the book, ...                                              *)
PricesIn(c) == UNION {{e.limit_price : e \in ToSet(c.entries[s])} : s \in BOOLEAN}

(* ... which are finitely many, and more than nothing.                      *)
LEMMA PricesAreNumbers ==
    ASSUME NEW c, c.entries \in [BOOLEAN -> Seq(Entry)]
    PROVE  IsFiniteSet(PricesIn(c)) /\ PricesIn(c) \subseteq Nat \ {0}
<1> DEFINE prices == PricesIn(c)
<1>1. PICK m \in Nat : \A i \in DOMAIN c.entries[TRUE] :
          /\ c.entries[TRUE][i].limit_price \in Nat \ {0}
          /\ c.entries[TRUE][i].limit_price <= m
  <2>1. c.entries[TRUE] \in Seq(Entry)
    OBVIOUS
  <2>2. QED
    BY <2>1, LimitsAreBounded
<1>2. PICK n \in Nat : \A i \in DOMAIN c.entries[FALSE] :
          /\ c.entries[FALSE][i].limit_price \in Nat \ {0}
          /\ c.entries[FALSE][i].limit_price <= n
  <2>1. c.entries[FALSE] \in Seq(Entry)
    OBVIOUS
  <2>2. QED
    BY <2>1, LimitsAreBounded
<1>3. ASSUME NEW p \in prices
      PROVE  p \in 1..(m + n)
  <2>1. PICK s \in BOOLEAN : p \in {e.limit_price : e \in ToSet(c.entries[s])}
    BY DEF PricesIn
  <2>2. PICK i \in DOMAIN c.entries[s] : p = c.entries[s][i].limit_price
    BY <2>1 DEF ToSet
  <2>3. CASE s = TRUE
    <3>1. p \in Nat \ {0} /\ p <= m
      BY <1>1, <2>2, <2>3, Zenon
    <3>2. QED
      BY <3>1
  <2>4. CASE s = FALSE
    <3>1. p \in Nat \ {0} /\ p <= n
      BY <1>2, <2>2, <2>4, Zenon
    <3>2. QED
      BY <3>1
  <2>5. QED
    BY <2>3, <2>4
<1> HIDE DEF prices
<1>4. IsFiniteSet(1..(m + n))
  BY FS_Interval
<1>5. prices \subseteq 1..(m + n)
  BY <1>3
<1>6. IsFiniteSet(prices)
  BY <1>4, <1>5, FS_Subset
<1>7. QED
  BY <1>5, <1>6 DEF prices

(* Before the first price all of the bids are gone over, and none of the    *)
(* asks.                                                                    *)
BeforePrices(c, x) ==
    /\ x.entries = c.entries /\ x.funding = c.funding /\ x.alloc = c.alloc /\ x.cursor = 0
    /\ x.pricing.candidates = ascending(PricesIn(c))
    /\ x.pricing.bid_scan = Len(c.entries[TRUE])
    /\ x.pricing.demand_remaining = qty_over(c.entries[TRUE], DOMAIN c.entries[TRUE])
    /\ x.pricing.ask_scan = c.pricing.ask_scan /\ x.pricing.supply_acc = c.pricing.supply_acc
    /\ x.pricing.found = c.pricing.found

(* The book is read: its prices are considered, the lowest first, or there  *)
(* is none.                                                                 *)
LEMMA LoadingOpens ==
    ASSUME NEW c, NEW v, OpenOK(c, v), NEW d, d = finish_loading(c)
    PROVE  \E x : /\ OpenOK(x, v) /\ x.stage = STAGE_PRICING /\ BeforePrices(c, x)
                  /\ \/ d = finish_pricing(x) /\ PricesIn(c) = {}
                     \/ d = x /\ x.cursor <= Len(x.pricing.candidates)
<1> DEFINE prices == PricesIn(c)
           bids == c.entries[TRUE]
           q == [c.pricing EXCEPT !.candidates = ascending(prices),
                                  !.demand_remaining = qty_over(bids, DOMAIN bids),
                                  !.bid_scan = Len(bids)]
           x == [c EXCEPT !.cursor = 0, !.stage = STAGE_PRICING, !.pricing = q]
<1>1. d = IF prices = {} THEN finish_pricing(x) ELSE x
  BY DEF finish_loading, enter, PricesIn
<1>2. DOMAIN c = ObjectFields /\ PricingOK(c) /\ c.entries \in [BOOLEAN -> Seq(Entry)]
  BY DEF OpenOK, Shaped, EntriesOK
<1>3. IsFiniteSet(prices) /\ prices \subseteq Nat \ {0}
  BY <1>2, PricesAreNumbers
<1> HIDE DEF prices
<1>4. ascending(prices) \in Seq(Nat \ {0})
  BY <1>3, AscendingIsSeq
<1> DEFINE a == ascending(prices)
<1>5. a \in Seq(Nat \ {0})
  BY <1>4
<1>6. /\ DOMAIN q = DOMAIN c.pricing /\ q.candidates = a
      /\ q.found = c.pricing.found /\ q.best_price = c.pricing.best_price
      /\ q.demand_remaining = qty_over(bids, DOMAIN bids) /\ q.bid_scan = Len(bids)
      /\ q.ask_scan = c.pricing.ask_scan /\ q.supply_acc = c.pricing.supply_acc
  BY <1>2 DEF PricingOK
<1> HIDE DEF a, q
<1>7. Repriced(c, x) /\ x.pricing = q /\ x.cursor = 0 /\ x.stage = STAGE_PRICING
  BY <1>2, StagesDiffer DEF Repriced, ObjectFields, Stages
<1> HIDE DEF x
<1>8. PricingOK(x)
  BY <1>2, <1>5, <1>6, <1>7 DEF PricingOK
<1>9. OpenOK(x, v)
  BY <1>7, <1>8, RepricedIsOK
<1>10. BeforePrices(c, x)
  BY <1>6, <1>7 DEF BeforePrices, Repriced, a, prices
<1>11. \/ d = finish_pricing(x) /\ prices = {}
       \/ d = x /\ x.cursor <= Len(x.pricing.candidates)
  <2>1. x.cursor <= Len(x.pricing.candidates)
    BY <1>5, <1>6, <1>7
  <2>2. QED
    BY <1>1, <2>1
<1>12. QED
  BY <1>7, <1>9, <1>10, <1>11 DEF prices

(* So the invariant holds of what comes next.                               *)
LEMMA LoadingEnds ==
    ASSUME NEW c, NEW v, OpenOK(c, v), VaultOK(v), NEW b, NEW d, d = finish_loading(c)
    PROVE  ClearingOK(d, b, v)
<1>1. PICK x : /\ OpenOK(x, v) /\ x.stage = STAGE_PRICING
               /\ d = finish_pricing(x) \/ (d = x /\ x.cursor <= Len(x.pricing.candidates))
  BY LoadingOpens
<1>2. CASE d = finish_pricing(x)
  BY <1>1, <1>2, PricingEnds
<1>3. CASE d = x /\ x.cursor <= Len(x.pricing.candidates)
  BY <1>1, <1>3, OpenIsOK, StagesDiffer
<1>4. QED
  BY <1>1, <1>2, <1>3

(* A transaction of STAGE_LOADING keeps the invariant.                      *)
LEMMA LoadStep ==
    ASSUME Shaped(clearing), Opening(clearing, batch, vault), VaultOK(vault), BatchOK,
           clearing.stage = STAGE_LOADING, NEW budget \in Nat,
           NEW d, d = load_step(clearing, batch, vault, budget)
    PROVE  ClearingOK(d, batch, vault)
<1> DEFINE total == Len(batch.revealed)
           x == Advance(clearing, total, budget, LAMBDA y : load_unit(y, batch, vault))
<1>1. OpenOK(clearing, vault) /\ clearing.cursor <= total
  BY DEF Opening, OpenOK
<1>2. OpenOK(x, vault) /\ x.stage = clearing.stage /\ x.cursor <= total
  BY <1>1, LoadLoop
<1>3. d = IF x.cursor >= total THEN finish_loading(x) ELSE x
  BY DEF load_step
<1> HIDE DEF x
<1>4. CASE x.cursor >= total
  BY <1>2, <1>3, <1>4, LoadingEnds
<1>5. CASE ~ (x.cursor >= total)
  <2>1. d = x /\ x.stage = STAGE_LOADING
    BY <1>2, <1>3, <1>5
  <2>2. QED
    BY <1>2, <2>1, OpenIsOK, StagesDiffer
<1>6. QED
  BY <1>4, <1>5

-----------------------------------------------------------------------------
(* The books. *)

(* d is b in which the balance of who is n more, and nobody else's changed. *)
Paying(b, who, n, d) ==
    /\ BookOK(d) /\ d.total_credited = b.total_credited + n
    /\ \A a : balance_of(d, a) = balance_of(b, a) + IF a = who THEN n ELSE 0

(* No balance is negative.                                                  *)
LEMMA BalanceNat ==
    ASSUME NEW b, BookOK(b), NEW who
    PROVE  balance_of(b, who) \in Nat
BY DEF BookOK, balance_of, has_account

(* Opening an account pays nobody.                                          *)
LEMMA AccountOpened ==
    ASSUME NEW b, BookOK(b), NEW who, NEW d, d = open_account(b, who)
    PROVE  /\ BookOK(d) /\ who \in DOMAIN d.accounts
           /\ d.custody = b.custody /\ d.total_credited = b.total_credited
           /\ \A a : balance_of(d, a) = balance_of(b, a)
<1>1. /\ DOMAIN b = {"custody", "accounts", "total_credited", "accounts_opened"}
      /\ b.accounts \in [DOMAIN b.accounts -> Nat]
  BY DEF BookOK
<1>2. CASE who \in DOMAIN b.accounts
  BY <1>2 DEF open_account, has_account
<1>3. CASE who \notin DOMAIN b.accounts
  <2> DEFINE rows == [a \in DOMAIN b.accounts \cup {who} |-> balance_of(b, a)]
             m == b.accounts_opened + 1
  <2>1. d = [b EXCEPT !.accounts = rows, !.accounts_opened = m]
    BY <1>3 DEF open_account, has_account
  <2>2. rows \in [DOMAIN b.accounts \cup {who} -> Nat]
    BY BalanceNat
  <2>3. \A a : balance_of(b, a) = IF a \in DOMAIN rows THEN rows[a] ELSE 0
    <3>1. \A a : a \notin DOMAIN b.accounts => balance_of(b, a) = 0
      BY DEF balance_of, has_account
    <3>2. QED
      BY <3>1
  <2> HIDE DEF rows, m
  <2>4. /\ DOMAIN d = DOMAIN b /\ d.accounts = rows
        /\ d.custody = b.custody /\ d.total_credited = b.total_credited
    BY <1>1, <2>1
  <2>5. DOMAIN rows = DOMAIN b.accounts \cup {who}
    BY <2>2
  <2>6. BookOK(d)
    BY <1>1, <2>2, <2>4, <2>5 DEF BookOK
  <2>7. \A a : balance_of(d, a) = balance_of(b, a)
    BY <2>3, <2>4 DEF balance_of, has_account
  <2>8. QED
    BY <2>4, <2>5, <2>6, <2>7
<1>4. QED
  BY <1>2, <1>3

(* An account's row and the running total move by the same amount.          *)
RowMoved(b, who, n, d) ==
    d = [b EXCEPT !.accounts = [b.accounts EXCEPT ![who] = b.accounts[who] + n],
                  !.total_credited = b.total_credited + n]

(* So everybody else's balance stays.                                       *)
LEMMA RowMoves ==
    ASSUME NEW b, BookOK(b), NEW who \in DOMAIN b.accounts, NEW n \in Int,
           b.accounts[who] + n >= 0, NEW d, RowMoved(b, who, n, d)
    PROVE  Paying(b, who, n, d) /\ d.custody = b.custody
<1> DEFINE row == b.accounts[who] + n
           rows == [b.accounts EXCEPT ![who] = row]
           total == b.total_credited + n
<1>1. /\ DOMAIN b = {"custody", "accounts", "total_credited", "accounts_opened"}
      /\ b.accounts \in [DOMAIN b.accounts -> Nat]
  BY DEF BookOK
<1>2. row \in Nat
  BY <1>1
<1>3. d = [b EXCEPT !.accounts = rows, !.total_credited = total]
  BY DEF RowMoved
<1> HIDE DEF row, total
<1>4. /\ rows \in [DOMAIN b.accounts -> Nat] /\ DOMAIN rows = DOMAIN b.accounts
      /\ rows[who] = row /\ \A a \in DOMAIN b.accounts : a # who => rows[a] = b.accounts[a]
  BY <1>1, <1>2
<1> HIDE DEF rows
<1>5. /\ DOMAIN d = DOMAIN b /\ d.accounts = rows /\ d.custody = b.custody
      /\ d.total_credited = total
  BY <1>1, <1>3
<1>6. BookOK(d)
  <2>1. total \in Int
    BY DEF BookOK, total
  <2>2. QED
    BY <1>1, <1>4, <1>5, <2>1 DEF BookOK
<1>7. ASSUME NEW a
      PROVE  balance_of(d, a) = balance_of(b, a) + IF a = who THEN n ELSE 0
  <2>1. balance_of(d, a) = IF a \in DOMAIN rows THEN rows[a] ELSE 0
    BY <1>5 DEF balance_of, has_account
  <2>2. balance_of(b, a) = IF a \in DOMAIN b.accounts THEN b.accounts[a] ELSE 0
    BY DEF balance_of, has_account
  <2>3. CASE a = who
    BY <1>4, <2>1, <2>2, <2>3 DEF row
  <2>4. CASE a # who
    <3>1. balance_of(b, a) \in Nat
      BY BalanceNat
    <3>2. balance_of(d, a) = balance_of(b, a)
      BY <1>4, <2>1, <2>2, <2>4
    <3>3. QED
      BY <2>4, <3>1, <3>2
  <2>5. QED
    BY <2>3, <2>4
<1>8. QED
  BY <1>5, <1>6, <1>7 DEF Paying, total

(* credit pays one account, and no coin moves.                              *)
LEMMA CreditPays ==
    ASSUME NEW b, BookOK(b), NEW who, NEW n \in Nat, NEW d, d = credit(b, who, n)
    PROVE  Paying(b, who, n, d) /\ d.custody = b.custody
<1> DEFINE o == open_account(b, who)
<1>1. /\ BookOK(o) /\ who \in DOMAIN o.accounts
      /\ o.custody = b.custody /\ o.total_credited = b.total_credited
      /\ \A a : balance_of(o, a) = balance_of(b, a)
  BY AccountOpened
<1>2. d = [o EXCEPT !.accounts[who] = o.accounts[who] + n,
                    !.total_credited = o.total_credited + n]
  BY DEF credit
<1> HIDE DEF o
<1>3. RowMoved(o, who, n, d)
  BY <1>2 DEF RowMoved
<1>4. o.accounts[who] + n >= 0
  <2>1. o.accounts[who] \in Nat
    BY <1>1 DEF BookOK
  <2>2. QED
    BY <2>1
<1>5. Paying(o, who, n, d) /\ d.custody = o.custody
  BY <1>1, <1>3, <1>4, RowMoves
<1>6. QED
  BY <1>1, <1>5 DEF Paying

(* debit takes from one account what it can bear, and no coin moves.        *)
LEMMA DebitPays ==
    ASSUME NEW b, BookOK(b), NEW who, NEW n \in Nat, can_debit(b, who, n),
           NEW d, d = debit(b, who, n)
    PROVE  Paying(b, who, 0 - n, d) /\ d.custody = b.custody
<1>1. who \in DOMAIN b.accounts /\ balance_of(b, who) = b.accounts[who]
      /\ b.accounts[who] >= n
  BY DEF can_debit, has_account, balance_of
<1>2. b.accounts[who] \in Nat
  BY <1>1 DEF BookOK
<1>3. d = [b EXCEPT !.accounts[who] = b.accounts[who] - n,
                    !.total_credited = b.total_credited - n]
  BY DEF debit
<1>4. /\ b.accounts[who] - n = b.accounts[who] + (0 - n)
      /\ b.total_credited - n = b.total_credited + (0 - n)
      /\ 0 - n \in Int /\ b.accounts[who] + (0 - n) >= 0
  <2>1. b.total_credited \in Int
    BY DEF BookOK
  <2>2. QED
    BY <1>1, <1>2, <2>1
<1>5. RowMoved(b, who, 0 - n, d)
  BY <1>3, <1>4 DEF RowMoved
<1>6. QED
  BY <1>1, <1>4, <1>5, RowMoves

-----------------------------------------------------------------------------
(* Pushing a fill. *)

(* The vault v with books in which nobody has less but who, who has up to n *)
(* less on side s.                                                          *)
SameTerms(v, w) ==
    /\ VaultOK(w) /\ w.active_clearings = v.active_clearings
    /\ w.fee_matched_bps = v.fee_matched_bps /\ w.fee_recipient = v.fee_recipient

Takes(v, s, who, n, w) ==
    /\ SameTerms(v, w)
    /\ \A t \in BOOLEAN : \A a :
          Has(w, t, a) >= Has(v, t, a) - IF t = s /\ a = who THEN n ELSE 0

(* Nobody has less.                                                         *)
Gives(v, w) == SameTerms(v, w) /\ \A t \in BOOLEAN : \A a : Has(w, t, a) >= Has(v, t, a)

(* Bids pay with quote, asks with base.                                     *)
LEMMA HasSides ==
    ASSUME NEW v, NEW a
    PROVE  /\ Has(v, TRUE, a) = balance_of(v.quote_book, a)
           /\ Has(v, FALSE, a) = balance_of(v.base_book, a)
BY DEF Has

(* The two books of the vault.                                              *)
LEMMA BooksOfVault ==
    ASSUME NEW v, VaultOK(v)
    PROVE  /\ BookOK(v.base_book) /\ BookOK(v.quote_book)
           /\ \A a : balance_of(v.base_book, a) \in Nat /\ balance_of(v.quote_book, a) \in Nat
BY BalanceNat DEF VaultOK

(* One of the two books is replaced.                                        *)
LEMMA QuoteBookSet ==
    ASSUME NEW v, VaultOK(v), NEW q, BookOK(q), NEW w, w = [v EXCEPT !.quote_book = q]
    PROVE  SameTerms(v, w) /\ w.quote_book = q /\ w.base_book = v.base_book
BY DEF VaultOK, SameTerms

(* Likewise for the base book.                                              *)
LEMMA BaseBookSet ==
    ASSUME NEW v, VaultOK(v), NEW q, BookOK(q), NEW w, w = [v EXCEPT !.base_book = q]
    PROVE  SameTerms(v, w) /\ w.base_book = q /\ w.quote_book = v.quote_book
BY DEF VaultOK, SameTerms

(* Quote is credited to somebody, or not at all.                            *)
LEMMA QuoteCredited ==
    ASSUME NEW v, VaultOK(v), NEW who, NEW n \in Int, NEW w, w = credit_quote(v, who, n)
    PROVE  Gives(v, w) /\ w.base_book = v.base_book
<1>1. CASE ~ (n > 0)
  <2>1. w = v
    BY <1>1 DEF credit_quote
  <2>2. \A t \in BOOLEAN : \A a : Has(v, t, a) \in Nat
    BY HasNat
  <2>3. QED
    BY <2>1, <2>2 DEF Gives, SameTerms
<1>2. CASE n > 0
  <2> DEFINE q == credit(v.quote_book, who, n)
  <2>1. w = [v EXCEPT !.quote_book = q]
    BY <1>2 DEF credit_quote
  <2>2. n \in Nat
    BY <1>2
  <2>3. Paying(v.quote_book, who, n, q)
    BY <2>2, BooksOfVault, CreditPays
  <2> HIDE DEF q
  <2>4. SameTerms(v, w) /\ w.quote_book = q /\ w.base_book = v.base_book
    BY <2>1, <2>3, QuoteBookSet DEF Paying
  <2>5. ASSUME NEW a
        PROVE  Has(w, TRUE, a) >= Has(v, TRUE, a) /\ Has(w, FALSE, a) >= Has(v, FALSE, a)
    <3>1. balance_of(v.quote_book, a) \in Nat /\ balance_of(v.base_book, a) \in Nat
      BY BooksOfVault
    <3>2. balance_of(q, a) = balance_of(v.quote_book, a) + IF a = who THEN n ELSE 0
      BY <2>3 DEF Paying
    <3> DEFINE x == balance_of(v.quote_book, a)
               y == balance_of(v.base_book, a)
               z == balance_of(q, a)
    <3>3. Has(w, TRUE, a) = z /\ Has(v, TRUE, a) = x /\ Has(w, FALSE, a) = y /\ Has(v, FALSE, a) = y
      BY <2>4, HasSides
    <3>4. x \in Nat /\ y \in Nat /\ z = x + IF a = who THEN n ELSE 0
      BY <3>1, <3>2
    <3> HIDE DEF x, y, z
    <3>5. z >= x /\ y >= y
      BY <2>2, <3>4
    <3>6. QED
      BY <3>3, <3>5
  <2>6. QED
    BY <2>4, <2>5 DEF Gives
<1>3. QED
  BY <1>1, <1>2

(* Nothing is paid.                                                         *)
LEMMA NothingPaid ==
    ASSUME NEW b, BookOK(b), NEW who
    PROVE  Paying(b, who, 0, b)
<1>1. \A a : balance_of(b, a) \in Nat
  BY BalanceNat
<1>2. b.total_credited \in Int
  BY DEF BookOK
<1>3. \A a : balance_of(b, a) = balance_of(b, a) + IF a = who THEN 0 ELSE 0
  BY <1>1
<1>4. QED
  BY <1>2, <1>3 DEF Paying

(* A book that takes n of who, and one that gives.                          *)
LEMMA TakesOne ==
    ASSUME NEW v, VaultOK(v), NEW w, SameTerms(v, w), NEW who, NEW n \in Nat, NEW s \in BOOLEAN,
           \A a : Has(w, s, a) >= Has(v, s, a) - IF a = who THEN n ELSE 0,
           \A t \in BOOLEAN : t # s => \A a : Has(w, t, a) >= Has(v, t, a)
    PROVE  Takes(v, s, who, n, w)
<1> SUFFICES ASSUME NEW t \in BOOLEAN, NEW a
             PROVE  Has(w, t, a) >= Has(v, t, a) - IF t = s /\ a = who THEN n ELSE 0
  BY DEF Takes
<1>1. CASE t = s
  BY <1>1
<1>2. CASE t # s
  <2>1. Has(w, t, a) >= Has(v, t, a) /\ Has(v, t, a) \in Nat /\ Has(w, t, a) \in Nat
    BY <1>2, HasNat DEF SameTerms
  <2>2. QED
    BY <1>2, <2>1
<1>3. QED
  BY <1>1, <1>2

(* A paid-for bid is pushed: its quote is taken.                            *)
LEMMA BidPushes ==
    ASSUME NEW v, VaultOK(v), NEW f \in Fill, f.is_bid = TRUE, f.quote_sats \in Nat,
           f.quote_sats <= Has(v, TRUE, f.submitter), NEW w, w = push_fill(v, f)
    PROVE  can_push(v, f) /\ Takes(v, TRUE, f.submitter, f.quote_sats, w)
<1> DEFINE who == f.submitter
           n == f.quote_sats
           m == f.base_sats
           q == IF n > 0 THEN debit(v.quote_book, who, n) ELSE v.quote_book
           p == credit(v.base_book, who, m)
           x == [v EXCEPT !.quote_book = q]
<1>1. m \in Nat /\ m > 0
  BY DEF Fill
<1>2. BookOK(v.base_book) /\ BookOK(v.quote_book)
  BY BooksOfVault
<1>3. n <= balance_of(v.quote_book, who) /\ n \in Nat
  BY HasSides
<1>4. n > 0 => can_debit(v.quote_book, who, n)
  <2>1. ASSUME n > 0
        PROVE  balance_of(v.quote_book, who) \in Nat /\ balance_of(v.quote_book, who) # 0
    BY <1>2, <1>3, <2>1, BalanceNat
  <2>2. QED
    BY <1>3, <2>1 DEF can_debit, balance_of
<1>5. can_push(v, f)
  BY <1>1, <1>4 DEF can_push, can_credit
<1>6. w = [x EXCEPT !.base_book = p]
  BY DEF push_fill
<1> HIDE DEF n, m, who
<1>7. Paying(v.quote_book, who, 0 - n, q)
  <2>1. CASE n > 0
    BY <1>2, <1>3, <1>4, <2>1, DebitPays
  <2>2. CASE ~ (n > 0)
    BY <1>2, <1>3, <2>2, NothingPaid
  <2>3. QED
    BY <2>1, <2>2
<1>8. Paying(v.base_book, who, m, p)
  BY <1>1, <1>2, CreditPays
<1> HIDE DEF q, p
<1>9. SameTerms(v, x) /\ x.quote_book = q /\ x.base_book = v.base_book
  BY <1>7, QuoteBookSet DEF Paying
<1> HIDE DEF x
<1>10. SameTerms(x, w) /\ w.base_book = p /\ w.quote_book = x.quote_book
  BY <1>6, <1>8, <1>9, BaseBookSet DEF Paying, SameTerms
<1>11. SameTerms(v, w) /\ w.base_book = p /\ w.quote_book = q
  BY <1>9, <1>10 DEF SameTerms
<1>12. ASSUME NEW a
       PROVE  /\ Has(w, TRUE, a) >= Has(v, TRUE, a) - IF a = who THEN n ELSE 0
              /\ Has(w, FALSE, a) >= Has(v, FALSE, a)
  <2> DEFINE b == balance_of(v.quote_book, a)
             c == balance_of(v.base_book, a)
             y == balance_of(q, a)
             z == balance_of(p, a)
  <2>1. Has(w, TRUE, a) = y /\ Has(v, TRUE, a) = b /\ Has(w, FALSE, a) = z /\ Has(v, FALSE, a) = c
    BY <1>11, HasSides
  <2>2. b \in Nat /\ c \in Nat
    BY <1>2, BalanceNat
  <2>3. y = b + IF a = who THEN 0 - n ELSE 0
    BY <1>7 DEF Paying
  <2>4. z = c + IF a = who THEN m ELSE 0
    BY <1>8 DEF Paying
  <2> HIDE DEF b, c, y, z
  <2>5. z >= c /\ y >= b - IF a = who THEN n ELSE 0
    BY <1>1, <1>3, <2>2, <2>3, <2>4
  <2>6. QED
    BY <2>1, <2>5
<1>13. Takes(v, TRUE, who, n, w)
  BY <1>3, <1>11, <1>12, TakesOne
<1>14. QED
  BY <1>5, <1>13 DEF who, n

(* A paid-for ask is pushed: its base is taken.                             *)
LEMMA AskPushes ==
    ASSUME NEW v, VaultOK(v), NEW f \in Fill, f.is_bid = FALSE,
           f.base_sats <= Has(v, FALSE, f.submitter), NEW w, w = push_fill(v, f)
    PROVE  can_push(v, f) /\ Takes(v, FALSE, f.submitter, f.base_sats, w)
<1> DEFINE who == f.submitter
           n == f.base_sats
           m == f.quote_sats
           p == debit(v.base_book, who, n)
           x == [v EXCEPT !.base_book = p]
<1>1. n \in Nat /\ n > 0 /\ m \in Int
  BY DEF Fill
<1>2. BookOK(v.base_book) /\ BookOK(v.quote_book)
  BY BooksOfVault
<1>3. n <= balance_of(v.base_book, who)
  BY HasSides
<1>4. can_debit(v.base_book, who, n)
  <2>1. balance_of(v.base_book, who) \in Nat /\ balance_of(v.base_book, who) # 0
    BY <1>1, <1>2, <1>3, BalanceNat
  <2>2. QED
    BY <1>1, <1>3, <2>1 DEF can_debit, balance_of
<1>5. can_push(v, f)
  BY <1>4 DEF can_push
<1>6. w = credit_quote(x, who, m)
  BY DEF push_fill
<1> HIDE DEF n, m, who
<1>7. Paying(v.base_book, who, 0 - n, p)
  BY <1>1, <1>2, <1>4, DebitPays
<1> HIDE DEF p
<1>8. SameTerms(v, x) /\ x.base_book = p /\ x.quote_book = v.quote_book
  BY <1>7, BaseBookSet DEF Paying
<1> HIDE DEF x
<1>9. Gives(x, w) /\ w.base_book = x.base_book
  BY <1>1, <1>6, <1>8, QuoteCredited DEF SameTerms
<1>10. SameTerms(v, w)
  BY <1>8, <1>9 DEF SameTerms, Gives
<1>11. ASSUME NEW a
       PROVE  /\ Has(w, FALSE, a) >= Has(v, FALSE, a) - IF a = who THEN n ELSE 0
              /\ Has(w, TRUE, a) >= Has(v, TRUE, a)
  <2> DEFINE c == balance_of(v.base_book, a)
             z == balance_of(p, a)
  <2>1. Has(w, FALSE, a) = z /\ Has(v, FALSE, a) = c
    BY <1>8, <1>9, HasSides
  <2>2. c \in Nat
    BY <1>2, BalanceNat
  <2>3. z = c + IF a = who THEN 0 - n ELSE 0
    BY <1>7 DEF Paying
  <2> HIDE DEF c, z
  <2>4. z >= c - IF a = who THEN n ELSE 0
    BY <1>1, <2>2, <2>3
  <2>5. Has(w, TRUE, a) >= Has(x, TRUE, a) /\ Has(x, TRUE, a) = Has(v, TRUE, a)
    BY <1>8, <1>9, HasSides DEF Gives
  <2>6. QED
    BY <2>1, <2>4, <2>5
<1>12. Takes(v, FALSE, who, n, w)
  BY <1>1, <1>10, <1>11, TakesOne
<1>13. QED
  BY <1>5, <1>12 DEF who, n

(* A fill that is paid for is pushed, and takes what it costs of its        *)
(* submitter alone.                                                         *)
LEMMA FillPushes ==
    ASSUME NEW v, VaultOK(v), NEW f \in Fill, debit_of(f) \in Nat,
           debit_of(f) <= Has(v, f.is_bid, f.submitter), NEW w, w = push_fill(v, f)
    PROVE  can_push(v, f) /\ Takes(v, f.is_bid, f.submitter, debit_of(f), w)
<1>1. f.is_bid = TRUE \/ f.is_bid = FALSE
  BY DEF Fill
<1>2. CASE f.is_bid = TRUE
  <2>1. debit_of(f) = f.quote_sats
    BY <1>2 DEF debit_of
  <2>2. QED
    BY <1>2, <2>1, BidPushes
<1>3. CASE f.is_bid = FALSE
  <2>1. debit_of(f) = f.base_sats
    BY <1>3 DEF debit_of
  <2>2. QED
    BY <1>3, <2>1, AskPushes
<1>4. QED
  BY <1>1, <1>2, <1>3

-----------------------------------------------------------------------------
(* Settling. *)

(* The fills after the first k are paid for.                                *)
Rest(c, v, k) ==
    \A who \in DOMAIN c.funding : \A s \in BOOLEAN :
        SumOf(FillDue(c.fills, s, who), (k + 1)..Len(c.fills)) <= Has(v, s, who)

(* What is still to be pushed is a finite number of natural debits.         *)
LEMMA RestFacts ==
    ASSUME NEW c, FillsOK(c), NEW s \in BOOLEAN, NEW who, NEW k \in Nat
    PROVE  /\ Len(c.fills) \in Nat /\ DOMAIN c.fills = 1..Len(c.fills)
           /\ IsFiniteSet((k + 1)..Len(c.fills))
           /\ \A j \in (k + 1)..Len(c.fills) : FillDue(c.fills, s, who)[j] \in Nat
           /\ SumOf(FillDue(c.fills, s, who), (k + 1)..Len(c.fills)) \in Nat
<1> DEFINE n == Len(c.fills)
           f == FillDue(c.fills, s, who)
<1>1. n \in Nat /\ DOMAIN c.fills = 1..n
  BY DEF FillsOK
<1>2. IsFiniteSet((k + 1)..n)
  BY <1>1, FS_Interval
<1>3. ASSUME NEW j \in (k + 1)..n
      PROVE  f[j] \in Nat
  <2>1. j \in DOMAIN c.fills
    <3> HIDE DEF n
    <3>1. j \in 1..n
      BY <1>1
    <3>2. QED
      BY <1>1, <3>1
  <2>2. debit_of(c.fills[j]) \in Nat
    BY <2>1 DEF FillsOK
  <2>3. f[j] = IF c.fills[j].submitter = who /\ c.fills[j].is_bid = s
               THEN debit_of(c.fills[j]) ELSE 0
    BY <2>1 DEF FillDue
  <2>4. QED
    BY <2>2, <2>3
<1> HIDE DEF n, f
<1>4. SumOf(f, (k + 1)..n) \in Nat
  BY <1>2, <1>3, SumNat
<1>5. QED
  BY <1>1, <1>2, <1>3, <1>4 DEF n, f

(* The rest without its first fill.                                         *)
LEMMA RestShrinks ==
    ASSUME NEW c, FillsOK(c), NEW s \in BOOLEAN, NEW who, NEW k \in Nat, k < Len(c.fills)
    PROVE  SumOf(FillDue(c.fills, s, who), (k + 1)..Len(c.fills))
             = FillDue(c.fills, s, who)[k + 1]
               + SumOf(FillDue(c.fills, s, who), (k + 2)..Len(c.fills))
<1> DEFINE n == Len(c.fills)
           f == FillDue(c.fills, s, who)
           S == (k + 1)..n
<1>1. /\ n \in Nat /\ IsFiniteSet(S) /\ \A j \in S : f[j] \in Nat
  BY RestFacts
<1>2. k + 1 \in S /\ S \ {k + 1} = (k + 2)..n
  <2> HIDE DEF n
  <2>1. k < n
    BY DEF n
  <2>2. QED
    BY <1>1, <2>1
<1>3. \A j \in S : f[j] \in Int
  BY <1>1
<1> HIDE DEF f, S, n
<1>4. SumOf(f, S) = f[k + 1] + SumOf(f, S \ {k + 1})
  BY <1>1, <1>2, <1>3, SumTakesOut
<1>5. QED
  BY <1>2, <1>4 DEF f, S, n

(* Pushing the next fill takes what was set aside for it.                   *)
LEMMA PushTurnKeeps ==
    ASSUME NEW c, FillsOK(c), NEW v, VaultOK(v), NEW k \in Nat, k < Len(c.fills), Rest(c, v, k),
           NEW f, f = c.fills[k + 1], NEW w, w = push_fill(v, f)
    PROVE  can_push(v, f) /\ SameTerms(v, w) /\ Rest(c, w, k + 1)
<1>0. ASSUME NEW who, NEW s \in BOOLEAN
      PROVE  SumOf(FillDue(c.fills, s, who), (k + 1)..Len(c.fills))
               = FillDue(c.fills, s, who)[k + 1]
                 + SumOf(FillDue(c.fills, s, who), (k + 2)..Len(c.fills))
  BY RestShrinks
<1> DEFINE n == Len(c.fills)
           cost == debit_of(f)
<1>1. k + 1 \in DOMAIN c.fills
  <2>1. n \in Nat /\ DOMAIN c.fills = 1..n
    BY DEF FillsOK
  <2> HIDE DEF n
  <2>2. k < n
    BY DEF n
  <2>3. QED
    BY <2>1, <2>2
<1>2. f \in Fill /\ f.submitter \in DOMAIN c.funding /\ cost \in Nat
  BY <1>1 DEF FillsOK
<1>3. f.is_bid \in BOOLEAN
  BY <1>2 DEF Fill
<1>4. \A s \in BOOLEAN : \A who :
         FillDue(c.fills, s, who)[k + 1] = IF f.submitter = who /\ f.is_bid = s THEN cost ELSE 0
  BY <1>1 DEF FillDue
<1> HIDE DEF cost
<1>5. \A who \in DOMAIN c.funding : \A s \in BOOLEAN :
         /\ Has(v, s, who) \in Nat
         /\ SumOf(FillDue(c.fills, s, who), (k + 2)..n) \in Nat
         /\ (IF f.submitter = who /\ f.is_bid = s THEN cost ELSE 0)
              + SumOf(FillDue(c.fills, s, who), (k + 2)..n) <= Has(v, s, who)
  <2> SUFFICES ASSUME NEW who \in DOMAIN c.funding, NEW s \in BOOLEAN
               PROVE  /\ Has(v, s, who) \in Nat
                      /\ SumOf(FillDue(c.fills, s, who), (k + 2)..n) \in Nat
                      /\ (IF f.submitter = who /\ f.is_bid = s THEN cost ELSE 0)
                           + SumOf(FillDue(c.fills, s, who), (k + 2)..n) <= Has(v, s, who)
    OBVIOUS
  <2> DEFINE a == SumOf(FillDue(c.fills, s, who), (k + 1)..n)
             b == SumOf(FillDue(c.fills, s, who), (k + 2)..n)
  <2>1. a = FillDue(c.fills, s, who)[k + 1] + b
    BY <1>0
  <2>2. a <= Has(v, s, who)
    BY DEF Rest
  <2>3. b \in Nat
    <3>1. k + 1 \in Nat /\ (k + 1) + 1 = k + 2
      OBVIOUS
    <3>2. SumOf(FillDue(c.fills, s, who), ((k + 1) + 1)..n) \in Nat
      BY <3>1, RestFacts
    <3>3. QED
      BY <3>1, <3>2
  <2> HIDE DEF a, b
  <2>4. (IF f.submitter = who /\ f.is_bid = s THEN cost ELSE 0) + b <= Has(v, s, who)
    BY <1>4, <2>1, <2>2
  <2>5. QED
    BY <2>3, <2>4, HasNat DEF b
<1>6. cost <= Has(v, f.is_bid, f.submitter)
  <2> DEFINE b == SumOf(FillDue(c.fills, f.is_bid, f.submitter), (k + 2)..n)
             h == Has(v, f.is_bid, f.submitter)
  <2>1. b \in Nat /\ h \in Nat /\ cost + b <= h
    BY <1>2, <1>3, <1>5
  <2> HIDE DEF b, h
  <2>2. cost <= h
    BY <1>2, <2>1
  <2>3. QED
    BY <2>2 DEF h
<1>7. can_push(v, f) /\ Takes(v, f.is_bid, f.submitter, cost, w)
  BY <1>2, <1>6, FillPushes DEF cost
<1>8. SameTerms(v, w)
  BY <1>7 DEF Takes
<1>9. Rest(c, w, k + 1)
  <2> SUFFICES ASSUME NEW who \in DOMAIN c.funding, NEW s \in BOOLEAN
               PROVE  SumOf(FillDue(c.fills, s, who), ((k + 1) + 1)..n) <= Has(w, s, who)
    BY DEF Rest
  <2> DEFINE b == SumOf(FillDue(c.fills, s, who), (k + 2)..n)
             h == Has(v, s, who)
             g == Has(w, s, who)
             x == IF f.submitter = who /\ f.is_bid = s THEN cost ELSE 0
  <2>1. b \in Nat /\ h \in Nat /\ x + b <= h
    BY <1>5
  <2>2. g >= h - IF s = f.is_bid /\ who = f.submitter THEN cost ELSE 0
    BY <1>7 DEF Takes
  <2>3. x = IF s = f.is_bid /\ who = f.submitter THEN cost ELSE 0
    OBVIOUS
  <2>4. g \in Nat /\ x \in Nat
    BY <1>2, <1>8, HasNat DEF SameTerms
  <2>5. (k + 1) + 1 = k + 2
    OBVIOUS
  <2>6. g >= h - x
    BY <2>2, <2>3
  <2> HIDE DEF b, h, g, x
  <2>7. b <= g
    BY <2>1, <2>4, <2>6
  <2>8. QED
    BY <2>5, <2>7 DEF b, g
<1>10. QED
  BY <1>7, <1>8, <1>9

(* A part of a sequence.                                                    *)
LEMMA PartOf ==
    ASSUME NEW X, NEW s \in Seq(X), NEW m \in Nat, NEW n \in Nat, m + n <= Len(s)
    PROVE  /\ Len(SubSeq(s, m + 1, m + n)) = n /\ SubSeq(s, m + 1, m + n) \in Seq(X)
           /\ \A k \in 1..n : SubSeq(s, m + 1, m + n)[k] = s[m + k]
<1> DEFINE a == m + 1
           b == m + n
<1>1. /\ a \in Int /\ b \in Int /\ b - a + 1 = n
      /\ (a <= b => n = b - a + 1) /\ (~ (a <= b) => n = 0)
  OBVIOUS
<1>2. \A i \in a..b : s[i] \in X
  OBVIOUS
<1>3. \A k \in 1..n : a + k - 1 = m + k
  OBVIOUS
<1> HIDE DEF a, b
<1>4. SubSeq(s, a, b) \in Seq(X)
  BY <1>1, <1>2, SubSeqProperties
<1>5. Len(SubSeq(s, a, b)) = IF a <= b THEN b - a + 1 ELSE 0
  BY <1>1, <1>2, SubSeqProperties
<1>6. \A k \in 1..(b - a + 1) : SubSeq(s, a, b)[k] = s[a + k - 1]
  BY <1>1, <1>2, SubSeqProperties
<1>7. QED
  BY <1>1, <1>3, <1>4, <1>5, <1>6 DEF a, b

PushTurn(st, f) ==
    IF st.ok /\ can_push(st.vault, f)
    THEN [st EXCEPT !.vault = push_fill(st.vault, f)]
    ELSE [st EXCEPT !.ok = FALSE]

PushHolds(k, st) ==
    /\ DOMAIN st = {"vault", "ok"} /\ st.ok = TRUE
    /\ SameTerms(vault, st.vault) /\ Rest(clearing, st.vault, clearing.cursor + k)

Push == INSTANCE LoopRules WITH Body <- PushTurn, Holds <- PushHolds

(* The premise of the rules of this instance.                               *)
LEMMA PushInduction ==
    Push!Induction
  BY NatSetInduction DEF Push!Induction

(* However many of the fills that are left are pushed, none fails.          *)
LEMMA PushLoop ==
    ASSUME Settling(clearing, vault), VaultOK(vault), clearing.stage = STAGE_SETTLING,
           clearing.cursor \in Nat, NEW n \in Nat, clearing.cursor + n <= Len(clearing.fills),
           NEW now, now = SubSeq(clearing.fills, clearing.cursor + 1, clearing.cursor + n)
    PROVE  PushHolds(n, push_fills(vault, now))
<1> DEFINE b == clearing.cursor
           fs == clearing.fills
           st == [vault |-> vault, ok |-> TRUE]
<1>1. FillsOK(clearing) /\ Rest(clearing, vault, b)
  BY DEF Settling, RestCovered, Rest
<1>2. fs \in Seq(Fill)
  BY <1>1 DEF FillsOK
<1>3. /\ now \in Seq(Fill) /\ Len(now) = n
      /\ \A k \in 1..n : now[k] = fs[b + k]
  <2> HIDE DEF b, fs
  <2>1. b \in Nat /\ b + n <= Len(fs) /\ now = SubSeq(fs, b + 1, b + n)
    BY DEF b, fs
  <2>2. /\ Len(SubSeq(fs, b + 1, b + n)) = n /\ SubSeq(fs, b + 1, b + n) \in Seq(Fill)
        /\ \A k \in 1..n : SubSeq(fs, b + 1, b + n)[k] = fs[b + k]
    BY <1>2, <2>1, PartOf
  <2>3. QED
    BY <2>1, <2>2
<1>4. PushHolds(0, st)
  <2>1. clearing.cursor + 0 = b
    OBVIOUS
  <2>2. SameTerms(vault, vault)
    BY DEF SameTerms
  <2>3. QED
    BY <1>1, <2>1, <2>2 DEF PushHolds
<1>5. ASSUME NEW k \in 0..(Len(now) - 1), NEW a, PushHolds(k, a)
      PROVE  PushHolds(k + 1, PushTurn(a, now[k + 1]))
  <2> DEFINE j == b + k
             f == now[k + 1]
             w == push_fill(a.vault, f)
  <2>0. /\ j \in Nat /\ j < Len(fs) /\ f = fs[j + 1] /\ k \in Nat
        /\ clearing.cursor + (k + 1) = j + 1
    <3> HIDE DEF b
    <3>1. b \in Nat /\ b + n <= Len(fs) /\ Len(fs) \in Nat
      BY <1>2 DEF b
    <3>2. k \in 0..(n - 1) /\ k + 1 \in 1..n /\ b + (k + 1) = (b + k) + 1
      BY <1>3, <3>1
    <3>3. f = fs[b + (k + 1)]
      BY <1>3, <3>2
    <3> HIDE DEF f, fs
    <3>4. b + k < Len(fs) /\ b + k \in Nat
      BY <3>1, <3>2
    <3>5. QED
      BY <3>2, <3>3, <3>4 DEF b
  <2>1. /\ DOMAIN a = {"vault", "ok"} /\ a.ok = TRUE
        /\ SameTerms(vault, a.vault) /\ Rest(clearing, a.vault, j)
    BY <1>5 DEF PushHolds
  <2> HIDE DEF j, f
  <2>2. can_push(a.vault, f) /\ SameTerms(a.vault, w) /\ Rest(clearing, w, j + 1)
    <3>1. VaultOK(a.vault)
      BY <2>1 DEF SameTerms
    <3>2. j < Len(clearing.fills) /\ f = clearing.fills[j + 1] /\ j \in Nat
      BY <2>0
    <3> HIDE DEF fs, b, st
    <3>3. QED
      BY <1>1, <2>1, <3>1, <3>2, PushTurnKeeps
  <2>3. PushTurn(a, f) = [a EXCEPT !.vault = w]
    BY <2>1, <2>2 DEF PushTurn
  <2> DEFINE d == PushTurn(a, f)
  <2> HIDE DEF w
  <2>4. DOMAIN d = {"vault", "ok"} /\ d.ok = TRUE /\ d.vault = w
    BY <2>1, <2>3
  <2> HIDE DEF d
  <2>5. SameTerms(vault, w)
    BY <2>1, <2>2 DEF SameTerms
  <2>6. PushHolds(k + 1, d)
    BY <2>0, <2>2, <2>4, <2>5 DEF PushHolds
  <2>7. QED
    BY <2>6 DEF d, f
<1>6. PushHolds(Len(now), Push!FoldSeq(st, now))
  <2> HIDE DEF st
  <2>1. QED
    BY <1>3, <1>4, <1>5, PushInduction, Push!FoldRule
<1>7. push_fills(vault, now) = Push!FoldSeq(st, now)
  BY DEF push_fills, PushTurn, Push!FoldSeq, Push!Greatest, FoldLeft, MapThenFoldSet, Max
<1>8. QED
  BY <1>3, <1>6, <1>7

(* Only what was moved so far, the stage and the cursor change.             *)
Settled(c, n, st, d) ==
    /\ DOMAIN d = ObjectFields
    /\ d.entries = c.entries /\ d.alloc = c.alloc /\ d.funding = c.funding /\ d.fills = c.fills
    /\ d.fee_bps = c.fee_bps /\ d.quote_paid = c.quote_paid
    /\ d.quote_recv = c.quote_recv /\ d.fee_quote = c.fee_quote
    /\ d.cursor = n /\ d.stage = st

(* So the object keeps its shape.                                           *)
LEMMA SettledIsShaped ==
    ASSUME NEW c, Shaped(c), NEW n \in Nat, NEW st \in Stages, NEW d, Settled(c, n, st, d)
    PROVE  Shaped(d)
<1>1. EntriesOK(d) /\ AllocOK(d)
  BY DEF Settled, Shaped, EntriesOK, AllocOK
<1>2. Paid(d)
  BY PaidStays DEF Settled
<1>3. QED
  BY <1>1, <1>2 DEF Settled, Shaped

(* What a settling transaction leaves of the object, the rest aside.        *)
LEMMA SettledFields ==
    ASSUME NEW c, DOMAIN c = ObjectFields, NEW n, NEW td, NEW tc, NEW x \in BOOLEAN, NEW st, NEW d, NEW e,
           d = [c EXCEPT !.cursor = n, !.total_debits = td, !.total_credits = tc],
           e = IF x THEN [d EXCEPT !.stage = st] ELSE d
    PROVE  Settled(c, n, IF x THEN st ELSE c.stage, e)
<1>1. /\ DOMAIN d = ObjectFields
      /\ d.entries = c.entries /\ d.alloc = c.alloc /\ d.funding = c.funding
      /\ d.fills = c.fills /\ d.fee_bps = c.fee_bps /\ d.quote_paid = c.quote_paid
      /\ d.quote_recv = c.quote_recv /\ d.fee_quote = c.fee_quote
      /\ d.cursor = n /\ d.stage = c.stage
  BY DEF ObjectFields
<1>2. CASE x
  <2>1. e = [d EXCEPT !.stage = st]
    BY <1>2
  <2>2. Settled(c, n, st, e)
    BY <1>1, <2>1 DEF ObjectFields, Settled
  <2>3. QED
    BY <1>2, <2>2
<1>3. CASE ~x
  <2>1. e = d
    BY <1>3
  <2>2. Settled(c, n, c.stage, e)
    BY <1>1, <2>1 DEF Settled
  <2>3. QED
    BY <1>3, <2>2
<1>4. QED
  BY <1>2, <1>3

(* The vault released.                                                      *)
LEMMA LockReleased ==
    ASSUME NEW v, VaultOK(v), NEW w, w = [v EXCEPT !.active_clearings = 0]
    PROVE  /\ VaultOK(w) /\ w.active_clearings = 0
           /\ w.base_book = v.base_book /\ w.quote_book = v.quote_book
BY DEF VaultOK

(* What is still to be pushed stays paid for while nobody has less.         *)
LEMMA RestGrows ==
    ASSUME NEW c, FillsOK(c), NEW v, VaultOK(v), NEW w, Gives(v, w), NEW k \in Nat, Rest(c, v, k)
    PROVE  Rest(c, w, k)
<1> SUFFICES ASSUME NEW who \in DOMAIN c.funding, NEW s \in BOOLEAN
             PROVE  SumOf(FillDue(c.fills, s, who), (k + 1)..Len(c.fills)) <= Has(w, s, who)
  BY DEF Rest
<1> DEFINE x == SumOf(FillDue(c.fills, s, who), (k + 1)..Len(c.fills))
           h == Has(v, s, who)
           g == Has(w, s, who)
<1>1. x \in Nat
  BY RestFacts
<1>2. h \in Nat /\ g \in Nat
  BY HasNat DEF Gives, SameTerms
<1>3. x <= h
  BY DEF Rest
<1>4. g >= h
  BY DEF Gives
<1> HIDE DEF x, h, g
<1>5. x <= g
  BY <1>1, <1>2, <1>3, <1>4
<1>6. QED
  BY <1>5 DEF x, g

(* A settling transaction that commits: the rest stays paid for, or nothing *)
(* is left, the lock is released and the books are solvent.                 *)
LEMMA SettleStep ==
    ASSUME Shaped(clearing), Settling(clearing, vault), VaultOK(vault),
           clearing.stage = STAGE_SETTLING, NEW budget \in Nat,
           NEW after, after = settle_step(clearing, vault, budget), after.ok
    PROVE  /\ ClearingOK(after.clearing, batch, after.vault) /\ VaultOK(after.vault)
           /\ IF after.clearing.stage = STAGE_DONE
              THEN /\ after.vault.active_clearings = 0
                   /\ solvent(after.vault.base_book) /\ solvent(after.vault.quote_book)
              ELSE after.vault.active_clearings = vault.active_clearings
<1> DEFINE c == clearing
           b == c.cursor
           n == min_u64(budget, Len(c.fills) - b)
           now == SubSeq(c.fills, b + 1, b + n)
           pushed_ == push_fills(vault, now)
           last == b + n >= Len(c.fills)
           fee == IF last THEN c.fee_quote ELSE 0
           td == c.total_debits + total_over(1..n, LAMBDA i : debit_of(now[i]))
           tc == c.total_credits + total_over(1..n, LAMBDA i : credit_of(now[i])) + fee
           d == [c EXCEPT !.cursor = b + n, !.total_debits = td, !.total_credits = tc]
           e == IF last THEN [d EXCEPT !.stage = STAGE_DONE] ELSE d
           paid == credit_quote(pushed_.vault, c.fee_recipient, fee)
           w == IF last THEN [paid EXCEPT !.active_clearings = 0] ELSE paid
<1>1. /\ after.clearing = e /\ after.vault = w
      /\ last => solvent(paid.base_book) /\ solvent(paid.quote_book)
  <2>1. after = [clearing |-> e, vault |-> w,
                 ok |-> /\ pushed_.ok
                        /\ last => /\ d.total_debits = d.total_credits
                                   /\ solvent(paid.base_book) /\ solvent(paid.quote_book)]
    BY DEF settle_step
  <2> HIDE DEF e, w, d, paid, pushed_, last
  <2>2. QED
    BY <2>1
<1>2. FillsOK(c) /\ Rest(c, vault, b) /\ b <= Len(c.fills)
  BY DEF Settling, RestCovered, Rest
<1>3. Len(c.fills) \in Nat
  BY <1>2 DEF FillsOK
<1>4. /\ b \in Nat /\ DOMAIN c = ObjectFields /\ c.fee_quote \in Int /\ fee \in Int
      /\ c.stage = STAGE_SETTLING
  BY DEF Shaped, Paid
<1>5. n \in Nat /\ b + n <= Len(c.fills) /\ (last <=> b + n = Len(c.fills)) /\ b + n \in Nat
  <2> DEFINE l == Len(c.fills)
  <2> HIDE DEF b, l
  <2>1. l \in Nat /\ b \in Nat /\ b <= l /\ n = min_u64(budget, l - b) /\ (last <=> b + n >= l)
    BY <1>2, <1>3, <1>4 DEF l
  <2> HIDE DEF n, last
  <2>2. n \in Nat /\ b + n <= l
    BY <2>1 DEF min_u64
  <2>3. QED
    BY <2>1, <2>2 DEF l
<1>6. PushHolds(n, pushed_)
  <2> HIDE DEF n
  <2>1. QED
    BY <1>4, <1>5, PushLoop
<1> HIDE DEF n, now
<1>7. SameTerms(vault, pushed_.vault) /\ Rest(c, pushed_.vault, b + n)
  BY <1>6 DEF PushHolds
<1> HIDE DEF pushed_
<1>8. Gives(pushed_.vault, paid)
  <2> HIDE DEF fee
  <2>1. QED
    BY <1>4, <1>7, QuoteCredited DEF SameTerms
<1> HIDE DEF paid
<1>9. VaultOK(paid) /\ paid.active_clearings = vault.active_clearings
  BY <1>7, <1>8 DEF Gives, SameTerms
<1>10. Settled(c, b + n, IF last THEN STAGE_DONE ELSE STAGE_SETTLING, e)
  <2>1. d = [c EXCEPT !.cursor = b + n, !.total_debits = td, !.total_credits = tc]
    OBVIOUS
  <2>2. e = IF last THEN [d EXCEPT !.stage = STAGE_DONE] ELSE d
    OBVIOUS
  <2>3. last \in BOOLEAN
    OBVIOUS
  <2> DEFINE m == b + n
  <2> HIDE DEF td, tc, d, e, last, c, b, m
  <2>4. Settled(c, m, IF last THEN STAGE_DONE ELSE c.stage, e)
    BY <1>4, <2>1, <2>2, <2>3, SettledFields DEF m
  <2>5. QED
    BY <1>4, <2>4 DEF m
<1> HIDE DEF e
<1>11. Shaped(e)
  <2>1. STAGE_DONE \in Stages /\ STAGE_SETTLING \in Stages
    BY DEF Stages, STAGE_DONE, STAGE_SETTLING, STAGE_LOADING, STAGE_REALLOC_REMAINDER
  <2> HIDE DEF last
  <2>2. (IF last THEN STAGE_DONE ELSE STAGE_SETTLING) \in Stages
    BY <2>1
  <2>3. QED
    BY <1>5, <1>10, <2>2, SettledIsShaped
<1>12. CASE last
  <2>1. e.stage = STAGE_DONE
    BY <1>10, <1>12 DEF Settled
  <2>2. w = [paid EXCEPT !.active_clearings = 0]
    BY <1>12
  <2> HIDE DEF w, last
  <2>3. /\ VaultOK(w) /\ w.active_clearings = 0
        /\ w.base_book = paid.base_book /\ w.quote_book = paid.quote_book
    BY <1>9, <2>2, LockReleased
  <2>4. solvent(w.base_book) /\ solvent(w.quote_book)
    BY <1>1, <1>12, <2>3
  <2>5. ClearingOK(e, batch, w)
    BY <1>11, <2>1, <2>3
       DEF ClearingOK, Opening, Allocating, Truncating, Rooting, Settling, FirstPass, SecondPass,
           STAGE_DONE, STAGE_LOADING, STAGE_PRICING, STAGE_ALLOC_FULL, STAGE_ALLOC_PRORATA,
           STAGE_ALLOC_REMAINDER, STAGE_REALLOC_FULL, STAGE_REALLOC_PRORATA,
           STAGE_REALLOC_REMAINDER, STAGE_TRUNCATE, STAGE_ROOTING, STAGE_SETTLING
  <2>6. QED
    BY <1>1, <2>1, <2>3, <2>4, <2>5
<1>13. CASE ~last
  <2>1. e.stage = STAGE_SETTLING
    BY <1>10, <1>13 DEF Settled
  <2>2. w = paid
    BY <1>13
  <2> HIDE DEF w, last
  <2>3. Rest(c, paid, b + n)
    BY <1>2, <1>5, <1>7, <1>8, RestGrows DEF SameTerms
  <2>4. e.fills = c.fills /\ e.funding = c.funding /\ e.cursor = b + n
    BY <1>10 DEF Settled
  <2>5. FillsOK(e) /\ RestCovered(e, paid) /\ e.cursor <= Len(e.fills)
    BY <1>2, <1>5, <2>3, <2>4 DEF FillsOK, RestCovered, Rest
  <2>6. Settling(e, paid)
    BY <2>5 DEF Settling
  <2>7. ClearingOK(e, batch, paid)
    BY <1>11, <2>1, <2>6
       DEF ClearingOK, Opening, Allocating, Truncating, Rooting, FirstPass, SecondPass,
           STAGE_DONE, STAGE_LOADING, STAGE_PRICING, STAGE_ALLOC_FULL, STAGE_ALLOC_PRORATA,
           STAGE_ALLOC_REMAINDER, STAGE_REALLOC_FULL, STAGE_REALLOC_PRORATA,
           STAGE_REALLOC_REMAINDER, STAGE_TRUNCATE, STAGE_ROOTING, STAGE_SETTLING
  <2>8. e.stage # STAGE_DONE
    BY <2>1 DEF STAGE_DONE, STAGE_SETTLING
  <2>9. QED
    BY <1>1, <1>9, <2>2, <2>7, <2>8
<1>14. QED
  BY <1>12, <1>13

(* Whatever is left, all of it can be pushed.                               *)
LEMMA RestCanBePushed ==
    ASSUME ClearingOK(clearing, batch, vault), VaultOK(vault), clearing.stage = STAGE_SETTLING
    PROVE  push_fills(vault, not_pushed).ok
<1> DEFINE b == clearing.cursor
           l == Len(clearing.fills)
           n == l - b
<1>1. Settling(clearing, vault) /\ b \in Nat
  BY DEF ClearingOK, Shaped
<1>2. l \in Nat /\ b <= l
  BY <1>1 DEF Settling, FillsOK
<1>3. n \in Nat /\ b + n = l
  <2> HIDE DEF b, l
  <2>1. QED
    BY <1>1, <1>2
<1>4. not_pushed = SubSeq(clearing.fills, b + 1, b + n)
  BY <1>3 DEF not_pushed
<1>5. b + n <= Len(clearing.fills)
  <2> HIDE DEF b, n
  <2>1. QED
    BY <1>2, <1>3 DEF l
<1> HIDE DEF n, l
<1>6. PushHolds(n, push_fills(vault, not_pushed))
  BY <1>1, <1>3, <1>4, <1>5, PushLoop
<1>7. QED
  BY <1>6 DEF PushHolds

-----------------------------------------------------------------------------
(* The steps of the machine. *)

(* What one transaction does, by stage; all but settling leave the vault.   *)
Alone(d) == [clearing |-> d, vault |-> vault, ok |-> TRUE]

(* The dispatch of step.                                                    *)
LEMMA StageTaken ==
    ASSUME NEW budget, NEW after, after = stage_step(clearing, budget)
    PROVE  LET c == clearing
           IN  /\ c.stage = STAGE_LOADING => after = Alone(load_step(c, batch, vault, budget))
               /\ c.stage = STAGE_PRICING => after = Alone(price_step(c, budget))
               /\ c.stage \in {STAGE_ALLOC_FULL, STAGE_REALLOC_FULL} =>
                     after = Alone(alloc_full_step(c, budget, AfterFull(c)))
               /\ c.stage \in {STAGE_ALLOC_PRORATA, STAGE_REALLOC_PRORATA} =>
                     after = Alone(alloc_prorata_step(c, budget, AfterProrata(c)))
               /\ c.stage \in {STAGE_ALLOC_REMAINDER, STAGE_REALLOC_REMAINDER} =>
                     after = Alone(alloc_remainder_step(c, budget, AfterRemainder(c)))
               /\ c.stage = STAGE_TRUNCATE => after = Alone(truncate_step(c, vault, budget))
               /\ c.stage = STAGE_ROOTING =>
                     after = [Alone(rooting_step(c, budget))
                                EXCEPT !.ok = rooting_asserts(c, budget)]
               /\ c.stage = STAGE_SETTLING => after = settle_step(c, vault, budget)
               /\ c.stage = STAGE_DONE => after = Alone(c)
<1>1. CASE clearing.stage = STAGE_LOADING
  BY <1>1, StagesDiffer DEF stage_step, Alone
<1>2. CASE clearing.stage = STAGE_PRICING
  BY <1>2, StagesDiffer DEF stage_step, Alone
<1>3. CASE clearing.stage = STAGE_ALLOC_FULL
  BY <1>3, StagesDiffer DEF stage_step, Alone, AfterFull
<1>4. CASE clearing.stage = STAGE_REALLOC_FULL
  BY <1>4, StagesDiffer DEF stage_step, Alone, AfterFull
<1>5. CASE clearing.stage = STAGE_ALLOC_PRORATA
  BY <1>5, StagesDiffer DEF stage_step, Alone, AfterProrata
<1>6. CASE clearing.stage = STAGE_REALLOC_PRORATA
  BY <1>6, StagesDiffer DEF stage_step, Alone, AfterProrata
<1>7. CASE clearing.stage = STAGE_ALLOC_REMAINDER
  BY <1>7, StagesDiffer DEF stage_step, Alone, AfterRemainder
<1>8. CASE clearing.stage = STAGE_REALLOC_REMAINDER
  BY <1>8, StagesDiffer DEF stage_step, Alone, AfterRemainder
<1>9. CASE clearing.stage = STAGE_TRUNCATE
  BY <1>9, StagesDiffer DEF stage_step, Alone
<1>10. CASE clearing.stage = STAGE_ROOTING
  BY <1>10, StagesDiffer DEF stage_step, Alone
<1>11. CASE clearing.stage = STAGE_SETTLING
  BY <1>11, StagesDiffer DEF stage_step
<1>12. CASE clearing.stage = STAGE_DONE
  BY <1>12, StagesDiffer DEF stage_step, Alone
<1>13. CASE clearing.stage \notin
            {STAGE_LOADING, STAGE_PRICING, STAGE_ALLOC_FULL, STAGE_REALLOC_FULL,
             STAGE_ALLOC_PRORATA, STAGE_REALLOC_PRORATA, STAGE_ALLOC_REMAINDER,
             STAGE_REALLOC_REMAINDER, STAGE_TRUNCATE, STAGE_ROOTING, STAGE_SETTLING, STAGE_DONE}
  BY <1>13
<1>14. QED
  BY <1>1, <1>2, <1>3, <1>4, <1>5, <1>6, <1>7, <1>8, <1>9, <1>10, <1>11, <1>12, <1>13

(* No stage is forgotten.                                                   *)
LEMMA StagesListed ==
    ASSUME NEW x \in Stages
    PROVE  \/ x \in {STAGE_LOADING, STAGE_PRICING, STAGE_TRUNCATE, STAGE_ROOTING,
                     STAGE_SETTLING, STAGE_DONE}
           \/ x \in {STAGE_ALLOC_FULL, STAGE_REALLOC_FULL}
           \/ x \in {STAGE_ALLOC_PRORATA, STAGE_REALLOC_PRORATA}
           \/ x \in {STAGE_ALLOC_REMAINDER, STAGE_REALLOC_REMAINDER}
BY StagesDiffer

(* Every transaction but those of settling changes the object alone, and    *)
(* well.                                                                    *)
LEMMA StageStep ==
    ASSUME BatchOK, VaultOK(vault), ClearingOK(clearing, batch, vault),
           clearing.stage # STAGE_SETTLING, NEW budget \in Nat,
           NEW after, after = stage_step(clearing, budget)
    PROVE  ClearingOK(after.clearing, batch, vault) /\ after.vault = vault
<1>1. /\ Shaped(clearing) /\ Opening(clearing, batch, vault) /\ Allocating(clearing, vault)
      /\ Truncating(clearing, vault) /\ Rooting(clearing, vault) /\ Settling(clearing, vault)
  BY DEF ClearingOK
<1>2. ASSUME NEW d
      PROVE  Alone(d).clearing = d /\ Alone(d).vault = vault
  BY DEF Alone
<1>3. clearing.stage \in Stages
  BY <1>1 DEF Shaped
<1>4. CASE clearing.stage = STAGE_LOADING
  <2> DEFINE d == load_step(clearing, batch, vault, budget)
  <2>1. ClearingOK(d, batch, vault)
    BY <1>1, <1>4, LoadStep
  <2>2. after = Alone(d)
    BY <1>4, StageTaken
  <2> HIDE DEF d
  <2>3. QED
    BY <1>2, <2>1, <2>2
<1>5. CASE clearing.stage = STAGE_PRICING
  <2> DEFINE d == price_step(clearing, budget)
  <2>1. ClearingOK(d, batch, vault)
    BY <1>1, <1>5, PriceStep
  <2>2. after = Alone(d)
    BY <1>5, StageTaken
  <2> HIDE DEF d
  <2>3. QED
    BY <1>2, <2>1, <2>2
<1>6. CASE clearing.stage \in {STAGE_ALLOC_FULL, STAGE_REALLOC_FULL}
  <2> DEFINE d == alloc_full_step(clearing, budget, AfterFull(clearing))
  <2>1. ClearingOK(d, batch, vault)
    BY <1>1, <1>6, FullStep
  <2>2. after = Alone(d)
    BY <1>6, StageTaken
  <2> HIDE DEF d
  <2>3. QED
    BY <1>2, <2>1, <2>2
<1>7. CASE clearing.stage \in {STAGE_ALLOC_PRORATA, STAGE_REALLOC_PRORATA}
  <2> DEFINE d == alloc_prorata_step(clearing, budget, AfterProrata(clearing))
  <2>1. ClearingOK(d, batch, vault)
    BY <1>1, <1>7, ProrataStep
  <2>2. after = Alone(d)
    BY <1>7, StageTaken
  <2> HIDE DEF d
  <2>3. QED
    BY <1>2, <2>1, <2>2
<1>8. CASE clearing.stage \in {STAGE_ALLOC_REMAINDER, STAGE_REALLOC_REMAINDER}
  <2> DEFINE d == alloc_remainder_step(clearing, budget, AfterRemainder(clearing))
  <2>1. ClearingOK(d, batch, vault)
    BY <1>1, <1>8, RemainderStep
  <2>2. after = Alone(d)
    BY <1>8, StageTaken
  <2> HIDE DEF d
  <2>3. QED
    BY <1>2, <2>1, <2>2
<1>9. CASE clearing.stage = STAGE_TRUNCATE
  <2> DEFINE d == truncate_step(clearing, vault, budget)
  <2>1. ClearingOK(d, batch, vault)
    BY <1>1, <1>9, TruncateStep
  <2>2. after = Alone(d)
    BY <1>9, StageTaken
  <2> HIDE DEF d
  <2>3. QED
    BY <1>2, <2>1, <2>2
<1>10. CASE clearing.stage = STAGE_ROOTING
  <2> DEFINE d == rooting_step(clearing, budget)
             ok == rooting_asserts(clearing, budget)
  <2>1. ClearingOK(d, batch, vault)
    BY <1>1, <1>10, RootStep
  <2>2. after = [Alone(d) EXCEPT !.ok = ok]
    BY <1>10, StageTaken
  <2> HIDE DEF d, ok
  <2>3. after.clearing = d /\ after.vault = vault
    BY <2>2 DEF Alone
  <2>4. QED
    BY <2>1, <2>3
<1>11. CASE clearing.stage = STAGE_DONE
  <2>1. after = Alone(clearing)
    BY <1>11, StageTaken
  <2>2. QED
    BY <1>2, <2>1
<1>12. QED
  BY <1>3, <1>4, <1>5, <1>6, <1>7, <1>8, <1>9, <1>10, <1>11, StagesListed

(* The object is not the absent one.                                        *)
LEMMA AnObject ==
    ASSUME NEW c, Shaped(c)
    PROVE  c # NoClearing
<1>1. "cursor" \in DOMAIN c /\ "cursor" \notin DOMAIN NoClearing
  BY DEF Shaped, ObjectFields, NoClearing
<1>2. QED
  BY <1>1

(* The states of the batch are three numbers.                               *)
LEMMA StatesDiffer ==
    STATE_SEALED = 1 /\ STATE_CLEARING = 2 /\ STATE_SETTLED = 3
BY DEF STATE_SEALED, STATE_CLEARING, STATE_SETTLED

(* How far the clearing has come, by the state of the batch and the lock.   *)
LEMMA WhereTheLockIs ==
    ASSUME Inv, clearing # NoClearing
    PROVE  /\ ClearingOK(clearing, batch, vault)
           /\ IF clearing.stage = STAGE_DONE
              THEN batch.state = STATE_SETTLED /\ vault.active_clearings = 0
                   /\ solvent(vault.base_book) /\ solvent(vault.quote_book)
              ELSE batch.state = STATE_CLEARING /\ vault.active_clearings = 1
<1>1. ClearingOK(clearing, batch, vault) /\ LockInv
  BY DEF Inv, ClearingInv
<1>2. finished <=> clearing.stage = STAGE_DONE
  BY DEF finished, at_stage
<1>3. QED
  BY <1>1, <1>2, StatesDiffer DEF LockInv

(* The batch of a clearing that is settled, or not yet.                     *)
LEMMA BatchAfter ==
    ASSUME BatchOK, NEW st, NEW q, batch' = IF q THEN [batch EXCEPT !.state = st] ELSE batch
    PROVE  /\ BatchOK' /\ batch'.revealed = batch.revealed
           /\ batch'.state = IF q THEN st ELSE batch.state
BY DEF BatchOK

(* Only the orders are read of the batch.                                   *)
LEMMA SameOrdersOK ==
    ASSUME NEW c, NEW b, NEW v, NEW e, ClearingOK(c, b, v), e.revealed = b.revealed
    PROVE  ClearingOK(c, e, v)
BY DEF ClearingOK, Opening

(* The invariant from its parts, after a step of the clearing.              *)
LEMMA StepKeeps ==
    ASSUME Inv, NEW budget \in Nat, step(budget)
    PROVE  Inv'
<1> DEFINE after == stage_step(clearing, budget)
           done == after.clearing.stage = STAGE_DONE
<1>1. /\ clearing # NoClearing /\ after.ok
      /\ clearing' = after.clearing /\ vault' = after.vault
      /\ batch' = IF done THEN [batch EXCEPT !.state = STATE_SETTLED] ELSE batch
  BY DEF step, commits
<1>2. /\ ClearingOK(clearing, batch, vault)
      /\ IF clearing.stage = STAGE_DONE
         THEN batch.state = STATE_SETTLED /\ vault.active_clearings = 0
              /\ solvent(vault.base_book) /\ solvent(vault.quote_book)
         ELSE batch.state = STATE_CLEARING /\ vault.active_clearings = 1
  BY <1>1, WhereTheLockIs
<1>3. BatchOK /\ VaultOK(vault)
  BY DEF Inv
<1>4. /\ ClearingOK(clearing', batch, vault') /\ VaultOK(vault')
      /\ IF clearing'.stage = STAGE_DONE
         THEN /\ vault'.active_clearings = 0
              /\ solvent(vault'.base_book) /\ solvent(vault'.quote_book)
         ELSE vault'.active_clearings = 1 /\ batch.state = STATE_CLEARING
  <2>1. CASE clearing.stage = STAGE_SETTLING
    <3>1. Shaped(clearing) /\ Settling(clearing, vault)
      BY <1>2 DEF ClearingOK
    <3>2. after = settle_step(clearing, vault, budget)
      BY <2>1, StageTaken
    <3>3. vault.active_clearings = 1 /\ batch.state = STATE_CLEARING
      BY <1>2, <2>1, StagesDiffer
    <3> HIDE DEF after
    <3>4. /\ ClearingOK(after.clearing, batch, after.vault) /\ VaultOK(after.vault)
          /\ IF after.clearing.stage = STAGE_DONE
             THEN /\ after.vault.active_clearings = 0
                  /\ solvent(after.vault.base_book) /\ solvent(after.vault.quote_book)
             ELSE after.vault.active_clearings = vault.active_clearings
      BY <1>1, <1>3, <2>1, <3>1, <3>2, SettleStep
    <3>5. QED
      BY <1>1, <3>3, <3>4
  <2>2. CASE clearing.stage # STAGE_SETTLING
    <3>1. ClearingOK(after.clearing, batch, vault) /\ after.vault = vault
      BY <1>2, <1>3, <2>2, StageStep
    <3>2. ClearingOK(clearing', batch, vault) /\ vault' = vault
      BY <1>1, <3>1
    <3>3. CASE clearing.stage = STAGE_DONE
      <4>1. after = Alone(clearing)
        BY <3>3, StageTaken
      <4>2. clearing' = clearing
        BY <1>1, <4>1 DEF Alone
      <4>3. QED
        BY <1>2, <1>3, <3>2, <3>3, <4>2
    <3>4. CASE clearing.stage # STAGE_DONE
      <4>1. batch.state = STATE_CLEARING /\ vault.active_clearings = 1
        BY <1>2, <3>4
      <4>2. clearing'.stage # STAGE_DONE
        BY <3>2, <4>1 DEF ClearingOK
      <4>3. QED
        BY <1>3, <3>2, <4>1, <4>2
    <3>5. QED
      BY <3>3, <3>4
  <2>3. QED
    BY <2>1, <2>2
<1>5. /\ BatchOK' /\ batch'.revealed = batch.revealed
      /\ batch'.state = IF done THEN STATE_SETTLED ELSE batch.state
  <2> HIDE DEF done, after
  <2>1. QED
    BY <1>1, <1>3, BatchAfter
<1>6. /\ clearing' # NoClearing
      /\ batch'.state = IF clearing'.stage = STAGE_DONE THEN STATE_SETTLED ELSE STATE_CLEARING
      /\ finished' <=> clearing'.stage = STAGE_DONE
  <2>1. Shaped(clearing')
    BY <1>4 DEF ClearingOK
  <2>2. clearing' # NoClearing
    BY <2>1, AnObject
  <2>3. finished' <=> clearing'.stage = STAGE_DONE
    BY <2>2 DEF finished, at_stage
  <2>4. batch'.state = IF clearing'.stage = STAGE_DONE THEN STATE_SETTLED ELSE STATE_CLEARING
    BY <1>1, <1>4, <1>5
  <2>5. QED
    BY <2>2, <2>3, <2>4
<1>7. LockInv'
  BY <1>4, <1>6, StatesDiffer DEF LockInv
<1>8. ClearingOK(clearing', batch', vault')
  BY <1>4, <1>5, SameOrdersOK
<1>9. QED
  BY <1>4, <1>5, <1>7, <1>8 DEF Inv, ClearingInv

-----------------------------------------------------------------------------
(* The escrow surface. *)

(* Whatever is paid for stays paid for while nobody has less.               *)
LEMMA MoreIsStillEnough ==
    ASSUME NEW v, VaultOK(v), NEW w, Gives(v, w), NEW s \in BOOLEAN, NEW who,
           NEW n \in Int, n <= Has(v, s, who)
    PROVE  n <= Has(w, s, who)
<1> DEFINE h == Has(v, s, who)
           g == Has(w, s, who)
<1>1. h \in Nat /\ g \in Nat
  BY HasNat DEF Gives, SameTerms
<1>2. n <= h /\ g >= h
  BY DEF Gives
<1> HIDE DEF h, g
<1>3. n <= g
  BY <1>1, <1>2
<1>4. QED
  BY <1>3 DEF g

(* What each stage has set aside stays covered while nobody has less.       *)
LEMMA CoverStays ==
    ASSUME NEW c, Shaped(c), NEW v, VaultOK(v), NEW w, Gives(v, w)
    PROVE  /\ Snapshots(c, v) => Snapshots(c, w)
           /\ AskedCovered(c, v) => AskedCovered(c, w)
           /\ GrantsCovered(c, v) => GrantsCovered(c, w)
           /\ DueCovered(c, v) => DueCovered(c, w)
<1>0. ASSUME NEW s \in BOOLEAN, NEW who, NEW n \in Int, n <= Has(v, s, who)
      PROVE  n <= Has(w, s, who)
  BY <1>0, MoreIsStillEnough
<1>1. ASSUME NEW who \in DOMAIN c.funding, NEW s \in BOOLEAN
      PROVE  /\ Held(c.funding[who], s) \in Int
             /\ SumOf(Asked(c, s, who), Eligible(c, s)) \in Int
             /\ SumOf(Granted(c, s, who), Eligible(c, s)) + Held(c.funding[who], s) \in Int
             /\ SumOf(Due(c, s, who), DOMAIN c.entries[s]) \in Int
  <2> DEFINE e == Eligible(c, s)
             es == DOMAIN c.entries[s]
             asked == Asked(c, s, who)
             granted == Granted(c, s, who)
             due == Due(c, s, who)
             h == Held(c.funding[who], s)
  <2>1. /\ \A i \in es : due[i] \in Nat /\ asked[i] \in Nat /\ granted[i] \in Nat
        /\ IsFiniteSet(es) /\ e \subseteq es /\ IsFiniteSet(e)
    BY DueFacts
  <2>2. h \in Nat
    BY HeldNat
  <2> HIDE DEF e, es, asked, granted, due, h
  <2>3. SumOf(asked, e) \in Nat
    BY <2>1, SumNat
  <2>4. SumOf(granted, e) \in Nat
    BY <2>1, SumNat
  <2>5. SumOf(due, es) \in Nat
    BY <2>1, SumNat
  <2>6. SumOf(granted, e) + h \in Int
    BY <2>2, <2>4
  <2>7. QED
    BY <2>2, <2>3, <2>5, <2>6 DEF e, es, asked, granted, due, h
<1>2. Snapshots(c, v) => Snapshots(c, w)
  BY <1>0, <1>1 DEF Snapshots
<1>3. AskedCovered(c, v) => AskedCovered(c, w)
  BY <1>0, <1>1 DEF AskedCovered
<1>4. GrantsCovered(c, v) => GrantsCovered(c, w)
  BY <1>0, <1>1 DEF GrantsCovered
<1>5. DueCovered(c, v) => DueCovered(c, w)
  BY <1>0, <1>1 DEF DueCovered
<1>6. QED
  BY <1>2, <1>3, <1>4, <1>5

(* So a clearing under way does not mind credits.                           *)
LEMMA ClearingStaysOK ==
    ASSUME NEW c, NEW b, NEW v, ClearingOK(c, b, v), VaultOK(v), NEW w, Gives(v, w)
    PROVE  ClearingOK(c, b, w)
<1>1. /\ Shaped(c) /\ Opening(c, b, v) /\ Allocating(c, v) /\ Truncating(c, v)
      /\ Rooting(c, v) /\ Settling(c, v) /\ (c.stage = STAGE_DONE => v.active_clearings = 0)
  BY DEF ClearingOK
<1>2. /\ Snapshots(c, v) => Snapshots(c, w)
      /\ AskedCovered(c, v) => AskedCovered(c, w)
      /\ GrantsCovered(c, v) => GrantsCovered(c, w)
      /\ DueCovered(c, v) => DueCovered(c, w)
  BY <1>1, CoverStays
<1>3. Settling(c, w)
  <2> SUFFICES ASSUME c.stage = STAGE_SETTLING
               PROVE  c.cursor <= Len(c.fills) /\ FillsOK(c) /\ RestCovered(c, w)
    BY DEF Settling
  <2>1. c.cursor <= Len(c.fills) /\ FillsOK(c) /\ Rest(c, v, c.cursor) /\ c.cursor \in Nat
    BY <1>1 DEF Settling, RestCovered, Rest, Shaped
  <2>2. Rest(c, w, c.cursor)
    BY <2>1, RestGrows
  <2>3. QED
    BY <2>1, <2>2 DEF Rest, RestCovered
<1>4. w.active_clearings = v.active_clearings
  BY DEF Gives, SameTerms
<1>5. Opening(c, b, w)
  BY <1>1, <1>2 DEF Opening
<1>6. Allocating(c, w)
  BY <1>1, <1>2 DEF Allocating
<1>7. Truncating(c, w) /\ Rooting(c, w)
  BY <1>1, <1>2 DEF Truncating, Rooting
<1>8. QED
  BY <1>1, <1>3, <1>4, <1>5, <1>6, <1>7 DEF ClearingOK

(* A vault that nobody has less in, with books as solvent, keeps it all.    *)
SolvencyKept(v, w) ==
    solvent(v.base_book) /\ solvent(v.quote_book)
        => solvent(w.base_book) /\ solvent(w.quote_book)

(* A change of the vault by which nobody has less keeps the invariant.      *)
LEMMA GivingKeeps ==
    ASSUME Inv, Gives(vault, vault'), SolvencyKept(vault, vault'), UNCHANGED <<batch, clearing>>
    PROVE  Inv'
<1>1. BatchOK' /\ VaultOK(vault') /\ VaultOK(vault)
  BY DEF Inv, BatchOK, Gives, SameTerms
<1>2. vault'.active_clearings = vault.active_clearings
  BY DEF Gives, SameTerms
<1>3. finished' <=> finished
  BY DEF finished, at_stage
<1>4. LockInv'
  BY <1>2, <1>3 DEF Inv, LockInv, SolvencyKept
<1>5. ClearingInv'
  <2> SUFFICES ASSUME clearing' # NoClearing
               PROVE  ClearingOK(clearing', batch', vault')
    BY DEF ClearingInv
  <2>1. ClearingOK(clearing, batch, vault)
    BY DEF Inv, ClearingInv
  <2>2. ClearingOK(clearing, batch, vault')
    BY <1>1, <2>1, ClearingStaysOK
  <2>3. QED
    BY <2>2
<1>6. QED
  BY <1>1, <1>4, <1>5 DEF Inv

(* A top-up moves a balance, the running total and the coin together.       *)
LEMMA TopUpPays ==
    ASSUME NEW b, BookOK(b), NEW who, NEW n \in Nat, NEW d, d = top_up_for(b, who, n)
    PROVE  Paying(b, who, n, d) /\ (solvent(b) => solvent(d))
<1> DEFINE o == credit(b, who, n)
           m == o.custody + n
<1>1. Paying(b, who, n, o) /\ o.custody = b.custody
  BY CreditPays
<1>2. d = [o EXCEPT !.custody = m]
  BY DEF top_up_for
<1> HIDE DEF o
<1>3. DOMAIN o = {"custody", "accounts", "total_credited", "accounts_opened"}
  BY <1>1 DEF Paying, BookOK
<1> HIDE DEF m
<1>4. /\ DOMAIN d = DOMAIN o /\ d.custody = m /\ d.accounts = o.accounts
      /\ d.total_credited = o.total_credited
  BY <1>2, <1>3
<1>5. BookOK(d)
  BY <1>1, <1>4 DEF Paying, BookOK
<1>6. \A a : balance_of(d, a) = balance_of(o, a)
  BY <1>4 DEF balance_of, has_account
<1>7. Paying(b, who, n, d)
  BY <1>1, <1>4, <1>5, <1>6 DEF Paying
<1>8. solvent(b) => solvent(d)
  BY <1>1, <1>4 DEF solvent, m, Paying
<1>9. QED
  BY <1>7, <1>8

(* A withdrawal moves a balance, the running total and the coin together.   *)
LEMMA WithdrawPays ==
    ASSUME NEW b, BookOK(b), NEW who, NEW n \in Nat, can_debit(b, who, n),
           NEW d, d = withdraw(b, who, n)
    PROVE  BookOK(d) /\ (solvent(b) => solvent(d))
<1> DEFINE o == debit(b, who, n)
           m == o.custody - n
<1>1. Paying(b, who, 0 - n, o) /\ o.custody = b.custody
  BY DebitPays
<1>2. d = [o EXCEPT !.custody = m]
  BY DEF withdraw
<1> HIDE DEF o
<1>3. DOMAIN o = {"custody", "accounts", "total_credited", "accounts_opened"}
  BY <1>1 DEF Paying, BookOK
<1> HIDE DEF m
<1>4. /\ DOMAIN d = DOMAIN o /\ d.custody = m /\ d.accounts = o.accounts
      /\ d.total_credited = o.total_credited
  BY <1>2, <1>3
<1>5. BookOK(d)
  BY <1>1, <1>4 DEF Paying, BookOK
<1>6. solvent(b) => solvent(d)
  <2> SUFFICES ASSUME solvent(b)
               PROVE  solvent(d)
    OBVIOUS
  <2> DEFINE x == b.total_credited
  <2>1. x \in Int /\ b.custody = x
    BY DEF BookOK, solvent
  <2>2. d.total_credited = x + (0 - n) /\ d.custody = x - n
    BY <1>1, <1>4, <2>1 DEF Paying, m
  <2> HIDE DEF x
  <2>3. x + (0 - n) = x - n
    BY <2>1
  <2>4. QED
    BY <2>2, <2>3 DEF solvent
<1>7. QED
  BY <1>5, <1>6

(* A top-up in quote keeps the invariant, whatever the clearing is doing.   *)
LEMMA TopUpQuoteKeeps ==
    ASSUME Inv, NEW who \in Addresses, NEW n \in Nat, TopUpQuote(who, n)
    PROVE  Inv'
<1> DEFINE q == top_up_for(vault.quote_book, who, n)
<1>1. vault' = [vault EXCEPT !.quote_book = q] /\ UNCHANGED <<batch, clearing>>
  BY DEF TopUpQuote
<1>2. VaultOK(vault) /\ BookOK(vault.quote_book)
  BY DEF Inv, VaultOK
<1>3. Paying(vault.quote_book, who, n, q) /\ (solvent(vault.quote_book) => solvent(q))
  BY <1>2, TopUpPays
<1> HIDE DEF q
<1>4. /\ SameTerms(vault, vault') /\ vault'.quote_book = q
      /\ vault'.base_book = vault.base_book
  BY <1>1, <1>2, <1>3, QuoteBookSet DEF Paying
<1>5. ASSUME NEW a
      PROVE  Has(vault', TRUE, a) >= Has(vault, TRUE, a)
             /\ Has(vault', FALSE, a) >= Has(vault, FALSE, a)
  <2> DEFINE x == balance_of(vault.quote_book, a)
             y == balance_of(vault.base_book, a)
             z == balance_of(q, a)
  <2>1. x \in Nat /\ y \in Nat /\ z = x + IF a = who THEN n ELSE 0
    BY <1>2, <1>3, BooksOfVault DEF Paying
  <2>2. /\ Has(vault', TRUE, a) = z /\ Has(vault, TRUE, a) = x
        /\ Has(vault', FALSE, a) = y /\ Has(vault, FALSE, a) = y
    BY <1>4, HasSides
  <2> HIDE DEF x, y, z
  <2>3. z >= x /\ y >= y
    BY <2>1
  <2>4. QED
    BY <2>2, <2>3
<1>6. Gives(vault, vault')
  BY <1>4, <1>5 DEF Gives
<1>7. SolvencyKept(vault, vault')
  BY <1>3, <1>4 DEF SolvencyKept
<1>8. QED
  BY <1>1, <1>6, <1>7, GivingKeeps

(* A top-up in base does.                                                   *)
LEMMA TopUpBaseKeeps ==
    ASSUME Inv, NEW who \in Addresses, NEW n \in Nat, TopUpBase(who, n)
    PROVE  Inv'
<1> DEFINE q == top_up_for(vault.base_book, who, n)
<1>1. vault' = [vault EXCEPT !.base_book = q] /\ UNCHANGED <<batch, clearing>>
  BY DEF TopUpBase
<1>2. VaultOK(vault) /\ BookOK(vault.base_book)
  BY DEF Inv, VaultOK
<1>3. Paying(vault.base_book, who, n, q) /\ (solvent(vault.base_book) => solvent(q))
  BY <1>2, TopUpPays
<1> HIDE DEF q
<1>4. /\ SameTerms(vault, vault') /\ vault'.base_book = q
      /\ vault'.quote_book = vault.quote_book
  BY <1>1, <1>2, <1>3, BaseBookSet DEF Paying
<1>5. ASSUME NEW a
      PROVE  Has(vault', TRUE, a) >= Has(vault, TRUE, a)
             /\ Has(vault', FALSE, a) >= Has(vault, FALSE, a)
  <2> DEFINE x == balance_of(vault.quote_book, a)
             y == balance_of(vault.base_book, a)
             z == balance_of(q, a)
  <2>1. x \in Nat /\ y \in Nat /\ z = y + IF a = who THEN n ELSE 0
    BY <1>2, <1>3, BooksOfVault DEF Paying
  <2>2. /\ Has(vault', TRUE, a) = x /\ Has(vault, TRUE, a) = x
        /\ Has(vault', FALSE, a) = z /\ Has(vault, FALSE, a) = y
    BY <1>4, HasSides
  <2> HIDE DEF x, y, z
  <2>3. z >= y /\ x >= x
    BY <2>1
  <2>4. QED
    BY <2>2, <2>3
<1>6. Gives(vault, vault')
  BY <1>4, <1>5 DEF Gives
<1>7. SolvencyKept(vault, vault')
  BY <1>3, <1>4 DEF SolvencyKept
<1>8. QED
  BY <1>1, <1>6, <1>7, GivingKeeps

(* While no clearing holds the lock, the balances matter to none.           *)
LEMMA UnlockedKeeps ==
    ASSUME Inv, vault.active_clearings = 0, SameTerms(vault, vault'),
           SolvencyKept(vault, vault'), UNCHANGED <<batch, clearing>>
    PROVE  Inv'
<1>1. BatchOK' /\ VaultOK(vault')
  BY DEF Inv, BatchOK, SameTerms
<1>2. vault'.active_clearings = 0
  BY DEF SameTerms
<1>3. finished' <=> finished
  BY DEF finished, at_stage
<1>4. LockInv'
  BY <1>2, <1>3 DEF Inv, LockInv, SolvencyKept
<1>5. ClearingInv'
  <2> SUFFICES ASSUME clearing # NoClearing
               PROVE  ClearingOK(clearing, batch, vault')
    BY DEF ClearingInv
  <2>1. ClearingOK(clearing, batch, vault) /\ clearing.stage = STAGE_DONE
    BY WhereTheLockIs
  <2>2. QED
    BY <1>2, <2>1, StagesDiffer
       DEF ClearingOK, Opening, Allocating, FirstPass, SecondPass, Truncating, Rooting, Settling
<1>6. QED
  BY <1>1, <1>4, <1>5 DEF Inv

(* A withdrawal does: the lock keeps it out of a clearing.                  *)
LEMMA WithdrawKeeps ==
    ASSUME Inv, NEW who \in Addresses, NEW n \in Nat,
           WithdrawBase(who, n) \/ WithdrawQuote(who, n)
    PROVE  Inv'
<1>1. VaultOK(vault) /\ BookOK(vault.quote_book) /\ BookOK(vault.base_book)
  BY DEF Inv, VaultOK
<1>2. CASE WithdrawBase(who, n)
  <2> DEFINE q == withdraw(vault.base_book, who, n)
  <2>1. /\ vault' = [vault EXCEPT !.base_book = q] /\ UNCHANGED <<batch, clearing>>
        /\ vault.active_clearings = 0 /\ can_debit(vault.base_book, who, n)
    BY <1>2 DEF WithdrawBase
  <2>2. BookOK(q) /\ (solvent(vault.base_book) => solvent(q))
    BY <1>1, <2>1, WithdrawPays
  <2> HIDE DEF q
  <2>3. /\ SameTerms(vault, vault') /\ vault'.base_book = q
        /\ vault'.quote_book = vault.quote_book
    BY <1>1, <2>1, <2>2, BaseBookSet
  <2>4. SolvencyKept(vault, vault')
    BY <2>2, <2>3 DEF SolvencyKept
  <2>5. QED
    BY <2>1, <2>3, <2>4, UnlockedKeeps
<1>3. CASE WithdrawQuote(who, n)
  <2> DEFINE q == withdraw(vault.quote_book, who, n)
  <2>1. /\ vault' = [vault EXCEPT !.quote_book = q] /\ UNCHANGED <<batch, clearing>>
        /\ vault.active_clearings = 0 /\ can_debit(vault.quote_book, who, n)
    BY <1>3 DEF WithdrawQuote
  <2>2. BookOK(q) /\ (solvent(vault.quote_book) => solvent(q))
    BY <1>1, <2>1, WithdrawPays
  <2> HIDE DEF q
  <2>3. /\ SameTerms(vault, vault') /\ vault'.quote_book = q
        /\ vault'.base_book = vault.base_book
    BY <1>1, <2>1, <2>2, QuoteBookSet
  <2>4. SolvencyKept(vault, vault')
    BY <2>2, <2>3 DEF SolvencyKept
  <2>5. QED
    BY <2>1, <2>3, <2>4, UnlockedKeeps
<1>4. QED
  BY <1>2, <1>3

(* A change of the fee does: the clearing has its own terms.                *)
LEMMA FeeKeeps ==
    ASSUME Inv, NEW fee \in Fees, set_fee_params(fee)
    PROVE  Inv'
<1>1. vault' = [vault EXCEPT !.fee_matched_bps = fee.bps, !.fee_recipient = fee.recipient]
      /\ UNCHANGED <<batch, clearing>>
  BY DEF set_fee_params
<1>2. fee.bps \in Nat
  <2>1. fee \in [bps : 0..BPS_DENOMINATOR, recipient : Addresses]
    BY ClearingAssumption
  <2>2. QED
    BY <2>1, ScaleAssumption
<1>3. VaultOK(vault)
  BY DEF Inv
<1>4. /\ VaultOK(vault') /\ vault'.active_clearings = vault.active_clearings
      /\ vault'.base_book = vault.base_book /\ vault'.quote_book = vault.quote_book
  BY <1>1, <1>2, <1>3 DEF VaultOK
<1>5. \A s \in BOOLEAN : \A a : Has(vault', s, a) = Has(vault, s, a)
  BY <1>4 DEF Has
<1>6. ASSUME NEW c, ClearingOK(c, batch, vault)
      PROVE  ClearingOK(c, batch, vault')
  <2>1. Snapshots(c, vault) => Snapshots(c, vault')
    BY <1>5 DEF Snapshots
  <2>2. AskedCovered(c, vault) => AskedCovered(c, vault')
    BY <1>5 DEF AskedCovered
  <2>3. GrantsCovered(c, vault) => GrantsCovered(c, vault')
    BY <1>5 DEF GrantsCovered
  <2>4. DueCovered(c, vault) => DueCovered(c, vault')
    BY <1>5 DEF DueCovered
  <2>5. RestCovered(c, vault) => RestCovered(c, vault')
    BY <1>5 DEF RestCovered
  <2>6. Opening(c, batch, vault')
    BY <1>6, <2>1 DEF ClearingOK, Opening
  <2>7. Allocating(c, vault')
    BY <1>6, <2>1, <2>2 DEF ClearingOK, Allocating
  <2>8. Truncating(c, vault') /\ Rooting(c, vault') /\ Settling(c, vault')
    BY <1>6, <2>3, <2>4, <2>5 DEF ClearingOK, Truncating, Rooting, Settling
  <2>9. QED
    BY <1>4, <1>6, <2>6, <2>7, <2>8 DEF ClearingOK
<1>7. finished' <=> finished
  BY <1>1 DEF finished, at_stage
<1>8. BatchOK' /\ LockInv'
  BY <1>1, <1>4, <1>7 DEF Inv, BatchOK, LockInv
<1>9. ClearingInv'
  <2> SUFFICES ASSUME clearing' # NoClearing
               PROVE  ClearingOK(clearing', batch', vault')
    BY DEF ClearingInv
  <2>1. ClearingOK(clearing, batch, vault)
    BY <1>1 DEF Inv, ClearingInv
  <2>2. QED
    BY <1>1, <1>6, <2>1
<1>10. QED
  BY <1>4, <1>8, <1>9 DEF Inv

(* The object begin makes.                                                  *)
LEMMA NewIsOK ==
    ASSUME NEW v, v.fee_matched_bps \in Nat, NEW b, Len(b.revealed) \in Nat, NEW w,
           NEW c, c = new_clearing(v)
    PROVE  ClearingOK(c, b, w) /\ c.stage = STAGE_LOADING
<1>1. /\ DOMAIN c = ObjectFields /\ c.stage = STAGE_LOADING /\ c.cursor = 0
      /\ DOMAIN c.funding = {} /\ c.entries = both(<<>>) /\ c.alloc = new_allocation(0, 0, both(0))
      /\ c.fills = <<>> /\ c.fee_bps \in Nat /\ c.quote_paid = 0 /\ c.quote_recv = 0
      /\ c.fee_quote = 0
  BY DEF new_clearing, ObjectFields
<1>2. PricingOK(c)
  <2>1. c.pricing = [candidates |-> <<>>, demand_remaining |-> 0, bid_scan |-> 0,
                     supply_acc |-> 0, ask_scan |-> 0, found |-> FALSE,
                     best_price |-> 0, best_vol |-> 0, best_gap |-> 0]
    BY DEF new_clearing
  <2>2. <<>> \in Seq(Nat \ {0})
    OBVIOUS
  <2>3. c.pricing.candidates = <<>> /\ c.pricing.found = FALSE
    BY <2>1
  <2>4. DOMAIN c.pricing = {"candidates", "demand_remaining", "bid_scan", "supply_acc", "ask_scan",
                            "found", "best_price", "best_vol", "best_gap"}
    BY <2>1
  <2>5. QED
    BY <2>2, <2>3, <2>4 DEF PricingOK
<1>3. /\ c.entries \in [BOOLEAN -> Seq(Entry)]
      /\ \A s \in BOOLEAN : c.entries[s] = <<>> /\ DOMAIN c.entries[s] = {} /\ Len(c.entries[s]) = 0
  BY <1>1 DEF both
<1>4. EntriesOK(c)
  BY <1>3 DEF EntriesOK
<1>5. /\ DOMAIN c.alloc = AllocFields /\ c.alloc.clearing_price = 0 /\ c.alloc.matched_base = 0
      /\ c.alloc.elig = [s \in BOOLEAN |-> 0] /\ c.alloc.awarded = [s \in BOOLEAN |-> 0]
      /\ c.alloc.remainder_side = SIDE_BID
  BY <1>1 DEF new_allocation, both, AllocFields
<1>6. AllocOK(c)
  BY <1>3, <1>5 DEF AllocOK
<1>7. Paid(c)
  BY <1>1 DEF Paid
<1>8. Shaped(c)
  BY <1>1, <1>4, <1>6, <1>7, StagesDiffer DEF Shaped
<1>9. Unfilled(c) /\ Snapshots(c, w)
  BY <1>1, <1>3, <1>5 DEF Unfilled, Snapshots
<1>10. OpenOK(c, w)
  BY <1>2, <1>8, <1>9 DEF OpenOK
<1>11. c.stage # STAGE_PRICING
  BY <1>1, StagesDiffer
<1>12. QED
  BY <1>1, <1>10, <1>11, OpenIsOK

(* begin takes the lock with the solvent books and leaves it on.            *)
LEMMA BeginKeeps ==
    ASSUME Inv, begin
    PROVE  Inv'
<1>1. /\ batch.state = STATE_SEALED /\ vault.active_clearings = 0
      /\ batch' = [batch EXCEPT !.state = STATE_CLEARING]
      /\ vault' = [vault EXCEPT !.active_clearings = 1]
      /\ clearing' = new_clearing(vault)
  BY DEF begin
<1>2. BatchOK /\ VaultOK(vault)
  BY DEF Inv
<1>3. BatchOK' /\ batch'.revealed = batch.revealed /\ batch'.state = STATE_CLEARING
  BY <1>1, <1>2 DEF BatchOK
<1>4. VaultOK(vault') /\ vault'.active_clearings = 1
  BY <1>1, <1>2 DEF VaultOK
<1>5. ClearingOK(clearing', batch', vault') /\ clearing'.stage = STAGE_LOADING
  <2>1. vault.fee_matched_bps \in Nat /\ Len(batch'.revealed) \in Nat
    BY <1>2, <1>3, RevealedLength DEF VaultOK
  <2>2. QED
    BY <1>1, <2>1, NewIsOK
<1>6. clearing' # NoClearing
  BY <1>5, AnObject DEF ClearingOK
<1>7. ~ finished'
  BY <1>5, StagesDiffer DEF finished, at_stage
<1>8. LockInv'
  BY <1>3, <1>4, <1>6, <1>7, StatesDiffer DEF LockInv
<1>9. QED
  BY <1>3, <1>4, <1>5, <1>8 DEF Inv, ClearingInv

(* The books at first: the rows of those who have something.                *)
Opened(book, pay) == top_up_for(book, pay[1], pay[2])

SolventBook(who, book) == BookOK(book) /\ solvent(book)

Funding == INSTANCE LoopRules WITH Body <- Opened, Holds <- SolventBook

(* The premise of the rules of this instance.                               *)
LEMMA FundingInduction ==
    Funding!Induction
  BY NatSetInduction DEF Funding!Induction

(* A book funded by top-ups is solvent.                                     *)
LEMMA FundedBook ==
    ASSUME NEW amounts, \A a \in Addresses : amounts[a] \in Nat
    PROVE  BookOK(funded_book(amounts)) /\ solvent(funded_book(amounts))
<1> DEFINE S == {a \in Addresses : amounts[a] > 0}
           pays == [a \in Addresses |-> <<a, amounts[a]>>]
<1>1. IsFiniteSet(S)
  BY ClearingAssumption, FS_Subset
<1>2. SolventBook({}, new_book)
  BY DEF SolventBook, BookOK, new_book, solvent
<1>3. ASSUME NEW t \in SUBSET S, NEW x \in S \ t, NEW a, SolventBook(t, a)
      PROVE  SolventBook(t \cup {x}, Opened(a, pays[x]))
  <2>1. pays[x][1] = x /\ pays[x][2] = amounts[x] /\ amounts[x] \in Nat
    OBVIOUS
  <2> DEFINE n == amounts[x]
             d == top_up_for(a, x, n)
  <2>2. Opened(a, pays[x]) = d
    BY <2>1 DEF Opened
  <2>3. BookOK(d) /\ solvent(d)
    <3>1. BookOK(a) /\ solvent(a)
      BY <1>3 DEF SolventBook
    <3> HIDE DEF n
    <3>2. n \in Nat
      BY <2>1 DEF n
    <3>3. QED
      BY <3>1, <3>2, TopUpPays DEF Paying
  <2> HIDE DEF d
  <2>4. QED
    BY <2>2, <2>3 DEF SolventBook
<1> DEFINE book == Funding!FoldOver(new_book, pays, S)
<1>4. SolventBook(S, book)
  <2> HIDE DEF pays, S
  <2>0. Funding!Extends(pays, S)
    BY <1>3 DEF Funding!Extends
  <2>1. Funding!Listed(S)
    <3>1. PICK seq \in Seq(S) : \A s \in S : \E n \in 1..Len(seq) : seq[n] = s
      BY <1>1 DEF IsFiniteSet
    <3>2. \E f : \A s \in S : \E n \in 1..Len(seq) : f[n] = s
      BY <3>1
    <3>3. Len(seq) \in Nat
      OBVIOUS
    <3>4. QED
      BY <3>2, <3>3 DEF Funding!Listed
  <2>3. SolventBook(S, Funding!FoldOver(new_book, pays, S))
    BY <1>2, <2>0, <2>1, FundingInduction, Funding!FoldSetRule
  <2>4. QED
    BY <2>3
<1>5. funded_book(amounts) = book
  BY DEF funded_book, Opened, Funding!FoldOver, FoldFunctionOnSet, MapThenFoldSet
<1> HIDE DEF book
<1>6. QED
  BY <1>4, <1>5 DEF SolventBook

(* The invariant holds at first.                                            *)
LEMMA InitHolds ==
    ASSUME Init
    PROVE  Inv
<1>1. PICK b \in Batches : batch = [state |-> STATE_SEALED, revealed |-> b.revealed,
                                    is_revealed |-> b.is_revealed]
  BY DEF Init
<1>2. PICK f \in Funds, fee \in Fees :
          vault = [base_book |-> funded_book([a \in Addresses |-> f[a].base]),
                   quote_book |-> funded_book([a \in Addresses |-> f[a].quote]),
                   active_clearings |-> 0,
                   fee_matched_bps |-> fee.bps, fee_recipient |-> fee.recipient]
  BY DEF Init
<1>3. clearing = NoClearing
  BY DEF Init
<1> DEFINE bb == funded_book([a \in Addresses |-> f[a].base])
           qb == funded_book([a \in Addresses |-> f[a].quote])
<1>4. f \in [Addresses -> [base : Nat, quote : Nat]] /\ fee.bps \in Nat
  <2>1. f \in [Addresses -> [base : Nat, quote : Nat]]
    BY ClearingAssumption
  <2>2. fee \in [bps : 0..BPS_DENOMINATOR, recipient : Addresses]
    BY ClearingAssumption
  <2>3. QED
    BY <2>1, <2>2, ScaleAssumption
<1>5. BookOK(bb) /\ solvent(bb)
  <2> DEFINE m == [a \in Addresses |-> f[a].base]
  <2>1. \A a \in Addresses : m[a] \in Nat
    BY <1>4
  <2> HIDE DEF m
  <2>2. BookOK(funded_book(m)) /\ solvent(funded_book(m))
    BY <2>1, FundedBook
  <2>3. QED
    BY <2>2 DEF m
<1>6. BookOK(qb) /\ solvent(qb)
  <2> DEFINE m == [a \in Addresses |-> f[a].quote]
  <2>1. \A a \in Addresses : m[a] \in Nat
    BY <1>4
  <2> HIDE DEF m
  <2>2. BookOK(funded_book(m)) /\ solvent(funded_book(m))
    BY <2>1, FundedBook
  <2>3. QED
    BY <2>2 DEF m
<1> HIDE DEF bb, qb
<1>7. vault = [base_book |-> bb, quote_book |-> qb, active_clearings |-> 0,
               fee_matched_bps |-> fee.bps, fee_recipient |-> fee.recipient]
  BY <1>2 DEF bb, qb
<1>8. VaultOK(vault) /\ solvent(vault.base_book) /\ solvent(vault.quote_book)
  BY <1>4, <1>5, <1>6, <1>7 DEF VaultOK
<1>9. BatchOK
  BY <1>1 DEF BatchOK
<1>10. ~ finished
  BY <1>3 DEF finished, at_stage
<1>11. LockInv
  BY <1>1, <1>3, <1>7, <1>8, <1>10, StatesDiffer DEF LockInv
<1>12. QED
  BY <1>3, <1>8, <1>9, <1>11 DEF Inv, ClearingInv

(* Inv is inductive, so it holds throughout (Clearing's whole next-state    *)
(* relation:                                                                *)
(* begin, every stage of step with any budget, top-ups, withdrawals and     *)
(* fees).                                                                   *)
THEOREM Invariance == Spec => []Inv
<1>1. Init => Inv
  BY InitHolds
<1>2. Inv /\ [Next]_vars => Inv'
  <2> SUFFICES ASSUME Inv, [Next]_vars
               PROVE  Inv'
    OBVIOUS
  <2>0. /\ \A budget \in Budgets : budget \in Nat
        /\ \A n \in Amounts : n \in Nat
    BY ClearingAssumption
  <2>1. CASE begin
    BY <2>1, BeginKeeps
  <2>2. CASE Step
    <3>1. PICK budget \in Budgets : step(budget)
      BY <2>2 DEF Step
    <3>2. QED
      BY <2>0, <3>1, StepKeeps
  <2>3. CASE TopUp
    <3>1. PICK who \in Addresses, n \in Amounts : TopUpBase(who, n) \/ TopUpQuote(who, n)
      BY <2>3 DEF TopUp
    <3>2. QED
      BY <2>0, <3>1, TopUpBaseKeeps, TopUpQuoteKeeps
  <2>4. CASE Withdraw
    <3>1. PICK who \in Addresses, n \in Amounts : WithdrawBase(who, n) \/ WithdrawQuote(who, n)
      BY <2>4 DEF Withdraw
    <3>2. QED
      BY <2>0, <3>1, WithdrawKeeps
  <2>5. CASE SetFee
    BY <2>5, FeeKeeps DEF SetFee
  <2>6. CASE UNCHANGED vars
    BY <2>6 DEF vars, Inv, BatchOK, LockInv, ClearingInv, finished, at_stage
  <2>7. QED
    BY <2>1, <2>2, <2>3, <2>4, <2>5, <2>6 DEF Next
<1>3. QED
  BY <1>1, <1>2, PTL DEF Spec

(* The withdrawal lock is held exactly while the batch is being cleared,    *)
(* and both                                                                 *)
(* books are solvent whenever it is not (vault.move's active_clearings,     *)
(* begin and                                                                *)
(* the end of settle_step in clearing.move).                                *)
THEOREM LockHolds == Spec => []LockedUntilSolvent
<1>1. Inv => LockedUntilSolvent
  BY StatesDiffer DEF Inv, LockInv, LockedUntilSolvent
<1>2. QED
  BY <1>1, Invariance, PTL

(* Once the fills are final, pushing the rest of them cannot abort,         *)
(* whatever was                                                             *)
(* credited since the snapshots were taken: settle_step's debits are        *)
(* covered                                                                  *)
(* (clearing.move), so a clearing is never stuck behind an account that     *)
(* cannot pay.                                                              *)
THEOREM SettlementNeverAborts == Spec => []SettlementCovered
<1>1. Inv => SettlementCovered
  <2> SUFFICES ASSUME Inv, settling
               PROVE  push_fills(vault, not_pushed).ok
    BY DEF SettlementCovered
  <2>1. /\ ClearingOK(clearing, batch, vault) /\ VaultOK(vault)
        /\ clearing.stage = STAGE_SETTLING
    BY DEF Inv, ClearingInv, settling, at_stage
  <2>2. QED
    BY <2>1, RestCanBePushed
<1>2. QED
  BY <1>1, Invariance, PTL
=============================================================================
