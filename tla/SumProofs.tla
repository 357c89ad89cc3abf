------------------------------ MODULE SumProofs ------------------------------
(***************************************************************************)
(* What the sums of the community modules add up to.  The other proof      *)
(* modules take these facts for the sums of receipts, notes and orders.    *)
(*                                                                         *)
(* The library's induction theorems take a predicate as a parameter.  Here *)
(* the predicate is the set of the arguments that satisfy it, and theorem  *)
(* WFMin gives a minimal one outside that set: every step is first-order.  *)
(***************************************************************************)
EXTENDS Integers, FiniteSetsExt, FiniteSetTheorems, TLAPS

(* Induction on the natural numbers.                                        *)
LEMMA NatSetInduction ==
    ASSUME NEW Good, 0 \in Good, \A k \in Nat : k \in Good => k + 1 \in Good
    PROVE  \A k \in Nat : k \in Good
<1> DEFINE Bad == Nat \ Good
<1> SUFFICES ASSUME Bad # {}
             PROVE  FALSE
  OBVIOUS
<1>1. PICK k \in Bad : \A j \in Bad : ~ (<<j, k>> \in OpToRel(<, Nat))
  BY NatLessThanWellFounded, WFMin
<1>2. \A j \in Bad : ~ (j < k)
  BY <1>1 DEF OpToRel
<1>3. k # 0 /\ k - 1 \in Nat /\ k - 1 < k
  OBVIOUS
<1>4. k - 1 \in Good
  BY <1>2, <1>3
<1>5. QED
  BY <1>3, <1>4

(* Induction on finite sets: what every set has once its proper subsets     *)
(* have it, all have.                                                       *)
LEMMA SetInduction ==
    ASSUME NEW S, IsFiniteSet(S), NEW Good,
           \A s \in SUBSET S : (\A t \in SUBSET s : t # s => t \in Good) => s \in Good
    PROVE  S \in Good
<1> DEFINE Bad == (SUBSET S) \ Good
<1> SUFFICES ASSUME Bad # {}
             PROVE  FALSE
  OBVIOUS
<1>1. IsWellFoundedOn(StrictSubsetOrdering(S), FiniteSubsetsOf(S))
  BY FS_StrictSubsetOrderingWellFounded
<1>2. Bad \subseteq FiniteSubsetsOf(S)
  BY FS_Subset DEF FiniteSubsetsOf
<1> HIDE DEF Bad
<1>3. PICK s \in Bad : \A t \in Bad : ~ (<<t, s>> \in StrictSubsetOrdering(S))
  BY <1>1, <1>2, WFMin
<1> USE DEF Bad
<1>4. \A t \in SUBSET s : t # s => t \in Good
  BY <1>3 DEF StrictSubsetOrdering
<1>5. QED
  BY <1>4

(* Of some numbers, one is the largest, and it may be more than one thing's.*)
LEMMA SomeLargest ==
    ASSUME NEW f, NEW S, IsFiniteSet(S), S # {}, \A x \in S : f[x] \in Int
    PROVE  \E x \in S : \A y \in S : f[x] >= f[y]
<1> DEFINE Good == {s \in SUBSET S : s # {} => \E x \in s : \A y \in s : f[x] >= f[y]}
<1>1. ASSUME NEW s \in SUBSET S, \A t \in SUBSET s : t # s => t \in Good
      PROVE  s \in Good
  <2> SUFFICES ASSUME s # {}
               PROVE  \E x \in s : \A y \in s : f[x] >= f[y]
    OBVIOUS
  <2>1. PICK k \in s : TRUE
    OBVIOUS
  <2> DEFINE t == s \ {k}
  <2>2. t \in SUBSET s /\ t # s /\ t \in Good
    BY <1>1, <2>1
  <2>3. CASE t = {}
    BY <2>1, <2>3
  <2>4. CASE t # {}
    <3>1. PICK x \in t : \A y \in t : f[x] >= f[y]
      BY <2>2, <2>4
    <3>2. f[x] \in Int /\ f[k] \in Int /\ \A y \in t : f[y] \in Int
      BY <2>1, <3>1
    <3>3. CASE f[x] >= f[k]
      BY <3>1, <3>3
    <3>4. CASE ~ (f[x] >= f[k])
      <4>1. \A y \in t : f[k] >= f[y]
        BY <3>1, <3>2, <3>4
      <4>2. f[k] >= f[k]
        BY <3>2
      <4>3. QED
        BY <2>1, <4>1, <4>2
    <3>5. QED
      BY <3>3, <3>4
  <2>5. QED
    BY <2>3, <2>4
<1> HIDE DEF Good
<1>2. S \in Good
  BY <1>1, SetInduction
<1>3. QED
  BY <1>2 DEF Good

(* A finite set of numbers that is not empty has a greatest.                *)
LEMMA MaxOfSet ==
    ASSUME NEW S, IsFiniteSet(S), S \subseteq Int, S # {}
    PROVE  Max(S) \in S /\ \A x \in S : x <= Max(S)
<1> DEFINE Good == {s \in SUBSET S : s # {} => \E x \in s : \A y \in s : x >= y}
<1>1. ASSUME NEW s \in SUBSET S, \A t \in SUBSET s : t # s => t \in Good
      PROVE  s \in Good
  <2> SUFFICES ASSUME s # {}
               PROVE  \E x \in s : \A y \in s : x >= y
    OBVIOUS
  <2>1. PICK z \in s : TRUE
    OBVIOUS
  <2>2. CASE s \ {z} = {}
    BY <2>1, <2>2
  <2>3. CASE s \ {z} # {}
    <3> DEFINE r == s \ {z}
    <3>0. r \in SUBSET s /\ r # s
      BY <2>1
    <3>1. PICK x \in r : \A y \in r : x >= y
      BY <1>1, <2>3, <3>0
    <3>2. CASE x >= z
      BY <3>1, <3>2
    <3>3. CASE ~ (x >= z)
      <4>1. \A y \in s : z >= y
        BY <3>1, <3>3, <2>1
      <4>2. QED
        BY <4>1
    <3>4. QED
      BY <3>2, <3>3
  <2>4. QED
    BY <2>2, <2>3
<1> HIDE DEF Good
<1>2. S \in Good
  BY <1>1, SetInduction
<1>3. \E x \in S : \A y \in S : x >= y
  BY <1>2 DEF Good
<1>4. Max(S) \in S /\ \A y \in S : Max(S) >= y
  BY <1>3 DEF Max
<1>5. QED
  BY <1>4

(* A finite set of numbers that is not empty has a least.                   *)
LEMMA MinOfSet ==
    ASSUME NEW S, IsFiniteSet(S), S \subseteq Int, S # {}
    PROVE  Min(S) \in S /\ \A x \in S : Min(S) <= x
<1> DEFINE Good == {s \in SUBSET S : s # {} => \E x \in s : \A y \in s : x <= y}
<1>1. ASSUME NEW s \in SUBSET S, \A t \in SUBSET s : t # s => t \in Good
      PROVE  s \in Good
  <2> SUFFICES ASSUME s # {}
               PROVE  \E x \in s : \A y \in s : x <= y
    OBVIOUS
  <2>1. PICK z \in s : TRUE
    OBVIOUS
  <2>2. CASE s \ {z} = {}
    BY <2>1, <2>2
  <2>3. CASE s \ {z} # {}
    <3> DEFINE r == s \ {z}
    <3>0. r \in SUBSET s /\ r # s
      BY <2>1
    <3>1. PICK x \in r : \A y \in r : x <= y
      BY <1>1, <2>3, <3>0
    <3>2. CASE x <= z
      BY <3>1, <3>2
    <3>3. CASE ~ (x <= z)
      <4>1. \A y \in s : z <= y
        BY <3>1, <3>3, <2>1
      <4>2. QED
        BY <4>1
    <3>4. QED
      BY <3>2, <3>3
  <2>4. QED
    BY <2>2, <2>3
<1> HIDE DEF Good
<1>2. S \in Good
  BY <1>1, SetInduction
<1>3. \E x \in S : \A y \in S : x <= y
  BY <1>2 DEF Good
<1>4. Min(S) \in S /\ \A y \in S : Min(S) <= y
  BY <1>3 DEF Min
<1>5. QED
  BY <1>4

-----------------------------------------------------------------------------
(* The sum of f over S, and the recursion it is computed by. *)

SumOf(f, S) == SumFunctionOnSet(f, S)

Pick(s) == CHOOSE x \in s : TRUE

Adds(f, g, S) ==
    [s \in SUBSET S |-> IF s = {} THEN 0 ELSE f[Pick(s)] + g[s \ {Pick(s)}]]

PartialSums(f, S) == CHOOSE g : g = Adds(f, g, S)

(* The community module's fold is this recursion.                           *)
LEMMA SumUnfolds ==
    ASSUME NEW f, NEW S
    PROVE  SumOf(f, S) = PartialSums(f, S)[S]
  BY DEF SumOf, SumFunctionOnSet, FoldFunctionOnSet, MapThenFoldSet, PartialSums, Adds, Pick

(* The choice the fold makes is an element of the set.                      *)
LEMMA PickIn ==
    ASSUME NEW s, s # {}
    PROVE  Pick(s) \in s
  BY DEF Pick

(* Two solutions of the recursion agree where both are defined.             *)
LEMMA PartialSumsAgree ==
    ASSUME NEW f, NEW S, NEW T, IsFiniteSet(S), NEW g, NEW h,
           g = Adds(f, g, S), h = Adds(f, h, T)
    PROVE  \A s \in (SUBSET S) \cap (SUBSET T) : g[s] = h[s]
<1> SUFFICES ASSUME NEW u \in (SUBSET S) \cap (SUBSET T)
             PROVE  g[u] = h[u]
  OBVIOUS
<1> DEFINE Good == {s \in SUBSET u : g[s] = h[s]}
<1>1. ASSUME NEW s \in SUBSET u, \A t \in SUBSET s : t # s => t \in Good
      PROVE  s \in Good
  <2>1. CASE s = {}
    <3>1. g[s] = 0 /\ h[s] = 0
      BY <2>1 DEF Adds
    <3>2. QED
      BY <3>1
  <2>2. CASE s # {}
    <3>1. Pick(s) \in s
      BY <2>2, PickIn
    <3>2. g[s \ {Pick(s)}] = h[s \ {Pick(s)}]
      BY <1>1, <3>1
    <3>3. /\ g[s] = f[Pick(s)] + g[s \ {Pick(s)}]
          /\ h[s] = f[Pick(s)] + h[s \ {Pick(s)}]
      BY <2>2 DEF Adds
    <3>4. QED
      BY <3>2, <3>3
  <2>3. QED
    BY <2>1, <2>2
<1>2. IsFiniteSet(u)
  BY FS_Subset
<1> HIDE DEF Good
<1>3. u \in Good
  BY <1>1, <1>2, SetInduction
<1>4. QED
  BY <1>3 DEF Good

(* The recursion has a solution.                                            *)
LEMMA PartialSumsExist ==
    ASSUME NEW f, NEW S, IsFiniteSet(S)
    PROVE  \E g : g = Adds(f, g, S)
<1> DEFINE Good == {s \in SUBSET S : \E g : g = Adds(f, g, s)}
<1>1. ASSUME NEW s \in SUBSET S, \A t \in SUBSET s : t # s => t \in Good
      PROVE  s \in Good
  <2> DEFINE G(t) == PartialSums(f, t)
             h == [t \in SUBSET s |->
                      IF t = {} THEN 0
                      ELSE f[Pick(t)] + G(t \ {Pick(t)})[t \ {Pick(t)}]]
  <2>1. ASSUME NEW t \in SUBSET s, t # s
        PROVE  G(t) = Adds(f, G(t), t)
    <3>1. \E g : g = Adds(f, g, t)
      BY <1>1, <2>1
    <3>2. QED
      BY <3>1 DEF PartialSums
  <2> HIDE DEF G
  <2>2. ASSUME NEW t \in SUBSET s, t # {}
        PROVE  h[t] = f[Pick(t)] + h[t \ {Pick(t)}]
    <3> DEFINE u == t \ {Pick(t)}
    <3>1. Pick(t) \in t /\ u # s /\ u \in SUBSET s
      BY <2>2, PickIn
    <3>2. G(u) = Adds(f, G(u), u)
      BY <2>1, <3>1
    <3>3. h[t] = f[Pick(t)] + G(u)[u]
      BY <2>2
    <3> HIDE DEF u
    <3>4. h[u] = G(u)[u]
      <4>1. CASE u = {}
        <5>1. G(u)[u] = 0
          BY <3>2, <4>1 DEF Adds
        <5>2. QED
          BY <3>1, <4>1, <5>1
      <4>2. CASE u # {}
        <5> DEFINE w == u \ {Pick(u)}
        <5>1. Pick(u) \in u /\ w # s /\ w \in SUBSET s /\ w \in SUBSET u
          BY <3>1, <4>2, PickIn
        <5>2. G(w) = Adds(f, G(w), w)
          BY <2>1, <5>1
        <5>3. IsFiniteSet(u)
          BY <3>1, FS_Subset
        <5>4. G(u)[w] = G(w)[w]
          BY <3>2, <5>1, <5>2, <5>3, PartialSumsAgree
        <5>5. G(u)[u] = f[Pick(u)] + G(u)[w]
          BY <3>2, <4>2 DEF Adds
        <5>6. h[u] = f[Pick(u)] + G(w)[w]
          BY <3>1, <4>2
        <5>7. QED
          BY <5>4, <5>5, <5>6
      <4>3. QED
        BY <4>1, <4>2
    <3>5. QED
      BY <3>3, <3>4 DEF u
  <2>3. h[{}] = 0
    OBVIOUS
  <2>4. h = [t \in SUBSET s |-> h[t]]
    OBVIOUS
  <2> HIDE DEF h
  <2>5. h = Adds(f, h, s)
    BY <2>2, <2>3, <2>4 DEF Adds
  <2>6. QED
    BY <2>5
<1> HIDE DEF Good
<1>2. S \in Good
  BY <1>1, SetInduction
<1>3. QED
  BY <1>2 DEF Good

(* The sum over a set is that of one element and of the rest ...            *)
LEMMA SumPicks ==
    ASSUME NEW f, NEW S, IsFiniteSet(S)
    PROVE  SumOf(f, S) = IF S = {} THEN 0 ELSE f[Pick(S)] + SumOf(f, S \ {Pick(S)})
<1> DEFINE g == PartialSums(f, S)
<1>1. g = Adds(f, g, S)
  <2>1. \E h : h = Adds(f, h, S)
    BY PartialSumsExist
  <2>2. QED
    BY <2>1 DEF PartialSums
<1> DEFINE R == S \ {Pick(S)}
           r == PartialSums(f, R)
<1>2. IsFiniteSet(R)
  BY FS_Subset
<1>3. r = Adds(f, r, R)
  <2>1. \E h : h = Adds(f, h, R)
    BY <1>2, PartialSumsExist
  <2>2. QED
    BY <2>1 DEF PartialSums
<1> HIDE DEF g, r
<1>4. g[R] = r[R]
  BY <1>1, <1>3, PartialSumsAgree
<1>5. SumOf(f, S) = g[S] /\ SumOf(f, R) = r[R]
  BY SumUnfolds DEF g, r
<1>6. g[S] = IF S = {} THEN 0 ELSE f[Pick(S)] + g[R]
  BY <1>1 DEF Adds
<1>7. QED
  BY <1>4, <1>5, <1>6

(* A sum of integers is an integer, ...                                     *)
LEMMA SumInt ==
    ASSUME NEW f, NEW S, IsFiniteSet(S), \A x \in S : f[x] \in Int
    PROVE  SumOf(f, S) \in Int
<1> DEFINE Good == {s \in SUBSET S : SumOf(f, s) \in Int}
<1>1. ASSUME NEW s \in SUBSET S, \A t \in SUBSET s : t # s => t \in Good
      PROVE  s \in Good
  <2>1. SumOf(f, s) = IF s = {} THEN 0 ELSE f[Pick(s)] + SumOf(f, s \ {Pick(s)})
    BY FS_Subset, SumPicks
  <2>2. s # {} => Pick(s) \in s
    BY PickIn
  <2>3. s # {} => SumOf(f, s \ {Pick(s)}) \in Int
    BY <1>1, <2>2
  <2>4. QED
    BY <2>1, <2>2, <2>3
<1> HIDE DEF Good
<1>2. S \in Good
  BY <1>1, SetInduction
<1>3. QED
  BY <1>2 DEF Good

(* ... of naturals a natural, ...                                           *)
LEMMA SumNat ==
    ASSUME NEW f, NEW S, IsFiniteSet(S), \A x \in S : f[x] \in Nat
    PROVE  SumOf(f, S) \in Nat
<1> DEFINE Good == {s \in SUBSET S : SumOf(f, s) \in Nat}
<1>1. ASSUME NEW s \in SUBSET S, \A t \in SUBSET s : t # s => t \in Good
      PROVE  s \in Good
  <2>1. SumOf(f, s) = IF s = {} THEN 0 ELSE f[Pick(s)] + SumOf(f, s \ {Pick(s)})
    BY FS_Subset, SumPicks
  <2>2. s # {} => Pick(s) \in s
    BY PickIn
  <2>3. s # {} => SumOf(f, s \ {Pick(s)}) \in Nat
    BY <1>1, <2>2
  <2>4. QED
    BY <2>1, <2>2, <2>3
<1> HIDE DEF Good
<1>2. S \in Good
  BY <1>1, SetInduction
<1>3. QED
  BY <1>2 DEF Good

(* ... and any element of the set may be the one taken out of it.           *)
LEMMA SumTakesOut ==
    ASSUME NEW f, NEW S, IsFiniteSet(S), \A x \in S : f[x] \in Int
    PROVE  \A x \in S : SumOf(f, S) = f[x] + SumOf(f, S \ {x})
<1> DEFINE Good == {s \in SUBSET S : \A x \in s : SumOf(f, s) = f[x] + SumOf(f, s \ {x})}
<1>1. ASSUME NEW s \in SUBSET S, \A t \in SUBSET s : t # s => t \in Good
      PROVE  s \in Good
  <2> SUFFICES ASSUME NEW x \in s
               PROVE  SumOf(f, s) = f[x] + SumOf(f, s \ {x})
    OBVIOUS
  <2> DEFINE p == Pick(s)
  <2>1. IsFiniteSet(s) /\ p \in s
    BY FS_Subset, PickIn
  <2>2. SumOf(f, s) = f[p] + SumOf(f, s \ {p})
    BY <2>1, SumPicks
  <2> HIDE DEF p
  <2>3. ASSUME x # p
        PROVE  SumOf(f, s) = f[x] + SumOf(f, s \ {x})
    <3> DEFINE sp == s \ {p}
               sx == s \ {x}
    <3>1. sp \in Good /\ sx \in Good /\ x \in sp /\ p \in sx
      BY <1>1, <2>1, <2>3
    <3>2. SumOf(f, sp) = f[x] + SumOf(f, sp \ {x}) /\ SumOf(f, sx) = f[p] + SumOf(f, sx \ {p})
      BY <3>1
    <3>3. sp \ {x} = sx \ {p} /\ IsFiniteSet(sp \ {x})
      BY <2>1, FS_Subset
    <3>4. f[x] \in Int /\ f[p] \in Int
      BY <2>1
    <3>5. SumOf(f, sp \ {x}) \in Int
      BY <3>3, SumInt
    <3> HIDE DEF sp, sx, Good
    <3>6. SumOf(f, s) = f[p] + (f[x] + SumOf(f, sp \ {x})) /\ SumOf(f, sx) = f[p] + SumOf(f, sp \ {x})
      BY <2>2, <3>2, <3>3 DEF sp
    <3>7. SumOf(f, s) = f[x] + SumOf(f, sx)
      BY <3>4, <3>5, <3>6
    <3>8. QED
      BY <3>7 DEF sx
  <2>4. QED
    BY <2>2, <2>3
<1> HIDE DEF Good
<1>2. S \in Good
  BY <1>1, SetInduction
<1>3. QED
  BY <1>2 DEF Good

(* A sum over a set that one element joins.                                 *)
LEMMA SumPutsIn ==
    ASSUME NEW f, NEW S, IsFiniteSet(S), NEW y, y \notin S,
           \A x \in S \cup {y} : f[x] \in Int
    PROVE  SumOf(f, S \cup {y}) = f[y] + SumOf(f, S)
<1>1. IsFiniteSet(S \cup {y}) /\ (S \cup {y}) \ {y} = S
  BY FS_AddElement
<1>2. QED
  BY <1>1, SumTakesOut

(* Only the values on the set count.                                        *)
LEMMA SumSame ==
    ASSUME NEW f, NEW g, NEW S, IsFiniteSet(S), \A x \in S : f[x] = g[x]
    PROVE  SumOf(f, S) = SumOf(g, S)
<1> DEFINE Good == {s \in SUBSET S : SumOf(f, s) = SumOf(g, s)}
<1>1. ASSUME NEW s \in SUBSET S, \A t \in SUBSET s : t # s => t \in Good
      PROVE  s \in Good
  <2>1. /\ SumOf(f, s) = IF s = {} THEN 0 ELSE f[Pick(s)] + SumOf(f, s \ {Pick(s)})
        /\ SumOf(g, s) = IF s = {} THEN 0 ELSE g[Pick(s)] + SumOf(g, s \ {Pick(s)})
    BY FS_Subset, SumPicks
  <2>2. s # {} => Pick(s) \in s
    BY PickIn
  <2>3. s # {} => SumOf(f, s \ {Pick(s)}) = SumOf(g, s \ {Pick(s)})
    BY <1>1, <2>2
  <2>4. QED
    BY <2>1, <2>2, <2>3
<1> HIDE DEF Good
<1>2. S \in Good
  BY <1>1, SetInduction
<1>3. QED
  BY <1>2 DEF Good

(* A greater value for some element makes no sum smaller.                   *)
LEMMA SumGrows ==
    ASSUME NEW f, NEW g, NEW S, IsFiniteSet(S),
           \A x \in S : f[x] \in Int /\ g[x] \in Int /\ f[x] <= g[x]
    PROVE  SumOf(f, S) <= SumOf(g, S)
<1> DEFINE Good == {s \in SUBSET S : SumOf(f, s) <= SumOf(g, s)}
<1>1. ASSUME NEW s \in SUBSET S, \A t \in SUBSET s : t # s => t \in Good
      PROVE  s \in Good
  <2> DEFINE p == Pick(s)
             r == s \ {p}
  <2>1. /\ SumOf(f, s) = IF s = {} THEN 0 ELSE f[p] + SumOf(f, r)
        /\ SumOf(g, s) = IF s = {} THEN 0 ELSE g[p] + SumOf(g, r)
    BY FS_Subset, SumPicks
  <2>2. s # {} => p \in s
    BY PickIn
  <2>3. s # {} => SumOf(f, r) <= SumOf(g, r)
    BY <1>1, <2>2
  <2>4. SumOf(f, r) \in Int /\ SumOf(g, r) \in Int
    <3>1. IsFiniteSet(r)
      BY FS_Subset
    <3>2. QED
      BY <3>1, SumInt
  <2> HIDE DEF p, r
  <2>5. SumOf(f, s) <= SumOf(g, s)
    <3>1. CASE s = {}
      BY <2>1, <3>1
    <3>2. CASE s # {}
      BY <2>1, <2>2, <2>3, <2>4, <3>2
    <3>3. QED
      BY <3>1, <3>2
  <2>6. QED
    BY <2>5
<1> HIDE DEF Good
<1>2. S \in Good
  BY <1>1, SetInduction
<1>3. QED
  BY <1>2 DEF Good

(* Two sets with no element in common.                                      *)
LEMMA SumUnion ==
    ASSUME NEW f, NEW S, IsFiniteSet(S), NEW T, IsFiniteSet(T), S \cap T = {},
           \A x \in S \cup T : f[x] \in Int
    PROVE  SumOf(f, S \cup T) = SumOf(f, S) + SumOf(f, T)
<1> DEFINE Good == {s \in SUBSET S : SumOf(f, s \cup T) = SumOf(f, s) + SumOf(f, T)}
<1>0. SumOf(f, T) \in Int
  BY SumInt
<1>1. ASSUME NEW s \in SUBSET S, \A t \in SUBSET s : t # s => t \in Good
      PROVE  s \in Good
  <2>1. CASE s = {}
    <3>1. SumOf(f, s) = 0 /\ s \cup T = T
      BY <2>1, FS_EmptySet, SumPicks
    <3> HIDE DEF Good
    <3>2. SumOf(f, s \cup T) = SumOf(f, T)
      BY <3>1, Zenon
    <3>3. SumOf(f, s) + SumOf(f, T) = SumOf(f, T)
      BY <1>0, <3>1
    <3>4. QED
      BY <3>2, <3>3 DEF Good
  <2>2. CASE s # {}
    <3>1. PICK x \in s : TRUE
      BY <2>2
    <3> DEFINE r == s \ {x}
    <3>2. r \in Good /\ IsFiniteSet(s) /\ IsFiniteSet(r)
      BY <1>1, <3>1, FS_Subset
    <3>3. SumOf(f, s) = f[x] + SumOf(f, r)
      BY <3>1, <3>2, SumTakesOut
    <3>4. (s \cup T) \ {x} = r \cup T /\ IsFiniteSet(s \cup T)
      BY <3>1, <3>2, FS_Union
    <3>5. SumOf(f, s \cup T) = f[x] + SumOf(f, r \cup T)
      BY <3>1, <3>4, SumTakesOut
    <3>6. f[x] \in Int /\ SumOf(f, r) \in Int
      BY <3>1, <3>2, SumInt
    <3>7. SumOf(f, r \cup T) = SumOf(f, r) + SumOf(f, T)
      BY <3>2
    <3> HIDE DEF r, Good
    <3>8. SumOf(f, s \cup T) = SumOf(f, s) + SumOf(f, T)
      BY <1>0, <3>3, <3>5, <3>6, <3>7
    <3>9. QED
      BY <3>8 DEF Good
  <2>3. QED
    BY <2>1, <2>2
<1> HIDE DEF Good
<1>2. S \in Good
  BY <1>1, SetInduction
<1>3. QED
  BY <1>2 DEF Good

(* No sum of naturals is less than one of its terms.                        *)
LEMMA TermWithinSum ==
    ASSUME NEW f, NEW S, IsFiniteSet(S), \A x \in S : f[x] \in Nat, NEW y \in S
    PROVE  f[y] <= SumOf(f, S)
<1>1. SumOf(f, S) = f[y] + SumOf(f, S \ {y})
  BY SumTakesOut
<1>2. IsFiniteSet(S \ {y})
  BY FS_Subset
<1>3. SumOf(f, S \ {y}) \in Nat
  BY <1>2, SumNat
<1>4. QED
  BY <1>1, <1>3

(* Nothing adds up to nothing.                                              *)
LEMMA SumEmpty ==
    ASSUME NEW f
    PROVE  SumOf(f, {}) = 0
  BY FS_EmptySet, SumPicks

LEMMA SumZeros ==
    ASSUME NEW f, NEW S, IsFiniteSet(S), \A x \in S : f[x] = 0
    PROVE  SumOf(f, S) = 0
<1>1. SumOf(f, S) \in Nat
  BY SumNat
<1> DEFINE Good == {s \in SUBSET S : SumOf(f, s) = 0}
<1>2. ASSUME NEW s \in SUBSET S, \A t \in SUBSET s : t # s => t \in Good
      PROVE  s \in Good
  <2> DEFINE p == Pick(s)
             r == s \ {p}
  <2>1. SumOf(f, s) = IF s = {} THEN 0 ELSE f[p] + SumOf(f, r)
    BY FS_Subset, SumPicks
  <2>2. s # {} => p \in s
    BY PickIn
  <2>3. s # {} => SumOf(f, r) = 0 /\ f[p] = 0
    BY <1>2, <2>2
  <2>4. QED
    BY <2>1, <2>3
<1> HIDE DEF Good
<1>3. S \in Good
  BY <1>2, SetInduction
<1>4. QED
  BY <1>3 DEF Good

(* A sum in which one term has changed.                                     *)
LEMMA SumMoves ==
    ASSUME NEW f, NEW g, NEW S, IsFiniteSet(S), NEW y \in S,
           \A x \in S : f[x] \in Int /\ g[x] \in Int, \A x \in S \ {y} : f[x] = g[x]
    PROVE  SumOf(g, S) = SumOf(f, S) + g[y] - f[y]
<1>1. SumOf(f, S) = f[y] + SumOf(f, S \ {y}) /\ SumOf(g, S) = g[y] + SumOf(g, S \ {y})
  BY SumTakesOut
<1>2. IsFiniteSet(S \ {y})
  BY FS_Subset
<1>3. SumOf(f, S \ {y}) \in Int /\ SumOf(f, S \ {y}) = SumOf(g, S \ {y})
  BY <1>2, SumInt, SumSame
<1>4. f[y] \in Int /\ g[y] \in Int
  OBVIOUS
<1>5. QED
  BY <1>1, <1>3, <1>4

(* The sum over the first n, and one more.                                  *)
LEMMA SumNext ==
    ASSUME NEW f, NEW m \in Int, NEW n \in Int, m <= n + 1, \A x \in m..(n + 1) : f[x] \in Int
    PROVE  SumOf(f, m..(n + 1)) = SumOf(f, m..n) + f[n + 1]
<1>1. m..(n + 1) = (m..n) \cup {n + 1} /\ n + 1 \notin m..n
  OBVIOUS
<1>2. IsFiniteSet(m..n)
  BY FS_Interval
<1> DEFINE S == m..n
           y == n + 1
<1>3. IsFiniteSet(S) /\ y \notin S /\ \A x \in S \cup {y} : f[x] \in Int
  BY <1>1, <1>2
<1>4. SumOf(f, S) \in Int
  <2> HIDE DEF S, y
  <2>1. QED
    BY <1>3, SumInt
<1>5. SumOf(f, S \cup {y}) = f[y] + SumOf(f, S)
  <2> HIDE DEF S, y
  <2>1. QED
    BY <1>3, SumPutsIn
<1>6. f[y] \in Int
  BY <1>3
<1>7. m..(n + 1) = S \cup {y}
  BY <1>1
<1> HIDE DEF S
<1>8. SumOf(f, m..(n + 1)) = SumOf(f, S) + f[y]
  <2>1. SumOf(f, m..(n + 1)) = SumOf(f, S \cup {y})
    BY <1>7, Zenon
  <2> HIDE DEF y
  <2>2. QED
    BY <1>4, <1>5, <1>6, <2>1
<1>9. QED
  BY <1>8 DEF S

(* The sum over an interval, cut in two.                                    *)
LEMMA SumCut ==
    ASSUME NEW f, NEW m \in Int, NEW k \in Int, NEW n \in Int, m <= k + 1, k <= n,
           \A x \in m..n : f[x] \in Int
    PROVE  SumOf(f, m..n) = SumOf(f, m..k) + SumOf(f, (k + 1)..n)
<1> DEFINE S == m..k
           T == (k + 1)..n
<1>1. m..n = S \cup T /\ S \cap T = {}
  OBVIOUS
<1>2. IsFiniteSet(S) /\ IsFiniteSet(T)
  BY FS_Interval
<1>3. \A x \in S \cup T : f[x] \in Int
  BY <1>1
<1> HIDE DEF S, T
<1>4. QED
  BY <1>1, <1>2, <1>3, SumUnion DEF S, T

(* The sum over an interval that was moved.                                 *)
Shifted(f, g, m, n) == \A j \in 1..n : g[j] \in Int /\ f[m + j] = g[j]

LEMMA SumShift ==
    ASSUME NEW f, NEW g, NEW m \in Int, NEW n \in Int, Shifted(f, g, m, n)
    PROVE  SumOf(f, (m + 1)..(m + n)) = SumOf(g, 1..n)
<1> DEFINE S == 1..n
           Moved(t) == {m + j : j \in t}
           Good == {t \in SUBSET S : SumOf(f, Moved(t)) = SumOf(g, t)}
<1>1. IsFiniteSet(S) /\ IsFiniteSet((m + 1)..(m + n))
  BY FS_Interval
<1>0. \A j \in S : j \in Int /\ g[j] \in Int /\ f[m + j] = g[j]
  BY DEF Shifted
<1>2. ASSUME NEW s \in SUBSET S, \A t \in SUBSET s : t # s => t \in Good
      PROVE  s \in Good
  <2>1. CASE s = {}
    <3>1. Moved(s) = {}
      BY <2>1
    <3>2. SumOf(f, {}) = 0 /\ SumOf(g, {}) = 0
      BY SumEmpty
    <3>3. QED
      BY <2>1, <3>1, <3>2
  <2>2. CASE s # {}
    <3>1. PICK x \in s : TRUE
      BY <2>2
    <3> DEFINE r == s \ {x}
    <3>2. r \in SUBSET s /\ r # s
      BY <3>1
    <3>3. SumOf(f, Moved(r)) = SumOf(g, r)
      BY <1>2, <3>2
    <3>4. Moved(s) \subseteq (m + 1)..(m + n)
      OBVIOUS
    <3>5. IsFiniteSet(s) /\ IsFiniteSet(Moved(s))
      BY <1>1, <3>4, FS_Subset
    <3>14. \A j \in s : m + j = m + x => j = x
      BY <1>0, <3>1
    <3>6. Moved(s) \ {m + x} = Moved(r) /\ m + x \in Moved(s)
      <4> HIDE DEF S
      <4>1. QED
        BY <3>1, <3>14, Zenon
    <3>7. \A y \in Moved(s) : f[y] \in Int
      BY <1>0
    <3>8. \A y \in s : g[y] \in Int
      BY <1>0
    <3> HIDE DEF Moved, S
    <3>9. SumOf(f, Moved(s)) = f[m + x] + SumOf(f, Moved(s) \ {m + x})
      BY <3>5, <3>6, <3>7, SumTakesOut
    <3>10. SumOf(g, s) = g[x] + SumOf(g, s \ {x})
      BY <3>1, <3>5, <3>8, SumTakesOut
    <3>11. f[m + x] = g[x]
      BY <1>0, <3>1
    <3>12. SumOf(f, Moved(s)) = SumOf(g, s)
      BY <3>3, <3>6, <3>9, <3>10, <3>11
    <3>13. QED
      BY <3>12
  <2>3. QED
    BY <2>1, <2>2
<1>3. S \in Good
  <2> HIDE DEF Good, S
  <2>1. QED
    BY <1>1, <1>2, SetInduction
<1>4. Moved(S) = (m + 1)..(m + n)
  <2>1. ASSUME NEW y \in (m + 1)..(m + n)
        PROVE  y \in Moved(S)
    <3>1. y - m \in S /\ y = m + (y - m)
      OBVIOUS
    <3>2. QED
      BY <3>1
  <2>2. QED
    BY <2>1
<1>5. QED
  BY <1>3, <1>4

(* One more term of a difference of two multiples.                          *)
LEMMA OneMoreMultiple ==
    ASSUME NEW r \in Int, NEW p \in Int, NEW x \in Int, NEW y \in Int, NEW u \in Int, NEW v \in Int
    PROVE  (r * x - p * y) + (r * u - p * v) = r * (x + u) - p * (y + v)
<1>1. r * (x + u) = r * x + r * u /\ p * (y + v) = p * y + p * v
  OBVIOUS
<1> DEFINE a == r * x
           b == r * u
           c == p * y
           d == p * v
<1>2. a \in Int /\ b \in Int /\ c \in Int /\ d \in Int
  OBVIOUS
<1> HIDE DEF a, b, c, d
<1>3. (a - c) + (b - d) = (a + b) - (c + d)
  BY <1>2
<1> USE DEF a, b, c, d
<1>4. QED
  BY <1>1, <1>3

(* The sum is linear.                                                       *)
Linear(h, S, r, f, p, g) ==
    \A x \in S : f[x] \in Int /\ g[x] \in Int /\ h[x] = r * f[x] - p * g[x]

LEMMA SumLinear ==
    ASSUME NEW f, NEW g, NEW h, NEW S, IsFiniteSet(S), NEW r \in Int, NEW p \in Int,
           Linear(h, S, r, f, p, g)
    PROVE  SumOf(h, S) = r * SumOf(f, S) - p * SumOf(g, S)
<1>0. \A x \in S : f[x] \in Int /\ g[x] \in Int /\ h[x] = r * f[x] - p * g[x]
  BY DEF Linear
<1> DEFINE Good == {s \in SUBSET S : SumOf(h, s) = r * SumOf(f, s) - p * SumOf(g, s)}
<1>1. ASSUME NEW s \in SUBSET S, \A t \in SUBSET s : t # s => t \in Good
      PROVE  s \in Good
  <2> DEFINE k == Pick(s)
             t == s \ {k}
  <2>1. /\ SumOf(f, s) = IF s = {} THEN 0 ELSE f[k] + SumOf(f, t)
        /\ SumOf(g, s) = IF s = {} THEN 0 ELSE g[k] + SumOf(g, t)
        /\ SumOf(h, s) = IF s = {} THEN 0 ELSE h[k] + SumOf(h, t)
    BY FS_Subset, SumPicks
  <2>2. s # {} => k \in s
    BY PickIn
  <2>3. s # {} => SumOf(h, t) = r * SumOf(f, t) - p * SumOf(g, t)
    BY <1>1, <2>2
  <2>4. SumOf(f, t) \in Int /\ SumOf(g, t) \in Int
    <3>1. IsFiniteSet(t)
      BY FS_Subset
    <3>2. QED
      BY <1>0, <3>1, SumInt
  <2> HIDE DEF k, t
  <2>5. SumOf(h, s) = r * SumOf(f, s) - p * SumOf(g, s)
    <3>1. CASE s = {}
      BY <2>1, <3>1
    <3>2. CASE s # {}
      <4>1. f[k] \in Int /\ g[k] \in Int /\ h[k] = r * f[k] - p * g[k]
        BY <1>0, <2>2, <3>2
      <4>2. (r * f[k] - p * g[k]) + (r * SumOf(f, t) - p * SumOf(g, t))
              = r * (f[k] + SumOf(f, t)) - p * (g[k] + SumOf(g, t))
        BY <2>4, <4>1, OneMoreMultiple
      <4>3. QED
        BY <2>1, <2>3, <3>2, <4>1, <4>2
    <3>3. QED
      BY <3>1, <3>2
  <2>6. QED
    BY <2>5
<1> HIDE DEF Good
<1>2. S \in Good
  BY <1>1, SetInduction
<1>3. QED
  BY <1>2 DEF Good

(* What adds up to more than nothing has a term that is more than nothing.  *)
LEMMA SumPositive ==
    ASSUME NEW f, NEW S, IsFiniteSet(S), \A x \in S : f[x] \in Int, SumOf(f, S) > 0
    PROVE  \E x \in S : f[x] > 0
<1> SUFFICES ASSUME \A x \in S : ~ (f[x] > 0)
             PROVE  FALSE
  OBVIOUS
<1> DEFINE g == [x \in S |-> 0]
<1>1. \A x \in S : g[x] = 0 /\ f[x] \in Int /\ g[x] \in Int /\ f[x] <= g[x]
  OBVIOUS
<1> HIDE DEF g
<1>2. SumOf(f, S) <= SumOf(g, S) /\ SumOf(g, S) = 0 /\ SumOf(f, S) \in Int
  BY <1>1, SumGrows, SumZeros, SumInt
<1>3. QED
  BY <1>2

(* One share of a product, rounded down, with what the others were worth.   *)
LEMMA OneMoreShare ==
    ASSUME NEW b \in Nat, NEW u \in Nat, NEW ua \in Nat,
           NEW q \in Nat, NEW v \in Nat, q * b <= v, u * b <= ua
    PROVE  (q + u) * b <= v + ua
<1>1. (q + u) * b = q * b + u * b
  OBVIOUS
<1> DEFINE x == q * b
           y == u * b
<1>2. x \in Nat /\ y \in Nat
  OBVIOUS
<1>3. x <= v /\ y <= ua
  OBVIOUS
<1> HIDE DEF x, y
<1>4. x + y <= v + ua
  BY <1>2, <1>3
<1>5. QED
  BY <1>1, <1>4 DEF x, y

(* Rounding each part of a whole down pays out no more than rounding the    *)
(* whole down: f counts parts, g pays each at a to b.                       *)
LEMMA PartsWithinWhole ==
    ASSUME NEW a \in Nat, NEW b \in Nat \ {0}, NEW f, NEW g, NEW S, IsFiniteSet(S),
           \A x \in S : f[x] \in Nat /\ g[x] \in Nat /\ g[x] * b <= f[x] * a
    PROVE  SumOf(g, S) * b <= SumOf(f, S) * a
<1> DEFINE Good == {s \in SUBSET S : SumOf(g, s) * b <= SumOf(f, s) * a}
<1>1. ASSUME NEW s \in SUBSET S, \A t \in SUBSET s : t # s => t \in Good
      PROVE  s \in Good
  <2> DEFINE p == Pick(s)
             r == s \ {p}
  <2>1. /\ SumOf(f, s) = IF s = {} THEN 0 ELSE f[p] + SumOf(f, r)
        /\ SumOf(g, s) = IF s = {} THEN 0 ELSE g[p] + SumOf(g, r)
    BY FS_Subset, SumPicks
  <2>2. s # {} => p \in s
    BY PickIn
  <2>3. s # {} => SumOf(g, r) * b <= SumOf(f, r) * a
    BY <1>1, <2>2
  <2>4. SumOf(f, r) \in Nat /\ SumOf(g, r) \in Nat
    <3>1. IsFiniteSet(r)
      BY FS_Subset
    <3>2. QED
      BY <3>1, SumNat
  <2> HIDE DEF p, r
  <2>5. SumOf(g, s) * b <= SumOf(f, s) * a
    <3>1. CASE s = {}
      BY <2>1, <3>1
    <3>2. CASE s # {}
      <4> DEFINE sf == SumOf(f, r)
                 sg == SumOf(g, r)
      <4>1. p \in S /\ f[p] \in Nat /\ g[p] \in Nat /\ g[p] * b <= f[p] * a
        BY <2>2, <3>2
      <4>2. sf \in Nat /\ sg \in Nat /\ sg * b <= sf * a
        BY <2>3, <2>4, <3>2
      <4>3. SumOf(f, s) = f[p] + sf /\ SumOf(g, s) = g[p] + sg
        BY <2>1, <3>2
      <4> HIDE DEF sf, sg
      <4>4. f[p] * a \in Nat /\ sf * a \in Nat
        BY <4>1, <4>2
      <4>5. (g[p] + sg) * b <= f[p] * a + sf * a
        BY <4>1, <4>2, <4>4, OneMoreShare
      <4>6. (f[p] + sf) * a = f[p] * a + sf * a
        BY <4>1, <4>2
      <4>7. QED
        BY <4>3, <4>5, <4>6
    <3>3. QED
      BY <3>1, <3>2
  <2>6. QED
    BY <2>5
<1> HIDE DEF Good
<1>2. S \in Good
  BY <1>1, SetInduction
<1>3. QED
  BY <1>2 DEF Good

-----------------------------------------------------------------------------
(* Bags: each element counts as often as it is in the bag. *)

FiniteBag(B) == B \in [DOMAIN B -> Nat \ {0}] /\ IsFiniteSet(DOMAIN B)

BagWeight(w, B, P) == SumOf([r \in DOMAIN B |-> w[r] * B[r]], DOMAIN B \cap P)

(* Every element that is weighed has a weight.                              *)
Weighable(w, B, P) == \A r \in DOMAIN B \cap P : w[r] \in Nat

(* Nothing weighs nothing.                                                  *)
LEMMA NoWeight ==
    ASSUME NEW w, NEW B, NEW P, DOMAIN B \cap P = {}
    PROVE  BagWeight(w, B, P) = 0
<1>1. IsFiniteSet({})
  BY FS_EmptySet
<1>2. QED
  BY <1>1, SumPicks DEF BagWeight

(* What is in the bag weighs a natural number.                              *)
LEMMA WeightNat ==
    ASSUME NEW w, NEW B, NEW P, FiniteBag(B), Weighable(w, B, P)
    PROVE  BagWeight(w, B, P) \in Nat
<1> DEFINE f == [r \in DOMAIN B |-> w[r] * B[r]]
<1>1. IsFiniteSet(DOMAIN B \cap P)
  BY FS_Intersection DEF FiniteBag
<1>2. \A r \in DOMAIN B \cap P : f[r] \in Nat
  BY DEF FiniteBag, Weighable
<1> HIDE DEF f
<1>3. SumOf(f, DOMAIN B \cap P) \in Nat
  BY <1>1, <1>2, SumNat
<1>4. QED
  BY <1>3 DEF BagWeight, f

(* One element more, and one element less.                                  *)
OneMoreOf(B, C, x) ==
    /\ C = [r \in DOMAIN B \cup {x} |-> C[r]]
    /\ C[x] = IF x \in DOMAIN B THEN B[x] + 1 ELSE 1
    /\ \A r \in DOMAIN B \ {x} : C[r] = B[r]

(* A bag stays finite when an element joins.                                *)
LEMMA StaysFinite ==
    ASSUME NEW B, NEW C, NEW x, FiniteBag(B), OneMoreOf(B, C, x)
    PROVE  FiniteBag(C)
<1>1. IsFiniteSet(DOMAIN C)
  BY FS_AddElement DEF FiniteBag, OneMoreOf
<1>2. QED
  BY <1>1 DEF FiniteBag, OneMoreOf

(* The bag grows by the weight of the element that joins, if it is one that *)
(* is weighed, ...                                                          *)
LEMMA WeightJoins ==
    ASSUME NEW w, NEW B, NEW C, NEW x, NEW P, FiniteBag(B), OneMoreOf(B, C, x),
           Weighable(w, C, P), NEW d, x \in P, w[x] = d
    PROVE  BagWeight(w, C, P) = BagWeight(w, B, P) + d
<1> DEFINE f == [r \in DOMAIN B |-> w[r] * B[r]]
           g == [r \in DOMAIN C |-> w[r] * C[r]]
           D == DOMAIN B \cap P
           E == DOMAIN C \cap P
<1>1. /\ DOMAIN C = DOMAIN B \cup {x}
      /\ C[x] = IF x \in DOMAIN B THEN B[x] + 1 ELSE 1
      /\ \A r \in DOMAIN B \ {x} : C[r] = B[r]
  BY DEF OneMoreOf
<1>2. /\ FiniteBag(C) /\ \A r \in DOMAIN B : B[r] \in Nat \ {0}
      /\ IsFiniteSet(D) /\ IsFiniteSet(E)
  BY StaysFinite, FS_Intersection DEF FiniteBag
<1>3. d \in Nat
  BY <1>1 DEF Weighable
<1>4. /\ \A r \in D : f[r] = w[r] * B[r] /\ f[r] \in Nat
      /\ \A r \in E : g[r] = w[r] * C[r] /\ g[r] \in Nat
      /\ \A r \in D \ {x} : g[r] = f[r]
  BY <1>1, <1>2 DEF FiniteBag, Weighable
<1>5. BagWeight(w, C, P) = SumOf(g, E) /\ BagWeight(w, B, P) = SumOf(f, D)
  BY DEF BagWeight
<1> HIDE DEF f, g
<1>6. SumOf(g, E) = SumOf(f, D) + d
  <2>1. CASE x \in DOMAIN B
    <3> DEFINE R == D \ {x}
    <3>1. E = D /\ x \in D /\ IsFiniteSet(R)
      BY <1>1, <1>2, <2>1, FS_Subset
    <3>2. SumOf(f, D) = f[x] + SumOf(f, R) /\ SumOf(g, D) = g[x] + SumOf(g, R)
      BY <1>2, <1>4, <3>1, SumTakesOut
    <3>3. SumOf(g, R) = SumOf(f, R) /\ SumOf(f, R) \in Int
      BY <1>4, <3>1, SumSame, SumInt
    <3>4. g[x] = f[x] + d /\ f[x] \in Nat
      <4>1. f[x] = d * B[x] /\ g[x] = d * (B[x] + 1) /\ B[x] \in Nat
        BY <1>1, <1>2, <1>4, <2>1, <3>1
      <4>2. QED
        BY <1>3, <4>1
    <3> HIDE DEF D, E, R
    <3>5. QED
      BY <1>3, <3>1, <3>2, <3>3, <3>4
  <2>2. CASE x \notin DOMAIN B
    <3>1. E = D \cup {x} /\ x \notin D
      BY <1>1, <2>2
    <3>2. \A r \in D \cup {x} : g[r] \in Int
      BY <1>4, <3>1
    <3>3. SumOf(g, D) = SumOf(f, D) /\ SumOf(f, D) \in Int
      BY <1>2, <1>4, <3>1, SumSame, SumInt
    <3>4. g[x] = d
      BY <1>1, <1>3, <1>4, <2>2, <3>1
    <3> HIDE DEF D, E
    <3>5. SumOf(g, D \cup {x}) = g[x] + SumOf(g, D)
      BY <1>2, <3>1, <3>2, SumPutsIn
    <3>6. QED
      BY <1>3, <3>1, <3>3, <3>4, <3>5
  <2>3. QED
    BY <2>1, <2>2
<1>7. QED
  BY <1>5, <1>6

(* ... and one that is not weighed changes nothing.                         *)
LEMMA WeightStays ==
    ASSUME NEW w, NEW B, NEW C, NEW x, NEW P, FiniteBag(B), OneMoreOf(B, C, x), x \notin P
    PROVE  BagWeight(w, C, P) = BagWeight(w, B, P)
<1> DEFINE f == [r \in DOMAIN B |-> w[r] * B[r]]
           g == [r \in DOMAIN C |-> w[r] * C[r]]
           D == DOMAIN B \cap P
<1>1. IsFiniteSet(D)
  BY FS_Intersection DEF FiniteBag
<1>2. DOMAIN C \cap P = D /\ \A r \in D : g[r] = f[r]
  BY DEF OneMoreOf
<1>3. BagWeight(w, C, P) = SumOf(g, D) /\ BagWeight(w, B, P) = SumOf(f, D)
  BY <1>2 DEF BagWeight
<1> HIDE DEF f, g
<1>4. SumOf(g, D) = SumOf(f, D)
  BY <1>1, <1>2, SumSame
<1>5. QED
  BY <1>3, <1>4

(* A bag with nothing in it.                                                *)
LEMMA EmptyIsFinite ==
    FiniteBag([r \in {} |-> 1])
<1>1. IsFiniteSet({})
  BY FS_EmptySet
<1>2. QED
  BY <1>1 DEF FiniteBag

(* How the sums of the specifications read as weights.                      *)
LEMMA WeighsAs ==
    ASSUME NEW w, NEW B, NEW P, FiniteBag(B), NEW f, NEW S, S = DOMAIN B \cap P,
           \A r \in S : f[r] = w[r] * B[r]
    PROVE  SumFunctionOnSet(f, S) = BagWeight(w, B, P)
<1> DEFINE g == [r \in DOMAIN B |-> w[r] * B[r]]
<1>1. IsFiniteSet(S)
  BY FS_Intersection DEF FiniteBag
<1>2. \A r \in S : f[r] = g[r]
  OBVIOUS
<1> HIDE DEF g
<1>3. SumOf(f, S) = SumOf(g, S)
  BY <1>1, <1>2, SumSame
<1>4. QED
  BY <1>3 DEF SumOf, BagWeight, g

(* Only the weights of what is in the bag and weighed count.                *)
LEMMA WeightSame ==
    ASSUME NEW w, NEW v, NEW B, NEW P, NEW Q, FiniteBag(B),
           DOMAIN B \cap P = DOMAIN B \cap Q, \A r \in DOMAIN B \cap P : w[r] = v[r]
    PROVE  BagWeight(w, B, P) = BagWeight(v, B, Q)
<1> DEFINE f == [r \in DOMAIN B |-> w[r] * B[r]]
           g == [r \in DOMAIN B |-> v[r] * B[r]]
<1>1. IsFiniteSet(DOMAIN B \cap P)
  BY FS_Intersection DEF FiniteBag
<1>2. \A r \in DOMAIN B \cap P : f[r] = g[r]
  OBVIOUS
<1> HIDE DEF f, g
<1>3. SumOf(f, DOMAIN B \cap P) = SumOf(g, DOMAIN B \cap P)
  BY <1>1, <1>2, SumSame
<1>4. QED
  BY <1>3 DEF BagWeight, f, g

(* Two disjoint sets weigh the sum of their weights.                        *)
LEMMA WeightSplits ==
    ASSUME NEW w, NEW B, NEW P, NEW Q, FiniteBag(B), P \cap Q = {},
           Weighable(w, B, P \cup Q)
    PROVE  BagWeight(w, B, P \cup Q) = BagWeight(w, B, P) + BagWeight(w, B, Q)
<1> DEFINE f == [r \in DOMAIN B |-> w[r] * B[r]]
           S == DOMAIN B \cap P
           T == DOMAIN B \cap Q
<1>1. IsFiniteSet(S) /\ IsFiniteSet(T) /\ S \cap T = {}
  BY FS_Intersection DEF FiniteBag
<1>2. DOMAIN B \cap (P \cup Q) = S \cup T
  OBVIOUS
<1>3. \A r \in S \cup T : f[r] \in Int
  BY <1>2 DEF FiniteBag, Weighable
<1> HIDE DEF f
<1>4. SumOf(f, S \cup T) = SumOf(f, S) + SumOf(f, T)
  BY <1>1, <1>3, SumUnion
<1>5. QED
  BY <1>2, <1>4 DEF BagWeight, f

(* A set that weighs nothing has nothing in the bag, when everything has a  *)
(* weight.                                                                  *)
LEMMA WeighsNothing ==
    ASSUME NEW w, NEW B, NEW P, FiniteBag(B),
           \A r \in DOMAIN B \cap P : w[r] \in Nat \ {0},
           BagWeight(w, B, P) = 0
    PROVE  DOMAIN B \cap P = {}
<1> SUFFICES ASSUME NEW r \in DOMAIN B \cap P
             PROVE  FALSE
  OBVIOUS
<1> DEFINE f == [s \in DOMAIN B |-> w[s] * B[s]]
           S == DOMAIN B \cap P
<1>1. IsFiniteSet(S)
  BY FS_Intersection DEF FiniteBag
<1>2. ASSUME NEW s \in S
      PROVE  f[s] \in Nat /\ f[s] > 0
  <2>1. w[s] \in Nat \ {0} /\ B[s] \in Nat \ {0} /\ f[s] = w[s] * B[s]
    BY DEF FiniteBag
  <2>2. ASSUME NEW m \in Nat \ {0}, NEW n \in Nat \ {0}
        PROVE  m * n \in Nat /\ m * n > 0
    OBVIOUS
  <2>3. QED
    BY <2>1, <2>2
<1>3. SumOf(f, S) = 0
  BY DEF BagWeight
<1> HIDE DEF f
<1>4. f[r] <= SumOf(f, S)
  BY <1>1, <1>2, TermWithinSum
<1>5. QED
  BY <1>2, <1>3, <1>4

(* What each is paid when rounded down adds up to no more than what all are *)
(* paid: v is paid for w, at a to b.                                        *)
LEMMA WeightWithin ==
    ASSUME NEW w, NEW v, NEW B, NEW P, FiniteBag(B), NEW a \in Nat, NEW b \in Nat \ {0},
           \A r \in DOMAIN B \cap P : w[r] \in Nat /\ v[r] \in Nat /\ v[r] * b <= w[r] * a
    PROVE  BagWeight(v, B, P) * b <= BagWeight(w, B, P) * a
<1> DEFINE f == [s \in DOMAIN B |-> w[s] * B[s]]
           g == [s \in DOMAIN B |-> v[s] * B[s]]
           S == DOMAIN B \cap P
<1>1. IsFiniteSet(S)
  BY FS_Intersection DEF FiniteBag
<1>2. ASSUME NEW s \in S
      PROVE  f[s] \in Nat /\ g[s] \in Nat /\ g[s] * b <= f[s] * a
  <2>1. /\ w[s] \in Nat /\ v[s] \in Nat /\ B[s] \in Nat /\ v[s] * b <= w[s] * a
        /\ f[s] = w[s] * B[s] /\ g[s] = v[s] * B[s]
    BY DEF FiniteBag
  <2>2. ASSUME NEW x \in Nat, NEW y \in Nat, NEW n \in Nat, y * b <= x * a
        PROVE  /\ x * n \in Nat /\ y * n \in Nat
               /\ (y * n) * b <= (x * n) * a
    <3>1. (y * n) * b = (y * b) * n /\ (x * n) * a = (x * a) * n
      OBVIOUS
    <3> DEFINE l == y * b
               m == x * a
    <3>2. l \in Nat /\ m \in Nat /\ l <= m
      BY <2>2
    <3> HIDE DEF l, m
    <3>3. l * n <= m * n
      BY <3>2
    <3>4. QED
      BY <3>1, <3>3 DEF l, m
  <2>3. QED
    BY <2>1, <2>2
<1> HIDE DEF f, g
<1>3. SumOf(g, S) * b <= SumOf(f, S) * a
  BY <1>1, <1>2, PartsWithinWhole
<1>4. QED
  BY <1>3 DEF BagWeight, f, g

(* What is left of a finite bag is one.                                     *)
LEMMA PartIsFinite ==
    ASSUME NEW B, NEW C, FiniteBag(B), DOMAIN C \subseteq DOMAIN B,
           C = [r \in DOMAIN C |-> C[r]], \A r \in DOMAIN C : C[r] \in Nat \ {0}
    PROVE  FiniteBag(C)
<1>1. IsFiniteSet(DOMAIN C)
  BY FS_Subset DEF FiniteBag
<1>2. QED
  BY <1>1 DEF FiniteBag

(* What a finite bag counts.                                                *)
LEMMA BagCounts ==
    ASSUME NEW B, FiniteBag(B)
    PROVE  B = [r \in DOMAIN B |-> B[r]] /\ \A r \in DOMAIN B : B[r] \in Nat \ {0}
  BY DEF FiniteBag
=============================================================================
