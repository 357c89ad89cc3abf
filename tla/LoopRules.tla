------------------------------ MODULE LoopRules ------------------------------
(***************************************************************************)
(* Proof rules for the loops of the specifications: a loop that counts its *)
(* turns and the folds of the community modules.  A module that proves     *)
(* something of a loop takes an instance of this one, with the loop's body *)
(* for Body and what it keeps for Holds: the operators that the library's  *)
(* induction theorems would need as parameters are constants here.         *)
(***************************************************************************)
EXTENDS Integers, Sequences

CONSTANTS
    Body(_, _), \* the state after one more turn: of the state, and what the turn reads
    Holds(_, _) \* what is known after so many turns: of their number, and the state

-----------------------------------------------------------------------------
(* Natural numbers. *)

(* Induction on how many turns were made, the predicate being a set.  It is *)
(* a premise of the rules, and NatSetInduction of SumProofs proves it: an   *)
(* instance of this module brings in no other.                              *)
Induction ==
    \A Good : 0 \in Good /\ (\A k \in Nat : k \in Good => k + 1 \in Good)
              => \A k \in Nat : k \in Good

(* The premise, as a rule.                                                  *)
LEMMA Counting ==
    ASSUME Induction, NEW Good, 0 \in Good, \A k \in Nat : k \in Good => k + 1 \in Good
    PROVE  \A k \in Nat : k \in Good
  BY DEF Induction

(* A loop that starts in c and counts its turns.                            *)
Turns(f, c) == [k \in Nat |-> IF k = 0 THEN c ELSE Body(f[k - 1], k)]

Prefix(f, c, n) == [k \in 0..n |-> IF k = 0 THEN c ELSE Body(f[k - 1], k)]

LoopFrom(c) == CHOOSE f : f = Turns(f, c)

(* Two runs of as many turns are the same run.                              *)
LEMMA PrefixesAgree ==
    ASSUME Induction, NEW c, NEW f, NEW g, NEW m \in Nat, NEW n \in Nat,
           f = Prefix(f, c, m), g = Prefix(g, c, n)
    PROVE  \A k \in 0..m : k <= n => f[k] = g[k]
<1> DEFINE Good == {k \in Nat : k <= m /\ k <= n => f[k] = g[k]}
<1>1. 0 \in Good
  BY DEF Prefix
<1>2. ASSUME NEW k \in Nat, k \in Good
      PROVE  k + 1 \in Good
  <2> SUFFICES ASSUME k + 1 <= m, k + 1 <= n
               PROVE  f[k + 1] = g[k + 1]
    OBVIOUS
  <2>1. f[k] = g[k]
    BY <1>2
  <2>2. k + 1 \in 0..m /\ k + 1 \in 0..n /\ k + 1 # 0 /\ (k + 1) - 1 = k
    OBVIOUS
  <2>3. f[k + 1] = Body(f[(k + 1) - 1], k + 1) /\ g[k + 1] = Body(g[(k + 1) - 1], k + 1)
    BY <2>2 DEF Prefix
  <2>4. QED
    BY <2>1, <2>2, <2>3
<1> HIDE DEF Good
<1>3. \A k \in Nat : k \in Good
  BY <1>1, <1>2, Counting
<1>4. QED
  BY <1>3 DEF Good

(* However many turns, there is such a run.                                 *)
LEMMA PrefixExists ==
    ASSUME Induction, NEW c
    PROVE  \A n \in Nat : \E f : f = Prefix(f, c, n)
<1> DEFINE Good == {n \in Nat : \E f : f = Prefix(f, c, n)}
<1>1. 0 \in Good
  <2>1. [k \in 0..0 |-> c] = Prefix([k \in 0..0 |-> c], c, 0)
    BY DEF Prefix
  <2>2. QED
    BY <2>1
<1>2. ASSUME NEW n \in Nat, n \in Good
      PROVE  n + 1 \in Good
  <2>1. PICK f : f = Prefix(f, c, n)
    BY <1>2
  <2> DEFINE g == [k \in 0..(n + 1) |-> IF k = n + 1 THEN Body(f[n], n + 1) ELSE f[k]]
  <2>2. ASSUME NEW k \in 0..(n + 1)
        PROVE  g[k] = IF k = 0 THEN c ELSE Body(g[k - 1], k)
    <3>1. CASE k = n + 1
      BY <3>1
    <3>2. CASE k # n + 1 /\ k # 0
      <4>1. k \in 0..n /\ k - 1 \in 0..n /\ k - 1 # n + 1 /\ k - 1 \in 0..(n + 1)
        BY <3>2
      <4>2. f[k] = Body(f[k - 1], k)
        BY <2>1, <3>2, <4>1 DEF Prefix
      <4>3. g[k] = f[k] /\ g[k - 1] = f[k - 1]
        BY <3>2, <4>1
      <4>4. QED
        BY <3>2, <4>2, <4>3
    <3>3. CASE k = 0
      <4>1. f[0] = c
        BY <2>1 DEF Prefix
      <4>2. QED
        BY <3>3, <4>1
    <3>4. QED
      BY <3>1, <3>2, <3>3
  <2> HIDE DEF g
  <2>3. g = [k \in 0..(n + 1) |-> g[k]]
    BY DEF g
  <2>4. g = Prefix(g, c, n + 1)
    BY <2>2, <2>3 DEF Prefix
  <2>5. QED
    BY <2>4
<1> HIDE DEF Good
<1>3. \A n \in Nat : n \in Good
  BY <1>1, <1>2, Counting
<1>4. QED
  BY <1>3 DEF Good

(* The loop is defined: there is a run without end.                         *)
LEMMA LoopExists ==
    ASSUME Induction, NEW c
    PROVE  LoopFrom(c) = Turns(LoopFrom(c), c)
<1> DEFINE F(n) == CHOOSE f : f = Prefix(f, c, n)
           g == [k \in Nat |-> F(k)[k]]
<1>1. ASSUME NEW n \in Nat
      PROVE  F(n) = Prefix(F(n), c, n)
  BY PrefixExists
<1> HIDE DEF F
<1>2. ASSUME NEW k \in Nat
      PROVE  g[k] = IF k = 0 THEN c ELSE Body(g[k - 1], k)
  <2>1. F(k) = Prefix(F(k), c, k)
    BY <1>1
  <2>2. CASE k = 0
    BY <2>1, <2>2 DEF Prefix
  <2>3. CASE k # 0
    <3>1. k - 1 \in Nat /\ k - 1 \in 0..(k - 1) /\ k - 1 <= k /\ k \in 0..k
      BY <2>3
    <3>2. F(k - 1) = Prefix(F(k - 1), c, k - 1)
      BY <1>1, <3>1
    <3>3. F(k - 1)[k - 1] = F(k)[k - 1]
      BY <2>1, <3>1, <3>2, PrefixesAgree
    <3>4. F(k)[k] = Body(F(k)[k - 1], k)
      BY <2>1, <2>3, <3>1 DEF Prefix
    <3>5. g[k] = F(k)[k] /\ g[k - 1] = F(k - 1)[k - 1]
      BY <3>1
    <3>6. QED
      BY <2>3, <3>3, <3>4, <3>5
  <2>4. QED
    BY <2>2, <2>3
<1> HIDE DEF g
<1>3. g = [k \in Nat |-> g[k]]
  BY DEF g
<1>4. g = Turns(g, c)
  BY <1>2, <1>3 DEF Turns
<1>5. QED
  BY <1>4 DEF LoopFrom

(* What holds at first and is kept by every turn holds after n of them.     *)
THEOREM LoopRule ==
    ASSUME Induction, NEW c, NEW n \in Nat, Holds(0, c),
           \A k \in 0..(n - 1) : \A s : Holds(k, s) => Holds(k + 1, Body(s, k + 1))
    PROVE  Holds(n, LoopFrom(c)[n])
<1> DEFINE f == LoopFrom(c)
           Good == {k \in Nat : k <= n => Holds(k, f[k])}
<1>1. f = Turns(f, c)
  BY LoopExists
<1> HIDE DEF f
<1>2. 0 \in Good
  BY <1>1 DEF Turns
<1>3. ASSUME NEW k \in Nat, k \in Good
      PROVE  k + 1 \in Good
  <2> SUFFICES ASSUME k + 1 <= n
               PROVE  Holds(k + 1, f[k + 1])
    OBVIOUS
  <2>1. k \in 0..(n - 1) /\ k + 1 \in Nat /\ k + 1 # 0 /\ (k + 1) - 1 = k
    OBVIOUS
  <2>2. Holds(k, f[k])
    BY <1>3
  <2>3. f[k + 1] = Body(f[(k + 1) - 1], k + 1)
    BY <1>1, <2>1 DEF Turns
  <2>4. Holds(k + 1, Body(f[k], k + 1))
    BY <2>1, <2>2
  <2>5. QED
    BY <2>1, <2>3, <2>4
<1> HIDE DEF Good
<1>4. \A k \in Nat : k \in Good
  BY <1>2, <1>3, Counting
<1>5. n \in Good
  BY <1>4
<1>6. QED
  BY <1>5 DEF Good, f

-----------------------------------------------------------------------------
(* Finite sets. *)

(* The elements of s can be counted through.                                *)
Listed(s) == \E n \in Nat : \E f : \A x \in s : \E i \in 1..n : f[i] = x

(* A part of what can be counted through can be.                            *)
LEMMA PartListed ==
    ASSUME NEW S, Listed(S), NEW t \in SUBSET S
    PROVE  Listed(t)
<1>1. PICK n \in Nat : \E f : \A x \in S : \E i \in 1..n : f[i] = x
  BY DEF Listed
<1>2. PICK f : \A x \in S : \E i \in 1..n : f[i] = x
  BY <1>1
<1>3. \A x \in t : \E i \in 1..n : f[i] = x
  BY <1>2
<1>4. \E g : \A x \in t : \E i \in 1..n : g[i] = x
  BY <1>3
<1>5. QED
  BY <1>4 DEF Listed

(* What every set has once its proper subsets have it, all have: by         *)
(* induction on how many elements are counted.                              *)
LEMMA SetRule ==
    ASSUME Induction, NEW S, Listed(S), NEW Good,
           \A s \in SUBSET S : (\A t \in SUBSET s : t # s => t \in Good) => s \in Good
    PROVE  S \in Good
<1> DEFINE Through(s, f, n) == \A x \in s : \E i \in 1..n : f[i] = x
           Fine == {n \in Nat : \A s \in SUBSET S : \A f : Through(s, f, n) => s \in Good}
<1>1. 0 \in Fine
  <2> SUFFICES ASSUME NEW s \in SUBSET S, NEW f, Through(s, f, 0)
               PROVE  s \in Good
    OBVIOUS
  <2>1. s = {}
    OBVIOUS
  <2>2. \A t \in SUBSET s : t # s => t \in Good
    BY <2>1
  <2> HIDE DEF Through, Fine
  <2>3. QED
    BY <2>2
<1>2. ASSUME NEW n \in Nat, n \in Fine
      PROVE  n + 1 \in Fine
  <2> SUFFICES ASSUME NEW s \in SUBSET S, NEW f, Through(s, f, n + 1)
               PROVE  s \in Good
    OBVIOUS
  <2> SUFFICES ASSUME NEW t \in SUBSET s, t # s
               PROVE  t \in Good
    OBVIOUS
  <2>1. PICK x \in s : x \notin t
    OBVIOUS
  <2>2. PICK i \in 1..(n + 1) : f[i] = x
    OBVIOUS
  <2> DEFINE g == [j \in 1..n |-> IF j < i THEN f[j] ELSE f[j + 1]]
  <2>3. ASSUME NEW y \in t
        PROVE  \E j \in 1..n : g[j] = y
    <3>1. PICK k \in 1..(n + 1) : f[k] = y
      OBVIOUS
    <3>2. k # i
      BY <2>1, <2>2, <3>1
    <3>3. CASE k < i
      <4>1. k \in 1..n /\ g[k] = f[k]
        BY <3>3
      <4>2. QED
        BY <3>1, <4>1
    <3>4. CASE ~ (k < i)
      <4>1. k - 1 \in 1..n /\ ~ (k - 1 < i) /\ (k - 1) + 1 = k
        BY <3>2, <3>4
      <4>2. g[k - 1] = f[k]
        BY <4>1
      <4>3. QED
        BY <3>1, <4>1, <4>2
    <3>5. QED
      BY <3>3, <3>4
  <2> HIDE DEF g
  <2>4. Through(t, g, n) /\ t \in SUBSET S
    BY <2>3
  <2>5. QED
    BY <1>2, <2>4
<1>3. PICK n \in Nat : \E f : Through(S, f, n)
  BY DEF Listed
<1> HIDE DEF Fine
<1>4. n \in Fine
  BY <1>1, <1>2, Counting
<1>5. QED
  BY <1>3, <1>4 DEF Fine

-----------------------------------------------------------------------------
(* Folds over a finite set: arg[x] is what the turn for x reads, and ch[s]  *)
(* the element that is taken out of s first, and so folded last.            *)

Recurs(it, b, arg, ch, S) ==
    it = [s \in SUBSET S |-> IF s = {} THEN b ELSE Body(it[s \ {ch[s]}], arg[ch[s]])]

Chooses(ch, S) == \A s \in SUBSET S : s # {} => ch[s] \in s

(* The recursion of a fold has a solution.                                  *)
LEMMA FoldExists ==
    ASSUME Induction, NEW b, NEW arg, NEW ch, NEW S, Listed(S), Chooses(ch, S)
    PROVE  \E it : Recurs(it, b, arg, ch, S)
<1> DEFINE Good == {s \in SUBSET S : \E it : Recurs(it, b, arg, ch, s)}
           F(s) == CHOOSE it : Recurs(it, b, arg, ch, s)
<1>1. ASSUME NEW s \in SUBSET S, NEW t \in SUBSET S, NEW f, NEW g, Listed(t),
             Recurs(f, b, arg, ch, s), Recurs(g, b, arg, ch, t)
      PROVE  \A u \in SUBSET t : u \in SUBSET s => f[u] = g[u]
  <2> SUFFICES ASSUME NEW v \in SUBSET t, v \in SUBSET s
               PROVE  f[v] = g[v]
    OBVIOUS
  <2> DEFINE Same == {u \in SUBSET v : f[u] = g[u]}
  <2>1. ASSUME NEW u \in SUBSET v, \A w \in SUBSET u : w # u => w \in Same
        PROVE  u \in Same
    <3>1. CASE u = {}
      BY <1>1, <3>1 DEF Recurs
    <3>2. CASE u # {}
      <4> DEFINE w == u \ {ch[u]}
      <4>1. ch[u] \in u
        BY <3>2 DEF Chooses
      <4>2. f[w] = g[w]
        BY <2>1, <4>1
      <4>3. f[u] = Body(f[w], arg[ch[u]]) /\ g[u] = Body(g[w], arg[ch[u]])
        BY <1>1, <3>2 DEF Recurs
      <4>4. f[u] = g[u]
        BY <4>2, <4>3
      <4>5. QED
        BY <4>4
    <3>3. QED
      BY <3>1, <3>2
  <2>2. Listed(v)
    BY <1>1, PartListed
  <2> HIDE DEF Same
  <2>3. v \in Same
    BY <2>1, <2>2, SetRule
  <2>4. QED
    BY <2>3 DEF Same
<1>2. ASSUME NEW s \in SUBSET S, \A t \in SUBSET s : t # s => t \in Good
      PROVE  s \in Good
  <2> DEFINE g == [t \in SUBSET s |->
                      IF t = {} THEN b
                      ELSE Body(F(t \ {ch[t]})[t \ {ch[t]}], arg[ch[t]])]
  <2>1. ASSUME NEW t \in SUBSET s, t # s
        PROVE  Recurs(F(t), b, arg, ch, t)
    <3>1. \E it : Recurs(it, b, arg, ch, t)
      BY <1>2, <2>1
    <3>2. QED
      BY <3>1
  <2> HIDE DEF F
  <2>2. ASSUME NEW t \in SUBSET s, t # {}
        PROVE  g[t] = Body(g[t \ {ch[t]}], arg[ch[t]])
    <3> DEFINE u == t \ {ch[t]}
    <3>1. ch[t] \in t
      BY <2>2 DEF Chooses
    <3>2. u \in SUBSET s /\ u # s /\ u \in SUBSET S /\ Listed(u)
      BY <3>1, PartListed
    <3>3. Recurs(F(u), b, arg, ch, u)
      BY <2>1, <3>2
    <3>4. g[t] = Body(F(u)[u], arg[ch[t]])
      BY <2>2
    <3> HIDE DEF u
    <3>5. F(u)[u] = g[u]
      <4>1. CASE u = {}
        BY <3>2, <3>3, <4>1 DEF Recurs
      <4>2. CASE u # {}
        <5> DEFINE w == u \ {ch[u]}
        <5>1. ch[u] \in u
          BY <3>2, <4>2 DEF Chooses
        <5>2. w \in SUBSET u /\ w # s /\ w \in SUBSET s /\ w \in SUBSET S /\ Listed(w)
          BY <3>2, <5>1, PartListed
        <5> HIDE DEF w
        <5>3. Recurs(F(w), b, arg, ch, w)
          BY <2>1, <5>2
        <5>4. F(w)[w] = F(u)[w]
          <6> HIDE DEF g, Good
          <6>1. \A v \in SUBSET u : v \in SUBSET w => F(w)[v] = F(u)[v]
            BY <1>1, <3>2, <3>3, <5>2, <5>3
          <6>2. QED
            BY <5>2, <6>1
        <5> USE DEF w
        <5>5. F(u)[u] = Body(F(u)[w], arg[ch[u]])
          BY <3>2, <3>3, <4>2 DEF Recurs
        <5>6. g[u] = Body(F(w)[w], arg[ch[u]])
          BY <3>2, <4>2
        <5>7. QED
          BY <5>4, <5>5, <5>6
      <4>3. QED
        BY <4>1, <4>2
    <3>6. QED
      BY <3>4, <3>5 DEF u
  <2>3. g[{}] = b
    OBVIOUS
  <2>4. g = [t \in SUBSET s |-> g[t]]
    OBVIOUS
  <2> HIDE DEF g
  <2>5. Recurs(g, b, arg, ch, s)
    BY <2>2, <2>3, <2>4 DEF Recurs
  <2>6. QED
    BY <2>5
<1> HIDE DEF Good
<1>3. S \in Good
  BY <1>2, SetRule
<1>4. QED
  BY <1>3 DEF Good

(* What holds of nothing folded and is kept by every turn holds in the end. *)
LEMMA RecursHolds ==
    ASSUME Induction, NEW b, NEW arg, NEW ch, NEW S, Listed(S), Chooses(ch, S),
           NEW it, Recurs(it, b, arg, ch, S), Holds({}, b),
           \A t \in SUBSET S : \A x \in S \ t : \A a :
               Holds(t, a) => Holds(t \cup {x}, Body(a, arg[x]))
    PROVE  Holds(S, it[S])
<1> DEFINE Good == {s \in SUBSET S : Holds(s, it[s])}
<1>1. ASSUME NEW s \in SUBSET S, \A t \in SUBSET s : t # s => t \in Good
      PROVE  s \in Good
  <2>1. CASE s = {}
    BY <2>1 DEF Recurs
  <2>2. CASE s # {}
    <3> DEFINE x == ch[s]
               t == s \ {x}
    <3>1. x \in s
      BY <2>2 DEF Chooses
    <3>2. t \in SUBSET S /\ t \in SUBSET s /\ t # s /\ x \in S \ t /\ t \cup {x} = s
      BY <3>1
    <3>3. Holds(t, it[t])
      BY <1>1, <3>2
    <3>4. it[s] = Body(it[t], arg[x])
      BY <2>2 DEF Recurs
    <3> HIDE DEF x, t
    <3>5. Holds(t \cup {x}, Body(it[t], arg[x]))
      BY <3>2, <3>3
    <3>6. QED
      BY <3>2, <3>4, <3>5
  <2>3. QED
    BY <2>1, <2>2
<1> HIDE DEF Good
<1>2. S \in Good
  BY <1>1, SetRule
<1>3. QED
  BY <1>2 DEF Good

(* The fold of a function over a set of its arguments.                      *)
FoldOver(b, arg, S) ==
    LET it[s \in SUBSET S] ==
            IF s = {} THEN b
            ELSE LET x == CHOOSE y \in s : TRUE IN Body(it[s \ {x}], arg[x])
    IN it[S]

(* What holds of some of the arguments holds of one more.                   *)
Extends(arg, S) ==
    \A t \in SUBSET S : \A x \in S \ t : \A a :
        Holds(t, a) => Holds(t \cup {x}, Body(a, arg[x]))

THEOREM FoldSetRule ==
    ASSUME Induction, NEW b, NEW arg, NEW S, Listed(S), Holds({}, b), Extends(arg, S)
    PROVE  Holds(S, FoldOver(b, arg, S))
<1> DEFINE ch == [s \in SUBSET S |-> CHOOSE x \in s : TRUE]
           it == CHOOSE h : h = [s \in SUBSET S |->
                     IF s = {} THEN b
                     ELSE Body(h[s \ {CHOOSE x \in s : TRUE}], arg[CHOOSE x \in s : TRUE])]
<1>1. FoldOver(b, arg, S) = it[S]
  BY DEF FoldOver
<1>2. Chooses(ch, S)
  BY DEF Chooses
<1>3. PICK g : Recurs(g, b, arg, ch, S)
  <2> HIDE DEF ch
  <2>1. QED
    BY <1>2, FoldExists
<1>4. g = [s \in SUBSET S |->
              IF s = {} THEN b
              ELSE Body(g[s \ {CHOOSE x \in s : TRUE}], arg[CHOOSE x \in s : TRUE])]
  BY <1>3 DEF Recurs
<1>5. it = [s \in SUBSET S |->
              IF s = {} THEN b
              ELSE Body(it[s \ {CHOOSE x \in s : TRUE}], arg[CHOOSE x \in s : TRUE])]
  BY <1>4
<1> HIDE DEF it
<1>6. Recurs(it, b, arg, ch, S)
  BY <1>5 DEF Recurs
<1> HIDE DEF ch
<1>7. Holds(S, it[S])
  BY <1>2, <1>6, RecursHolds DEF Extends
<1>8. QED
  BY <1>1, <1>7

-----------------------------------------------------------------------------
(* Folds over a sequence. *)

Greatest(t) == CHOOSE x \in t : \A y \in t : x >= y

Latest(s) == [t \in SUBSET DOMAIN s |-> Greatest(t)]

(* The fold takes out the last element first, and so meets it last.         *)
FoldSeq(b, s) ==
    LET it[t \in SUBSET DOMAIN s] ==
            IF t = {} THEN b ELSE Body(it[t \ {Greatest(t)}], s[Greatest(t)])
    IN it[DOMAIN s]

(* Of some of the first n numbers, one is the greatest.                     *)
LEMMA GreatestIn ==
    ASSUME Induction, NEW n \in Nat, NEW t \in SUBSET (1..n), t # {}
    PROVE  Greatest(t) \in t /\ \A y \in t : Greatest(t) >= y
<1> DEFINE Good == {m \in Nat : \A u \in SUBSET (1..m) :
                                   u # {} => \E x \in u : \A y \in u : x >= y}
<1>1. 0 \in Good
  <2>1. 1..0 = {}
    OBVIOUS
  <2>2. QED
    BY <2>1
<1>2. ASSUME NEW m \in Nat, m \in Good
      PROVE  m + 1 \in Good
  <2> SUFFICES ASSUME NEW u \in SUBSET (1..(m + 1)), u # {}
               PROVE  \E x \in u : \A y \in u : x >= y
    OBVIOUS
  <2>1. CASE m + 1 \in u
    <3>1. \A y \in u : m + 1 >= y
      OBVIOUS
    <3>2. QED
      BY <2>1, <3>1
  <2>2. CASE m + 1 \notin u
    <3>1. u \in SUBSET (1..m)
      <4>1. \A y \in u : y \in 1..(m + 1) /\ y # m + 1
        BY <2>2
      <4>2. QED
        BY <4>1
    <3>2. QED
      BY <1>2, <3>1
  <2>3. QED
    BY <2>1, <2>2
<1> HIDE DEF Good
<1>3. n \in Good
  BY <1>1, <1>2, Counting
<1>4. \E x \in t : \A y \in t : x >= y
  BY <1>3 DEF Good
<1>5. QED
  BY <1>4 DEF Greatest

(* The recursion of the fold of a sequence has a solution.                  *)
LEMMA FoldSeqRecurs ==
    ASSUME Induction, NEW b, NEW X, NEW s \in Seq(X)
    PROVE  \E it : /\ Recurs(it, b, s, Latest(s), DOMAIN s)
                   /\ FoldSeq(b, s) = it[DOMAIN s]
<1> DEFINE S == DOMAIN s
           it == CHOOSE h : h = [t \in SUBSET S |->
                     IF t = {} THEN b ELSE Body(h[t \ {Greatest(t)}], s[Greatest(t)])]
<1>1. FoldSeq(b, s) = it[S]
  BY DEF FoldSeq
<1>2. S = 1..Len(s) /\ Len(s) \in Nat /\ Listed(S)
  <2>1. S = 1..Len(s) /\ Len(s) \in Nat
    OBVIOUS
  <2> DEFINE f == [i \in 1..Len(s) |-> i]
  <2>2. \A x \in S : \E i \in 1..Len(s) : f[i] = x
    BY <2>1
  <2> HIDE DEF f
  <2>3. QED
    BY <2>1, <2>2 DEF Listed
<1> HIDE DEF S
<1>3. Chooses(Latest(s), S)
  BY <1>2, GreatestIn DEF Chooses, Latest, S
<1>4. PICK g : Recurs(g, b, s, Latest(s), S)
  BY <1>2, <1>3, FoldExists
<1>5. g = [t \in SUBSET S |-> IF t = {} THEN b ELSE Body(g[t \ {Greatest(t)}], s[Greatest(t)])]
  BY <1>4 DEF Recurs, Latest, S
<1>6. it = [t \in SUBSET S |-> IF t = {} THEN b ELSE Body(it[t \ {Greatest(t)}], s[Greatest(t)])]
  BY <1>5
<1> HIDE DEF it
<1>7. Recurs(it, b, s, Latest(s), S)
  BY <1>6 DEF Recurs, Latest, S
<1>8. QED
  BY <1>1, <1>7 DEF S

(* What holds before the first element and is kept from each to the next    *)
(* holds of the whole sequence.                                             *)
THEOREM FoldRule ==
    ASSUME Induction, NEW b, NEW X, NEW s \in Seq(X), Holds(0, b),
           \A k \in 0..(Len(s) - 1) : \A a : Holds(k, a) => Holds(k + 1, Body(a, s[k + 1]))
    PROVE  Holds(Len(s), FoldSeq(b, s))
<1>1. PICK it : /\ Recurs(it, b, s, Latest(s), DOMAIN s)
                /\ FoldSeq(b, s) = it[DOMAIN s]
  BY FoldSeqRecurs
<1>2. DOMAIN s = 1..Len(s) /\ Len(s) \in Nat
  OBVIOUS
<1> DEFINE Good == {k \in Nat : k <= Len(s) => Holds(k, it[1..k])}
<1>3. 0 \in Good
  <2>1. 1..0 = {}
    OBVIOUS
  <2>2. it[{}] = b
    BY <1>1 DEF Recurs
  <2>3. QED
    BY <2>1, <2>2
<1>4. ASSUME NEW k \in Nat, k \in Good
      PROVE  k + 1 \in Good
  <2> SUFFICES ASSUME k + 1 <= Len(s)
               PROVE  Holds(k + 1, it[1..(k + 1)])
    OBVIOUS
  <2> DEFINE t == 1..(k + 1)
  <2>1. Holds(k, it[1..k]) /\ k \in 0..(Len(s) - 1)
    BY <1>2, <1>4
  <2>2. t \in SUBSET DOMAIN s /\ t # {} /\ t \in SUBSET (1..(k + 1)) /\ k + 1 \in Nat
    <3>1. k + 1 \in t /\ k + 1 \in Nat
      OBVIOUS
    <3>2. \A x \in t : x \in DOMAIN s
      BY <1>2
    <3>3. t \in SUBSET (1..(k + 1))
      OBVIOUS
    <3> HIDE DEF t
    <3>4. QED
      BY <3>1, <3>2, <3>3
  <2>3. Greatest(t) \in t /\ \A x \in t : Greatest(t) >= x
    BY <2>2, GreatestIn
  <2>4. Greatest(t) = k + 1
    BY <2>3
  <2>5. t \ {k + 1} = 1..k
    OBVIOUS
  <2> HIDE DEF t
  <2>6. it[t] = Body(it[1..k], s[k + 1])
    BY <1>1, <2>2, <2>4, <2>5 DEF Recurs, Latest
  <2>7. Holds(k + 1, Body(it[1..k], s[k + 1]))
    BY <2>1
  <2>8. QED
    BY <2>6, <2>7 DEF t
<1> HIDE DEF Good
<1>5. \A k \in Nat : k \in Good
  BY <1>3, <1>4, Counting
<1>6. Holds(Len(s), it[1..Len(s)])
  BY <1>2, <1>5 DEF Good
<1>7. QED
  BY <1>1, <1>2, <1>6

(* The fold of nothing is where it starts; that of one element more is the  *)
(* fold before it and one turn.                                             *)
THEOREM FoldOneMore ==
    ASSUME Induction, NEW b, NEW X, NEW s \in Seq(X), NEW e \in X
    PROVE  /\ FoldSeq(b, <<>>) = b
           /\ FoldSeq(b, Append(s, e)) = Body(FoldSeq(b, s), e)
<1> DEFINE n == Len(s)
           r == Append(s, e)
<1>1. /\ n \in Nat /\ DOMAIN s = 1..n /\ r \in Seq(X) /\ Len(r) = n + 1 /\ DOMAIN r = 1..(n + 1)
      /\ r[n + 1] = e /\ \A k \in 1..n : r[k] = s[k]
  OBVIOUS
<1> HIDE DEF n, r
<1>2. PICK f : Recurs(f, b, s, Latest(s), 1..n) /\ FoldSeq(b, s) = f[1..n]
  BY <1>1, FoldSeqRecurs
<1>3. PICK g : Recurs(g, b, r, Latest(r), 1..(n + 1)) /\ FoldSeq(b, r) = g[1..(n + 1)]
  BY <1>1, FoldSeqRecurs
<1>4. ASSUME NEW k \in Nat, k < n + 1
      PROVE  g[1..(k + 1)] = Body(g[1..k], r[k + 1])
  <2> DEFINE t == 1..(k + 1)
  <2>1. t \in SUBSET (1..(n + 1)) /\ k + 1 \in t /\ t \ {k + 1} = 1..k
    BY <1>1, <1>4
  <2>2. t \in SUBSET (1..(k + 1)) /\ t # {} /\ k + 1 \in Nat
    <3>1. t \subseteq 1..(k + 1) /\ k + 1 \in Nat
      OBVIOUS
    <3> HIDE DEF t
    <3>2. QED
      BY <2>1, <3>1
  <2>3. Greatest(t) \in t /\ \A x \in t : Greatest(t) >= x
    <3> HIDE DEF t
    <3>1. QED
      BY <2>2, GreatestIn
  <2>4. Greatest(t) = k + 1
    <3>1. \A x \in t : x \in Nat /\ x <= k + 1
      OBVIOUS
    <3> HIDE DEF t
    <3>2. QED
      BY <2>1, <2>3, <3>1
  <2> HIDE DEF t
  <2>5. Latest(r)[t] = k + 1
    BY <1>1, <2>1, <2>4 DEF Latest
  <2>6. g[t] = Body(g[t \ {k + 1}], r[k + 1])
    BY <1>3, <2>1, <2>2, <2>5 DEF Recurs
  <2>7. QED
    BY <2>1, <2>6 DEF t
<1>5. ASSUME NEW k \in Nat, k < n
      PROVE  f[1..(k + 1)] = Body(f[1..k], s[k + 1])
  <2> DEFINE t == 1..(k + 1)
  <2>1. t \in SUBSET (1..n) /\ k + 1 \in t /\ t \ {k + 1} = 1..k
    BY <1>1, <1>5
  <2>2. t \in SUBSET (1..(k + 1)) /\ t # {} /\ k + 1 \in Nat
    <3>1. t \subseteq 1..(k + 1) /\ k + 1 \in Nat
      OBVIOUS
    <3> HIDE DEF t
    <3>2. QED
      BY <2>1, <3>1
  <2>3. Greatest(t) \in t /\ \A x \in t : Greatest(t) >= x
    <3> HIDE DEF t
    <3>1. QED
      BY <2>2, GreatestIn
  <2>4. Greatest(t) = k + 1
    <3>1. \A x \in t : x \in Nat /\ x <= k + 1
      OBVIOUS
    <3> HIDE DEF t
    <3>2. QED
      BY <2>1, <2>3, <3>1
  <2> HIDE DEF t
  <2>5. Latest(s)[t] = k + 1
    BY <1>1, <2>1, <2>4 DEF Latest
  <2>6. f[t] = Body(f[t \ {k + 1}], s[k + 1])
    BY <1>2, <2>1, <2>2, <2>5 DEF Recurs
  <2>7. QED
    BY <2>1, <2>6 DEF t
<1> DEFINE Good == {k \in Nat : k <= n => g[1..k] = f[1..k]}
<1>6. 0 \in Good
  <2>1. 1..0 = {}
    OBVIOUS
  <2>2. g[{}] = b /\ f[{}] = b
    BY <1>2, <1>3 DEF Recurs
  <2>3. QED
    BY <2>1, <2>2
<1>7. ASSUME NEW k \in Nat, k \in Good
      PROVE  k + 1 \in Good
  <2> SUFFICES ASSUME k + 1 <= n
               PROVE  g[1..(k + 1)] = f[1..(k + 1)]
    OBVIOUS
  <2>1. k < n /\ k < n + 1 /\ k + 1 \in 1..n
    BY <1>1
  <2>2. g[1..k] = f[1..k]
    BY <1>1, <1>7
  <2> HIDE DEF Good
  <2>3. QED
    BY <1>1, <1>4, <1>5, <2>1, <2>2
<1> HIDE DEF Good
<1>8. n \in Good
  BY <1>1, <1>6, <1>7, Counting
<1>9. g[1..n] = f[1..n]
  BY <1>1, <1>8 DEF Good
<1>10. g[1..(n + 1)] = Body(g[1..n], e)
  BY <1>1, <1>4
<1>11. FoldSeq(b, r) = Body(FoldSeq(b, s), e)
  BY <1>2, <1>3, <1>9, <1>10
<1>12. FoldSeq(b, <<>>) = b
  <2>1. <<>> \in Seq(X) /\ DOMAIN <<>> = {}
    OBVIOUS
  <2>2. PICK h : Recurs(h, b, <<>>, Latest(<<>>), {}) /\ FoldSeq(b, <<>>) = h[{}]
    BY <2>1, FoldSeqRecurs
  <2>3. h[{}] = b
    BY <2>2 DEF Recurs
  <2>4. QED
    BY <2>2, <2>3
<1>13. QED
  BY <1>11, <1>12 DEF r
=============================================================================
