-------------------------- MODULE ByteRangeProofs ---------------------------
(***************************************************************************)
(* Lemmas on the operators of ByteRange: what they return for lists of     *)
(* every length.  The provers cannot instantiate an induction rule over a  *)
(* predicate, so induction is stated over a set here.                      *)
(***************************************************************************)
EXTENDS ByteRange, TLAPS, WellFoundedInduction, FiniteSetTheorems, SequenceTheorems

(* A set that holds 0 and every successor of its members holds Nat.        *)
LEMMA SetInduction ==
  ASSUME NEW S, 0 \in S, \A n \in Nat : n \in S => n + 1 \in S
  PROVE  Nat \subseteq S
<1>. DEFINE T == Nat \ S
<1>1. SUFFICES ASSUME T # {} PROVE FALSE
  OBVIOUS
<1>2. IsWellFoundedOn(OpToRel(<, Nat), Nat)
  BY NatLessThanWellFounded
<1>3. PICK x \in T : \A y \in T : ~ (<<y, x>> \in OpToRel(<, Nat))
  <2>1. T \subseteq Nat
    OBVIOUS
  <2>. HIDE DEF T
  <2>. QED
    BY <1>1, <1>2, <2>1, WFMin
<1>4. x # 0 /\ x - 1 \in Nat /\ x - 1 \in T
  OBVIOUS
<1>5. <<x - 1, x>> \in OpToRel(<, Nat)
  BY <1>4 DEF OpToRel
<1>. QED
  BY <1>3, <1>4, <1>5

(* First finds the least element of a non-empty set of naturals: the loops *)
(* of Cache::insert, moveToRcvQueue and parseData that stop at a first.    *)
LEMMA FirstIsLeast ==
  ASSUME NEW S, S \subseteq Nat, S # {}
  PROVE  First(S) \in S /\ \A j \in S : First(S) <= j
<1>1. IsWellFoundedOn(OpToRel(<, Nat), Nat)
  BY NatLessThanWellFounded
<1>2. PICK x \in S : \A y \in S : ~ (<<y, x>> \in OpToRel(<, Nat))
  BY <1>1, WFMin
<1>3. \A y \in S : x <= y
  <2>. TAKE y \in S
  <2>1. x \in Nat /\ y \in Nat
    OBVIOUS
  <2>2. y < x => <<y, x>> \in OpToRel(<, Nat)
    BY <2>1 DEF OpToRel
  <2>3. ~ (y < x)
    BY <1>2, <2>2
  <2>. QED
    BY <2>1, <2>3
<1>. QED
  BY <1>2, <1>3 DEF First

(* A search through a list stops at an element or one past the end.        *)
LEMMA SearchStops ==
  ASSUME NEW m \in Nat, NEW S, S \subseteq 1 .. m + 1, m + 1 \in S
  PROVE  First(S) \in 1 .. m + 1 /\ First(S) \in S
<1>1. S \subseteq Nat /\ S # {}
  OBVIOUS
<1>2. First(S) \in S
  BY <1>1, FirstIsLeast
<1>. QED
  BY <1>2

(* A function over 0 .. n that starts with a and steps with G.             *)
Solvable(n, S, a, G) ==
  \E h \in [0 .. n -> S] : h[0] = a /\ \A i \in 1 .. n : h[i] = G[<<h[i - 1], i>>]

(* Recursion over 0 .. n with a step function G on a set S has a solution. *)
LEMMA RecursionExists ==
  ASSUME NEW S, NEW a \in S, NEW G \in [S \X Nat -> S]
  PROVE  \A n \in Nat : Solvable(n, S, a, G)
<1>. DEFINE Good(n, h) == h[0] = a /\ \A i \in 1 .. n : h[i] = G[<<h[i - 1], i>>]
            Has == {n \in Nat : \E h \in [0 .. n -> S] : Good(n, h)}
<1>1. 0 \in Has
  <2>1. [i \in 0 .. 0 |-> a] \in [0 .. 0 -> S] /\ Good(0, [i \in 0 .. 0 |-> a])
    OBVIOUS
  <2>. QED
    BY <2>1
<1>2. ASSUME NEW n \in Nat, n \in Has
      PROVE  n + 1 \in Has
  <2>1. PICK h \in [0 .. n -> S] : Good(n, h)
    BY <1>2
  <2>. DEFINE g == [i \in 0 .. n + 1 |-> IF i <= n THEN h[i] ELSE G[<<h[n], n + 1>>]]
  <2>2. h[n] \in S /\ <<h[n], n + 1>> \in S \X Nat
    OBVIOUS
  <2>3. G[<<h[n], n + 1>>] \in S
    BY <2>2
  <2>4. g \in [0 .. n + 1 -> S]
    BY <2>3
  <2>5. ASSUME NEW i \in 1 .. n + 1
        PROVE  g[i] = G[<<g[i - 1], i>>]
    <3>1. i - 1 \in 0 .. n /\ g[i - 1] = h[i - 1]
      OBVIOUS
    <3>2. CASE i \in 1 .. n
      BY <2>1, <3>1, <3>2
    <3>3. CASE i = n + 1
      <4>1. g[n + 1] = G[<<h[n], n + 1>>]
        OBVIOUS
      <4>2. i - 1 = n
        BY <3>3
      <4>. QED
        BY <3>1, <3>3, <4>1, <4>2
    <3>. QED
      BY <3>2, <3>3
  <2>6. g[0] = a
    BY <2>1
  <2>7. Good(n + 1, g)
    BY <2>5, <2>6
  <2>. HIDE DEF g, Good
  <2>. QED
    BY <2>4, <2>7
<1>. HIDE DEF Has
<1>3. Nat \subseteq Has
  BY <1>1, <1>2, SetInduction
<1>. QED
  BY <1>3 DEF Has, Solvable

(* What holds at 0 and is kept by each step of a recursion holds at n.     *)
LEMMA RecursionStays ==
  ASSUME NEW S, NEW n \in Nat, NEW f, f[0] \in S,
         \A i \in 1 .. n : f[i - 1] \in S => f[i] \in S
  PROVE  f[n] \in S
<1>. DEFINE Holds == {i \in Nat : i <= n => f[i] \in S}
<1>1. 0 \in Holds
  OBVIOUS
<1>2. ASSUME NEW i \in Nat, i \in Holds
      PROVE  i + 1 \in Holds
  <2>1. SUFFICES ASSUME i + 1 <= n PROVE f[i + 1] \in S
    OBVIOUS
  <2>2. i + 1 \in 1 .. n /\ (i + 1) - 1 = i /\ f[i] \in S
    BY <1>2, <2>1
  <2>. QED
    BY <2>2
<1>. HIDE DEF Holds
<1>3. Nat \subseteq Holds
  BY <1>1, <1>2, SetInduction
<1>. QED
  BY <1>3 DEF Holds

-----------------------------------------------------------------------------
(* Sums.  Every fact about a sum follows from a function that has the      *)
(* partial sums as its values: there is one, and it is the only one.       *)

PartialSums(n, ns, f) ==
  f \in [0 .. n -> Int] /\ f[0] = 0 /\ \A i \in 1 .. n : f[i] = f[i - 1] + ns[i]

LEMMA SumIs ==
  ASSUME NEW n \in Nat, NEW ns, NEW g, PartialSums(n, ns, g)
  PROVE  SumOf(n, ns) = g[n]
<1>. DEFINE Step(f, i) == IF i = 0 THEN 0 ELSE f[i - 1] + ns[i]
            f == CHOOSE f : f = [i \in 0 .. n |-> Step(f, i)]
            Same == {i \in Nat : i <= n => f[i] = g[i]}
<1>1. g = [i \in 0 .. n |-> Step(g, i)]
  BY DEF PartialSums
<1>2. f = [i \in 0 .. n |-> Step(f, i)]
  <2>. HIDE DEF Step
  <2>. QED
    BY <1>1
<1>3. 0 \in Same
  <2>. HIDE DEF f
  <2>. QED
    BY <1>2 DEF PartialSums
<1>4. ASSUME NEW i \in Nat, i \in Same
      PROVE  i + 1 \in Same
  <2>1. SUFFICES ASSUME i + 1 <= n PROVE f[i + 1] = g[i + 1]
    OBVIOUS
  <2>. HIDE DEF f
  <2>2. i + 1 \in 1 .. n /\ i + 1 \in 0 .. n /\ (i + 1) - 1 = i /\ f[i] = g[i]
    BY <1>4, <2>1
  <2>3. f[i + 1] = f[i] + ns[i + 1]
    BY <1>2, <2>2
  <2>. QED
    BY <2>2, <2>3 DEF PartialSums
<1>5. n \in Same
  <2>. HIDE DEF Same
  <2>. QED
    BY <1>3, <1>4, SetInduction
<1>6. SumOf(n, ns) = f[n]
  BY DEF SumOf
<1>. QED
  BY <1>5, <1>6

LEMMA SumExists ==
  ASSUME NEW n \in Nat, NEW ns, \A i \in 1 .. n : ns[i] \in Int
  PROVE  \E f : PartialSums(n, ns, f) /\ SumOf(n, ns) = f[n]
<1>. DEFINE G == [p \in Int \X Nat |-> IF p[2] \in 1 .. n THEN p[1] + ns[p[2]] ELSE 0]
<1>1. G \in [Int \X Nat -> Int]
  OBVIOUS
<1>2. ASSUME NEW x \in Int, NEW i \in 1 .. n PROVE G[<<x, i>>] = x + ns[i]
  <2>1. <<x, i>> \in Int \X Nat
    OBVIOUS
  <2>. QED
    BY <2>1
<1>. HIDE DEF G
<1>3. Solvable(n, Int, 0, G)
  <2>. DEFINE S == Int
              a == 0
  <2>1. a \in S /\ G \in [S \X Nat -> S]
    BY <1>1
  <2>. HIDE DEF a, S
  <2>2. Solvable(n, S, a, G)
    BY <2>1, RecursionExists
  <2>. QED
    BY <2>2 DEF a, S
<1>4. PICK f \in [0 .. n -> Int] : f[0] = 0 /\ \A i \in 1 .. n : f[i] = G[<<f[i - 1], i>>]
  BY <1>3 DEF Solvable
<1>5. ASSUME NEW i \in 1 .. n PROVE f[i] = f[i - 1] + ns[i]
  <2>1. f[i - 1] \in Int
    BY <1>4
  <2>. QED
    BY <1>2, <1>4, <2>1
<1>6. PartialSums(n, ns, f)
  BY <1>4, <1>5 DEF PartialSums
<1>. QED
  BY <1>6, SumIs

(* A sum of integers, of naturals, of nothing, and of one more.            *)
LEMMA SumType ==
  ASSUME NEW n \in Nat, NEW ns, \A i \in 1 .. n : ns[i] \in Int
  PROVE  SumOf(n, ns) \in Int
<1>1. PICK f : PartialSums(n, ns, f) /\ SumOf(n, ns) = f[n]
  BY SumExists
<1>. QED
  BY <1>1 DEF PartialSums

LEMMA SumNat ==
  ASSUME NEW n \in Nat, NEW ns, \A i \in 1 .. n : ns[i] \in Nat
  PROVE  SumOf(n, ns) \in Nat
<1>1. PICK f : PartialSums(n, ns, f) /\ SumOf(n, ns) = f[n]
  <2>1. \A i \in 1 .. n : ns[i] \in Int
    OBVIOUS
  <2>. QED
    BY <2>1, SumExists
<1>2. f[0] \in Nat /\ \A i \in 1 .. n : f[i - 1] \in Nat => f[i] \in Nat
  BY <1>1 DEF PartialSums
<1>. DEFINE S == Nat
<1>3. f[0] \in S /\ \A i \in 1 .. n : f[i - 1] \in S => f[i] \in S
  BY <1>2
<1>. HIDE DEF S
<1>4. f[n] \in S
  BY <1>3, RecursionStays
<1>. QED
  BY <1>1, <1>4 DEF S

LEMMA SumZero == \A ns : SumOf(0, ns) = 0
<1>. TAKE ns
<1>1. PartialSums(0, ns, [i \in 0 .. 0 |-> 0])
  BY DEF PartialSums
<1>. QED
  BY <1>1, SumIs

LEMMA SumStep ==
  ASSUME NEW n \in Nat, NEW ns, \A i \in 1 .. n + 1 : ns[i] \in Int
  PROVE  SumOf(n + 1, ns) = SumOf(n, ns) + ns[n + 1]
<1>1. PICK f : PartialSums(n + 1, ns, f) /\ SumOf(n + 1, ns) = f[n + 1]
  BY SumExists
<1>2. PartialSums(n, ns, [i \in 0 .. n |-> f[i]])
  BY <1>1 DEF PartialSums
<1>3. SumOf(n, ns) = [i \in 0 .. n |-> f[i]][n]
  BY <1>2, SumIs
<1>. QED
  BY <1>1, <1>3 DEF PartialSums

(* The sum depends on the summands only.                                   *)
LEMMA SumSame ==
  ASSUME NEW n \in Nat, NEW xs, NEW ys, \A i \in 1 .. n : xs[i] \in Int /\ xs[i] = ys[i]
  PROVE  SumOf(n, xs) = SumOf(n, ys)
<1>1. PICK f : PartialSums(n, xs, f) /\ SumOf(n, xs) = f[n]
  BY SumExists
<1>2. PartialSums(n, ys, f)
  BY <1>1 DEF PartialSums
<1>. QED
  BY <1>1, <1>2, SumIs

LEMMA SumPlus ==
  ASSUME NEW n \in Nat, NEW xs, NEW ys, NEW zs,
         \A i \in 1 .. n : xs[i] \in Int /\ ys[i] \in Int /\ zs[i] = xs[i] + ys[i]
  PROVE  SumOf(n, zs) = SumOf(n, xs) + SumOf(n, ys)
<1>1. PICK f : PartialSums(n, xs, f) /\ SumOf(n, xs) = f[n]
  BY SumExists
<1>2. PICK g : PartialSums(n, ys, g) /\ SumOf(n, ys) = g[n]
  BY SumExists
<1>. DEFINE h == [i \in 0 .. n |-> f[i] + g[i]]
<1>3. PartialSums(n, zs, h)
  <2>1. h \in [0 .. n -> Int] /\ h[0] = 0
    BY <1>1, <1>2 DEF PartialSums
  <2>2. ASSUME NEW i \in 1 .. n PROVE h[i] = h[i - 1] + zs[i]
    <3>1. i \in 0 .. n /\ i - 1 \in 0 .. n
      OBVIOUS
    <3>2. /\ f[i] = f[i - 1] + xs[i] /\ g[i] = g[i - 1] + ys[i] /\ f[i - 1] \in Int /\ g[i - 1] \in Int
      BY <1>1, <1>2, <3>1 DEF PartialSums
    <3>3. h[i] = f[i] + g[i] /\ h[i - 1] = f[i - 1] + g[i - 1]
      BY <3>1
    <3>4. xs[i] \in Int /\ ys[i] \in Int /\ zs[i] = xs[i] + ys[i]
      OBVIOUS
    <3>. HIDE DEF h
    <3>. QED
      BY <3>2, <3>3, <3>4
  <2>. HIDE DEF h
  <2>. QED
    BY <2>1, <2>2 DEF PartialSums
<1>4. h[n] = f[n] + g[n]
  OBVIOUS
<1>. HIDE DEF h
<1>. QED
  BY <1>1, <1>2, <1>3, <1>4, SumIs

(* The numbers zs are xs, followed by ys.                                  *)
Appended(m, n, xs, ys, zs) ==
  /\ \A i \in 1 .. m : xs[i] \in Int /\ zs[i] = xs[i]
  /\ \A i \in 1 .. n : ys[i] \in Int /\ zs[m + i] = ys[i]

LEMMA SumSplit ==
  ASSUME NEW m \in Nat, NEW n \in Nat, NEW xs, NEW ys, NEW zs, Appended(m, n, xs, ys, zs)
  PROVE  SumOf(m + n, zs) = SumOf(m, xs) + SumOf(n, ys)
<1>. USE DEF Appended
<1>1. PICK f : PartialSums(m, xs, f) /\ SumOf(m, xs) = f[m]
  BY SumExists
<1>2. PICK g : PartialSums(n, ys, g) /\ SumOf(n, ys) = g[n]
  BY SumExists
<1>. DEFINE h == [i \in 0 .. m + n |-> IF i <= m THEN f[i] ELSE f[m] + g[i - m]]
<1>3. PartialSums(m + n, zs, h)
  <2>1. h \in [0 .. m + n -> Int] /\ h[0] = 0
    BY <1>1, <1>2 DEF PartialSums
  <2>2. ASSUME NEW i \in 1 .. m + n PROVE h[i] = h[i - 1] + zs[i]
    <3>1. CASE i <= m
      <4>1. i \in 1 .. m /\ h[i] = f[i] /\ h[i - 1] = f[i - 1] /\ zs[i] = xs[i]
        BY <3>1
      <4>. HIDE DEF h
      <4>. QED
        BY <1>1, <4>1 DEF PartialSums
    <3>2. CASE i = m + 1
      <4>1. h[i] = f[m] + g[1] /\ h[i - 1] = f[m] /\ 1 \in 1 .. n /\ zs[i] = ys[1]
        BY <3>2
      <4>2. g[1] = 0 + ys[1] /\ ys[1] \in Int /\ f[m] \in Int
        BY <1>1, <1>2, <4>1 DEF PartialSums
      <4>. HIDE DEF h
      <4>. QED
        BY <4>1, <4>2
    <3>3. CASE i > m + 1
      <4>1. /\ h[i] = f[m] + g[i - m] /\ h[i - 1] = f[m] + g[(i - m) - 1]
            /\ i - m \in 1 .. n /\ (i - m) - 1 \in 0 .. n /\ m + (i - m) = i
        BY <3>3
      <4>2. g[i - m] = g[(i - m) - 1] + ys[i - m] /\ zs[i] = ys[i - m] /\ f[m] \in Int
            /\ g[(i - m) - 1] \in Int /\ ys[i - m] \in Int
        BY <1>1, <1>2, <4>1 DEF PartialSums
      <4>. HIDE DEF h
      <4>. QED
        BY <4>1, <4>2
    <3>. QED
      BY <3>1, <3>2, <3>3
  <2>. HIDE DEF h
  <2>. QED
    BY <2>1, <2>2 DEF PartialSums
<1>4. h[m + n] = f[m] + g[n]
  <2>1. CASE n = 0
    BY <1>1, <1>2, <2>1 DEF PartialSums
  <2>2. CASE n # 0
    BY <2>2
  <2>. QED
    BY <2>1, <2>2
<1>. HIDE DEF h
<1>. QED
  BY <1>1, <1>2, <1>3, <1>4, SumIs

LEMMA SumAtMost ==
  ASSUME NEW n \in Nat, NEW xs, NEW ys,
         \A i \in 1 .. n : xs[i] \in Int /\ ys[i] \in Int /\ xs[i] <= ys[i]
  PROVE  SumOf(n, xs) <= SumOf(n, ys)
<1>. DEFINE ds == [i \in 1 .. n |-> ys[i] - xs[i]]
<1>1. ASSUME NEW i \in 1 .. n
      PROVE  ds[i] \in Nat /\ ds[i] \in Int /\ xs[i] \in Int /\ ys[i] = xs[i] + ds[i]
  <2>1. xs[i] \in Int /\ ys[i] \in Int /\ xs[i] <= ys[i] /\ ds[i] = ys[i] - xs[i]
    OBVIOUS
  <2>. HIDE DEF ds
  <2>. QED
    BY <2>1
<1>. HIDE DEF ds
<1>2. SumOf(n, ys) = SumOf(n, xs) + SumOf(n, ds)
  BY <1>1, SumPlus
<1>3. SumOf(n, ds) \in Nat /\ SumOf(n, xs) \in Int
  BY <1>1, SumNat, SumType
<1>. HIDE DEF ds
<1>. QED
  BY <1>2, <1>3

-----------------------------------------------------------------------------
(* Joined sequences, likewise.                                             *)

PartialJoins(T, n, ss, f) ==
  f \in [0 .. n -> Seq(T)] /\ f[0] = <<>> /\ \A i \in 1 .. n : f[i] = f[i - 1] \o ss[i]

LEMMA ConcatIs ==
  ASSUME NEW T, NEW n \in Nat, NEW ss, NEW g, PartialJoins(T, n, ss, g)
  PROVE  Concat(n, ss) = g[n]
<1>. DEFINE Step(f, i) == IF i = 0 THEN <<>> ELSE f[i - 1] \o ss[i]
            f == CHOOSE f : f = [i \in 0 .. n |-> Step(f, i)]
            Same == {i \in Nat : i <= n => f[i] = g[i]}
<1>1. g = [i \in 0 .. n |-> Step(g, i)]
  BY DEF PartialJoins
<1>2. f = [i \in 0 .. n |-> Step(f, i)]
  <2>. HIDE DEF Step
  <2>. QED
    BY <1>1
<1>3. 0 \in Same
  <2>. HIDE DEF f
  <2>. QED
    BY <1>2 DEF PartialJoins
<1>4. ASSUME NEW i \in Nat, i \in Same
      PROVE  i + 1 \in Same
  <2>1. SUFFICES ASSUME i + 1 <= n PROVE f[i + 1] = g[i + 1]
    OBVIOUS
  <2>. HIDE DEF f
  <2>2. i + 1 \in 1 .. n /\ i + 1 \in 0 .. n /\ (i + 1) - 1 = i /\ f[i] = g[i]
    BY <1>4, <2>1
  <2>3. f[i + 1] = f[i] \o ss[i + 1]
    BY <1>2, <2>2
  <2>. QED
    BY <2>2, <2>3 DEF PartialJoins
<1>5. n \in Same
  <2>. HIDE DEF Same
  <2>. QED
    BY <1>3, <1>4, SetInduction
<1>6. Concat(n, ss) = f[n]
  BY DEF Concat
<1>. QED
  BY <1>5, <1>6

LEMMA ConcatExists ==
  ASSUME NEW T, NEW n \in Nat, NEW ss, \A i \in 1 .. n : ss[i] \in Seq(T)
  PROVE  \E f : PartialJoins(T, n, ss, f) /\ Concat(n, ss) = f[n]
<1>. DEFINE G == [p \in Seq(T) \X Nat |-> IF p[2] \in 1 .. n THEN p[1] \o ss[p[2]] ELSE <<>>]
            S == Seq(T)
<1>1. G \in [Seq(T) \X Nat -> Seq(T)]
  <2>1. ASSUME NEW p \in Seq(T) \X Nat, p[2] \in 1 .. n PROVE p[1] \o ss[p[2]] \in Seq(T)
    <3>1. p[1] \in Seq(T) /\ ss[p[2]] \in Seq(T)
      BY <2>1
    <3>. QED
      BY <3>1
  <2>. QED
    BY <2>1
<1>2. ASSUME NEW x \in Seq(T), NEW i \in 1 .. n PROVE G[<<x, i>>] = x \o ss[i]
  <2>1. <<x, i>> \in Seq(T) \X Nat
    OBVIOUS
  <2>. QED
    BY <2>1
<1>. HIDE DEF G
<1>3. Solvable(n, S, <<>>, G)
  <2>. DEFINE a == <<>>
  <2>1. a \in S /\ G \in [S \X Nat -> S]
    BY <1>1
  <2>. HIDE DEF a, S
  <2>2. Solvable(n, S, a, G)
    BY <2>1, RecursionExists
  <2>. QED
    BY <2>2 DEF a
<1>4. PICK f \in [0 .. n -> S] : f[0] = <<>> /\ \A i \in 1 .. n : f[i] = G[<<f[i - 1], i>>]
  BY <1>3 DEF Solvable
<1>5. ASSUME NEW i \in 1 .. n PROVE f[i] = f[i - 1] \o ss[i]
  <2>1. f[i - 1] \in Seq(T)
    BY <1>4
  <2>. QED
    BY <1>2, <1>4, <2>1
<1>6. PartialJoins(T, n, ss, f)
  BY <1>4, <1>5 DEF PartialJoins
<1>. QED
  BY <1>6, ConcatIs

(* Joining sequences over T yields a sequence over T.                      *)
LEMMA ConcatType ==
  ASSUME NEW T, NEW n \in Nat, NEW ss \in [1 .. n -> Seq(T)]
  PROVE  Concat(n, ss) \in Seq(T)
<1>1. PICK f : PartialJoins(T, n, ss, f) /\ Concat(n, ss) = f[n]
  BY ConcatExists
<1>. QED
  BY <1>1 DEF PartialJoins

-----------------------------------------------------------------------------
(* The elements of a sequence, and their sum under a weight w.             *)

Elements(s) == {s[i] : i \in 1 .. Len(s)}

WeightOf(w, s) == SumOf(Len(s), [i \in 1 .. Len(s) |-> w[s[i]]])

LEMMA WeightType ==
  ASSUME NEW T, NEW w \in [T -> Int], NEW s \in Seq(T)
  PROVE  WeightOf(w, s) \in Int
<1>. DEFINE ws == [i \in 1 .. Len(s) |-> w[s[i]]]
<1>1. Len(s) \in Nat /\ \A i \in 1 .. Len(s) : ws[i] \in Int
  OBVIOUS
<1>. HIDE DEF ws
<1>2. SumOf(Len(s), ws) \in Int
  BY <1>1, SumType
<1>. QED
  BY <1>2 DEF WeightOf, ws

LEMMA WeightNat ==
  ASSUME NEW T, NEW w \in [T -> Nat], NEW s \in Seq(T)
  PROVE  WeightOf(w, s) \in Nat
<1>. DEFINE ws == [i \in 1 .. Len(s) |-> w[s[i]]]
<1>1. Len(s) \in Nat /\ \A i \in 1 .. Len(s) : ws[i] \in Nat
  OBVIOUS
<1>. HIDE DEF ws
<1>2. SumOf(Len(s), ws) \in Nat
  BY <1>1, SumNat
<1>. QED
  BY <1>2 DEF WeightOf, ws

LEMMA WeightEmpty == ASSUME NEW w PROVE WeightOf(w, <<>>) = 0
<1>1. Len(<<>>) = 0
  OBVIOUS
<1>. QED
  BY <1>1, SumZero DEF WeightOf

LEMMA WeightJoin ==
  ASSUME NEW T, NEW w \in [T -> Int], NEW s \in Seq(T), NEW t \in Seq(T)
  PROVE  WeightOf(w, s \o t) = WeightOf(w, s) + WeightOf(w, t)
<1>. DEFINE us == [i \in 1 .. Len(s) |-> w[s[i]]]
            vs == [i \in 1 .. Len(t) |-> w[t[i]]]
            ws == [i \in 1 .. Len(s \o t) |-> w[(s \o t)[i]]]
<1>1. Len(s) \in Nat /\ Len(t) \in Nat /\ Len(s \o t) = Len(s) + Len(t)
  OBVIOUS
<1>2. \A i \in 1 .. Len(s) : us[i] \in Int /\ ws[i] = us[i]
  OBVIOUS
<1>3. \A i \in 1 .. Len(t) : vs[i] \in Int /\ ws[Len(s) + i] = vs[i]
  <2>. TAKE i \in 1 .. Len(t)
  <2>1. Len(s) + i \in 1 .. Len(s \o t) /\ (s \o t)[Len(s) + i] = t[i] /\ t[i] \in T
    OBVIOUS
  <2>. QED
    BY <2>1
<1>. HIDE DEF us, vs, ws
<1>4. Appended(Len(s), Len(t), us, vs, ws)
  BY <1>2, <1>3 DEF Appended
<1>5. SumOf(Len(s) + Len(t), ws) = SumOf(Len(s), us) + SumOf(Len(t), vs)
  BY <1>1, <1>4, SumSplit
<1>. QED
  BY <1>1, <1>5 DEF WeightOf, us, vs, ws

LEMMA WeightOne ==
  ASSUME NEW T, NEW w \in [T -> Int], NEW x \in T
  PROVE  WeightOf(w, <<x>>) = w[x]
<1>. DEFINE xs == [i \in 1 .. 1 |-> w[<<x>>[i]]]
<1>1. xs[1] = w[x] /\ w[x] \in Int /\ \A i \in 1 .. 0 + 1 : xs[i] \in Int
  OBVIOUS
<1>2. WeightOf(w, <<x>>) = SumOf(1, xs)
  BY DEF WeightOf
<1>. HIDE DEF xs
<1>3. SumOf(0 + 1, xs) = SumOf(0, xs) + xs[0 + 1]
  BY <1>1, SumStep
<1>. QED
  BY <1>1, <1>2, <1>3, SumZero

LEMMA WeightConcat ==
  ASSUME NEW T, NEW w \in [T -> Int], NEW n \in Nat, NEW ss, \A i \in 1 .. n : ss[i] \in Seq(T),
         NEW ws, \A i \in 1 .. n : ws[i] = WeightOf(w, ss[i])
  PROVE  WeightOf(w, Concat(n, ss)) = SumOf(n, ws)
<1>1. PICK f : PartialJoins(T, n, ss, f) /\ Concat(n, ss) = f[n]
  BY ConcatExists
<1>. DEFINE g == [i \in 0 .. n |-> WeightOf(w, f[i])]
<1>2. g[0] = 0
  BY <1>1, WeightEmpty DEF PartialJoins
<1>3. g \in [0 .. n -> Int]
  <2>1. ASSUME NEW i \in 0 .. n PROVE WeightOf(w, f[i]) \in Int
    BY <1>1, WeightType DEF PartialJoins
  <2>. QED
    BY <2>1
<1>4. ASSUME NEW i \in 1 .. n PROVE g[i] = g[i - 1] + ws[i]
  <2>1. i - 1 \in 0 .. n /\ i \in 0 .. n
    OBVIOUS
  <2>2. f[i - 1] \in Seq(T) /\ ss[i] \in Seq(T) /\ f[i] = f[i - 1] \o ss[i]
    BY <1>1, <2>1 DEF PartialJoins
  <2>3. WeightOf(w, f[i - 1] \o ss[i]) = WeightOf(w, f[i - 1]) + WeightOf(w, ss[i])
    BY <2>2, WeightJoin
  <2>. QED
    BY <2>1, <2>2, <2>3
<1>5. g[n] = WeightOf(w, Concat(n, ss))
  BY <1>1
<1>. HIDE DEF g
<1>6. PartialSums(n, ws, g)
  BY <1>2, <1>3, <1>4 DEF PartialSums
<1>7. SumOf(n, ws) = g[n]
  BY <1>6, SumIs
<1>. QED
  BY <1>5, <1>7

LEMMA WeightAtMost ==
  ASSUME NEW T, NEW v \in [T -> Int], NEW w \in [T -> Int], NEW s \in Seq(T),
         \A i \in 1 .. Len(s) : v[s[i]] <= w[s[i]]
  PROVE  WeightOf(v, s) <= WeightOf(w, s)
<1>. DEFINE xs == [i \in 1 .. Len(s) |-> v[s[i]]]
            ys == [i \in 1 .. Len(s) |-> w[s[i]]]
<1>1. Len(s) \in Nat /\ \A i \in 1 .. Len(s) : xs[i] \in Int /\ ys[i] \in Int /\ xs[i] <= ys[i]
  OBVIOUS
<1>. HIDE DEF xs, ys
<1>2. SumOf(Len(s), xs) <= SumOf(Len(s), ys)
  BY <1>1, SumAtMost
<1>. QED
  BY <1>2 DEF WeightOf, xs, ys

LEMMA ElementsJoin ==
  ASSUME NEW T, NEW s \in Seq(T), NEW t \in Seq(T)
  PROVE  Elements(s \o t) = Elements(s) \cup Elements(t)
<1>1. \A i \in 1 .. Len(s) : i \in 1 .. Len(s \o t) /\ (s \o t)[i] = s[i]
  OBVIOUS
<1>2. \A i \in 1 .. Len(t) : Len(s) + i \in 1 .. Len(s \o t) /\ (s \o t)[Len(s) + i] = t[i]
  OBVIOUS
<1>3. ASSUME NEW i \in 1 .. Len(s \o t)
      PROVE  (s \o t)[i] \in Elements(s) \cup Elements(t)
  <2>1. CASE i <= Len(s)
    BY <2>1 DEF Elements
  <2>2. CASE i > Len(s)
    <3>1. i - Len(s) \in 1 .. Len(t) /\ (s \o t)[i] = t[i - Len(s)]
      BY <2>2
    <3>. QED
      BY <3>1 DEF Elements
  <2>. QED
    BY <2>1, <2>2
<1>4. Elements(s \o t) \subseteq Elements(s) \cup Elements(t)
  BY <1>3 DEF Elements
<1>5. Elements(s) \subseteq Elements(s \o t)
  BY <1>1 DEF Elements
<1>6. Elements(t) \subseteq Elements(s \o t)
  BY <1>2 DEF Elements
<1>. QED
  BY <1>4, <1>5, <1>6

LEMMA ElementsConcat ==
  ASSUME NEW T, NEW n \in Nat, NEW ss, \A i \in 1 .. n : ss[i] \in Seq(T)
  PROVE  Elements(Concat(n, ss)) = UNION {Elements(ss[i]) : i \in 1 .. n}
<1>1. PICK f : PartialJoins(T, n, ss, f) /\ Concat(n, ss) = f[n]
  BY ConcatExists
<1>. DEFINE U(k) == UNION {Elements(ss[i]) : i \in 1 .. k}
            Agree == {k \in Nat : k <= n => Elements(f[k]) = U(k)}
<1>2. 0 \in Agree
  <2>1. f[0] = <<>>
    BY <1>1 DEF PartialJoins
  <2>2. Elements(<<>>) = {} /\ U(0) = {}
    BY DEF Elements
  <2>. QED
    BY <2>1, <2>2
<1>3. ASSUME NEW k \in Nat, k \in Agree
      PROVE  k + 1 \in Agree
  <2>1. SUFFICES ASSUME k + 1 <= n PROVE Elements(f[k + 1]) = U(k + 1)
    OBVIOUS
  <2>2. k + 1 \in 1 .. n /\ (k + 1) - 1 = k /\ k \in 0 .. n /\ Elements(f[k]) = U(k)
    BY <1>3, <2>1
  <2>3. f[k] \in Seq(T) /\ ss[k + 1] \in Seq(T) /\ f[k + 1] = f[k] \o ss[k + 1]
    BY <1>1, <2>2 DEF PartialJoins
  <2>4. Elements(f[k + 1]) = Elements(f[k]) \cup Elements(ss[k + 1])
    BY <2>3, ElementsJoin
  <2>5. 1 .. k + 1 = (1 .. k) \cup {k + 1}
    OBVIOUS
  <2>6. U(k + 1) = U(k) \cup Elements(ss[k + 1])
    BY <2>5
  <2>. QED
    BY <2>2, <2>4, <2>6
<1>4. n \in Agree
  <2>. HIDE DEF Agree
  <2>. QED
    BY <1>2, <1>3, SetInduction
<1>. QED
  BY <1>1, <1>4

-----------------------------------------------------------------------------
(* What a sequence covers.                                                 *)

LEMMA CoveredElements == ASSUME NEW s PROVE Covered(s) = UNION {Span(x) : x \in Elements(s)}
BY DEF Covered, Elements

LEMMA CoveredNone == Covered(<<>>) = {}
BY DEF Covered

LEMMA CoveredOne == ASSUME NEW x PROVE Covered(<<x>>) = Span(x)
BY DEF Covered

LEMMA CoveredJoin ==
  ASSUME NEW T, NEW s \in Seq(T), NEW t \in Seq(T)
  PROVE  Covered(s \o t) = Covered(s) \cup Covered(t)
BY ElementsJoin, CoveredElements

LEMMA CoveredConcat ==
  ASSUME NEW T, NEW n \in Nat, NEW ss, \A i \in 1 .. n : ss[i] \in Seq(T)
  PROVE  Covered(Concat(n, ss)) = UNION {Covered(ss[i]) : i \in 1 .. n}
<1>1. Elements(Concat(n, ss)) = UNION {Elements(ss[i]) : i \in 1 .. n}
  BY ElementsConcat
<1>2. \A i \in 1 .. n : Covered(ss[i]) = UNION {Span(x) : x \in Elements(ss[i])}
  BY CoveredElements
<1>3. Covered(Concat(n, ss)) = UNION {Span(x) : x \in Elements(Concat(n, ss))}
  BY CoveredElements
<1>. QED
  BY <1>1, <1>2, <1>3, SMTT(60)

(* The size of a list of ranges, as a sum of weights.                      *)
SizeFn(T) == [x \in T |-> Size(x)]

LEMMA SizeIsWeight ==
  ASSUME NEW T, NEW s \in Seq(T)
  PROVE  TotalSize(s, 1 .. Len(s)) = WeightOf(SizeFn(T), s)
<1>1. \A i \in 1 .. Len(s) : SizeFn(T)[s[i]] = Size(s[i])
  BY DEF SizeFn
<1>2. [i \in 1 .. Len(s) |-> IF i \in 1 .. Len(s) THEN Size(s[i]) ELSE 0]
        = [i \in 1 .. Len(s) |-> SizeFn(T)[s[i]]]
  BY <1>1
<1>. QED
  BY <1>2 DEF TotalSize, WeightOf

-----------------------------------------------------------------------------
(* Order, and sublists.                                                    *)

(* In a chain of non-empty ranges each starts at or behind the end of all  *)
(* before it.                                                              *)
LEMMA ChainOrdered ==
  ASSUME NEW n \in Nat, NEW s,
         \A i \in 1 .. n : s[i].start \in Nat /\ s[i].end \in Nat /\ s[i].start < s[i].end,
         \A i \in 1 .. n : i > 1 => s[i].start = s[i - 1].end
  PROVE  \A i, j \in 1 .. n : i < j => s[i].end <= s[j].start
<1>. DEFINE Ordered == {j \in Nat : j <= n => \A i \in 1 .. n : i < j => s[i].end <= s[j].start}
<1>1. 0 \in Ordered
  OBVIOUS
<1>2. ASSUME NEW j \in Nat, j \in Ordered
      PROVE  j + 1 \in Ordered
  <2>1. SUFFICES ASSUME j + 1 <= n, NEW i \in 1 .. n, i < j + 1
                 PROVE  s[i].end <= s[j + 1].start
    OBVIOUS
  <2>2. j \in 1 .. n /\ j + 1 \in 1 .. n /\ (j + 1) - 1 = j /\ j + 1 > 1
    BY <2>1
  <2>3. s[j + 1].start = s[j].end
    BY <2>2
  <2>4. CASE i = j
    BY <2>2, <2>3, <2>4
  <2>5. CASE i < j
    <3>1. s[i].end <= s[j].start
      BY <1>2, <2>2, <2>5
    <3>. QED
      BY <2>2, <2>3, <3>1
  <2>. QED
    BY <2>1, <2>2, <2>4, <2>5
<1>. HIDE DEF Ordered
<1>3. Nat \subseteq Ordered
  BY <1>1, <1>2, SetInduction
<1>. QED
  BY <1>3 DEF Ordered

(* A non-empty set of naturals below a bound has a highest element.        *)
LEMMA HighestExists ==
  ASSUME NEW m \in Nat, NEW S, S \subseteq 0 .. m, S # {}
  PROVE  \E x \in S : \A y \in S : y <= x
<1>. DEFINE R == {m - x : x \in S}
<1>1. R \subseteq Nat /\ R # {}
  OBVIOUS
<1>. HIDE DEF R
<1>2. First(R) \in R /\ \A j \in R : First(R) <= j
  BY <1>1, FirstIsLeast
<1>3. PICK x \in S : First(R) = m - x
  BY <1>2 DEF R
<1>4. \A y \in S : m - x <= m - y
  BY <1>2, <1>3 DEF R
<1>. QED
  BY <1>4

(* The elements of a picked sublist are elements of the list.              *)
LEMMA PickType ==
  ASSUME NEW T, NEW s \in Seq(T), NEW S
  PROVE  Pick(s, S) \in Seq(T)
<1>. DEFINE ss == [i \in 1 .. Len(s) |-> IF i \in S THEN <<s[i]>> ELSE <<>>]
<1>1. ss \in [1 .. Len(s) -> Seq(T)]
  OBVIOUS
<1>. HIDE DEF ss
<1>2. Concat(Len(s), ss) \in Seq(T)
  BY <1>1, ConcatType
<1>. QED
  BY <1>2 DEF Pick, ss

LEMMA PickMembers ==
  ASSUME NEW T, NEW s, Len(s) \in Nat, NEW S, \A i \in 1 .. Len(s) : i \in S => s[i] \in T
  PROVE  Pick(s, S) \in Seq(T)
<1>. DEFINE ss == [i \in 1 .. Len(s) |-> IF i \in S THEN <<s[i]>> ELSE <<>>]
<1>1. ss \in [1 .. Len(s) -> Seq(T)]
  OBVIOUS
<1>. HIDE DEF ss
<1>2. Concat(Len(s), ss) \in Seq(T)
  BY <1>1, ConcatType
<1>. QED
  BY <1>2 DEF Pick, ss

-----------------------------------------------------------------------------
(* The bytes of a list of ranges, counted with their repetitions.          *)

Amount(s) == TotalSize(s, 1 .. Len(s))

Sized(T) == \A x \in T : x.start \in Nat /\ x.end \in Nat /\ x.start < x.end

LEMMA SizedFn ==
  ASSUME NEW T, Sized(T)
  PROVE  SizeFn(T) \in [T -> Nat] /\ SizeFn(T) \in [T -> Int]
<1>1. \A x \in T : Size(x) \in Nat /\ Size(x) \in Int
  BY DEF Sized, Size
<1>. QED
  BY <1>1 DEF SizeFn

LEMMA AmountType ==
  ASSUME NEW T, Sized(T), NEW s \in Seq(T)
  PROVE  Amount(s) \in Nat /\ Amount(s) \in Int
<1>1. WeightOf(SizeFn(T), s) \in Nat
  BY SizedFn, WeightNat
<1>. QED
  BY <1>1, SizeIsWeight DEF Amount

LEMMA AmountNone == Amount(<<>>) = 0
<1>1. Len(<<>>) = 0
  OBVIOUS
<1>. QED
  BY <1>1, SumZero DEF Amount, TotalSize

LEMMA AmountOne ==
  ASSUME NEW T, Sized(T), NEW x \in T
  PROVE  Amount(<<x>>) = Size(x)
<1>1. WeightOf(SizeFn(T), <<x>>) = SizeFn(T)[x]
  BY SizedFn, WeightOne
<1>2. <<x>> \in Seq(T)
  OBVIOUS
<1>3. SizeFn(T)[x] = Size(x)
  BY DEF SizeFn
<1>4. Amount(<<x>>) = WeightOf(SizeFn(T), <<x>>)
  BY <1>2, SizeIsWeight DEF Amount
<1>. QED
  BY <1>1, <1>3, <1>4

LEMMA AmountJoin ==
  ASSUME NEW T, Sized(T), NEW s \in Seq(T), NEW t \in Seq(T)
  PROVE  Amount(s \o t) = Amount(s) + Amount(t)
<1>1. s \o t \in Seq(T)
  OBVIOUS
<1>2. WeightOf(SizeFn(T), s \o t) = WeightOf(SizeFn(T), s) + WeightOf(SizeFn(T), t)
  BY SizedFn, WeightJoin
<1>. QED
  BY <1>1, <1>2, SizeIsWeight DEF Amount

LEMMA AppendBytes ==
  ASSUME NEW T, Sized(T), NEW s \in Seq(T), NEW x \in T
  PROVE  /\ Amount(Append(s, x)) = Amount(s) + Size(x)
         /\ Covered(Append(s, x)) = Covered(s) \cup Span(x)
<1>1. PICK o : o = <<x>>
  OBVIOUS
<1>2. o \in Seq(T) /\ Append(s, x) = s \o o
  BY <1>1
<1>3. Amount(o) = Size(x) /\ Covered(o) = Span(x)
  BY <1>1, AmountOne, CoveredOne
<1>4. Amount(s \o o) = Amount(s) + Amount(o)
  BY <1>2, AmountJoin
<1>5. Covered(s \o o) = Covered(s) \cup Covered(o)
  BY <1>2, CoveredJoin
<1>. QED
  BY <1>2, <1>3, <1>4, <1>5

LEMMA AmountConcat ==
  ASSUME NEW T, Sized(T), NEW n \in Nat, NEW ss, \A i \in 1 .. n : ss[i] \in Seq(T),
         NEW ns, \A i \in 1 .. n : ns[i] = Amount(ss[i])
  PROVE  Amount(Concat(n, ss)) = SumOf(n, ns)
<1>. DEFINE w == SizeFn(T)
<1>1. w \in [T -> Int]
  BY SizedFn
<1>2. \A i \in 1 .. n : ns[i] = WeightOf(w, ss[i])
  BY SizeIsWeight DEF Amount
<1>3. Concat(n, ss) \in Seq(T)
  <2>1. PICK f : PartialJoins(T, n, ss, f) /\ Concat(n, ss) = f[n]
    BY ConcatExists
  <2>. QED
    BY <2>1 DEF PartialJoins
<1>4. Amount(Concat(n, ss)) = WeightOf(w, Concat(n, ss))
  BY <1>3, SizeIsWeight DEF Amount
<1>. HIDE DEF w
<1>. QED
  BY <1>1, <1>2, <1>4, WeightConcat

(* A list of ranges covers at most as many bytes as it counts.             *)
LEMMA SpanSize ==
  ASSUME NEW x, x.start \in Nat, x.end \in Nat, x.start <= x.end
  PROVE  IsFiniteSet(Span(x)) /\ Cardinality(Span(x)) = Size(x)
<1>1. /\ IsFiniteSet(x.start .. x.end - 1)
      /\ Cardinality(x.start .. x.end - 1) = IF x.start > x.end - 1 THEN 0 ELSE (x.end - 1) - x.start + 1
  <2>1. x.start \in Int /\ x.end - 1 \in Int
    OBVIOUS
  <2>. QED
    BY <2>1, FS_Interval
<1>. QED
  BY <1>1 DEF Span, Size

LEMMA CoveredAtMost ==
  ASSUME NEW T, Sized(T), NEW s \in Seq(T)
  PROVE  /\ IsFiniteSet(Covered(s)) /\ Cardinality(Covered(s)) \in Nat
         /\ Cardinality(Covered(s)) <= Amount(s)
<1>. DEFINE sizes == [i \in 1 .. Len(s) |-> IF i \in 1 .. Len(s) THEN Size(s[i]) ELSE 0]
            C(k) == UNION {Span(s[i]) : i \in 1 .. k}
            Few == {k \in Nat : k <= Len(s) => /\ IsFiniteSet(C(k))
                                               /\ Cardinality(C(k)) <= SumOf(k, sizes)}
<1>1. Len(s) \in Nat /\ \A i \in 1 .. Len(s) : s[i] \in T
  OBVIOUS
<1>2. ASSUME NEW i \in 1 .. Len(s)
      PROVE  sizes[i] = Size(s[i]) /\ sizes[i] \in Int /\ IsFiniteSet(Span(s[i])) /\ Cardinality(Span(s[i])) = Size(s[i])
  <2>1. s[i].start \in Nat /\ s[i].end \in Nat /\ s[i].start < s[i].end
    BY <1>1 DEF Sized
  <2>2. Size(s[i]) \in Int /\ s[i].start <= s[i].end
    BY <2>1 DEF Size
  <2>3. IsFiniteSet(Span(s[i])) /\ Cardinality(Span(s[i])) = Size(s[i])
    BY <2>1, <2>2, SpanSize
  <2>. QED
    BY <2>2, <2>3
<1>. HIDE DEF sizes
<1>3. 0 \in Few
  <2>1. C(0) = {}
    OBVIOUS
  <2>2. IsFiniteSet(C(0)) /\ Cardinality(C(0)) = 0
    BY <2>1, FS_EmptySet
  <2>. QED
    BY <2>2, SumZero
<1>4. ASSUME NEW k \in Nat, k \in Few
      PROVE  k + 1 \in Few
  <2>1. SUFFICES ASSUME k + 1 <= Len(s)
                 PROVE  IsFiniteSet(C(k + 1)) /\ Cardinality(C(k + 1)) <= SumOf(k + 1, sizes)
    OBVIOUS
  <2>2. k <= Len(s) /\ k + 1 \in 1 .. Len(s)
    BY <1>1, <2>1
  <2>3. IsFiniteSet(C(k)) /\ Cardinality(C(k)) <= SumOf(k, sizes)
    BY <1>4, <2>2
  <2>4. C(k + 1) = C(k) \cup Span(s[k + 1])
    <3>1. 1 .. k + 1 = (1 .. k) \cup {k + 1}
      OBVIOUS
    <3>. QED
      BY <3>1
  <2>5. SumOf(k + 1, sizes) = SumOf(k, sizes) + sizes[k + 1] /\ SumOf(k, sizes) \in Int
    <3>1. (\A i \in 1 .. k + 1 : sizes[i] \in Int) /\ (\A i \in 1 .. k : sizes[i] \in Int)
      BY <1>1, <1>2, <2>2
    <3>. QED
      BY <3>1, SumStep, SumType
  <2>. HIDE DEF C
  <2>6. /\ IsFiniteSet(C(k) \cup Span(s[k + 1]))
        /\ Cardinality(C(k) \cup Span(s[k + 1]))
             = Cardinality(C(k)) + Cardinality(Span(s[k + 1])) - Cardinality(C(k) \cap Span(s[k + 1]))
        /\ IsFiniteSet(C(k) \cap Span(s[k + 1]))
    BY <1>2, <2>2, <2>3, FS_Union, FS_Intersection
  <2>7. /\ Cardinality(C(k)) \in Nat /\ Cardinality(Span(s[k + 1])) \in Nat
        /\ Cardinality(C(k) \cap Span(s[k + 1])) \in Nat
    BY <1>2, <2>2, <2>3, <2>6, FS_CardinalityType
  <2>8. sizes[k + 1] = Cardinality(Span(s[k + 1]))
    BY <1>2, <2>2
  <2>9. Cardinality(C(k) \cup Span(s[k + 1])) \in Nat /\ sizes[k + 1] \in Int
    BY <1>2, <2>2, <2>6, FS_CardinalityType
  <2>10. Cardinality(C(k) \cup Span(s[k + 1])) <= SumOf(k, sizes) + sizes[k + 1]
    BY <2>3, <2>5, <2>6, <2>7, <2>8, <2>9
  <2>. QED
    BY <2>4, <2>5, <2>6, <2>10
<1>5. Len(s) \in Few
  <2>. HIDE DEF Few
  <2>. QED
    BY <1>1, <1>3, <1>4, SetInduction
<1>6. C(Len(s)) = Covered(s) /\ SumOf(Len(s), sizes) = Amount(s)
  BY DEF Covered, Amount, TotalSize, sizes
<1>. HIDE DEF C
<1>7. IsFiniteSet(Covered(s)) /\ Cardinality(Covered(s)) <= Amount(s)
  BY <1>1, <1>5, <1>6
<1>. QED
  BY <1>7, FS_CardinalityType

(* Replacing each element by pieces that it consists of.                   *)
LEMMA PiecesAmount ==
  ASSUME NEW T, Sized(T), NEW s \in Seq(T), NEW ps,
         \A i \in 1 .. Len(s) : ps[i] \in Seq(T) /\ Amount(ps[i]) = Size(s[i])
                                /\ Covered(ps[i]) = Span(s[i])
  PROVE  Amount(Concat(Len(s), ps)) = Amount(s) /\ Covered(Concat(Len(s), ps)) = Covered(s)
<1>1. Len(s) \in Nat
  OBVIOUS
<1>. DEFINE ns == [i \in 1 .. Len(s) |-> IF i \in 1 .. Len(s) THEN Size(s[i]) ELSE 0]
<1>2. \A i \in 1 .. Len(s) : ns[i] = Amount(ps[i])
  OBVIOUS
<1>5. Amount(s) = SumOf(Len(s), ns)
  BY DEF Amount, TotalSize
<1>. HIDE DEF ns
<1>3. Amount(Concat(Len(s), ps)) = SumOf(Len(s), ns)
  BY <1>1, <1>2, AmountConcat
<1>4. Covered(Concat(Len(s), ps)) = UNION {Covered(ps[i]) : i \in 1 .. Len(s)}
  BY <1>1, CoveredConcat
<1>6. Covered(s) = UNION {Span(s[i]) : i \in 1 .. Len(s)}
  BY DEF Covered
<1>7. {Covered(ps[i]) : i \in 1 .. Len(s)} = {Span(s[i]) : i \in 1 .. Len(s)}
  OBVIOUS
<1>. QED
  BY <1>3, <1>4, <1>5, <1>6, <1>7

(* Splitting each element into pieces that go to two lists.                *)
Splits(T, U, s, ps, qs) ==
  \A i \in 1 .. Len(s) : ps[i] \in Seq(T) /\ qs[i] \in Seq(U)
                         /\ Amount(ps[i]) + Amount(qs[i]) = Size(s[i])
                         /\ Covered(ps[i]) \cup Covered(qs[i]) = Span(s[i])

LEMMA SplitAmount ==
  ASSUME NEW T, Sized(T), NEW U, Sized(U), NEW s, Len(s) \in Nat, NEW ps, NEW qs,
         Splits(T, U, s, ps, qs)
  PROVE  /\ Amount(Concat(Len(s), ps)) + Amount(Concat(Len(s), qs)) = Amount(s)
         /\ Covered(Concat(Len(s), ps)) \cup Covered(Concat(Len(s), qs)) = Covered(s)
<1>. DEFINE us == [i \in 1 .. Len(s) |-> Amount(ps[i])]
            vs == [i \in 1 .. Len(s) |-> Amount(qs[i])]
            ws == [i \in 1 .. Len(s) |-> IF i \in 1 .. Len(s) THEN Size(s[i]) ELSE 0]
<1>1. Len(s) \in Nat
  OBVIOUS
<1>0. /\ \A i \in 1 .. Len(s) : ps[i] \in Seq(T)
      /\ \A i \in 1 .. Len(s) : qs[i] \in Seq(U)
      /\ \A i \in 1 .. Len(s) : Amount(ps[i]) + Amount(qs[i]) = Size(s[i])
      /\ \A i \in 1 .. Len(s) : Covered(ps[i]) \cup Covered(qs[i]) = Span(s[i])
  BY DEF Splits
<1>2. (\A i \in 1 .. Len(s) : us[i] = Amount(ps[i])) /\ (\A i \in 1 .. Len(s) : vs[i] = Amount(qs[i]))
  OBVIOUS
<1>3. \A i \in 1 .. Len(s) : us[i] \in Int /\ vs[i] \in Int /\ ws[i] = us[i] + vs[i]
  BY <1>0, AmountType
<1>4. Amount(s) = SumOf(Len(s), ws)
  BY DEF Amount, TotalSize
<1>. HIDE DEF us, vs, ws
<1>5. SumOf(Len(s), ws) = SumOf(Len(s), us) + SumOf(Len(s), vs)
  BY <1>1, <1>3, SumPlus
<1>8. Amount(Concat(Len(s), ps)) = SumOf(Len(s), us)
  BY <1>0, <1>1, <1>2, AmountConcat
<1>9. Amount(Concat(Len(s), qs)) = SumOf(Len(s), vs)
  BY <1>0, <1>1, <1>2, AmountConcat
<1>6. /\ Covered(Concat(Len(s), ps)) = UNION {Covered(ps[i]) : i \in 1 .. Len(s)}
      /\ Covered(Concat(Len(s), qs)) = UNION {Covered(qs[i]) : i \in 1 .. Len(s)}
  <2>1. Covered(Concat(Len(s), ps)) = UNION {Covered(ps[i]) : i \in 1 .. Len(s)}
    BY <1>0, <1>1, CoveredConcat, ZenonT(60)
  <2>2. Covered(Concat(Len(s), qs)) = UNION {Covered(qs[i]) : i \in 1 .. Len(s)}
    BY <1>0, <1>1, CoveredConcat, ZenonT(60)
  <2>. QED
    BY <2>1, <2>2
<1>7. Covered(Concat(Len(s), ps)) \cup Covered(Concat(Len(s), qs)) = Covered(s)
  <2>1. \A i \in 1 .. Len(s) : Covered(ps[i]) \cup Covered(qs[i]) = Span(s[i])
    BY <1>0
  <2>2. Covered(s) = UNION {Span(s[i]) : i \in 1 .. Len(s)}
    BY DEF Covered
  <2>3. ASSUME NEW b
        PROVE  (b \in Covered(Concat(Len(s), ps)) \cup Covered(Concat(Len(s), qs))) <=> b \in Covered(s)
    <3>1. b \in Covered(Concat(Len(s), ps)) <=> \E i \in 1 .. Len(s) : b \in Covered(ps[i])
      BY <1>6
    <3>2. b \in Covered(Concat(Len(s), qs)) <=> \E i \in 1 .. Len(s) : b \in Covered(qs[i])
      BY <1>6
    <3>3. b \in Covered(s) <=> \E i \in 1 .. Len(s) : b \in Span(s[i])
      BY <2>2
    <3>4. \A i \in 1 .. Len(s) : b \in Span(s[i]) <=> b \in Covered(ps[i]) \/ b \in Covered(qs[i])
      BY <2>1
    <3>. QED
      BY <3>1, <3>2, <3>3, <3>4
  <2>. QED
    BY <2>3
<1>. QED
  BY <1>4, <1>5, <1>7, <1>8, <1>9

(* Amount and coverage depend on the bounds of the elements only.          *)
LEMMA SameBytes ==
  ASSUME NEW s, NEW t, Len(s) \in Nat, Len(t) = Len(s),
         \A i \in 1 .. Len(s) : t[i].start = s[i].start /\ t[i].end = s[i].end
  PROVE  Amount(t) = Amount(s) /\ Covered(t) = Covered(s)
<1>1. \A i \in 1 .. Len(s) : Size(t[i]) = Size(s[i]) /\ Span(t[i]) = Span(s[i])
  BY DEF Size, Span
<1>2. [i \in 1 .. Len(t) |-> IF i \in 1 .. Len(t) THEN Size(t[i]) ELSE 0]
        = [i \in 1 .. Len(s) |-> IF i \in 1 .. Len(s) THEN Size(s[i]) ELSE 0]
  BY <1>1
<1>3. Amount(t) = Amount(s)
  BY <1>2 DEF Amount, TotalSize
<1>4. Covered(t) = Covered(s)
  BY <1>1 DEF Covered
<1>. QED
  BY <1>3, <1>4

(* TotalSize is the amount of the picked elements.                         *)
LEMMA PickAmount ==
  ASSUME NEW T, Sized(T), NEW s \in Seq(T), NEW S
  PROVE  Amount(Pick(s, S)) = TotalSize(s, S)
<1>. DEFINE ps == [i \in 1 .. Len(s) |-> IF i \in S THEN <<s[i]>> ELSE <<>>]
<1>1. Len(s) \in Nat
  OBVIOUS
<1>2. \A i \in 1 .. Len(s) : ps[i] \in Seq(T) /\ Amount(ps[i]) = IF i \in S THEN Size(s[i]) ELSE 0
  BY AmountOne, AmountNone
<1>. DEFINE ns == [i \in 1 .. Len(s) |-> IF i \in S THEN Size(s[i]) ELSE 0]
<1>3. \A i \in 1 .. Len(s) : ns[i] = Amount(ps[i])
  BY <1>2
<1>. HIDE DEF ps, ns
<1>4. Amount(Concat(Len(s), ps)) = SumOf(Len(s), ns)
  BY <1>1, <1>2, <1>3, AmountConcat
<1>. QED
  BY <1>4 DEF Pick, TotalSize, ps, ns

-----------------------------------------------------------------------------
(* Finite sets.                                                            *)

AtMost(S, n) == n \in Nat /\ IsFiniteSet(S) /\ Cardinality(S) \in Nat /\ Cardinality(S) <= n

LEMMA UnionAtMost ==
  ASSUME NEW S, NEW T, NEW m, NEW n, AtMost(S, m), AtMost(T, n)
  PROVE  AtMost(S \cup T, m + n)
<1>1. /\ IsFiniteSet(S) /\ IsFiniteSet(T) /\ Cardinality(S) \in Nat /\ Cardinality(T) \in Nat
      /\ m \in Nat /\ n \in Nat /\ Cardinality(S) <= m /\ Cardinality(T) <= n
  BY DEF AtMost
<1>2. /\ IsFiniteSet(S \cup T)
      /\ Cardinality(S \cup T) = Cardinality(S) + Cardinality(T) - Cardinality(S \cap T)
  BY <1>1, FS_Union
<1>3. Cardinality(S \cup T) \in Nat
  BY <1>2, FS_CardinalityType
<1>4. Cardinality(S \cap T) \in Nat
  <2>1. IsFiniteSet(S \cap T)
    BY <1>1, FS_Intersection
  <2>. QED
    BY <2>1, FS_CardinalityType
<1>5. m + n \in Nat /\ Cardinality(S \cup T) <= m + n
  BY <1>1, <1>2, <1>3, <1>4
<1>. QED
  BY <1>2, <1>3, <1>5 DEF AtMost

-----------------------------------------------------------------------------
(* The parts of a range before, inside and behind another range.           *)

IsRange(x) ==
  /\ x.start \in Nat /\ x.end \in Nat /\ x.start < x.end
  /\ "start" \in DOMAIN x /\ "end" \in DOMAIN x

LEMMA OneRange ==
  ASSUME NEW x, x.start \in Nat, x.end \in Nat, x.start < x.end
  PROVE  Amount(<<x>>) = Size(x) /\ Covered(<<x>>) = Span(x)
<1>1. Sized({x}) /\ x \in {x}
  BY DEF Sized
<1>. QED
  BY <1>1, AmountOne, CoveredOne

LEMMA BeforeBytes ==
  ASSUME NEW x, IsRange(x), NEW r, r.start \in Nat, r.end \in Nat
  PROVE  /\ Covered(Before(x, r)) = x.start .. Lower(x.end, r.start) - 1
         /\ Amount(Before(x, r)) = IF x.start < r.start THEN Lower(x.end, r.start) - x.start ELSE 0
<1>. DEFINE y == [x EXCEPT !.end = Lower(@, r.start)]
<1>0. x.start \in Nat /\ x.end \in Nat /\ x.start < x.end
  BY DEF IsRange
<1>1. y.start = x.start /\ y.end = Lower(x.end, r.start)
  BY DEF IsRange
<1>2. CASE x.start < r.start
  <2>1. Before(x, r) = <<y>>
    BY <1>2 DEF Before
  <2>. HIDE DEF y
  <2>2. y.start \in Nat /\ y.end \in Nat /\ y.start < y.end
    BY <1>0, <1>1, <1>2 DEF Lower
  <2>3. Amount(<<y>>) = Size(y) /\ Covered(<<y>>) = Span(y)
    BY <2>2, OneRange
  <2>. QED
    BY <1>1, <1>2, <2>1, <2>3 DEF Size, Span
<1>3. CASE ~ (x.start < r.start)
  <2>1. Before(x, r) = <<>>
    BY <1>3 DEF Before
  <2>2. x.start .. Lower(x.end, r.start) - 1 = {}
    BY <1>0, <1>3 DEF Lower
  <2>. QED
    BY <1>3, <2>1, <2>2, AmountNone, CoveredNone
<1>. QED
  BY <1>2, <1>3

LEMMA InsideBytes ==
  ASSUME NEW x, IsRange(x), NEW r, r.start \in Nat, r.end \in Nat, r.start < r.end
  PROVE  /\ Covered(Inside(x, r)) = Higher(x.start, r.start) .. Lower(x.end, r.end) - 1
         /\ Amount(Inside(x, r)) = IF Overlap(x, r) THEN Lower(x.end, r.end) - Higher(x.start, r.start) ELSE 0
<1>. DEFINE y == [x EXCEPT !.start = Higher(@, r.start), !.end = Lower(@, r.end)]
<1>0. x.start \in Nat /\ x.end \in Nat /\ x.start < x.end
  BY DEF IsRange
<1>1. y.start = Higher(x.start, r.start) /\ y.end = Lower(x.end, r.end)
  BY DEF IsRange
<1>2. CASE Overlap(x, r)
  <2>1. Inside(x, r) = <<y>>
    BY <1>2 DEF Inside
  <2>. HIDE DEF y
  <2>2. y.start \in Nat /\ y.end \in Nat /\ y.start < y.end
    BY <1>0, <1>1, <1>2 DEF Lower, Higher, Overlap
  <2>3. Amount(<<y>>) = Size(y) /\ Covered(<<y>>) = Span(y)
    BY <2>2, OneRange
  <2>. QED
    BY <1>1, <1>2, <2>1, <2>3 DEF Size, Span
<1>3. CASE ~ Overlap(x, r)
  <2>1. Inside(x, r) = <<>>
    BY <1>3 DEF Inside
  <2>2. Higher(x.start, r.start) .. Lower(x.end, r.end) - 1 = {}
    BY <1>0, <1>3 DEF Lower, Higher, Overlap
  <2>. QED
    BY <1>3, <2>1, <2>2, AmountNone, CoveredNone
<1>. QED
  BY <1>2, <1>3

LEMMA AfterBytes ==
  ASSUME NEW x, IsRange(x), NEW r, r.start \in Nat, r.end \in Nat
  PROVE  /\ Covered(After(x, r)) = Higher(x.start, r.end) .. x.end - 1
         /\ Amount(After(x, r)) = IF x.end > r.end THEN x.end - Higher(x.start, r.end) ELSE 0
<1>. DEFINE y == [x EXCEPT !.start = Higher(@, r.end)]
<1>0. x.start \in Nat /\ x.end \in Nat /\ x.start < x.end
  BY DEF IsRange
<1>1. y.start = Higher(x.start, r.end) /\ y.end = x.end
  BY DEF IsRange
<1>2. CASE x.end > r.end
  <2>1. After(x, r) = <<y>>
    BY <1>2 DEF After
  <2>. HIDE DEF y
  <2>2. y.start \in Nat /\ y.end \in Nat /\ y.start < y.end
    BY <1>0, <1>1, <1>2 DEF Higher
  <2>3. Amount(<<y>>) = Size(y) /\ Covered(<<y>>) = Span(y)
    BY <2>2, OneRange
  <2>. QED
    BY <1>1, <1>2, <2>1, <2>3 DEF Size, Span
<1>3. CASE ~ (x.end > r.end)
  <2>1. After(x, r) = <<>>
    BY <1>3 DEF After
  <2>2. Higher(x.start, r.end) .. x.end - 1 = {}
    BY <1>0, <1>3 DEF Higher
  <2>. QED
    BY <1>3, <2>1, <2>2, AmountNone, CoveredNone
<1>. QED
  BY <1>2, <1>3

(* The three parts are the range.                                          *)
LEMMA PartsBytes ==
  ASSUME NEW x, IsRange(x), NEW r, r.start \in Nat, r.end \in Nat, r.start < r.end
  PROVE  /\ Covered(Before(x, r)) \cup Covered(Inside(x, r)) \cup Covered(After(x, r)) = Span(x)
         /\ Amount(Before(x, r)) + Amount(Inside(x, r)) + Amount(After(x, r)) = Size(x)
<1>1. x.start \in Nat /\ x.end \in Nat /\ x.start < x.end
  BY DEF IsRange
<1>2. /\ Covered(Before(x, r)) = x.start .. Lower(x.end, r.start) - 1
      /\ Amount(Before(x, r)) = IF x.start < r.start THEN Lower(x.end, r.start) - x.start ELSE 0
  BY BeforeBytes
<1>3. /\ Covered(Inside(x, r)) = Higher(x.start, r.start) .. Lower(x.end, r.end) - 1
      /\ Amount(Inside(x, r)) = IF Overlap(x, r) THEN Lower(x.end, r.end) - Higher(x.start, r.start) ELSE 0
  BY InsideBytes
<1>4. /\ Covered(After(x, r)) = Higher(x.start, r.end) .. x.end - 1
      /\ Amount(After(x, r)) = IF x.end > r.end THEN x.end - Higher(x.start, r.end) ELSE 0
  BY AfterBytes
<1>5. /\ (x.start .. Lower(x.end, r.start) - 1) \cup (Higher(x.start, r.start) .. Lower(x.end, r.end) - 1)
           \cup (Higher(x.start, r.end) .. x.end - 1) = x.start .. x.end - 1
  BY <1>1 DEF Lower, Higher
<1>6. (IF x.start < r.start THEN Lower(x.end, r.start) - x.start ELSE 0)
        + (IF Overlap(x, r) THEN Lower(x.end, r.end) - Higher(x.start, r.start) ELSE 0)
        + (IF x.end > r.end THEN x.end - Higher(x.start, r.end) ELSE 0) = x.end - x.start
  BY <1>1 DEF Lower, Higher, Overlap
<1>. QED
  BY <1>2, <1>3, <1>4, <1>5, <1>6 DEF Span, Size

-----------------------------------------------------------------------------
(* Lists cut in two, and chains of ranges.                                 *)

LEMMA CutInTwo ==
  ASSUME NEW T, Sized(T), NEW s \in Seq(T), NEW k \in 0 .. Len(s)
  PROVE  /\ SubSeq(s, 1, k) \in Seq(T) /\ SubSeq(s, k + 1, Len(s)) \in Seq(T)
         /\ Amount(SubSeq(s, 1, k)) + Amount(SubSeq(s, k + 1, Len(s))) = Amount(s)
         /\ Covered(SubSeq(s, 1, k)) \cup Covered(SubSeq(s, k + 1, Len(s))) = Covered(s)
<1>1. Len(s) \in Nat /\ k \in Nat /\ \A j \in 1 .. Len(s) : s[j] \in T
  OBVIOUS
<1>2. PICK a : a = SubSeq(s, 1, k)
  OBVIOUS
<1>3. PICK b : b = SubSeq(s, k + 1, Len(s))
  OBVIOUS
<1>4. a \in Seq(T)
  <2>1. 1 \in Int /\ k \in Int /\ \A j \in 1 .. k : s[j] \in T
    BY <1>1
  <2>. QED
    BY <1>2, <2>1, SubSeqProperties
<1>5. b \in Seq(T)
  <2>1. k + 1 \in Int /\ Len(s) \in Int /\ \A j \in k + 1 .. Len(s) : s[j] \in T
    BY <1>1
  <2>. QED
    BY <1>3, <2>1, SubSeqProperties
<1>6. a \o b = s
  <2>1. 1 \in 1 .. Len(s) + 1 /\ k \in 1 - 1 .. Len(s) /\ Len(s) \in k .. Len(s)
    BY <1>1
  <2>2. a \o b = SubSeq(s, 1, Len(s))
    BY <1>2, <1>3, <2>1, ConcatAdjacentSubSeq
  <2>. QED
    BY <2>2, SubSeqFull
<1>7. Amount(a \o b) = Amount(a) + Amount(b)
  BY <1>4, <1>5, AmountJoin
<1>8. Covered(a \o b) = Covered(a) \cup Covered(b)
  BY <1>4, <1>5, CoveredJoin
<1>. QED
  BY <1>2, <1>3, <1>4, <1>5, <1>6, <1>7, <1>8

(* The bytes of a chain of ranges from first to last.                      *)
IsChain(s, first, last) ==
  /\ Len(s) \in Nat \ {0}
  /\ \A i \in 1 .. Len(s) : s[i].start \in Nat /\ s[i].end \in Nat /\ s[i].start < s[i].end
  /\ \A i \in 1 .. Len(s) : i > 1 => s[i].start = s[i - 1].end
  /\ s[1].start = first /\ s[Len(s)].end = last

LEMMA ChainBytes ==
  ASSUME NEW s, NEW first, NEW last, IsChain(s, first, last)
  PROVE  /\ first \in Nat /\ last \in Nat /\ first < last
         /\ Amount(s) = last - first /\ Covered(s) = first .. last - 1
<1>. DEFINE sizes == [i \in 1 .. Len(s) |-> IF i \in 1 .. Len(s) THEN Size(s[i]) ELSE 0]
            g == [k \in 0 .. Len(s) |-> IF k = 0 THEN 0 ELSE s[k].end - s[1].start]
            Upto(k) == UNION {Span(s[i]) : i \in 1 .. k}
            Agree == {k \in Nat : k + 1 <= Len(s) =>
                        s[1].start < s[k + 1].end /\ Upto(k + 1) = s[1].start .. s[k + 1].end - 1}
<1>1. /\ Len(s) \in Nat /\ Len(s) > 0 /\ 1 \in 1 .. Len(s) /\ Len(s) \in 1 .. Len(s)
      /\ \A i \in 1 .. Len(s) : s[i].start \in Nat /\ s[i].end \in Nat /\ s[i].start < s[i].end
      /\ \A i \in 1 .. Len(s) : i > 1 => s[i].start = s[i - 1].end
      /\ s[1].start = first /\ s[Len(s)].end = last
  BY DEF IsChain
<1>2. first \in Nat /\ last \in Nat
  BY <1>1
<1>3. Amount(s) = last - first
  <2>1. g \in [0 .. Len(s) -> Int] /\ g[0] = 0
    <3>1. \A k \in 0 .. Len(s) : k # 0 => k \in 1 .. Len(s)
      BY <1>1
    <3>. QED
      BY <1>1, <3>1
  <2>2. ASSUME NEW i \in 1 .. Len(s)
        PROVE  g[i] = g[i - 1] + sizes[i]
    <3>1. i \in 0 .. Len(s) /\ i - 1 \in 0 .. Len(s) /\ i # 0 /\ i \in Nat
      BY <1>1
    <3>2. g[i] = s[i].end - s[1].start /\ g[i - 1] = IF i - 1 = 0 THEN 0 ELSE s[i - 1].end - s[1].start
      BY <3>1
    <3>3. sizes[i] = s[i].end - s[i].start
      BY DEF Size
    <3>. HIDE DEF g, sizes
    <3>4. CASE i = 1
      BY <1>1, <3>2, <3>3, <3>4
    <3>5. CASE i # 1
      <4>1. i > 1 /\ i - 1 # 0 /\ i - 1 \in 1 .. Len(s)
        BY <1>1, <3>1, <3>5
      <4>2. s[i].start = s[i - 1].end
        BY <1>1, <4>1
      <4>3. s[i].end \in Nat /\ s[i - 1].end \in Nat /\ s[1].start \in Nat
        BY <1>1, <4>1
      <4>. QED
        BY <3>2, <3>3, <4>1, <4>2, <4>3
    <3>. QED
      BY <3>4, <3>5
  <2>3. g[Len(s)] = last - first
    BY <1>1
  <2>. HIDE DEF g, sizes
  <2>4. PartialSums(Len(s), sizes, g)
    BY <2>1, <2>2 DEF PartialSums
  <2>5. SumOf(Len(s), sizes) = g[Len(s)]
    BY <1>1, <2>4, SumIs
  <2>6. Amount(s) = SumOf(Len(s), sizes)
    BY DEF Amount, TotalSize, sizes
  <2>. QED
    BY <2>3, <2>5, <2>6
<1>4. first < last /\ Covered(s) = first .. last - 1
  <2>1. 0 \in Agree
    <3>1. 1 .. 0 + 1 = {1}
      OBVIOUS
    <3>. QED
      BY <1>1, <3>1 DEF Span
  <2>2. ASSUME NEW k \in Nat, k \in Agree
        PROVE  k + 1 \in Agree
    <3>. SUFFICES ASSUME (k + 1) + 1 <= Len(s)
                  PROVE  /\ s[1].start < s[(k + 1) + 1].end
                         /\ Upto((k + 1) + 1) = s[1].start .. s[(k + 1) + 1].end - 1
      OBVIOUS
    <3>1. PICK i \in Nat : i = k + 1
      OBVIOUS
    <3>2. i \in 1 .. Len(s) /\ i + 1 \in 1 .. Len(s) /\ (i + 1) - 1 = i /\ i + 1 > 1 /\ i <= Len(s)
      BY <1>1, <3>1
    <3>3. s[1].start < s[i].end /\ Upto(i) = s[1].start .. s[i].end - 1
      BY <2>2, <3>1, <3>2
    <3>4. s[i + 1].start = s[i].end /\ s[i].end < s[i + 1].end
          /\ s[1].start \in Nat /\ s[i].end \in Nat /\ s[i + 1].end \in Nat
      BY <1>1, <3>2
    <3>5. Upto(i + 1) = Upto(i) \cup Span(s[i + 1])
      <4>1. 1 .. i + 1 = (1 .. i) \cup {i + 1}
        BY <3>1
      <4>. QED
        BY <4>1
    <3>. HIDE DEF Upto
    <3>6. Upto(i + 1) = (s[1].start .. s[i].end - 1) \cup (s[i].end .. s[i + 1].end - 1)
      BY <3>3, <3>4, <3>5 DEF Span
    <3>7. (s[1].start .. s[i].end - 1) \cup (s[i].end .. s[i + 1].end - 1) = s[1].start .. s[i + 1].end - 1
      BY <3>3, <3>4, SMTT(60)
    <3>8. s[1].start < s[i + 1].end
      BY <3>3, <3>4
    <3>. QED
      BY <3>1, <3>6, <3>7, <3>8
  <2>. HIDE DEF Agree
  <2>3. Nat \subseteq Agree
    BY <2>1, <2>2, SetInduction
  <2>4. Len(s) - 1 \in Agree /\ (Len(s) - 1) + 1 = Len(s)
    BY <1>1, <2>3
  <2>5. s[1].start < s[Len(s)].end /\ Upto(Len(s)) = s[1].start .. s[Len(s)].end - 1
    <3>. HIDE DEF Upto
    <3>1. \A k \in Agree : k + 1 <= Len(s) =>
            s[1].start < s[k + 1].end /\ Upto(k + 1) = s[1].start .. s[k + 1].end - 1
      BY DEF Agree
    <3>. QED
      BY <1>1, <2>4, <3>1
  <2>. QED
    BY <1>1, <2>5 DEF Covered
<1>. QED
  BY <1>2, <1>3, <1>4

(* The k-th of the pieces of length m that cover d bytes starts below d.   *)
LEMMA PieceStarts ==
  ASSUME NEW d \in Nat, NEW m \in Nat \ {0}, NEW k \in 1 .. (d + m - 1) \div m
  PROVE  (k - 1) * m \in Nat /\ (k - 1) * m < d /\ k * m \in Nat /\ k * m = (k - 1) * m + m
<1>. DEFINE q == (d + m - 1) \div m
            r == (d + m - 1) % m
<1>1. d + m - 1 \in Nat /\ m \in Nat /\ m > 0
  OBVIOUS
<1>2. q \in Nat /\ r \in 0 .. m - 1 /\ d + m - 1 = q * m + r
  BY <1>1
<1>3. k \in Nat /\ k - 1 \in Nat /\ k - 1 < q
  BY <1>2
<1>. HIDE DEF q, r
<1>4. (k - 1) * m \in Nat /\ k * m \in Nat /\ k * m = (k - 1) * m + m /\ q * m \in Nat
  BY <1>1, <1>2, <1>3
<1>5. k * m <= q * m
  BY <1>1, <1>2, <1>3
<1>. QED
  BY <1>1, <1>2, <1>4, <1>5

(* There is a number of pieces, and they reach the end.                    *)
LEMMA PieceCount ==
  ASSUME NEW s \in Nat, NEW e \in Nat, s <= e, NEW m \in Nat, m > 0
  PROVE  /\ (e - s + m - 1) \div m \in Nat
         /\ ((e - s + m - 1) \div m) * m >= e - s
         /\ (e - s + m - 1) \div m = 0 <=> s = e
<1>1. PICK d \in Nat : d = e - s
  OBVIOUS
<1>2. PICK q, r : q = (d + m - 1) \div m /\ r = (d + m - 1) % m
  OBVIOUS
<1>3. d + m - 1 \in Nat
  OBVIOUS
<1>4. q \in Nat /\ r \in 0 .. m - 1 /\ d + m - 1 = q * m + r
  BY <1>2, <1>3
<1>5. q * m \in Nat /\ q * m >= d
  BY <1>4
<1>6. d # 0 => q # 0
  BY <1>4, <1>5
<1>7. q # 0 => d # 0
  <2>. SUFFICES ASSUME q # 0, d = 0 PROVE FALSE
    OBVIOUS
  <2>1. PICK p \in Nat : q = p + 1
    BY <1>4
  <2>2. q * m = p * m + m /\ p * m \in Nat
    BY <2>1
  <2>. QED
    BY <1>4, <2>2
<1>. QED
  BY <1>1, <1>2, <1>4, <1>5, <1>6, <1>7

(* The bytes from s to e in pieces of m bytes, the last one shorter.       *)
IsCut(t, s, e, m) ==
  /\ Len(t) = (e - s + m - 1) \div m
  /\ \A i \in 1 .. Len(t) : t[i].start = s + (i - 1) * m /\ t[i].end = Lower(s + i * m, e)

LEMMA CutChain ==
  ASSUME NEW s \in Nat, NEW e \in Nat, s < e, NEW m \in Nat, m > 0, NEW t, IsCut(t, s, e, m)
  PROVE  IsChain(t, s, e) /\ \A i \in 1 .. Len(t) : Size(t[i]) <= m
<1>1. PICK d \in Nat : d = e - s /\ d > 0
  OBVIOUS
<1>2. PICK c : c = Len(t)
  OBVIOUS
<1>3. c = (d + m - 1) \div m
  BY <1>1, <1>2 DEF IsCut
<1>4. c \in Nat \ {0} /\ c * m >= d
  <2>1. c = (e - s + m - 1) \div m
    BY <1>1, <1>3
  <2>2. c \in Nat /\ c * m >= e - s /\ (c = 0 <=> s = e)
    BY <2>1, PieceCount
  <2>. QED
    BY <1>1, <2>2
<1>5. ASSUME NEW i \in 1 .. c
      PROVE  (i - 1) * m \in Nat /\ (i - 1) * m < d /\ i * m \in Nat /\ i * m = (i - 1) * m + m
  BY <1>1, <1>3, PieceStarts
<1>6. ASSUME NEW i \in 1 .. c
      PROVE  /\ t[i].start = s + (i - 1) * m /\ t[i].end = Lower(s + i * m, e)
             /\ t[i].start \in Nat /\ t[i].end \in Nat /\ t[i].start < t[i].end /\ Size(t[i]) <= m
  <2>1. t[i].start = s + (i - 1) * m /\ t[i].end = Lower(s + i * m, e)
    BY <1>2 DEF IsCut
  <2>2. PICK a \in Nat, b \in Nat : a = (i - 1) * m /\ b = i * m /\ a < d /\ b = a + m
    BY <1>5
  <2>3. /\ s + a \in Nat /\ Lower(s + b, e) \in Nat /\ s + a < Lower(s + b, e)
        /\ Lower(s + b, e) - (s + a) <= m
    BY <1>1, <2>2 DEF Lower
  <2>. QED
    BY <2>1, <2>2, <2>3 DEF Size
<1>7. ASSUME NEW i \in 1 .. c, i > 1
      PROVE  t[i].start = t[i - 1].end
  <2>1. i - 1 \in 1 .. c
    BY <1>4, <1>7
  <2>2. PICK a \in Nat : a = (i - 1) * m /\ a < d
    BY <1>5
  <2>3. t[i - 1].end = Lower(s + a, e)
    BY <1>6, <2>1, <2>2
  <2>4. t[i].start = s + a
    BY <1>6, <2>2
  <2>5. Lower(s + a, e) = s + a
    BY <1>1, <2>2 DEF Lower
  <2>. QED
    BY <2>3, <2>4, <2>5
<1>8. t[1].start = s
  <2>1. 1 \in 1 .. c /\ (1 - 1) * m = 0
    BY <1>4
  <2>. QED
    BY <1>6, <2>1
<1>9. t[c].end = e
  <2>1. c \in 1 .. c
    BY <1>4
  <2>2. PICK b \in Nat : b = c * m /\ b >= d
    BY <1>4, <1>5, <2>1
  <2>3. Lower(s + b, e) = e
    BY <1>1, <2>2 DEF Lower
  <2>. QED
    BY <1>6, <2>1, <2>2, <2>3
<1>10. IsChain(t, s, e)
  BY <1>2, <1>4, <1>6, <1>7, <1>8, <1>9 DEF IsChain
<1>. QED
  BY <1>2, <1>6, <1>10

(* A list is a list over any set its elements are in.                      *)
LEMMA SeqOfMembers ==
  ASSUME NEW T, NEW S, NEW s \in Seq(T), \A i \in 1 .. Len(s) : s[i] \in S
  PROVE  s \in Seq(S)
<1>1. Len(s) \in Nat /\ s = [i \in 1 .. Len(s) |-> s[i]]
  OBVIOUS
<1>2. [i \in 1 .. Len(s) |-> s[i]] \in Seq(S)
  BY <1>1
<1>. QED
  BY <1>1, <1>2

LEMMA SeqMore == ASSUME NEW T, NEW S, T \subseteq S PROVE Seq(T) \subseteq Seq(S)
  OBVIOUS

-----------------------------------------------------------------------------
(* Sorted lists below a bound, and lists cut in place.                     *)

SortedBelow(T, n) == {t \in Seq(T) : Sorted(t) /\ \A i \in 1 .. Len(t) : t[i].end <= n}

LEMMA SortedJoin ==
  ASSUME NEW T, Sized(T), NEW m \in Nat, NEW n \in Nat, m <= n,
         NEW a \in SortedBelow(T, m), NEW b \in SortedBelow(T, n),
         \A i \in 1 .. Len(b) : m <= b[i].start
  PROVE  a \o b \in SortedBelow(T, n)
<1>1. /\ a \in Seq(T) /\ Sorted(a) /\ \A i \in 1 .. Len(a) : a[i].end <= m
      /\ b \in Seq(T) /\ Sorted(b) /\ \A i \in 1 .. Len(b) : b[i].end <= n
  BY DEF SortedBelow
<1>2. /\ \A i \in 1 .. Len(a) : a[i].start \in Nat /\ a[i].end \in Nat
      /\ \A i \in 1 .. Len(b) : b[i].start \in Nat /\ b[i].end \in Nat
  <2>1. (\A i \in 1 .. Len(a) : a[i] \in T) /\ (\A i \in 1 .. Len(b) : b[i] \in T)
    BY <1>1
  <2>. QED
    BY <2>1 DEF Sized
<1>3. /\ a \o b \in Seq(T) /\ Len(a \o b) = Len(a) + Len(b) /\ Len(a) \in Nat /\ Len(b) \in Nat
      /\ \A i \in 1 .. Len(a) : (a \o b)[i] = a[i]
      /\ \A i \in 1 .. Len(a) + Len(b) : i > Len(a) => (a \o b)[i] = b[i - Len(a)]
  BY <1>1
<1>4. PICK c : c = a \o b
  OBVIOUS
<1>5. ASSUME NEW i \in 1 .. Len(c) - 1
      PROVE  c[i].end <= c[i + 1].start
  <2>1. CASE i + 1 <= Len(a)
    <3>1. i \in 1 .. Len(a) - 1 /\ i \in 1 .. Len(a) /\ i + 1 \in 1 .. Len(a)
      BY <1>3, <2>1
    <3>. QED
      BY <1>1, <1>3, <1>4, <3>1 DEF Sorted
  <2>2. CASE i = Len(a)
    <3>1. i \in 1 .. Len(a) /\ i + 1 \in 1 .. Len(a) + Len(b) /\ i + 1 > Len(a) /\ (i + 1) - Len(a) = 1
          /\ 1 \in 1 .. Len(b)
      BY <1>3, <1>4, <2>2
    <3>2. c[i] = a[i] /\ c[i + 1] = b[1]
      BY <1>3, <1>4, <3>1
    <3>3. a[i].end <= m /\ m <= b[1].start /\ a[i].end \in Nat /\ b[1].start \in Nat
      BY <1>1, <1>2, <3>1
    <3>. QED
      BY <3>2, <3>3
  <2>3. CASE i > Len(a)
    <3>. DEFINE j == i - Len(a)
    <3>1. j \in 1 .. Len(b) - 1 /\ j + 1 = (i + 1) - Len(a)
          /\ i \in 1 .. Len(a) + Len(b) /\ i + 1 \in 1 .. Len(a) + Len(b) /\ i + 1 > Len(a)
      BY <1>3, <1>4, <2>3
    <3>2. c[i] = b[j] /\ c[i + 1] = b[j + 1]
      BY <1>3, <1>4, <2>3, <3>1
    <3>. HIDE DEF j
    <3>. QED
      BY <1>1, <3>1, <3>2 DEF Sorted
  <2>. QED
    BY <1>3, <1>4, <2>1, <2>2, <2>3
<1>6. ASSUME NEW i \in 1 .. Len(c)
      PROVE  c[i].end <= n
  <2>1. CASE i <= Len(a)
    <3>1. i \in 1 .. Len(a)
      BY <2>1
    <3>2. c[i] = a[i] /\ a[i].end \in Nat /\ a[i].end <= m
      BY <1>1, <1>2, <1>3, <1>4, <3>1
    <3>. QED
      BY <3>2
  <2>2. CASE i > Len(a)
    <3>1. i - Len(a) \in 1 .. Len(b) /\ i \in 1 .. Len(a) + Len(b)
      BY <1>3, <1>4, <2>2
    <3>2. c[i] = b[i - Len(a)]
      BY <1>3, <1>4, <2>2, <3>1
    <3>. QED
      BY <1>1, <3>1, <3>2
  <2>. QED
    BY <1>3, <1>4, <2>1, <2>2
<1>. QED
  BY <1>3, <1>4, <1>5, <1>6 DEF SortedBelow, Sorted

(* p is a sorted list of parts of x.                                       *)
PartsOf(T, p, x) ==
  p \in Seq(T) /\ Sorted(p) /\ \A j \in 1 .. Len(p) : x.start <= p[j].start /\ p[j].end <= x.end

(* Cutting each element of a sorted list in place leaves it sorted.        *)
LEMMA PartsSorted ==
  ASSUME NEW T, Sized(T), NEW n \in Nat, NEW s \in SortedBelow(T, n), NEW ps,
         \A i \in 1 .. Len(s) : PartsOf(T, ps[i], s[i])
  PROVE  Concat(Len(s), ps) \in SortedBelow(T, n)
<1>1. s \in Seq(T) /\ Sorted(s) /\ Len(s) \in Nat /\ \A i \in 1 .. Len(s) : s[i].end <= n
  BY DEF SortedBelow
<1>2. \A i \in 1 .. Len(s) : s[i].start \in Nat /\ s[i].end \in Nat /\ s[i].start < s[i].end
  <2>1. \A i \in 1 .. Len(s) : s[i] \in T
    BY <1>1
  <2>. QED
    BY <2>1 DEF Sized
<1>3. \A i \in 1 .. Len(s) : ps[i] \in Seq(T)
  BY DEF PartsOf
<1>4. PICK f : PartialJoins(T, Len(s), ps, f) /\ Concat(Len(s), ps) = f[Len(s)]
  BY <1>1, <1>3, ConcatExists
<1>. DEFINE Upto(k) == IF k = 0 THEN 0 ELSE s[k].end
            Good == {k \in Nat : k <= Len(s) => f[k] \in SortedBelow(T, Upto(k))}
<1>5. 0 \in Good
  <2>1. f[0] = <<>> /\ <<>> \in Seq(T)
    BY <1>4 DEF PartialJoins
  <2>2. \A t : t = <<>> => Len(t) = 0 /\ 1 .. Len(t) = {} /\ 1 .. Len(t) - 1 = {}
    OBVIOUS
  <2>. QED
    BY <2>1, <2>2 DEF SortedBelow, Sorted
<1>6. ASSUME NEW k \in Nat, k \in Good
      PROVE  k + 1 \in Good
  <2>1. SUFFICES ASSUME k + 1 <= Len(s) PROVE f[k + 1] \in SortedBelow(T, Upto(k + 1))
    OBVIOUS
  <2>2. k + 1 \in 1 .. Len(s) /\ (k + 1) - 1 = k /\ k + 1 # 0 /\ (k # 0 => k \in 1 .. Len(s) - 1 /\ k \in 1 .. Len(s))
    BY <1>1, <2>1
  <2>3. f[k + 1] = f[k] \o ps[k + 1] /\ f[k] \in SortedBelow(T, Upto(k))
    <3>1. f[k + 1] = f[k] \o ps[k + 1]
      BY <1>4, <2>2 DEF PartialJoins
    <3>2. k <= Len(s)
      BY <1>1, <2>1
    <3>. QED
      BY <1>6, <3>1, <3>2
  <2>4. Upto(k) \in Nat /\ Upto(k + 1) = s[k + 1].end /\ Upto(k) <= s[k + 1].start
    <3>1. s[k + 1].start \in Nat
      BY <1>2, <2>2
    <3>2. k # 0 => s[k].end \in Nat /\ s[k].end <= s[k + 1].start
      BY <1>1, <1>2, <2>2 DEF Sorted
    <3>. QED
      BY <2>2, <3>1, <3>2
  <2>5. s[k + 1].start \in Nat /\ s[k + 1].end \in Nat /\ s[k + 1].start < s[k + 1].end
    BY <1>2, <2>2
  <2>6. PartsOf(T, ps[k + 1], s[k + 1])
    BY <2>2
  <2>. HIDE DEF Upto
  <2>7. PICK p : p = ps[k + 1]
    OBVIOUS
  <2>8. p \in SortedBelow(T, Upto(k + 1)) /\ p \in Seq(T)
    BY <2>4, <2>6, <2>7 DEF PartsOf, SortedBelow
  <2>9. \A i \in 1 .. Len(p) : Upto(k) <= p[i].start
    <3>1. \A i \in 1 .. Len(p) : p[i] \in T
      BY <2>8
    <3>2. \A i \in 1 .. Len(p) : p[i].start \in Nat /\ s[k + 1].start <= p[i].start
      BY <2>6, <2>7, <3>1 DEF PartsOf, Sized
    <3>. QED
      BY <2>4, <2>5, <3>2
  <2>10. Upto(k) <= Upto(k + 1) /\ Upto(k + 1) \in Nat
    BY <2>4, <2>5
  <2>11. f[k] \o p \in SortedBelow(T, Upto(k + 1))
    BY <2>3, <2>4, <2>8, <2>9, <2>10, SortedJoin
  <2>. QED
    BY <2>3, <2>7, <2>11
<1>7. f[Len(s)] \in SortedBelow(T, Upto(Len(s)))
  <2>1. Len(s) \in Good
    <3>. HIDE DEF Good
    <3>. QED
      BY <1>1, <1>5, <1>6, SetInduction
  <2>. QED
    BY <1>1, <2>1
<1>8. Upto(Len(s)) \in Nat /\ Upto(Len(s)) <= n
  <2>1. Len(s) # 0 => Len(s) \in 1 .. Len(s)
    BY <1>1
  <2>. QED
    BY <1>1, <1>2, <2>1
<1>. HIDE DEF Upto
<1>9. \A t \in Seq(T) : \A i \in 1 .. Len(t) : t[i].end \in Nat
  <2>1. \A t \in Seq(T) : \A i \in 1 .. Len(t) : t[i] \in T
    OBVIOUS
  <2>. QED
    BY <2>1 DEF Sized
<1>. QED
  BY <1>4, <1>7, <1>8, <1>9 DEF SortedBelow

(* Nothing and the element itself are parts of it.                         *)
LEMMA WholeOrNone ==
  ASSUME NEW T, Sized(T), NEW x \in T
  PROVE  PartsOf(T, <<>>, x) /\ PartsOf(T, <<x>>, x)
<1>1. x.start \in Nat /\ x.end \in Nat
  BY DEF Sized
<1>2. PartsOf(T, <<>>, x)
  <2>1. <<>> \in Seq(T) /\ \A t : t = <<>> => 1 .. Len(t) = {} /\ 1 .. Len(t) - 1 = {}
    OBVIOUS
  <2>. QED
    BY <2>1 DEF PartsOf, Sorted
<1>3. PartsOf(T, <<x>>, x)
  <2>1. PICK t : t = <<x>>
    OBVIOUS
  <2>2. t \in Seq(T) /\ 1 .. Len(t) - 1 = {} /\ \A i \in 1 .. Len(t) : t[i] = x
    BY <2>1
  <2>. QED
    BY <1>1, <2>1, <2>2 DEF PartsOf, Sorted
<1>. QED
  BY <1>2, <1>3

LEMMA PickSorted ==
  ASSUME NEW T, Sized(T), NEW n \in Nat, NEW s \in SortedBelow(T, n), NEW S
  PROVE  Pick(s, S) \in SortedBelow(T, n)
<1>. DEFINE ps == [i \in 1 .. Len(s) |-> IF i \in S THEN <<s[i]>> ELSE <<>>]
<1>1. ASSUME NEW i \in 1 .. Len(s)
      PROVE  PartsOf(T, ps[i], s[i])
  <2>1. s[i] \in T
    BY DEF SortedBelow
  <2>. QED
    BY <2>1, WholeOrNone
<1>. HIDE DEF ps
<1>2. Concat(Len(s), ps) \in SortedBelow(T, n)
  BY <1>1, PartsSorted
<1>. QED
  BY <1>2 DEF Pick, ps

-----------------------------------------------------------------------------
(* Lists of which a loop leaves the rear as it is.                         *)

(* One element more of b behind a.                                         *)
LEMMA TailStep ==
  ASSUME NEW T, NEW a \in Seq(T), NEW b \in Seq(T), NEW k \in 1 .. Len(b)
  PROVE  a \o SubSeq(b, 1, k) = (a \o SubSeq(b, 1, k - 1)) \o <<b[k]>>
<1>1. 1 \in 1 .. Len(b) /\ k \in 1 .. Len(b) /\ Len(b) \in Nat /\ b[k] \in T
  OBVIOUS
<1>2. SubSeq(b, 1, k) = SubSeq(b, 1, k - 1) \o <<b[k]>>
  BY <1>1, SubSeqRecursiveSecond
<1>3. SubSeq(b, 1, k - 1) \in Seq(T) /\ <<b[k]>> \in Seq(T)
  BY <1>1
<1>. QED
  BY <1>2, <1>3, ConcatAssociative, SMTT(60)

(* Joining the pieces ss, and then the elements of b as they are.          *)
JoinsTail(T, m, ss, b, ts) ==
  /\ m \in Nat /\ ss \in [1 .. m -> Seq(T)] /\ b \in Seq(T)
  /\ \A i \in 1 .. m : ts[i] = ss[i]
  /\ \A i \in 1 .. Len(b) : ts[m + i] = <<b[i]>>

LEMMA ConcatTail ==
  ASSUME NEW T, NEW m, NEW ss, NEW b, NEW ts, JoinsTail(T, m, ss, b, ts)
  PROVE  Concat(m + Len(b), ts) = Concat(m, ss) \o b
<1>0. m \in Nat /\ ss \in [1 .. m -> Seq(T)] /\ b \in Seq(T)
  BY DEF JoinsTail
<1>. USE <1>0
<1>1. PICK f : PartialJoins(T, m, ss, f) /\ Concat(m, ss) = f[m]
  BY ConcatExists
<1>2. PICK n \in Nat : n = Len(b)
  OBVIOUS
<1>3. f \in [0 .. m -> Seq(T)] /\ f[0] = <<>> /\ \A i \in 1 .. m : f[i] = f[i - 1] \o ss[i]
  BY <1>1 DEF PartialJoins
<1>4. PICK a \in Seq(T) : a = f[m]
  BY <1>3
<1>. DEFINE t == [k \in 0 .. n |-> a \o SubSeq(b, 1, k)]
            g == [i \in 0 .. m + n |-> IF i <= m THEN f[i] ELSE t[i - m]]
<1>5. t \in [0 .. n -> Seq(T)]
  <2>1. ASSUME NEW k \in 0 .. n PROVE a \o SubSeq(b, 1, k) \in Seq(T)
    <3>1. SubSeq(b, 1, k) \in Seq(T)
      BY <1>2
    <3>. QED
      BY <3>1
  <2>. QED
    BY <2>1
<1>6. ASSUME NEW k \in 1 .. n PROVE t[k] = t[k - 1] \o <<b[k]>>
  <2>1. t[k] = a \o SubSeq(b, 1, k) /\ t[k - 1] = a \o SubSeq(b, 1, k - 1)
    BY SMTT(60)
  <2>2. a \o SubSeq(b, 1, k) = (a \o SubSeq(b, 1, k - 1)) \o <<b[k]>>
    BY <1>2, TailStep
  <2>. HIDE DEF t
  <2>. QED
    BY <2>1, <2>2
<1>7. t[0] = a /\ t[n] = a \o b
  <2>1. SubSeq(b, 1, 0) = <<>> /\ SubSeq(b, 1, n) = b
    BY <1>2, SubSeqFull, SubSeqEmpty
  <2>2. t[0] = a \o SubSeq(b, 1, 0) /\ t[n] = a \o SubSeq(b, 1, n)
    OBVIOUS
  <2>3. a \o <<>> = a
    BY ConcatEmptySeq
  <2>. HIDE DEF t
  <2>. QED
    BY <2>1, <2>2, <2>3
<1>. HIDE DEF t
<1>8. g \in [0 .. m + n -> Seq(T)] /\ g[0] = <<>> /\ g[m + n] = a \o b
  <2>1. ASSUME NEW i \in 0 .. m + n
        PROVE  (IF i <= m THEN f[i] ELSE t[i - m]) \in Seq(T)
    BY <1>3, <1>5, SMTT(60)
  <2>2. g[0] = f[0] /\ g[m + n] = t[n]
    <3>1. m + n \in 0 .. m + n /\ 0 \in 0 .. m + n /\ 0 <= m /\ (m + n) - m = n
      OBVIOUS
    <3>2. n = 0 => m + n = m /\ t[n] = f[m]
      BY <1>4, <1>7
    <3>3. g[0] = f[0] /\ g[m + n] = IF m + n <= m THEN f[m + n] ELSE t[(m + n) - m]
      BY <3>1
    <3>. HIDE DEF g
    <3>. QED
      BY <3>1, <3>2, <3>3
  <2>3. g \in [0 .. m + n -> Seq(T)]
    BY <2>1
  <2>. HIDE DEF g
  <2>. QED
    BY <1>3, <1>7, <2>2, <2>3
<1>9. ASSUME NEW i \in 1 .. m + n
      PROVE  g[i] = g[i - 1] \o ts[i]
  <2>1. CASE i <= m
    <3>1. g[i] = f[i] /\ g[i - 1] = f[i - 1] /\ ts[i] = ss[i] /\ i \in 1 .. m
      BY <2>1 DEF JoinsTail
    <3>. HIDE DEF g
    <3>. QED
      BY <1>3, <3>1
  <2>2. CASE i > m
    <3>1. PICK k \in 1 .. n : k = i - m /\ i = m + k
      BY <2>2
    <3>2. g[i] = t[k] /\ g[i - 1] = t[k - 1]
      <4>1. i \in 0 .. m + n /\ i - 1 \in 0 .. m + n /\ ~ (i <= m) /\ (i - 1) - m = k - 1
        BY <2>2, <3>1
      <4>2. i - 1 <= m => i - 1 = m /\ k - 1 = 0
        BY <2>2, <3>1
      <4>3. t[0] = f[m]
        BY <1>4, <1>7
      <4>. QED
        BY <3>1, <4>1, <4>2, <4>3
    <3>3. ts[i] = <<b[k]>>
      BY <1>2, <3>1 DEF JoinsTail
    <3>4. t[k] = t[k - 1] \o <<b[k]>>
      BY <1>6
    <3>. HIDE DEF g
    <3>. QED
      BY <3>2, <3>3, <3>4
  <2>3. i <= m \/ i > m
    OBVIOUS
  <2>. HIDE DEF g
  <2>. QED
    BY <2>1, <2>2, <2>3
<1>. HIDE DEF g
<1>10. PartialJoins(T, m + n, ts, g)
  BY <1>8, <1>9 DEF PartialJoins
<1>11. Concat(m + n, ts) = g[m + n]
  BY <1>10, ConcatIs
<1>. QED
  BY <1>1, <1>2, <1>4, <1>8, <1>11

(* A loop that breaks at the first element behind r scans only the front a *)
(* of a list whose other elements all start behind r.                      *)
Behind(b, r) == \A i \in 1 .. Len(b) : r.end <= b[i].start

LEMMA ScannedTail ==
  ASSUME NEW T, Sized(T), NEW a \in Seq(T), NEW b \in Seq(T), NEW r, r.end \in Nat,
         Behind(b, r)
  PROVE  Scanned(a \o b, r) = Scanned(a, r)
<1>1. PICK s : s = a \o b
  OBVIOUS
<1>2. /\ Len(a) \in Nat /\ Len(b) \in Nat /\ Len(s) = Len(a) + Len(b)
      /\ \A i \in 1 .. Len(a) : s[i] = a[i]
      /\ \A i \in 1 .. Len(b) : s[Len(a) + i] = b[i]
  BY <1>1
<1>3. \A i \in 1 .. Len(b) : b[i].start \in Nat
  BY DEF Sized
<1>4. ASSUME NEW i \in 1 .. Len(s), i > Len(a)
      PROVE  ~ (s[i].start < r.end)
  <2>1. i - Len(a) \in 1 .. Len(b) /\ i = Len(a) + (i - Len(a))
    BY <1>2, <1>4
  <2>2. s[i] = b[i - Len(a)]
    BY <1>2, <2>1
  <2>. QED
    BY <1>3, <2>1, <2>2 DEF Behind
<1>5. ASSUME NEW i
      PROVE  i \in Scanned(s, r) <=> i \in Scanned(a, r)
  <2>1. CASE i \in 1 .. Len(a)
    <3>1. i \in 1 .. Len(s) /\ 1 .. i \subseteq 1 .. Len(a)
      BY <1>2, <2>1
    <3>. QED
      BY <1>2, <2>1, <3>1 DEF Scanned
  <2>2. CASE i \notin 1 .. Len(a)
    <3>1. i \in 1 .. Len(s) => i > Len(a) /\ i \in 1 .. i
      BY <1>2, <2>2
    <3>. QED
      BY <1>4, <2>2, <3>1 DEF Scanned
  <2>. QED
    BY <2>1, <2>2
<1>. QED
  BY <1>1, <1>5

(* Recut with the pieces of an element given as a function.                *)
RecutBy(P, s, r) ==
  Concat(Len(s), [i \in 1 .. Len(s) |-> IF i \in Scanned(s, r) THEN P[s[i]] ELSE <<s[i]>>])

LEMMA RecutTail ==
  ASSUME NEW T, Sized(T), NEW a \in Seq(T), NEW b \in Seq(T), NEW r, r.end \in Nat,
         Behind(b, r), NEW P \in [T -> Seq(T)]
  PROVE  RecutBy(P, a \o b, r) = RecutBy(P, a, r) \o b
<1>1. PICK s : s = a \o b
  OBVIOUS
<1>2. PICK k \in Nat : k = Len(a)
  OBVIOUS
<1>3. /\ Len(b) \in Nat /\ Len(s) = k + Len(b)
      /\ \A i \in 1 .. k : s[i] = a[i]
      /\ \A i \in 1 .. Len(b) : s[k + i] = b[i]
  BY <1>1, <1>2
<1>. DEFINE ss == [i \in 1 .. Len(a) |-> IF i \in Scanned(a, r) THEN P[a[i]] ELSE <<a[i]>>]
            ts == [i \in 1 .. Len(s) |-> IF i \in Scanned(s, r) THEN P[s[i]] ELSE <<s[i]>>]
<1>4. Scanned(s, r) = Scanned(a, r)
  BY <1>1, ScannedTail
<1>5. ss \in [1 .. k -> Seq(T)]
  <2>1. ASSUME NEW i \in 1 .. Len(a)
        PROVE  P[a[i]] \in Seq(T) /\ <<a[i]>> \in Seq(T)
    <3>1. a[i] \in T
      OBVIOUS
    <3>. QED
      BY <3>1
  <2>. QED
    BY <1>2, <2>1
<1>6. JoinsTail(T, k, ss, b, ts)
  <2>1. ASSUME NEW i \in 1 .. k PROVE ts[i] = ss[i]
    <3>1. i \in 1 .. Len(s) /\ i \in 1 .. Len(a)
      BY <1>2, <1>3
    <3>. QED
      BY <1>3, <1>4, <3>1
  <2>2. ASSUME NEW i \in 1 .. Len(b) PROVE ts[k + i] = <<b[i]>>
    <3>1. k + i \in 1 .. Len(s) /\ k + i \notin 1 .. Len(a)
      BY <1>2, <1>3
    <3>2. k + i \notin Scanned(a, r)
      BY <3>1 DEF Scanned
    <3>. QED
      BY <1>3, <1>4, <3>1, <3>2
  <2>. HIDE DEF ss, ts
  <2>. QED
    BY <1>5, <2>1, <2>2 DEF JoinsTail
<1>7. RecutBy(P, s, r) = Concat(Len(s), ts) /\ RecutBy(P, a, r) = Concat(Len(a), ss)
  BY DEF RecutBy
<1>. HIDE DEF ss, ts
<1>8. PICK xs, ys : xs = ss /\ ys = ts
  OBVIOUS
<1>9. JoinsTail(T, k, xs, b, ys)
  BY <1>6, <1>8
<1>10. Concat(k + Len(b), ys) = Concat(k, xs) \o b
  BY <1>9, ConcatTail, SMTT(60)
<1>. QED
  BY <1>1, <1>2, <1>3, <1>7, <1>8, <1>10
=============================================================================
