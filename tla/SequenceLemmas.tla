--------------------------- MODULE SequenceLemmas ---------------------------
(***************************************************************************)
(* Induction over the natural numbers, and what follows from it for the    *)
(* operators on sequences that are defined by recursion: the folds of      *)
(* SequencesExt, FlattenSeq, and what is the end of a sequence.            *)
(***************************************************************************)
EXTENDS Integers, Sequences, SequencesExt, FiniteSetTheorems, WellFoundedInduction, TLAPS

LEMMA Least ==
  ASSUME NEW T, T \subseteq Nat, T # {}
  PROVE  \E n \in T : \A m \in T : n <= m
<1> DEFINE R == OpToRel(<, Nat)
<1>1. IsWellFoundedOn(R, Nat)
  BY NatLessThanWellFounded
<1>2. \A n, m \in Nat : m < n => <<m, n>> \in R
  BY DEF OpToRel
<1> HIDE DEF R
<1>3. PICK n \in T : \A m \in T : ~ (<<m, n>> \in R)
  BY <1>1, WFMin
<1>4. \A m \in T : ~ (m < n)
  BY <1>2, <1>3
<1> QED  BY <1>4

LEMMA Induction ==
  ASSUME NEW T, 0 \in T, \A n \in Nat : n \in T => n + 1 \in T
  PROVE  Nat \subseteq T
<1> SUFFICES ASSUME Nat \ T # {}  PROVE FALSE
  OBVIOUS
<1>1. PICK n \in Nat \ T : \A m \in Nat \ T : n <= m
  BY Least
<1>2. n # 0 /\ n - 1 \in Nat /\ n - 1 \in T
  BY <1>1
<1> QED  BY <1>1, <1>2

LEMMA MaxIs ==
  ASSUME NEW n \in Nat, NEW s \in SUBSET (1..n), s # {}
  PROVE  Max(s) \in s /\ \A m \in s : Max(s) >= m
<1> DEFINE T == {k \in Nat : n - k \in s}
<1>1. T # {}
  <2>1. PICK m \in s : TRUE
    OBVIOUS
  <2>2. n - m \in Nat /\ n - (n - m) = m
    BY <2>1
  <2> QED  BY <2>1, <2>2
<1>2. PICK k \in T : \A j \in T : k <= j
  BY <1>1, Least
<1>3. n - k \in s
  BY <1>2
<1>4. ASSUME NEW m \in s  PROVE n - k >= m
  <2>1. n - m \in Nat /\ n - (n - m) = m
    OBVIOUS
  <2>2. n - m \in T
    BY <2>1
  <2> QED  BY <1>2, <2>2
<1> QED  BY <1>3, <1>4 DEF Max

(* What FoldLeft computes on the first n elements, and that it exists.     *)
Folds(n, base, g, f) ==
  f = [s \in SUBSET (1..n) |-> IF s = {} THEN base ELSE g[<<f[s \ {Max(s)}], Max(s)>>]]

HasFold(n, R, base, g) == \E f \in [SUBSET (1..n) -> R] : Folds(n, base, g, f)

LEMMA FoldStep ==
  ASSUME NEW n \in Nat, NEW R, NEW base \in R, NEW g \in [R \X (1..n) -> R],
         NEW k \in Nat, k + 1 <= n, HasFold(k, R, base, g)
  PROVE  HasFold(k + 1, R, base, g)
<1>1. PICK f \in [SUBSET (1..k) -> R] : Folds(k, base, g, f)
  BY DEF HasFold
<1> DEFINE f2 == [s \in SUBSET (1..(k + 1)) |->
                    IF k + 1 \in s THEN g[<<f[s \ {k + 1}], k + 1>>] ELSE f[s]]
<1>2. \A s \in SUBSET (1..(k + 1)) : IF k + 1 \in s THEN s \ {k + 1} \in SUBSET (1..k) ELSE s \in SUBSET (1..k)
  OBVIOUS
<1>3. f2 \in [SUBSET (1..(k + 1)) -> R]
  BY <1>2
<1>4. ASSUME NEW s \in SUBSET (1..(k + 1))
      PROVE  f2[s] = IF s = {} THEN base ELSE g[<<f2[s \ {Max(s)}], Max(s)>>]
  <2>1. CASE k + 1 \in s
    <3>1. Max(s) = k + 1
      <4>1. k + 1 \in Nat /\ s # {}
        BY <2>1
      <4>2. Max(s) \in s /\ \A m \in s : Max(s) >= m
        BY ONLY <4>1, MaxIs, s \in SUBSET (1..(k + 1))
      <4>3. Max(s) >= k + 1 /\ Max(s) \in 1..(k + 1)
        BY <2>1, <4>2
      <4> QED  BY <4>3
    <3>2. s \ {k + 1} \in SUBSET (1..(k + 1)) /\ k + 1 \notin s \ {k + 1}
      OBVIOUS
    <3>3. f2[s \ {k + 1}] = f[s \ {k + 1}]
      BY <3>2
    <3> QED  BY <2>1, <3>1, <3>3
  <2>2. CASE k + 1 \notin s
    <3>1. s \in SUBSET (1..k) /\ k + 1 \notin s \ {Max(s)}
          /\ s \ {Max(s)} \in SUBSET (1..(k + 1))
      BY <1>2, <2>2
    <3>2. f2[s] = f[s] /\ f2[s \ {Max(s)}] = f[s \ {Max(s)}]
      BY <2>2, <3>1
    <3>3. f[s] = IF s = {} THEN base ELSE g[<<f[s \ {Max(s)}], Max(s)>>]
      BY <1>1, <3>1 DEF Folds
    <3> QED  BY <3>2, <3>3
  <2> QED  BY <2>1, <2>2
<1> HIDE DEF f2
<1>5. Folds(k + 1, base, g, f2)
  BY <1>3, <1>4 DEF Folds
<1> QED  BY <1>3, <1>5 DEF HasFold

LEMMA FoldExists ==
  ASSUME NEW n \in Nat, NEW R, NEW base \in R, NEW g \in [R \X (1..n) -> R]
  PROVE  HasFold(n, R, base, g)
<1> DEFINE T == {k \in Nat : k <= n => HasFold(k, R, base, g)}
<1>1. 0 \in T
  <2> DEFINE f == [s \in SUBSET (1..0) |-> base]
  <2>1. f \in [SUBSET (1..0) -> R]
    OBVIOUS
  <2>2. \A s \in SUBSET (1..0) : s = {}
    OBVIOUS
  <2>3. Folds(0, base, g, f)
    BY <2>2 DEF Folds
  <2>4. HasFold(0, R, base, g)
    BY <2>1, <2>3 DEF HasFold
  <2> QED  BY <2>4
<1>2. ASSUME NEW k \in Nat, k \in T  PROVE k + 1 \in T
  BY <1>2, FoldStep
<1> HIDE DEF T
<1>3. n \in T
  BY <1>1, <1>2, Induction
<1> QED  BY <1>3 DEF T

LEMMA FoldSteps ==
  ASSUME NEW n \in Nat, NEW R, NEW base \in R, NEW g \in [R \X (1..n) -> R],
         NEW f, Folds(n, base, g, f)
  PROVE  /\ f[{}] = base
         /\ \A i \in 1..n : f[1..i] = g[<<f[1..(i - 1)], i>>]
<1>1. f[{}] = base
  BY DEF Folds
<1>2. ASSUME NEW i \in 1..n  PROVE f[1..i] = g[<<f[1..(i - 1)], i>>]
  <2>1. 1..i \in SUBSET (1..n) /\ i \in 1..i /\ 1..i # {} /\ n \in Nat
    OBVIOUS
  <2>2. Max(1..i) \in 1..i /\ \A m \in 1..i : Max(1..i) >= m
    BY ONLY <2>1, MaxIs
  <2>3. Max(1..i) = i
    BY <2>1, <2>2
  <2>4. (1..i) \ {i} = 1..(i - 1)
    OBVIOUS
  <2>5. f[1..i] = g[<<f[(1..i) \ {Max(1..i)}], Max(1..i)>>]
    BY <2>1 DEF Folds
  <2> QED  BY <2>3, <2>4, <2>5
<1> QED  BY <1>1, <1>2

-----------------------------------------------------------------------------
(* What FlattenSeq computes, piece by piece.                               *)
Flattens(seqs, f) ==
  f = [i \in 1..Len(seqs) |-> IF i = 1 THEN seqs[i] ELSE f[i - 1] \o seqs[i]]

LEMMA FlattensExists ==
  ASSUME NEW R, NEW seqs \in Seq(Seq(R))
  PROVE  \E f \in [1..Len(seqs) -> Seq(R)] : Flattens(seqs, f)
<1> DEFINE n == Len(seqs)
           Step(f, k) == f = [i \in 1..k |-> IF i = 1 THEN seqs[i] ELSE f[i - 1] \o seqs[i]]
           Possible(k) == \E f \in [1..k -> Seq(R)] : Step(f, k)
           T == {k \in Nat : k <= n => Possible(k)}
<1>1. n \in Nat /\ \A i \in 1..n : seqs[i] \in Seq(R)
  OBVIOUS
<1>2. 0 \in T
  <2> DEFINE f == [i \in 1..0 |-> <<>>]
  <2>1. f \in [1..0 -> Seq(R)] /\ Step(f, 0)
    OBVIOUS
  <2> QED  BY <2>1
<1> HIDE DEF Possible
<1>3. ASSUME NEW k \in Nat, k \in T  PROVE k + 1 \in T
  <2> SUFFICES ASSUME k + 1 <= n  PROVE Possible(k + 1)
    OBVIOUS
  <2>1. k <= n /\ k + 1 \in 1..n
    BY <1>1
  <2>2. PICK f \in [1..k -> Seq(R)] : Step(f, k)
    BY <1>3, <2>1 DEF Possible
  <2> DEFINE next == IF k = 0 THEN seqs[1] ELSE f[k] \o seqs[k + 1]
             g == [i \in 1..(k + 1) |-> IF i = k + 1 THEN next ELSE f[i]]
  <2>3. next \in Seq(R)
    <3>1. CASE k = 0
      BY <1>1, <2>1, <3>1
    <3>2. CASE k # 0
      <4>1. f[k] \in Seq(R) /\ seqs[k + 1] \in Seq(R)
        BY <1>1, <2>1, <3>2
      <4> QED  BY <3>2, <4>1
    <3> QED  BY <3>1, <3>2
  <2> HIDE DEF n
  <2>4. g \in [1..(k + 1) -> Seq(R)]
    <3>1. \A i \in 1..(k + 1) : i = k + 1 \/ i \in 1..k
      OBVIOUS
    <3> HIDE DEF next
    <3> QED  BY <2>3, <3>1
  <2>5. ASSUME NEW i \in 1..(k + 1)
        PROVE  g[i] = IF i = 1 THEN seqs[i] ELSE g[i - 1] \o seqs[i]
    <3>1. CASE i = k + 1
      <4>1. k # 0 => g[k] = f[k] /\ k + 1 # 1 /\ (k + 1) - 1 = k
        OBVIOUS
      <4> QED  BY <3>1, <4>1
    <3>2. CASE i # k + 1
      <4>1. i \in 1..k /\ g[i] = f[i] /\ (i # 1 => i - 1 \in 1..(k + 1) /\ i - 1 # k + 1)
        BY <3>2
      <4>2. i # 1 => g[i - 1] = f[i - 1]
        BY <4>1
      <4>3. f[i] = IF i = 1 THEN seqs[i] ELSE f[i - 1] \o seqs[i]
        BY <2>2, <4>1
      <4> QED  BY <4>1, <4>2, <4>3
    <3> QED  BY <3>1, <3>2
  <2> HIDE DEF g, next
  <2>6. Step(g, k + 1)
    BY <2>4, <2>5
  <2> QED  BY <2>4, <2>6 DEF Possible
<1> HIDE DEF T
<1>4. n \in T
  BY <1>1, <1>2, <1>3, Induction
<1>5. Possible(n)
  BY <1>1, <1>4 DEF T
<1> QED  BY <1>5 DEF Possible, Flattens

(* Where each piece ends in the whole.                                     *)
PiecesEnd(seqs, whole, end) ==
  /\ end[0] = 0 /\ end[Len(seqs)] = Len(whole)
  /\ \A k \in 1..Len(seqs) :
       /\ end[k] = end[k - 1] + Len(seqs[k])
       /\ \A i \in 1..Len(seqs[k]) : whole[end[k - 1] + i] = seqs[k][i]
  /\ \A k, l \in 0..Len(seqs) : k <= l => end[k] <= end[l]
  /\ \A p \in 1..Len(whole) :
       \E k \in 1..Len(seqs) : \E i \in 1..Len(seqs[k]) : p = end[k - 1] + i

LEMMA FlattenIs ==
  ASSUME NEW R, NEW seqs \in Seq(Seq(R)), Len(seqs) # 0
  PROVE  /\ FlattenSeq(seqs) \in Seq(R)
         /\ \E end \in [0..Len(seqs) -> Nat] : PiecesEnd(seqs, FlattenSeq(seqs), end)
<1> DEFINE n == Len(seqs)
           flatten == CHOOSE f : f = [i \in 1..Len(seqs) |-> IF i = 1 THEN seqs[i] ELSE f[i - 1] \o seqs[i]]
<1>1. n \in Nat \ {0} /\ \A i \in 1..n : seqs[i] \in Seq(R) /\ Len(seqs[i]) \in Nat
  OBVIOUS
<1>2. FlattenSeq(seqs) = flatten[n]
  BY DEF FlattenSeq
<1>3. PICK f \in [1..n -> Seq(R)] : Flattens(seqs, f)
  BY FlattensExists
<1>4. flatten = [i \in 1..n |-> IF i = 1 THEN seqs[i] ELSE flatten[i - 1] \o seqs[i]]
  BY <1>3 DEF Flattens
<1> HIDE DEF flatten, n
<1> DEFINE Ends(k, end) ==
             /\ end[0] = 0 /\ flatten[k] \in Seq(R) /\ end[k] = Len(flatten[k])
             /\ \A j \in 1..k : /\ end[j] = end[j - 1] + Len(seqs[j])
                                /\ \A i \in 1..Len(seqs[j]) : flatten[k][end[j - 1] + i] = seqs[j][i]
             /\ \A j, l \in 0..k : j <= l => end[j] <= end[l]
             /\ \A p \in 1..Len(flatten[k]) :
                  \E j \in 1..k : \E i \in 1..Len(seqs[j]) : p = end[j - 1] + i
           Possible(k) == \E end \in [0..k -> Nat] : Ends(k, end)
           T == {k \in Nat : k \in 1..n => Possible(k)}
<1> HIDE DEF Possible
<1>5. 0 \in T
  OBVIOUS
<1>6. ASSUME NEW k \in Nat, k \in T  PROVE k + 1 \in T
  <2> SUFFICES ASSUME k + 1 \in 1..n  PROVE Possible(k + 1)
    OBVIOUS
  <2>1. seqs[k + 1] \in Seq(R) /\ Len(seqs[k + 1]) \in Nat
    BY <1>1
  <2>2. CASE k = 0
    <3> DEFINE e == [j \in 0..1 |-> IF j = 0 THEN 0 ELSE Len(seqs[1])]
    <3>1. flatten[1] = seqs[1] /\ seqs[1] \in Seq(R) /\ Len(seqs[1]) \in Nat
      BY <1>1, <1>4, <2>2
    <3>2. e \in [0..1 -> Nat] /\ e[0] = 0 /\ e[1] = Len(seqs[1])
      BY <3>1
    <3> HIDE DEF e
    <3>3. Ends(1, e)
      <4>1. \A j \in 1..1 : j = 1 /\ j - 1 = 0
        OBVIOUS
      <4>2. \A j, l \in 0..1 : j <= l => e[j] <= e[l]
        BY <3>1, <3>2
      <4>3. \A i \in 1..Len(seqs[1]) : e[0] + i = i
        BY <3>1, <3>2
      <4>4. \A p \in 1..Len(flatten[1]) : \E j \in 1..1 : \E i \in 1..Len(seqs[j]) : p = e[j - 1] + i
        <5> TAKE p \in 1..Len(flatten[1])
        <5>1. p \in 1..Len(seqs[1]) /\ p = e[1 - 1] + p /\ 1 \in 1..1
          BY <3>1, <4>3
        <5> QED  BY <5>1
      <4>5. e[1] = e[0] + Len(seqs[1])
        BY <3>1, <3>2
      <4>6. \A j \in 1..1 : /\ e[j] = e[j - 1] + Len(seqs[j])
                           /\ \A i \in 1..Len(seqs[j]) : flatten[1][e[j - 1] + i] = seqs[j][i]
        BY <3>1, <4>1, <4>3, <4>5
      <4> QED  BY <3>1, <3>2, <4>2, <4>4, <4>6
    <3>4. Possible(1) /\ k + 1 = 1
      <4> HIDE DEF Ends
      <4> QED  BY <2>2, <3>2, <3>3 DEF Possible
    <3> QED  BY <3>4
  <2>3. CASE k # 0
    <3>1. k \in 1..n /\ k + 1 # 1 /\ (k + 1) - 1 = k
      BY <1>1, <2>3
    <3>2. PICK end \in [0..k -> Nat] : Ends(k, end)
      BY <1>6, <3>1 DEF Possible
    <3> DEFINE a == flatten[k]
               b == seqs[k + 1]
               c == flatten[k + 1]
               e == [j \in 0..(k + 1) |-> IF j = k + 1 THEN end[k] + Len(b) ELSE end[j]]
    <3>3. c = a \o b
      BY <1>4, <3>1
    <3>4. a \in Seq(R) /\ b \in Seq(R) /\ end[k] = Len(a) /\ Len(a) \in Nat /\ Len(b) \in Nat
      BY <2>1, <3>2
    <3> HIDE DEF a, b, c
    <3>5. /\ c \in Seq(R) /\ Len(c) = Len(a) + Len(b)
          /\ \A i \in 1..Len(a) : c[i] = a[i]
          /\ \A i \in 1..Len(b) : c[Len(a) + i] = b[i]
      BY <3>3, <3>4
    <3>6. /\ e \in [0..(k + 1) -> Nat] /\ e[k + 1] = Len(c) /\ e[k + 1] = end[k] + Len(b)
          /\ \A j \in 0..k : e[j] = end[j] /\ end[j] \in Nat
      BY <3>4, <3>5
    <3> HIDE DEF e
    <3>7. \A j, l \in 0..(k + 1) : j <= l => e[j] <= e[l]
      <4> TAKE j, l \in 0..(k + 1)
      <4>1. (j \in 0..k \/ j = k + 1) /\ (l \in 0..k \/ l = k + 1) /\ k \in 0..k
        OBVIOUS
      <4>2. \A i \in 0..k : end[i] <= end[k]
        BY <3>2
      <4>3. \A i, m \in 0..k : i <= m => end[i] <= end[m]
        BY <3>2
      <4>4. end[k] \in Nat /\ end[k] <= e[k + 1] /\ e[k + 1] \in Nat
        BY <3>4, <3>6
      <4>5. CASE l \in 0..k
        <5>1. j <= l => j \in 0..k
          BY <4>5
        <5> QED  BY <3>6, <4>3, <4>5, <5>1
      <4>6. CASE l = k + 1
        <5>1. CASE j = k + 1
          BY <4>4, <4>6, <5>1
        <5>2. CASE j \in 0..k
          BY <3>6, <4>2, <4>4, <4>6, <5>2
        <5> QED  BY <4>1, <5>1, <5>2
      <4> QED  BY <4>1, <4>5, <4>6
    <3>8. ASSUME NEW j \in 1..(k + 1)
          PROVE  /\ e[j] = e[j - 1] + Len(seqs[j])
                 /\ \A i \in 1..Len(seqs[j]) : c[e[j - 1] + i] = seqs[j][i]
      <4>1. CASE j = k + 1
        <5>1. e[j - 1] = Len(a) /\ seqs[j] = b
          BY <3>4, <3>6, <4>1 DEF b
        <5> QED  BY <3>4, <3>5, <3>6, <4>1, <5>1
      <4>2. CASE j # k + 1
        <5>1. j \in 1..k /\ j - 1 \in 0..k /\ j \in 0..k /\ k \in 0..k
          BY <4>2
        <5>2. /\ end[j] = end[j - 1] + Len(seqs[j])
              /\ \A i \in 1..Len(seqs[j]) : a[end[j - 1] + i] = seqs[j][i]
          BY <3>2, <5>1 DEF a
        <5>5. end[j] <= end[k]
          <6>1. \A i, m \in 0..k : i <= m => end[i] <= end[m]
            BY <3>2
          <6> QED  BY <5>1, <6>1
        <5>3. e[j] = end[j] /\ e[j - 1] = end[j - 1] /\ end[j] \in Nat /\ end[j - 1] \in Nat
              /\ Len(seqs[j]) \in Nat
          <6>1. j \in 1..n
            BY <1>1, <3>1, <5>1
          <6> QED  BY <1>1, <3>6, <5>1, <6>1
        <5>4. \A i \in 1..Len(seqs[j]) : end[j - 1] + i \in 1..Len(a)
          <6> DEFINE x == end[j - 1]
                     y == end[j]
                     z == Len(seqs[j])
          <6>1. x \in Nat /\ z \in Nat /\ y = x + z /\ y <= Len(a)
            BY <3>4, <5>2, <5>3, <5>5
          <6> HIDE DEF x, y, z
          <6>2. \A i \in 1..z : x + i \in 1..Len(a)
            BY <3>4, <6>1
          <6> QED  BY <6>2 DEF x, z
        <5> QED  BY <3>5, <5>2, <5>3, <5>4
      <4> QED  BY <4>1, <4>2
    <3>9. \A p \in 1..Len(c) : \E j \in 1..(k + 1) : \E i \in 1..Len(seqs[j]) : p = e[j - 1] + i
      <4> TAKE p \in 1..Len(c)
      <4>1. CASE p <= Len(a)
        <5>1. p \in 1..Len(a)
          BY <3>4, <3>5, <4>1
        <5>2. PICK j \in 1..k : \E i \in 1..Len(seqs[j]) : p = end[j - 1] + i
          BY <3>2, <5>1 DEF a
        <5>3. j \in 1..(k + 1) /\ j - 1 \in 0..k
          OBVIOUS
        <5>4. e[j - 1] = end[j - 1]
          BY <3>6, <5>3
        <5> QED  BY <5>2, <5>3, <5>4
      <4>2. CASE p > Len(a)
        <5>1. p - Len(a) \in 1..Len(b) /\ p = Len(a) + (p - Len(a))
          BY <3>4, <3>5, <4>2
        <5>2. k + 1 \in 1..(k + 1) /\ e[(k + 1) - 1] = Len(a)
          BY <3>1, <3>4, <3>6
        <5> QED  BY <5>1, <5>2 DEF b
      <4>3. p <= Len(a) \/ p > Len(a)
        BY <3>4, <3>5
      <4> QED  BY <4>1, <4>2, <4>3
    <3>10. Ends(k + 1, e)
      <4>1. e[0] = 0
        BY <3>2, <3>6
      <4> QED  BY <3>5, <3>6, <3>7, <3>8, <3>9, <4>1 DEF c
    <3> QED  BY <3>6, <3>10 DEF Possible
  <2> QED  BY <2>2, <2>3
<1> HIDE DEF T
<1>7. n \in T
  BY <1>1, <1>5, <1>6, Induction
<1>8. PICK end \in [0..n -> Nat] : Ends(n, end)
  <2>1. Possible(n)
    BY <1>1, <1>7 DEF T
  <2> QED  BY <2>1 DEF Possible
<1>9. /\ flatten[n] \in Seq(R) /\ end[0] = 0 /\ end[n] = Len(flatten[n])
      /\ \A k \in 1..n : /\ end[k] = end[k - 1] + Len(seqs[k])
                         /\ \A i \in 1..Len(seqs[k]) : flatten[n][end[k - 1] + i] = seqs[k][i]
  BY <1>8
<1>10. \A k, l \in 0..n : k <= l => end[k] <= end[l]
  BY <1>8
<1>11. \A p \in 1..Len(flatten[n]) : \E k \in 1..n : \E i \in 1..Len(seqs[k]) : p = end[k - 1] + i
  BY <1>8
<1> HIDE DEF Ends
<1> DEFINE whole == FlattenSeq(seqs)
<1>12. /\ whole \in Seq(R) /\ end \in [0..Len(seqs) -> Nat]
       /\ end[0] = 0 /\ end[Len(seqs)] = Len(whole)
       /\ \A k \in 1..Len(seqs) : /\ end[k] = end[k - 1] + Len(seqs[k])
                                  /\ \A i \in 1..Len(seqs[k]) : whole[end[k - 1] + i] = seqs[k][i]
  BY <1>2, <1>9 DEF n
<1>13. \A k, l \in 0..Len(seqs) : k <= l => end[k] <= end[l]
  BY <1>10 DEF n
<1>14. \A p \in 1..Len(whole) : \E k \in 1..Len(seqs) : \E i \in 1..Len(seqs[k]) : p = end[k - 1] + i
  BY <1>2, <1>11 DEF n
<1> HIDE DEF whole, n
<1>15. PiecesEnd(seqs, whole, end)
  BY <1>12, <1>13, <1>14 DEF PiecesEnd
<1> QED  BY <1>12, <1>15 DEF whole

-----------------------------------------------------------------------------
Increasing(key, s) == \A i, j \in 1..Len(s) : i < j => key[s[i]] < key[s[j]]

Occurs(x, s) == \E i \in 1..Len(s) : s[i] = x

LEMMA ConcatIs ==
  ASSUME NEW R, NEW key, NEW a \in Seq(R), NEW b \in Seq(R)
  PROVE  /\ a \o b \in Seq(R) /\ Len(a \o b) = Len(a) + Len(b)
         /\ \A i \in 1..Len(a) : (a \o b)[i] = a[i]
         /\ \A i \in 1..Len(b) : (a \o b)[Len(a) + i] = b[i]
         /\ \A x : Occurs(x, a \o b) <=> Occurs(x, a) \/ Occurs(x, b)
         /\ /\ Increasing(key, a) /\ Increasing(key, b)
            /\ \A x \in R, y \in R : Occurs(x, a) /\ Occurs(y, b) => key[x] < key[y]
            => Increasing(key, a \o b)
<1> DEFINE c == a \o b
           m == Len(a)
           n == Len(b)
<1>1. /\ c \in Seq(R) /\ m \in Nat /\ n \in Nat /\ Len(c) = m + n
      /\ (\A i \in 1..m : c[i] = a[i]) /\ (\A i \in 1..n : c[m + i] = b[i])
  OBVIOUS
<1>a. (\A i \in 1..m : a[i] \in R) /\ (\A i \in 1..n : b[i] \in R)
  OBVIOUS
<1> HIDE DEF c, m, n
<1>2. /\ \A i \in 1..Len(c) : i \in 1..m \/ (i - m \in 1..n /\ c[i] = b[i - m])
      /\ \A i \in 1..m : i \in 1..Len(c)
      /\ \A i \in 1..n : m + i \in 1..Len(c)
  <2>1. \A i \in 1..Len(c) : i \in 1..m \/ (i - m \in 1..n /\ m + (i - m) = i)
    BY <1>1
  <2>2. \A i \in 1..Len(c) : i - m \in 1..n => c[i] = b[i - m]
    BY <1>1, <2>1
  <2>3. \A i \in 1..n : m + i \in 1..Len(c)
    BY <1>1
  <2> QED  BY <1>1, <2>1, <2>2, <2>3
<1>3. \A x : Occurs(x, c) <=> Occurs(x, a) \/ Occurs(x, b)
  BY <1>1, <1>2 DEF Occurs, m, n
<1>4. ASSUME Increasing(key, a), Increasing(key, b),
             \A x \in R, y \in R : Occurs(x, a) /\ Occurs(y, b) => key[x] < key[y],
             NEW i \in 1..Len(c), NEW j \in 1..Len(c), i < j
      PROVE  key[c[i]] < key[c[j]]
  <2>1. CASE i \in 1..m /\ j \in 1..m
    BY <1>1, <1>4, <2>1 DEF Increasing, m
  <2>2. CASE i \in 1..m /\ j - m \in 1..n
    <3>1. Occurs(c[i], a) /\ Occurs(c[j], b) /\ c[i] \in R /\ c[j] \in R
      <4>1. c[i] = a[i]
        BY <1>1, <2>2
      <4>2. c[j] = b[j - m]
        <5>1. j \notin 1..m
          BY <1>1, <2>2
        <5> QED  BY <1>2, <5>1
      <4> QED  BY <1>a, <2>2, <4>1, <4>2 DEF Occurs, m, n
    <3> QED  BY <1>4, <3>1
  <2>3. CASE i \notin 1..m
    <3>1. j \notin 1..m
      BY <1>1, <1>4, <2>3
    <3>2. /\ i - m \in 1..n /\ c[i] = b[i - m] /\ j - m \in 1..n /\ c[j] = b[j - m]
          /\ i - m < j - m
      BY <1>1, <1>2, <1>4, <2>3, <3>1
    <3> QED  BY <1>4, <3>2 DEF Increasing, n
  <2> QED  BY <1>2, <2>1, <2>2, <2>3
<1>5. /\ Increasing(key, a) /\ Increasing(key, b)
      /\ \A x \in R, y \in R : Occurs(x, a) /\ Occurs(y, b) => key[x] < key[y]
      => Increasing(key, c)
  BY <1>4 DEF Increasing
<1> QED  BY <1>1, <1>3, <1>5 DEF c, m, n

(* A sequence in order, that takes from another all from some point on, is *)
(* the end of the other one.                                               *)
LEMMA EndIs ==
  ASSUME NEW R, NEW key \in [R -> Int], NEW a \in Seq(R), NEW b \in Seq(R),
         Increasing(key, a), Increasing(key, b),
         \A i \in 1..Len(a) : Occurs(a[i], b),
         \A i \in 1..Len(a), j \in 1..Len(b) : key[a[i]] < key[b[j]] => Occurs(b[j], a)
  PROVE  Len(a) <= Len(b) /\ \A j \in 0..(Len(a) - 1) : a[Len(a) - j] = b[Len(b) - j]
<1> DEFINE m == Len(a)
           n == Len(b)
           T == {k \in Nat : k <= m => k <= n /\ \A j \in 0..(k - 1) : a[m - j] = b[n - j]}
<1>1. m \in Nat /\ n \in Nat /\ (\A i \in 1..m : a[i] \in R) /\ (\A i \in 1..n : b[i] \in R)
  OBVIOUS
<1>2. \A i \in 1..m : key[a[i]] \in Int
  BY <1>1
<1>3. \A i \in 1..n : key[b[i]] \in Int
  BY <1>1
<1>4. 0 \in T
  BY <1>1
<1>5. ASSUME NEW k \in Nat, k \in T  PROVE k + 1 \in T
  <2> SUFFICES ASSUME k + 1 <= m
               PROVE  k + 1 <= n /\ \A j \in 0..k : a[m - j] = b[n - j]
    <3>1. (k + 1) - 1 = k
      OBVIOUS
    <3> QED  BY <3>1
  <2> HIDE DEF m, n
  <2>1. k <= n /\ \A j \in 0..(k - 1) : a[m - j] = b[n - j]
    BY <1>1, <1>5
  <2>2. m - k \in 1..m
    BY <1>1
  <2>3. PICK p \in 1..n : b[p] = a[m - k]
    BY <2>2 DEF Occurs, m, n
  <2>4. p <= n - k
    <3> SUFFICES ASSUME p > n - k  PROVE FALSE
      BY <1>1
    <3>1. n - p \in 0..(k - 1) /\ n - (n - p) = p
      BY <1>1
    <3>2. a[m - (n - p)] = b[p]
      BY <2>1, <3>1
    <3>3. m - (n - p) \in 1..m /\ m - k < m - (n - p)
      BY <1>1, <2>2, <3>1
    <3>4. key[a[m - k]] < key[a[m - (n - p)]]
      BY <2>2, <3>3 DEF Increasing, m
    <3>5. key[a[m - k]] \in Int
      BY <1>2, <2>2
    <3> QED  BY <2>3, <3>2, <3>4, <3>5
  <2>5. n - k \in 1..n
    BY <1>1, <2>4
  <2>6. p = n - k
    <3> SUFFICES ASSUME p < n - k  PROVE FALSE
      BY <1>1, <2>4
    <3>1. key[b[p]] < key[b[n - k]]
      BY <2>5 DEF Increasing, n
    <3>2. key[a[m - k]] < key[b[n - k]]
      BY <2>3, <3>1
    <3>3. PICK q \in 1..m : a[q] = b[n - k]
      BY <2>2, <2>5, <3>2 DEF Occurs, m, n
    <3>4. q > m - k
      <4> SUFFICES ASSUME q <= m - k  PROVE FALSE
        BY <1>1
      <4>1. q < m - k => key[a[q]] < key[a[m - k]]
        BY <2>2 DEF Increasing, m
      <4>2. key[a[q]] \in Int /\ key[a[m - k]] \in Int
        BY <1>2, <2>2
      <4>3. q < m - k \/ q = m - k
        BY <1>1
      <4> QED  BY <3>2, <3>3, <4>1, <4>2, <4>3
    <3>5. m - q \in 0..(k - 1) /\ m - (m - q) = q
      BY <1>1, <3>4
    <3>6. a[q] = b[n - (m - q)]
      BY <2>1, <3>5
    <3>7. n - (m - q) \in 1..n /\ n - k < n - (m - q)
      BY <1>1, <2>5, <3>5
    <3>8. key[b[n - k]] < key[b[n - (m - q)]]
      BY <2>5, <3>7 DEF Increasing, n
    <3>9. key[b[n - k]] \in Int
      BY <1>3, <2>5
    <3> QED  BY <3>3, <3>6, <3>8, <3>9
  <2>7. ASSUME NEW j \in 0..k  PROVE a[m - j] = b[n - j]
    <3>1. j = k \/ j \in 0..(k - 1)
      OBVIOUS
    <3> QED  BY <2>1, <2>3, <2>6, <3>1
  <2> QED  BY <1>1, <2>5, <2>7
<1> HIDE DEF T, m, n
<1>6. m \in T
  BY <1>1, <1>4, <1>5, Induction
<1> QED  BY <1>1, <1>6 DEF T, m, n

LEMMA SuffixIs ==
  ASSUME NEW R, NEW key \in [R -> Int], NEW a \in Seq(R), NEW b \in Seq(R),
         Increasing(key, a), Increasing(key, b),
         \A i \in 1..Len(a) : Occurs(a[i], b),
         \A i \in 1..Len(a), j \in 1..Len(b) : key[a[i]] < key[b[j]] => Occurs(b[j], a)
  PROVE  /\ IsSuffix(a, b)
         /\ (\A j \in 1..Len(b) : Occurs(b[j], a)) => a = b
<1>1. /\ Len(a) <= Len(b) /\ \A j \in 0..(Len(a) - 1) : a[Len(a) - j] = b[Len(b) - j]
  BY EndIs
<1> DEFINE m == Len(a)
           n == Len(b)
           ra == Reverse(a)
           rb == Reverse(b)
<1>2. m \in Nat /\ n \in Nat /\ m <= n
  BY <1>1
<1>3. ra \in Seq(R) /\ rb \in Seq(R) /\ Len(ra) = m /\ Len(rb) = n
      /\ (\A i \in 1..m : ra[i] = a[m - i + 1]) /\ (\A i \in 1..n : rb[i] = b[n - i + 1])
  <2>1. \A i \in 1..m : m - i + 1 \in 1..m
    BY <1>2
  <2>2. \A i \in 1..n : n - i + 1 \in 1..n
    BY <1>2
  <2> QED  BY <2>1, <2>2 DEF Reverse
<1> HIDE DEF ra, rb, m, n
<1>4. \A i \in 1..m : ra[i] = rb[i]
  <2> TAKE i \in 1..m
  <2>1. i - 1 \in 0..(m - 1) /\ m - (i - 1) = m - i + 1 /\ n - (i - 1) = n - i + 1 /\ i \in 1..n
    BY <1>2
  <2>2. a[m - (i - 1)] = b[n - (i - 1)]
    BY <1>1, <2>1 DEF m, n
  <2> QED  BY <1>3, <2>1, <2>2
<1>5. SubSeq(ra, 1, m) = SubSeq(rb, 1, m)
  <2>1. /\ Len(SubSeq(ra, 1, m)) = m /\ Len(SubSeq(rb, 1, m)) = m
        /\ SubSeq(ra, 1, m) \in Seq(R) /\ SubSeq(rb, 1, m) \in Seq(R)
        /\ \A i \in 1..m : SubSeq(ra, 1, m)[i] = ra[i] /\ SubSeq(rb, 1, m)[i] = rb[i]
    BY <1>2, <1>3
  <2> DEFINE x == SubSeq(ra, 1, m)
             y == SubSeq(rb, 1, m)
  <2>2. x \in Seq(R) /\ y \in Seq(R) /\ Len(x) = Len(y) /\ \A i \in 1..Len(x) : x[i] = y[i]
    BY <1>4, <2>1
  <2> HIDE DEF x, y
  <2>3. x = [i \in 1..Len(x) |-> x[i]] /\ y = [i \in 1..Len(y) |-> y[i]]
    BY <2>2
  <2>4. x = y
    BY <2>2, <2>3
  <2> QED  BY <2>4 DEF x, y
<1>6. IsSuffix(a, b)
  BY <1>2, <1>3, <1>5 DEF IsSuffix, IsPrefix, ra, rb
<1>7. ASSUME \A j \in 1..Len(b) : Occurs(b[j], a)  PROVE a = b
  <2>1. m = n
    <3> SUFFICES ASSUME m < n  PROVE FALSE
      BY <1>2
    <3>1. n - m \in 1..n
      BY <1>2
    <3>2. PICK q \in 1..m : a[q] = b[n - m]
      BY <1>7, <3>1 DEF Occurs, m, n
    <3>3. m - q \in 0..(m - 1) /\ m - (m - q) = q
      BY <1>2
    <3>4. a[q] = b[n - (m - q)]
      BY <1>1, <3>3 DEF m, n
    <3>5. n - (m - q) \in 1..n /\ n - m < n - (m - q)
      BY <1>2, <3>1, <3>3
    <3>6. key[b[n - m]] < key[b[n - (m - q)]]
      BY <3>1, <3>5 DEF Increasing, n
    <3>7. key[b[n - m]] \in Int
      BY <3>1 DEF n
    <3> QED  BY <3>2, <3>4, <3>6, <3>7
  <2>2. \A i \in 1..m : a[i] = b[i]
    <3> TAKE i \in 1..m
    <3>1. m - i \in 0..(m - 1) /\ m - (m - i) = i
      BY <1>2
    <3>2. a[m - (m - i)] = b[n - (m - i)]
      BY <1>1, <3>1 DEF m, n
    <3> QED  BY <2>1, <3>1, <3>2
  <2> QED  BY <2>1, <2>2 DEF m, n
<1> QED  BY <1>6, <1>7

(* SetToSeq of at most one element.                                        *)
LEMMA SetToSeqIs ==
  ASSUME NEW x
  PROVE  SetToSeq({x}) = <<x>> /\ SetToSeq({}) = <<>>
<1>1. Cardinality({x}) = 1 /\ Cardinality({}) = 0
  BY FS_Singleton, FS_EmptySet
<1>2. \A f \in [1..1 -> {x}] : f = <<x>>
  OBVIOUS
<1>3. <<x>> \in [1..1 -> {x}] /\ IsInjective(<<x>>)
  BY DEF IsInjective
<1>4. SetToSeq({x}) = <<x>>
  BY <1>1, <1>2, <1>3 DEF SetToSeq
<1>5. \A f \in [1..0 -> {}] : f = <<>>
  OBVIOUS
<1>6. <<>> \in [1..0 -> {}] /\ IsInjective(<<>>)
  BY DEF IsInjective
<1>7. SetToSeq({}) = <<>>
  BY <1>1, <1>5, <1>6 DEF SetToSeq
<1> QED  BY <1>4, <1>7

-----------------------------------------------------------------------------
(* SetToSeq has every element of a finite set.                             *)
LEMMA SetToSeqHas ==
  ASSUME NEW S, IsFiniteSet(S)
  PROVE  /\ SetToSeq(S) \in Seq(S)
         /\ \A x \in S : \E i \in DOMAIN SetToSeq(S) : SetToSeq(S)[i] = x
<1> DEFINE n == Cardinality(S)
<1>1. n \in Nat /\ ExistsBijection(1..n, S)
  BY FS_CardinalityType
<1>2. \E f \in [1..n -> S] : IsInjective(f)
  BY <1>1 DEF ExistsBijection, Bijection, Injection
<1>3. SetToSeq(S) \in [1..n -> S] /\ IsInjective(SetToSeq(S))
  BY <1>2 DEF SetToSeq
<1> DEFINE s == SetToSeq(S)
<1> HIDE DEF s, n
<1>4. s \in [1..n -> S] /\ IsInjective(s)
  BY <1>3 DEF s, n
<1>5. s \in Injection(1..n, S)
  BY <1>4 DEF Injection
<1>6. IsFiniteSet(1..n) /\ Cardinality(1..n) = n
  BY <1>1, FS_Interval
<1>7. s \in Surjection(1..n, S)
  BY <1>5, <1>6, FS_Injection DEF n
<1>8. \A x \in S : \E i \in DOMAIN s : s[i] = x
  BY <1>4, <1>7 DEF Surjection
<1>9. s \in Seq(S)
  BY <1>1, <1>4
<1> QED  BY <1>8, <1>9 DEF s

(* Functions that are defined by recursion over the natural numbers.       *)
Recurs(n, base, step, f) ==
  f[0] = base /\ \A k \in 1..n : f[k] = step[f[k - 1]]

LEMMA RecursionExists ==
  ASSUME NEW D, NEW base \in D, NEW step \in [D -> D]
  PROVE  \E f \in [Nat -> D] : f[0] = base /\ \A k \in Nat \ {0} : f[k] = step[f[k - 1]]
<1> DEFINE Upto(n) == \E f \in [0..n -> D] : Recurs(n, base, step, f)
           T == {n \in Nat : Upto(n)}
<1>1. 0 \in T
  <2>1. Recurs(0, base, step, [k \in 0..0 |-> base])
    BY DEF Recurs
  <2> QED  BY <2>1
<1>2. ASSUME NEW n \in Nat, n \in T  PROVE n + 1 \in T
  <2>1. PICK f \in [0..n -> D] : Recurs(n, base, step, f)
    BY <1>2
  <2> DEFINE g == [k \in 0..(n + 1) |-> IF k = n + 1 THEN step[f[n]] ELSE f[k]]
  <2>2. \A k \in 0..(n + 1) : k # n + 1 => k \in 0..n
    OBVIOUS
  <2>3. g \in [0..(n + 1) -> D]
    BY <2>2
  <2>4. g[0] = base
    BY <2>1 DEF Recurs
  <2>5. ASSUME NEW k \in 1..(n + 1)  PROVE g[k] = step[g[k - 1]]
    <3>1. CASE k = n + 1
      <4>1. k - 1 = n /\ n # n + 1 /\ n \in 0..(n + 1) /\ k \in 0..(n + 1)
        BY <3>1
      <4>2. g[k] = step[f[n]] /\ g[n] = f[n]
        BY <3>1, <4>1
      <4> QED  BY <4>1, <4>2
    <3>2. CASE k # n + 1
      <4>1. k \in 1..n /\ k - 1 # n + 1 /\ k \in 0..(n + 1) /\ k - 1 \in 0..(n + 1)
        BY <3>2
      <4>2. g[k] = f[k] /\ g[k - 1] = f[k - 1]
        BY <3>2, <4>1
      <4> QED  BY <2>1, <4>1, <4>2 DEF Recurs
    <3> QED  BY <3>1, <3>2
  <2> HIDE DEF g
  <2>6. Upto(n + 1)
    BY <2>3, <2>4, <2>5 DEF Recurs
  <2> QED  BY <2>6
<1> HIDE DEF T
<1>3. Nat \subseteq T
  BY <1>1, <1>2, Induction
<1>4. \A n \in Nat : Upto(n)
  BY <1>3 DEF T
<1> DEFINE h == [n \in Nat |-> CHOOSE f \in [0..n -> D] : Recurs(n, base, step, f)]
<1>5. \A n \in Nat : h[n] \in [0..n -> D] /\ Recurs(n, base, step, h[n])
  BY <1>4
<1> HIDE DEF h
<1>6. ASSUME NEW n \in Nat  PROVE \A k \in Nat : k <= n => h[n][k] = h[n + 1][k]
  <2> DEFINE S == {k \in Nat : k <= n => h[n][k] = h[n + 1][k]}
  <2>1. 0 \in S
    BY <1>5 DEF Recurs
  <2>2. ASSUME NEW k \in Nat, k \in S  PROVE k + 1 \in S
    <3> SUFFICES ASSUME k + 1 <= n  PROVE h[n][k + 1] = h[n + 1][k + 1]
      OBVIOUS
    <3>1. k + 1 \in 1..n /\ k + 1 \in 1..(n + 1) /\ (k + 1) - 1 = k /\ k <= n /\ n + 1 \in Nat
      OBVIOUS
    <3>2. h[n][k] = h[n + 1][k]
      BY <2>2, <3>1
    <3> HIDE DEF S
    <3>3. h[n][k + 1] = step[h[n][(k + 1) - 1]]
      BY <1>5, <3>1 DEF Recurs
    <3>4. h[n + 1][k + 1] = step[h[n + 1][(k + 1) - 1]]
      BY <1>5, <3>1 DEF Recurs
    <3> QED  BY <3>1, <3>2, <3>3, <3>4
  <2> HIDE DEF S
  <2>3. Nat \subseteq S
    BY <2>1, <2>2, Induction
  <2> QED  BY <2>3 DEF S
<1> DEFINE f == [n \in Nat |-> h[n][n]]
<1>7. f \in [Nat -> D]
  BY <1>5
<1>8. f[0] = base
  BY <1>5 DEF Recurs
<1>9. ASSUME NEW k \in Nat \ {0}  PROVE f[k] = step[f[k - 1]]
  <2>1. k - 1 \in Nat /\ k \in 1..k /\ (k - 1) + 1 = k
    OBVIOUS
  <2>2. h[k][k] = step[h[k][k - 1]]
    BY <1>5, <2>1 DEF Recurs
  <2>3. h[k - 1][k - 1] = h[k][k - 1]
    BY <1>6, <2>1
  <2> QED  BY <2>1, <2>2, <2>3
<1> HIDE DEF f
<1> QED  BY <1>7, <1>8, <1>9

(* What InsertAt, RemoveAt and Append keep of a sequence.                  *)
LEMMA InsertAtIs ==
  ASSUME NEW S, NEW s \in Seq(S), NEW p \in DOMAIN s, NEW e \in S
  PROVE  InsertAt(s, p, e) \in Seq(S) /\ ToSet(InsertAt(s, p, e)) \subseteq ToSet(s) \cup {e}
<1> DEFINE a == SubSeq(s, 1, p - 1)
           c == SubSeq(s, p, Len(s))
           r == a \o <<e>> \o c
<1>1. p \in 1..Len(s) /\ Len(s) \in Nat /\ DOMAIN s = 1..Len(s)
  OBVIOUS
<1>2. a \in Seq(S) /\ c \in Seq(S) /\ <<e>> \in Seq(S)
  BY <1>1
<1>3. Len(a) = p - 1 /\ Len(c) = Len(s) - p + 1 /\ Len(<<e>>) = 1
  BY <1>1
<1>4. /\ \A i \in 1..Len(a) : a[i] = s[i] /\ i \in DOMAIN s
      /\ \A i \in 1..Len(c) : c[i] = s[p + i - 1] /\ p + i - 1 \in DOMAIN s
  BY <1>1, <1>3
<1> DEFINE d == a \o <<e>>
<1>5. d \in Seq(S) /\ Len(d) = Len(a) + 1 /\ \A i \in 1..Len(d) : d[i] \in ToSet(s) \cup {e}
  <2>1. d \in Seq(S) /\ Len(d) = Len(a) + 1
        /\ \A i \in 1..Len(d) : d[i] = IF i <= Len(a) THEN a[i] ELSE e
    <3> HIDE DEF a
    <3> QED  BY <1>2, <1>3
  <2>2. \A i \in 1..Len(d) : i <= Len(a) => i \in 1..Len(a)
    <3> HIDE DEF a, d
    <3> QED  BY <1>2, <2>1
  <2> HIDE DEF a, d
  <2> QED  BY <1>4, <2>1, <2>2 DEF ToSet
<1> HIDE DEF a, c, d
<1> DEFINE q == d \o c
<1>6. q \in Seq(S) /\ Len(q) = Len(d) + Len(c)
      /\ \A i \in 1..Len(q) : q[i] = IF i <= Len(d) THEN d[i] ELSE c[i - Len(d)]
  <2>1. d \in Seq(S) /\ c \in Seq(S)
    BY <1>2, <1>5
  <2> QED  BY <2>1
<1>7. \A i \in 1..Len(q) : IF i <= Len(d) THEN i \in 1..Len(d) ELSE i - Len(d) \in 1..Len(c)
  <2>1. Len(d) \in Nat /\ Len(c) \in Nat
    BY <1>2, <1>5
  <2> HIDE DEF q
  <2> QED  BY <1>6, <2>1
<1> HIDE DEF q
<1>8. \A i \in 1..Len(q) : q[i] \in ToSet(s) \cup {e}
  <2>1. \A i \in 1..Len(c) : c[i] \in ToSet(s)
    BY <1>4 DEF ToSet
  <2> QED  BY <1>5, <1>6, <1>7, <2>1
<1>9. ToSet(q) \subseteq ToSet(s) \cup {e}
  <2>1. DOMAIN q = 1..Len(q)
    BY <1>6
  <2> QED  BY <1>8, <2>1 DEF ToSet
<1>10. InsertAt(s, p, e) = q
  BY DEF InsertAt, q, d, a, c
<1> QED  BY <1>6, <1>9, <1>10

LEMMA RemoveAtIs ==
  ASSUME NEW S, NEW s \in Seq(S), NEW p \in DOMAIN s
  PROVE  RemoveAt(s, p) \in Seq(S) /\ ToSet(RemoveAt(s, p)) \subseteq ToSet(s)
<1> DEFINE a == SubSeq(s, 1, p - 1)
           c == SubSeq(s, p + 1, Len(s))
<1>1. p \in 1..Len(s) /\ Len(s) \in Nat /\ DOMAIN s = 1..Len(s)
  OBVIOUS
<1>2. a \in Seq(S) /\ c \in Seq(S)
  BY <1>1
<1>3. Len(a) = p - 1 /\ Len(c) = Len(s) - p
  BY <1>1
<1>4. /\ \A i \in 1..Len(a) : a[i] = s[i] /\ i \in DOMAIN s
      /\ \A i \in 1..Len(c) : c[i] = s[p + i] /\ p + i \in DOMAIN s
  <2>1. \A i \in 1..Len(a) : a[i] = s[i] /\ i \in DOMAIN s
    BY <1>1, <1>3
  <2>2. \A i \in 1..Len(c) : p + i \in DOMAIN s
    BY <1>1, <1>3
  <2>3. \A i \in 1..Len(c) : c[i] = s[p + i]
    BY <1>1, <1>3, SMTT(30)
  <2> QED  BY <2>1, <2>2, <2>3
<1> HIDE DEF a, c
<1> DEFINE q == a \o c
<1>6. q \in Seq(S) /\ Len(q) = Len(a) + Len(c)
      /\ \A i \in 1..Len(q) : q[i] = IF i <= Len(a) THEN a[i] ELSE c[i - Len(a)]
  BY <1>2
<1>7. \A i \in 1..Len(q) : IF i <= Len(a) THEN i \in 1..Len(a) ELSE i - Len(a) \in 1..Len(c)
  <2>1. Len(a) \in Nat /\ Len(c) \in Nat
    BY <1>2
  <2> HIDE DEF q
  <2> QED  BY <1>6, <2>1
<1> HIDE DEF q
<1>8. \A i \in 1..Len(q) : q[i] \in ToSet(s)
  <2>1. /\ \A i \in 1..Len(c) : c[i] \in ToSet(s)
        /\ \A i \in 1..Len(a) : a[i] \in ToSet(s)
    BY <1>4 DEF ToSet
  <2> QED  BY <1>6, <1>7, <2>1
<1>9. ToSet(q) \subseteq ToSet(s)
  <2>1. DOMAIN q = 1..Len(q)
    BY <1>6
  <2> QED  BY <1>8, <2>1 DEF ToSet
<1>10. RemoveAt(s, p) = q
  BY DEF RemoveAt, q, a, c
<1> QED  BY <1>6, <1>9, <1>10

LEMMA AppendIs ==
  ASSUME NEW S, NEW s \in Seq(S), NEW e \in S
  PROVE  Append(s, e) \in Seq(S) /\ ToSet(Append(s, e)) \subseteq ToSet(s) \cup {e}
<1> DEFINE q == Append(s, e)
<1>1. q \in Seq(S) /\ Len(q) = Len(s) + 1 /\ Len(s) \in Nat
      /\ \A i \in 1..Len(q) : q[i] = IF i <= Len(s) THEN s[i] ELSE e
  OBVIOUS
<1> HIDE DEF q
<1>2. \A i \in 1..Len(q) : i <= Len(s) => i \in DOMAIN s
  BY <1>1
<1>3. DOMAIN q = 1..Len(q)
  BY <1>1
<1>4. ToSet(q) \subseteq ToSet(s) \cup {e}
  BY <1>1, <1>2, <1>3 DEF ToSet
<1> QED  BY <1>1, <1>4 DEF q

(* The first elements of a sequence, one more at a time.                   *)
LEMMA FirstOnes ==
  ASSUME NEW S, NEW s \in Seq(S)
  PROVE  /\ SubSeq(s, 1, 0) = <<>> /\ SubSeq(s, 1, Len(s)) = s
         /\ \A i \in 0..(Len(s) - 1) : /\ SubSeq(s, 1, i) \in Seq(S) /\ s[i + 1] \in S
                                       /\ SubSeq(s, 1, i + 1) = Append(SubSeq(s, 1, i), s[i + 1])
<1>1. SubSeq(s, 1, 0) = <<>> /\ Len(s) \in Nat /\ DOMAIN s = 1..Len(s)
  OBVIOUS
<1>2. SubSeq(s, 1, Len(s)) = s
  <2> DEFINE q == SubSeq(s, 1, Len(s))
  <2>1. q \in Seq(S) /\ Len(q) = Len(s) /\ \A k \in 1..Len(s) : q[k] = s[k]
    OBVIOUS
  <2>2. q = [k \in 1..Len(q) |-> q[k]] /\ s = [k \in 1..Len(s) |-> s[k]]
    OBVIOUS
  <2> HIDE DEF q
  <2> QED  BY <2>1, <2>2 DEF q
<1>3. ASSUME NEW i \in 0..(Len(s) - 1)
      PROVE  /\ SubSeq(s, 1, i) \in Seq(S) /\ s[i + 1] \in S
             /\ SubSeq(s, 1, i + 1) = Append(SubSeq(s, 1, i), s[i + 1])
  <2>1. i \in Nat /\ i + 1 \in 1..Len(s) /\ i <= Len(s)
    BY <1>1
  <2> DEFINE q == SubSeq(s, 1, i)
             q2 == SubSeq(s, 1, i + 1)
             e == s[i + 1]
  <2>2. e \in S
    BY <1>1, <2>1
  <2>3. q \in Seq(S) /\ Len(q) = i /\ \A k \in 1..i : q[k] = s[k]
    BY <1>1, <2>1
  <2>4. q2 \in Seq(S) /\ Len(q2) = i + 1 /\ \A k \in 1..(i + 1) : q2[k] = s[k]
    BY <1>1, <2>1
  <2> DEFINE a == Append(q, e)
  <2>5. a \in Seq(S) /\ Len(a) = i + 1 /\ \A k \in 1..(i + 1) : a[k] = IF k = i + 1 THEN e ELSE q[k]
    <3> HIDE DEF q, e
    <3> QED  BY <2>1, <2>2, <2>3
  <2>6. \A k \in 1..(i + 1) : k = i + 1 \/ k \in 1..i
    BY <2>1
  <2> HIDE DEF q, q2, a
  <2>7. \A k \in 1..(i + 1) : a[k] = q2[k]
    BY <2>3, <2>4, <2>5, <2>6
  <2>8. q2 = [k \in 1..Len(q2) |-> q2[k]] /\ a = [k \in 1..Len(a) |-> a[k]]
    BY <2>4, <2>5
  <2>9. q2 = a
    BY <2>4, <2>5, <2>7, <2>8
  <2> QED  BY <2>2, <2>3, <2>9 DEF q, q2, a
<1> QED  BY <1>1, <1>2, <1>3

(* Sequences are equal that have the same elements.                        *)
LEMMA SameSeq ==
  ASSUME NEW S, NEW a \in Seq(S), NEW b \in Seq(S), Len(a) = Len(b), \A i \in 1..Len(a) : a[i] = b[i]
  PROVE  a = b
<1>1. a = [i \in 1..Len(a) |-> a[i]] /\ b = [i \in 1..Len(b) |-> b[i]]
  OBVIOUS
<1> QED  BY <1>1

(* What Append and \o return.                                              *)
LEMMA AppendHas ==
  ASSUME NEW S, NEW s \in Seq(S), NEW e \in S
  PROVE  /\ Append(s, e) \in Seq(S) /\ Len(Append(s, e)) = Len(s) + 1
         /\ \A i \in 1..Len(s) : Append(s, e)[i] = s[i]
         /\ Append(s, e)[Len(s) + 1] = e
OBVIOUS

LEMMA JoinHas ==
  ASSUME NEW S, NEW a \in Seq(S), NEW b \in Seq(S)
  PROVE  /\ a \o b \in Seq(S) /\ Len(a \o b) = Len(a) + Len(b)
         /\ \A i \in 1..Len(a) : (a \o b)[i] = a[i]
         /\ \A i \in 1..Len(b) : (a \o b)[Len(a) + i] = b[i]
OBVIOUS

(* Sequences of one and two elements.                                      *)
LEMMA ShortOnes ==
  ASSUME NEW S, NEW p \in S, NEW e \in S
  PROVE  /\ <<p>> \in Seq(S) /\ Len(<<p>>) = 1 /\ <<p>>[1] = p
         /\ <<p, e>> \in Seq(S) /\ Len(<<p, e>>) = 2 /\ <<p, e>>[1] = p /\ <<p, e>>[2] = e
OBVIOUS

LEMMA ShortOnesAre ==
  ASSUME NEW S, NEW p \in S, NEW e \in S
  PROVE  /\ Append(<<>>, e) = <<e>> /\ Append(<<p>>, e) = <<p, e>>
         /\ SubSeq(<<p>>, 1, 0) = <<>> /\ SubSeq(<<p, e>>, 1, 1) = <<p>>
<1>1. /\ <<p>> \in Seq(S) /\ Len(<<p>>) = 1 /\ <<p>>[1] = p
      /\ <<e>> \in Seq(S) /\ Len(<<e>>) = 1 /\ <<e>>[1] = e
      /\ <<p, e>> \in Seq(S) /\ Len(<<p, e>>) = 2 /\ <<p, e>>[1] = p /\ <<p, e>>[2] = e
  BY ShortOnes
<1>2. ASSUME NEW a \in Seq(S), Len(a) = 0, NEW b \in Seq(S), Len(b) = 1, b[1] = e
      PROVE  Append(a, e) = b
  <2>1. Append(a, e) \in Seq(S) /\ Len(Append(a, e)) = 1 /\ Append(a, e)[1] = e
    BY <1>2
  <2> QED  BY <1>2, <2>1, SameSeq
<1>3. ASSUME NEW a \in Seq(S), Len(a) = 1, a[1] = p, NEW b \in Seq(S), Len(b) = 2, b[1] = p, b[2] = e
      PROVE  Append(a, e) = b /\ SubSeq(a, 1, 0) = <<>> /\ SubSeq(b, 1, 1) = a
  <2>1. Append(a, e) \in Seq(S) /\ Len(Append(a, e)) = 2 /\ Append(a, e)[1] = p /\ Append(a, e)[2] = e
    <3>1. 1 \in 1..Len(a) /\ Len(a) + 1 = 2
      BY <1>3
    <3> QED  BY <1>3, <3>1, AppendHas
  <2>2. Append(a, e) = b
    BY <1>3, <2>1, SameSeq
  <2>3. SubSeq(b, 1, 1) \in Seq(S) /\ Len(SubSeq(b, 1, 1)) = 1 /\ SubSeq(b, 1, 1)[1] = p
    BY <1>3
  <2>4. SubSeq(b, 1, 1) = a
    BY <1>3, <2>3, SameSeq
  <2> QED  BY <1>3, <2>2, <2>4
<1>4. <<>> \in Seq(S) /\ Len(<<>>) = 0
  OBVIOUS
<1> QED  BY <1>1, <1>2, <1>3, <1>4

LEMMA ShortEnds ==
  ASSUME NEW S, NEW p \in S, NEW e \in S
  PROVE  /\ Front(<<p>>) = <<>> /\ Last(<<p>>) = p
         /\ Front(<<p, e>>) = <<p>> /\ Last(<<p, e>>) = e
<1>1. Len(<<p>>) = 1 /\ <<p>>[1] = p /\ Len(<<p, e>>) = 2 /\ <<p, e>>[2] = e
  BY ShortOnes
<1>2. SubSeq(<<p>>, 1, 0) = <<>> /\ SubSeq(<<p, e>>, 1, 1) = <<p>>
  BY ShortOnesAre
<1>3. 1 - 1 = 0 /\ 2 - 1 = 1
  OBVIOUS
<1> QED  BY <1>1, <1>2, <1>3 DEF Front, Last

(* Three sequences one behind the other.                                   *)
LEMMA AroundIs ==
  ASSUME NEW S, NEW a \in Seq(S), NEW b \in Seq(S), NEW c \in Seq(S)
  PROVE  /\ a \o b \o c \in Seq(S) /\ Len(a \o b \o c) = Len(a) + Len(b) + Len(c)
         /\ \A i \in 1..Len(a) : (a \o b \o c)[i] = a[i]
         /\ \A i \in 1..Len(b) : (a \o b \o c)[Len(a) + i] = b[i]
         /\ \A i \in 1..Len(c) : (a \o b \o c)[Len(a) + Len(b) + i] = c[i]
<1> DEFINE d == a \o b
<1>1. /\ d \in Seq(S) /\ Len(d) = Len(a) + Len(b)
      /\ \A i \in 1..Len(a) : d[i] = a[i]
      /\ \A i \in 1..Len(b) : d[Len(a) + i] = b[i]
  BY JoinHas
<1>a. d \in Seq(S)
  BY <1>1
<1>2. d \o c = a \o b \o c
  OBVIOUS
<1> HIDE DEF d
<1>3. /\ d \o c \in Seq(S) /\ Len(d \o c) = Len(d) + Len(c)
      /\ \A i \in 1..Len(d) : (d \o c)[i] = d[i]
      /\ \A i \in 1..Len(c) : (d \o c)[Len(d) + i] = c[i]
  BY <1>a, JoinHas
<1>4. /\ Len(a) \in Nat /\ Len(b) \in Nat
      /\ \A i \in 1..Len(a) : i \in 1..Len(d)
      /\ \A i \in 1..Len(b) : Len(a) + i \in 1..Len(d)
  BY <1>1
<1> DEFINE e == d \o c
<1> HIDE DEF e
<1>5. /\ e \in Seq(S) /\ Len(e) = Len(a) + Len(b) + Len(c)
      /\ \A i \in 1..Len(a) : e[i] = a[i]
      /\ \A i \in 1..Len(b) : e[Len(a) + i] = b[i]
      /\ \A i \in 1..Len(c) : e[Len(a) + Len(b) + i] = c[i]
  BY <1>1, <1>3, <1>4 DEF e
<1> QED  BY <1>2, <1>5 DEF e

(* Joining is associative.                                                *)
LEMMA JoinAssociative ==
  ASSUME NEW S, NEW a \in Seq(S), NEW b \in Seq(S), NEW c \in Seq(S)
  PROVE  (a \o b) \o c = a \o (b \o c)
<1> DEFINE l == (a \o b) \o c
           d == b \o c
           r == a \o d
<1>1. /\ l \in Seq(S) /\ Len(l) = Len(a) + Len(b) + Len(c)
      /\ \A i \in 1..Len(a) : l[i] = a[i]
      /\ \A i \in 1..Len(b) : l[Len(a) + i] = b[i]
      /\ \A i \in 1..Len(c) : l[Len(a) + Len(b) + i] = c[i]
  BY AroundIs
<1>2. /\ d \in Seq(S) /\ Len(d) = Len(b) + Len(c)
      /\ \A i \in 1..Len(b) : d[i] = b[i]
      /\ \A i \in 1..Len(c) : d[Len(b) + i] = c[i]
  BY JoinHas
<1>3. Len(a) \in Nat /\ Len(b) \in Nat /\ Len(c) \in Nat /\ Len(d) \in Nat
  BY <1>2
<1> HIDE DEF d
<1>4. /\ r \in Seq(S) /\ Len(r) = Len(a) + Len(d)
      /\ \A i \in 1..Len(a) : r[i] = a[i]
      /\ \A i \in 1..Len(d) : r[Len(a) + i] = d[i]
  <2>1. d \in Seq(S)
    BY <1>2
  <2> QED  BY <2>1, JoinHas
<1> HIDE DEF l, r
<1>5. ASSUME NEW i \in 1..Len(l)  PROVE l[i] = r[i]
  <2>1. CASE i <= Len(a)
    <3>1. i \in 1..Len(a)
      BY <2>1
    <3> QED  BY <1>1, <1>4, <3>1
  <2>2. CASE i > Len(a) /\ i <= Len(a) + Len(b)
    <3> DEFINE j == i - Len(a)
    <3>1. j \in 1..Len(b) /\ j \in 1..Len(d) /\ i = Len(a) + j
      BY <1>2, <1>3, <2>2
    <3> HIDE DEF j
    <3> QED  BY <1>1, <1>2, <1>4, <3>1
  <2>3. CASE i > Len(a) + Len(b)
    <3> DEFINE j == i - (Len(a) + Len(b))
    <3>1. j \in 1..Len(c) /\ Len(b) + j \in 1..Len(d) /\ i = Len(a) + Len(b) + j
          /\ i = Len(a) + (Len(b) + j)
      BY <1>1, <1>2, <1>3, <2>3
    <3> HIDE DEF j
    <3>2. r[Len(a) + (Len(b) + j)] = d[Len(b) + j] /\ d[Len(b) + j] = c[j] /\ l[Len(a) + Len(b) + j] = c[j]
      BY <1>1, <1>2, <1>4, <3>1
    <3> QED  BY <3>1, <3>2
  <2> QED  BY <1>3, <2>1, <2>2, <2>3
<1>6. Len(l) = Len(r)
  BY <1>1, <1>2, <1>3, <1>4
<1>7. l = r
  BY <1>1, <1>4, <1>5, <1>6, SameSeq
<1> QED  BY <1>7 DEF l, r, d
=============================================================================
