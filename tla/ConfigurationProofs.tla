------------------------ MODULE ConfigurationProofs ------------------------
(***************************************************************************)
(* Proofs about TomlTree and Configuration, for every set of keys, every   *)
(* file and every program.  What the elements a program has made have in   *)
(* common stays, whatever it calls; from that follows what it reads in     *)
(* them.                                                                   *)
(*                                                                         *)
(* An element of a tree has a rank, which is more than that of every       *)
(* element in it.  With the rank there is an end to the recursion of clone *)
(* and of everything else that goes down a tree.                           *)
(***************************************************************************)
EXTENDS Configuration, SequenceLemmas

-----------------------------------------------------------------------------
(***************************************************************************)
(* Elements that are linked to each other: what is below one.              *)
(***************************************************************************)

(* Every element that is in one of h is one of h.                          *)
Linked(h) ==
  /\ h \in Seq(Element)
  /\ \A b \in DOMAIN h : Children(h, b) \subseteq DOMAIN h

(* These elements and those in them.                                       *)
Wider(h, S) == S \cup UNION {Children(h, c) : c \in S}

(* Below counts its steps.                                                 *)
LEMMA BelowSteps ==
  ASSUME NEW h, Linked(h), NEW b \in DOMAIN h
  PROVE  \E w \in [Nat -> SUBSET DOMAIN h] :
            /\ w[0] = {b} /\ Below(h, b) = w[Len(h)]
            /\ \A n \in Nat \ {0} : w[n] = Wider(h, w[n - 1])
<1> DEFINE U == DOMAIN h
           D == SUBSET U
           step == [S \in D |-> Wider(h, S)]
           Is(w) == w = [n \in Nat |-> IF n = 0 THEN {b} ELSE Wider(h, w[n - 1])]
           within == CHOOSE w : Is(w)
<1>1. Below(h, b) = within[Len(h)]
  BY DEF Below, Wider
<1>2. \A c \in U : Children(h, c) \subseteq U
  BY DEF Linked
<1>3. step \in [D -> D]
  <2>1. \A S \in D : Wider(h, S) \in D
    BY <1>2 DEF Wider
  <2> HIDE DEF D
  <2> QED  BY <2>1
<1>4. {b} \in D
  OBVIOUS
<1> HIDE DEF D, U, within
<1>5. PICK f \in [Nat -> D] : f[0] = {b} /\ \A k \in Nat \ {0} : f[k] = step[f[k - 1]]
  <2> HIDE DEF step, Is
  <2> QED  BY <1>3, <1>4, RecursionExists, SMTT(30)
<1>6. \A k \in Nat \ {0} : k - 1 \in Nat /\ f[k] = Wider(h, f[k - 1])
  <2>1. \A k \in Nat \ {0} : k - 1 \in Nat
    OBVIOUS
  <2>2. \A k \in Nat \ {0} : f[k - 1] \in D
    BY <1>5, <2>1
  <2> QED  BY <1>5, <2>1, <2>2
<1>7. Is(f)
  <2> DEFINE rhs == [n \in Nat |-> IF n = 0 THEN {b} ELSE Wider(h, f[n - 1])]
  <2>1. \A n \in Nat : f[n] = rhs[n]
    BY <1>5, <1>6
  <2>2. f = [n \in Nat |-> f[n]]
    BY <1>5
  <2> QED  BY <2>1, <2>2
<1>8. Is(within)
  BY <1>7 DEF within
<1>9. within[0] = {b} /\ \A k \in Nat \ {0} : within[k] = Wider(h, within[k - 1])
  BY <1>8
<1>10. \A n \in Nat : within[n] = f[n]
  <2> DEFINE T == {n \in Nat : within[n] = f[n]}
  <2>1. 0 \in T
    BY <1>5, <1>9
  <2>2. ASSUME NEW n \in Nat, n \in T  PROVE n + 1 \in T
    <3>1. n + 1 \in Nat \ {0} /\ (n + 1) - 1 = n
      OBVIOUS
    <3>2. within[n + 1] = Wider(h, within[(n + 1) - 1]) /\ f[n + 1] = Wider(h, f[(n + 1) - 1])
      BY <1>6, <1>9, <3>1
    <3> QED  BY <2>2, <3>1, <3>2
  <2> HIDE DEF T
  <2>3. Nat \subseteq T
    BY <2>1, <2>2, Induction
  <2> QED  BY <2>3 DEF T
<1>11. Len(h) \in Nat
  BY DEF Linked
<1> QED  BY <1>1, <1>5, <1>6, <1>10, <1>11 DEF D, U

(* What is below an element: itself, all that is in one of them, and no    *)
(* more.                                                                   *)
LEMMA BelowIs ==
  ASSUME NEW h, Linked(h), NEW b \in DOMAIN h
  PROVE  /\ b \in Below(h, b) /\ Below(h, b) \subseteq DOMAIN h
         /\ \A c \in Below(h, b) : Children(h, c) \subseteq Below(h, b)
         /\ \A S : b \in S /\ (\A c \in S \cap DOMAIN h : Children(h, c) \subseteq S) => Below(h, b) \subseteq S
<1>1. PICK w \in [Nat -> SUBSET DOMAIN h] :
            /\ w[0] = {b} /\ Below(h, b) = w[Len(h)]
            /\ \A n \in Nat \ {0} : w[n] = Wider(h, w[n - 1])
  BY BelowSteps, SMTT(30)
<1>2. \A n \in Nat : w[n] \subseteq DOMAIN h /\ w[n + 1] = Wider(h, w[n])
  <2> SUFFICES ASSUME NEW n \in Nat  PROVE w[n + 1] = Wider(h, w[n])
    BY <1>1
  <2>1. n + 1 \in Nat \ {0} /\ (n + 1) - 1 = n
    OBVIOUS
  <2> QED  BY <1>1, <2>1
<1>3. Len(h) \in Nat /\ DOMAIN h = 1..Len(h)
  BY DEF Linked
<1>4. ASSUME NEW S, b \in S, \A c \in S \cap DOMAIN h : Children(h, c) \subseteq S
      PROVE  Below(h, b) \subseteq S
  <2> DEFINE T == {n \in Nat : w[n] \subseteq S}
  <2>1. 0 \in T
    BY <1>1, <1>4
  <2>2. ASSUME NEW n \in Nat, n \in T  PROVE n + 1 \in T
    BY <1>2, <1>4, <2>2 DEF Wider
  <2> HIDE DEF T
  <2>3. Nat \subseteq T
    BY <2>1, <2>2, Induction
  <2> QED  BY <1>1, <1>3, <2>3 DEF T
<1>5. b \in w[Len(h)]
  <2> DEFINE T == {n \in Nat : b \in w[n]}
  <2>1. 0 \in T
    BY <1>1
  <2>2. ASSUME NEW n \in Nat, n \in T  PROVE n + 1 \in T
    BY <1>2, <2>2 DEF Wider
  <2> HIDE DEF T
  <2>3. Nat \subseteq T
    BY <2>1, <2>2, Induction
  <2> QED  BY <1>3, <2>3 DEF T
<1>6. IsFiniteSet(DOMAIN h) /\ Cardinality(DOMAIN h) = Len(h)
  <2>1. \A n \in Nat : IsFiniteSet(1..n) /\ Cardinality(1..n) = n
    BY FS_Interval
  <2> QED  BY <1>3, <2>1
<1>7. \A n \in Nat : IsFiniteSet(w[n]) /\ Cardinality(w[n]) \in Nat
  BY <1>2, <1>6, FS_Subset, FS_CardinalityType
<1> DEFINE Still(n) == \E m \in 0..n : Wider(h, w[m]) = w[m]
<1>8. \A n \in Nat : Still(n) \/ Cardinality(w[n]) >= n + 1
  <2> DEFINE T == {n \in Nat : Still(n) \/ Cardinality(w[n]) >= n + 1}
  <2>1. 0 \in T
    <3>1. Cardinality(w[0]) = 1
      BY <1>1, FS_Singleton
    <3> QED  BY <3>1
  <2>2. ASSUME NEW n \in Nat, n \in T  PROVE n + 1 \in T
    <3>1. CASE Still(n)
      <4>1. Still(n + 1)
        BY <3>1
      <4> QED  BY <4>1
    <3>2. CASE ~ Still(n)
      <4>1. Wider(h, w[n]) # w[n] /\ Cardinality(w[n]) >= n + 1
        BY <2>2, <3>2
      <4>2. w[n] \subseteq w[n + 1] /\ w[n + 1] # w[n] /\ n + 1 \in Nat
        BY <1>2, <4>1 DEF Wider
      <4>3. Cardinality(w[n]) <= Cardinality(w[n + 1]) /\ Cardinality(w[n]) # Cardinality(w[n + 1])
        BY <1>7, <4>2, FS_Subset
      <4>4. Cardinality(w[n + 1]) >= (n + 1) + 1
        BY <1>7, <4>1, <4>2, <4>3
      <4> QED  BY <4>2, <4>4
    <3> QED  BY <3>1, <3>2
  <2> HIDE DEF T
  <2>3. Nat \subseteq T
    BY <2>1, <2>2, Induction
  <2> QED  BY <2>3 DEF T
<1>9. Still(Len(h))
  <2>1. Cardinality(w[Len(h)]) <= Len(h)
    BY <1>2, <1>3, <1>6, FS_Subset, SMTT(30)
  <2>2. ~ (Cardinality(w[Len(h)]) >= Len(h) + 1)
    <3> DEFINE c == Cardinality(w[Len(h)])
               l == Len(h)
    <3>1. c \in Nat /\ l \in Nat /\ c <= l
      BY <1>3, <1>7, <2>1
    <3> HIDE DEF c, l
    <3>2. ~ (c >= l + 1)
      BY <3>1
    <3> QED  BY <3>2 DEF c, l
  <2> HIDE DEF Still
  <2> QED  BY <1>3, <1>8, <2>2
<1>10. PICK m \in 0..Len(h) : Wider(h, w[m]) = w[m]
  BY <1>9
<1>11. w[Len(h)] = w[m]
  <2> DEFINE T == {n \in Nat : w[m + n] = w[m]}
  <2>1. 0 \in T
    BY <1>3, <1>10
  <2>2. ASSUME NEW n \in Nat, n \in T  PROVE n + 1 \in T
    <3>1. m + n \in Nat /\ m + (n + 1) = (m + n) + 1
      BY <1>3
    <3>2. w[m + (n + 1)] = Wider(h, w[m + n])
      BY <1>2, <3>1
    <3> QED  BY <1>10, <2>2, <3>2
  <2> HIDE DEF T
  <2>3. Nat \subseteq T
    BY <2>1, <2>2, Induction
  <2>4. Len(h) - m \in Nat /\ m + (Len(h) - m) = Len(h)
    BY <1>3, <1>10
  <2>5. w[m + (Len(h) - m)] = w[m]
    BY <2>3, <2>4 DEF T
  <2> QED  BY <2>4, <2>5
<1>12. \A c \in w[m] : Children(h, c) \subseteq w[m]
  BY <1>10 DEF Wider
<1>13. Below(h, b) = w[m] /\ w[m] \subseteq DOMAIN h
  <2>1. m \in Nat
    BY <1>3, <1>10
  <2> QED  BY <1>1, <1>2, <1>11, <2>1
<1> QED  BY <1>4, <1>5, <1>11, <1>12, <1>13

-----------------------------------------------------------------------------
(***************************************************************************)
(* Trees: what is in an element ranks below it.                            *)
(***************************************************************************)

(* A rank under which what is in an element of S ranks below it, in S.     *)
Ranks(h, S, rank) ==
  \A b \in S : /\ rank[b] \in Nat
               /\ \A c \in Children(h, b) : c \in S /\ rank[c] < rank[b]

(* What is in a tree has a rank: how many are below it.                    *)
LEMMA TreeIsRanked ==
  ASSUME NEW h, Linked(h), NEW t \in DOMAIN h, IsTree(h, t)
  PROVE  \E rank : Ranks(h, Below(h, t), rank) /\ rank[t] \in Nat /\ rank[t] <= Len(h)
<1> DEFINE rank == [b \in DOMAIN h |-> Cardinality(Below(h, b))]
<1>1. IsFiniteSet(DOMAIN h) /\ Cardinality(DOMAIN h) = Len(h)
  <2>1. \A n \in Nat : IsFiniteSet(1..n) /\ Cardinality(1..n) = n
    BY FS_Interval
  <2>2. Len(h) \in Nat /\ DOMAIN h = 1..Len(h)
    BY DEF Linked
  <2> QED  BY <2>1, <2>2
<1>2. \A b \in DOMAIN h : Below(h, b) \subseteq DOMAIN h
  BY BelowIs
<1>3. \A b \in DOMAIN h : IsFiniteSet(Below(h, b)) /\ rank[b] \in Nat /\ rank[b] <= Len(h)
  BY <1>1, <1>2, FS_Subset, FS_CardinalityType
<1>4. ASSUME NEW b \in Below(h, t), NEW c \in Children(h, b)  PROVE c \in Below(h, t) /\ rank[c] < rank[b]
  <2>0. b \in DOMAIN h
    BY <1>2
  <2>1. c \in DOMAIN h /\ c \in Below(h, t)
    BY <2>0, BelowIs DEF Linked
  <2>2. b \in Below(h, b) /\ Children(h, b) \subseteq Below(h, b)
        /\ \A x \in Below(h, b) : Children(h, x) \subseteq Below(h, b)
    BY <2>0, BelowIs
  <2>3. Below(h, c) \subseteq Below(h, b)
    BY <2>1, <2>2, BelowIs
  <2>4. b \notin Below(h, c)
    BY DEF IsTree
  <2>5. Cardinality(Below(h, c)) <= Cardinality(Below(h, b)) /\ Cardinality(Below(h, c)) # Cardinality(Below(h, b))
    BY <1>3, <2>0, <2>2, <2>3, <2>4, FS_Subset
  <2> QED  BY <1>3, <2>0, <2>1, <2>5
<1> HIDE DEF rank
<1>5. Ranks(h, Below(h, t), rank)
  BY <1>2, <1>3, <1>4 DEF Ranks
<1> QED  BY <1>3, <1>5

(* What the elements of an array have in common.                           *)
Whole(h, S) ==
  \/ \A x \in S : h[x].is \in {"array", "static"}
  \/ \E T \in ValueType : \A x \in S : as_type(h, T, x) # {}

(* Which values can be had as which type.                                  *)
LEMMA AsIs ==
  ASSUME NEW h, NEW T, NEW x
  PROVE  as_type(h, T, x) # {} <=> h[x].type = T \/ (T = "double" /\ h[x].type = "int")
<1>1. CASE h[x].type = T
  BY <1>1 DEF as_type
<1>2. CASE h[x].type # T /\ T = "double" /\ h[x].type = "int"
  BY <1>2 DEF as_type
<1>3. CASE h[x].type # T /\ ~ (T = "double" /\ h[x].type = "int")
  BY <1>3 DEF as_type
<1> QED  BY <1>1, <1>2, <1>3

(* ReadsWhole and HoldsTables are about the elements of an array only.     *)
LEMMA ReadsWholeIs ==
  ASSUME NEW h, Linked(h), NEW a \in DOMAIN h
  PROVE  HoldsTables(h, a) \/ ReadsWhole(h, a) <=> Whole(h, ToSet(h[a].array_))
<1> DEFINE s == h[a].array_
<1>1. \A i \in DOMAIN s : s[i] \in DOMAIN h /\ s[i] # Null
  <2>1. DOMAIN h = 1..Len(h) /\ Children(h, a) \subseteq DOMAIN h
    BY DEF Linked
  <2>2. \A i \in DOMAIN s : s[i] \in Children(h, a)
    BY DEF Children, ToSet
  <2> HIDE DEF s
  <2>3. Null \notin DOMAIN h
    BY <2>1 DEF Null
  <2> QED  BY <2>1, <2>2, <2>3
<1>2. get_array_of_array(h, a) # {} <=> \A i \in DOMAIN s : h[s[i]].is = "array"
  <2>1. \A i \in DOMAIN s : nested_array(h, a)[i] = Null <=> h[s[i]].is # "array"
    BY <1>1 DEF nested_array
  <2> QED  BY <2>1 DEF get_array_of_array
<1>3. ASSUME NEW T  PROVE get_array_of(h, T, a) # {} <=> \A i \in DOMAIN s : as_type(h, T, s[i]) # {}
  <2>1. \A i \in DOMAIN s : array_of(h, T, a)[i] = as_type(h, T, s[i])
    BY DEF array_of
  <2> HIDE DEF s
  <2>2. CASE \E i \in DOMAIN s : array_of(h, T, a)[i] = {}
    BY <2>1, <2>2 DEF get_array_of, s
  <2>3. CASE ~ \E i \in DOMAIN s : array_of(h, T, a)[i] = {}
    <3>1. get_array_of(h, T, a) # {}
      BY <2>3 DEF get_array_of, s
    <3> QED  BY <2>1, <2>3, <3>1
  <2> QED  BY <2>2, <2>3
<1>4. Whole(h, ToSet(s)) <=> \/ \A i \in DOMAIN s : h[s[i]].is \in {"array", "static"}
                             \/ \E T \in ValueType : \A i \in DOMAIN s : as_type(h, T, s[i]) # {}
  <2> HIDE DEF s
  <2> QED  BY DEF Whole, ToSet
<1>6. HoldsTables(h, a) <=> /\ \A i \in DOMAIN s : h[s[i]].is \in {"array", "static"}
                            /\ \E i \in DOMAIN s : h[s[i]].is = "static"
  BY DEF HoldsTables, ToSet
<1> HIDE DEF s
<1>5. (\E T \in ValueType : get_array_of(h, T, a) # {}) <=>
        \E T \in ValueType : \A i \in DOMAIN s : as_type(h, T, s[i]) # {}
  BY <1>3
<1>7. (HoldsTables(h, a) \/ \A i \in DOMAIN s : h[s[i]].is = "array") <=>
        \A i \in DOMAIN s : h[s[i]].is \in {"array", "static"}
  BY <1>6
<1> QED  BY <1>2, <1>4, <1>5, <1>7 DEF ReadsWhole, s

(* The parts of WellFormed.                                                *)
LEMMA WellFormedIs ==
  ASSUME NEW h
  PROVE  WellFormed(h) <=>
           /\ Linked(h)
           /\ \A b \in DOMAIN h : h[b].is = "value" <=> h[b].type \in ValueType
           /\ \A b \in DOMAIN h : h[b].is = "array" => Whole(h, ToSet(h[b].array_))
<1>1. WellFormed(h) => Linked(h)
  BY DEF WellFormed, Linked
<1>2. Linked(h) => \A b \in DOMAIN h :
                     HoldsTables(h, b) \/ ReadsWhole(h, b) <=> Whole(h, ToSet(h[b].array_))
  BY ReadsWholeIs
<1> QED  BY <1>1, <1>2 DEF WellFormed, Linked

-----------------------------------------------------------------------------
(***************************************************************************)
(* What the calls of a program keep.                                       *)
(***************************************************************************)

(* What is in an element by itself.                                        *)
ChildrenOf(o) == ToSet(o.array_) \cup {o.map_[key] : key \in {k \in Key : o.map_[k] # Null}}

(* Children looks at one element only.                                     *)
LEMMA ChildrenAre ==
  ASSUME NEW h, NEW b
  PROVE  Children(h, b) = ChildrenOf(h[b])
BY DEF Children, ChildrenOf, contains

(* Elements of one type can be had as the same ones.                       *)
LEMMA AsOfType ==
  ASSUME NEW h, NEW h2, NEW T, NEW x, NEW y, h2[y].type = h[x].type, as_type(h, T, x) # {}
  PROVE  as_type(h2, T, y) # {}
<1>1. h[x].type = T \/ (T = "double" /\ h[x].type = "int")
  BY AsIs
<1>2. h2[y].type = T \/ (T = "double" /\ h2[y].type = "int")
  BY <1>1
<1> QED  BY <1>2, AsIs

(* Whether elements can be read as a whole depends on what they are.       *)
LEMMA WholeStays ==
  ASSUME NEW h, NEW h2, NEW S, NEW S2, Whole(h, S),
         \A y \in S2 : \E x \in S : h2[y].is = h[x].is /\ h2[y].type = h[x].type
  PROVE  Whole(h2, S2)
<1>1. CASE \A x \in S : h[x].is \in {"array", "static"}
  BY <1>1 DEF Whole
<1>2. ASSUME NEW T \in ValueType, \A x \in S : as_type(h, T, x) # {}
      PROVE  \A y \in S2 : as_type(h2, T, y) # {}
  <2> TAKE y \in S2
  <2>1. PICK x \in S : h2[y].is = h[x].is /\ h2[y].type = h[x].type
    OBVIOUS
  <2>2. as_type(h, T, x) # {}
    BY <1>2
  <2> QED  BY <2>1, <2>2, AsOfType
<1> QED  BY <1>1, <1>2 DEF Whole

(* A new element, which has none in it.                                    *)
LEMMA MadeKeepsForm ==
  ASSUME NEW h, WellFormed(h), NEW o \in Element, ChildrenOf(o) = {},
         o.is = "value" <=> o.type \in ValueType
  PROVE  WellFormed(Append(h, o))
<1> DEFINE h2 == Append(h, o)
           n == Len(h) + 1
<1>1. /\ Linked(h)
      /\ \A b \in DOMAIN h : h[b].is = "value" <=> h[b].type \in ValueType
      /\ \A b \in DOMAIN h : h[b].is = "array" => Whole(h, ToSet(h[b].array_))
  BY WellFormedIs
<1>2. h \in Seq(Element) /\ h2 \in Seq(Element)
  BY <1>1 DEF Linked
<1>3. /\ DOMAIN h2 = DOMAIN h \cup {n} /\ n \notin DOMAIN h
      /\ h2[n] = o /\ \A b \in DOMAIN h : h2[b] = h[b]
  BY <1>2
<1> HIDE DEF h2, n
<1>4. /\ \A b \in DOMAIN h : Children(h2, b) = Children(h, b)
      /\ Children(h2, n) = {}
  BY <1>3, ChildrenAre
<1>5. Linked(h2)
  BY <1>1, <1>2, <1>3, <1>4 DEF Linked
<1>9. \A b \in DOMAIN h2 : h2[b].is = "value" <=> h2[b].type \in ValueType
  BY <1>1, <1>3
<1>10. ASSUME NEW b \in DOMAIN h2, h2[b].is = "array"  PROVE Whole(h2, ToSet(h2[b].array_))
  <2>1. CASE b = n
    <3>1. ToSet(h2[b].array_) = {}
      BY <1>3, <2>1 DEF ChildrenOf
    <3> QED  BY <3>1 DEF Whole
  <2>2. CASE b # n
    <3>1. b \in DOMAIN h /\ h2[b] = h[b]
      BY <1>3, <2>2
    <3>2. ToSet(h[b].array_) \subseteq DOMAIN h
      BY <1>1, <3>1 DEF Linked, Children
    <3>3. Whole(h, ToSet(h[b].array_))
      BY <1>1, <1>10, <3>1
    <3>4. \A y \in ToSet(h[b].array_) : h2[y] = h[y]
      BY <1>3, <3>2
    <3> QED  BY <3>1, <3>3, <3>4, WholeStays
  <2> QED  BY <2>1, <2>2
<1>11. WellFormed(h2)
  BY <1>5, <1>9, <1>10, WellFormedIs
<1> QED  BY <1>11 DEF h2

(* An element t that has, at most, one more element b in it than before.   *)
LEMMA ChangeKeepsForm ==
  ASSUME NEW h, WellFormed(h), NEW t \in DOMAIN h, NEW o \in Element,
         o.is = h[t].is, o.type = h[t].type,
         NEW b,
         ChildrenOf(o) \subseteq Children(h, t) \cup ({b} \cap DOMAIN h),
         o.is = "array" => Whole(h, ToSet(o.array_))
  PROVE  WellFormed([h EXCEPT ![t] = o])
<1> DEFINE h2 == [h EXCEPT ![t] = o]
<1>1. /\ Linked(h)
      /\ \A x \in DOMAIN h : h[x].is = "value" <=> h[x].type \in ValueType
      /\ \A x \in DOMAIN h : h[x].is = "array" => Whole(h, ToSet(h[x].array_))
  BY WellFormedIs
<1>2. h \in Seq(Element) /\ h2 \in Seq(Element)
  BY <1>1 DEF Linked
<1>3. DOMAIN h2 = DOMAIN h /\ h2[t] = o /\ \A x \in DOMAIN h : x # t => h2[x] = h[x]
  BY <1>2
<1> HIDE DEF h2
<1>4. \A x \in DOMAIN h : h2[x].is = h[x].is /\ h2[x].type = h[x].type
  BY <1>3
<1>5. ASSUME NEW x \in DOMAIN h, NEW c \in Children(h2, x)
      PROVE  c \in Children(h, x) \/ (x = t /\ c = b /\ b \in DOMAIN h)
  BY <1>3, <1>5, ChildrenAre
<1>6. Linked(h2)
  <2>1. ASSUME NEW x \in DOMAIN h2  PROVE Children(h2, x) \subseteq DOMAIN h2
    BY <1>1, <1>3, <1>5 DEF Linked
  <2> QED  BY <1>2, <2>1 DEF Linked
<1>11. \A x \in DOMAIN h2 : h2[x].is = "value" <=> h2[x].type \in ValueType
  BY <1>1, <1>3, <1>4
<1>12. ASSUME NEW x \in DOMAIN h2, h2[x].is = "array"  PROVE Whole(h2, ToSet(h2[x].array_))
  <2>1. x \in DOMAIN h /\ h[x].is = "array"
    BY <1>3, <1>4, <1>12
  <2>2. Whole(h, ToSet(h2[x].array_))
    BY <1>1, <1>3, <1>12, <2>1
  <2>3. ToSet(h2[x].array_) \subseteq DOMAIN h
    BY <1>3, <1>6, <2>1, ChildrenAre DEF Linked, ChildrenOf
  <2> QED  BY <1>4, <2>2, <2>3, WholeStays
<1>13. WellFormed(h2)
  BY <1>6, <1>11, <1>12, WellFormedIs
<1> QED  BY <1>13 DEF h2

(* A value or a table of another element of a table.                       *)
LEMMA PutKeepsForm ==
  ASSUME NEW h, WellFormed(h), NEW t \in DOMAIN h, h[t].is = "table", NEW key \in Key, NEW b \in Nat,
         b \in DOMAIN h \/ b = Null
  PROVE  WellFormed([h EXCEPT ![t].map_[key] = b])
<1> DEFINE o == [h[t] EXCEPT !.map_[key] = b]
<1>1. h[t] \in Element
  BY DEF WellFormed
<1>2. o \in Element /\ o.is = h[t].is /\ o.type = h[t].type /\ o.array_ = h[t].array_
      /\ o.map_[key] = b /\ \A k \in Key : k # key => o.map_[k] = h[t].map_[k]
  BY <1>1 DEF Element
<1> HIDE DEF o
<1>3. ChildrenOf(o) \subseteq Children(h, t) \cup ({b} \cap DOMAIN h)
  BY <1>2, ChildrenAre DEF ChildrenOf
<1>4. o.is # "array"
  BY <1>2
<1>5. WellFormed([h EXCEPT ![t] = o])
  BY <1>2, <1>3, <1>4, ChangeKeepsForm
<1> QED  BY <1>5 DEF o

(* An array with elements it had, and perhaps one more.                    *)
LEMMA ArrayKeepsForm ==
  ASSUME NEW h, WellFormed(h), NEW a \in DOMAIN h, NEW s \in Seq(Nat), NEW b,
         ToSet(s) \subseteq ToSet(h[a].array_) \cup ({b} \cap DOMAIN h),
         h[a].is = "array" => Whole(h, ToSet(s))
  PROVE  WellFormed([h EXCEPT ![a].array_ = s])
<1> DEFINE o == [h[a] EXCEPT !.array_ = s]
<1>1. h[a] \in Element
  BY DEF WellFormed
<1>2. o \in Element /\ o.is = h[a].is /\ o.type = h[a].type /\ o.array_ = s /\ o.map_ = h[a].map_
  BY <1>1 DEF Element
<1> HIDE DEF o
<1>3. ChildrenOf(o) \subseteq Children(h, a) \cup ({b} \cap DOMAIN h)
  BY <1>2, ChildrenAre DEF ChildrenOf
<1>4. WellFormed([h EXCEPT ![a] = o])
  BY <1>2, <1>3, ChangeKeepsForm
<1> QED  BY <1>4 DEF o

(* What an array takes can be read with what is in it.                     *)
LEMMA TakenIsWhole ==
  ASSUME WellFormed(heap), NEW a \in DOMAIN heap, NEW b \in DOMAIN heap,
         heap[a].is = "array", TakesElement(a, b)
  PROVE  Whole(heap, ToSet(heap[a].array_) \cup {b})
<1> DEFINE s == heap[a].array_
           S == ToSet(s)
<1>1. Whole(heap, S) /\ (heap[b].is = "value" <=> heap[b].type \in ValueType) /\ s \in Seq(Nat)
  <2>1. heap[a] \in Element
    BY DEF WellFormed
  <2> QED  BY <2>1, WellFormedIs DEF Element
<1>2. CASE s = <<>>
  <2>1. S = {} /\ heap[b].is \in {"value", "array"}
    BY <1>2 DEF TakesElement, ToSet
  <2>2. CASE heap[b].is = "array"
    BY <2>1, <2>2 DEF Whole
  <2>3. CASE heap[b].is = "value"
    <3>1. heap[b].type \in ValueType
      BY <1>1, <2>3
    <3>2. as_type(heap, heap[b].type, b) # {}
      BY AsIs
    <3> QED  BY <2>1, <3>1, <3>2 DEF Whole
  <2> QED  BY <2>1, <2>2, <2>3
<1>3. CASE s # <<>>
  <2> DEFINE front == s[1]
  <2>1. front \in S
    BY <1>1, <1>3 DEF ToSet
  <2>2. CASE heap[b].is = "value"
    <3>1. as_type(heap, heap[b].type, front) # {} /\ heap[b].type \in ValueType
      BY <1>1, <1>3, <2>2 DEF TakesElement
    <3>2. heap[front].type = heap[b].type \/ (heap[b].type = "double" /\ heap[front].type = "int")
      BY <3>1, AsIs
    <3>3. heap[front].type \in ValueType
      BY <3>1, <3>2 DEF ValueType
    <3>4. heap[front].is \notin {"array", "static"}
      <4>1. front \in DOMAIN heap
        BY <2>1, WellFormedIs DEF Linked, Children
      <4>2. heap[front].is = "value"
        BY <3>3, <4>1, WellFormedIs
      <4> QED  BY <4>2
    <3> HIDE DEF s, S, front
    <3>5. PICK T \in ValueType : \A x \in S : as_type(heap, T, x) # {}
      BY <1>1, <2>1, <3>4 DEF Whole
    <3>6. heap[front].type = T \/ (T = "double" /\ heap[front].type = "int")
      BY <2>1, <3>5, AsIs
    <3>7. CASE heap[b].type = heap[front].type
      <4>1. as_type(heap, T, b) # {}
        BY <3>6, <3>7, AsIs
      <4> QED  BY <3>5, <4>1 DEF Whole, S, s
    <3>8. CASE heap[b].type = "double" /\ heap[front].type = "int"
      <4>1. as_type(heap, "double", b) # {}
        BY <3>8, AsIs
      <4>2. T \in {"int", "double"}
        BY <3>6, <3>8
      <4>3. ASSUME NEW x \in S  PROVE as_type(heap, "double", x) # {}
        <5>1. heap[x].type = T \/ (T = "double" /\ heap[x].type = "int")
          BY <3>5, AsIs
        <5> QED  BY <4>2, <5>1, AsIs
      <4>4. "double" \in ValueType
        BY DEF ValueType
      <4> QED  BY <4>1, <4>3, <4>4 DEF Whole, S, s
    <3> QED  BY <3>2, <3>7, <3>8
  <2>3. CASE heap[b].is # "value"
    <3>1. heap[b].is = "array" /\ heap[front].is = "array"
      BY <1>3, <2>3 DEF TakesElement
    <3>2. heap[front].type \notin ValueType
      <4>1. front \in DOMAIN heap
        BY <2>1, WellFormedIs DEF Linked, Children
      <4> QED  BY <3>1, <4>1, WellFormedIs
    <3> HIDE DEF s, S, front
    <3>3. ~ \E T \in ValueType : \A x \in S : as_type(heap, T, x) # {}
      <4> SUFFICES ASSUME NEW T \in ValueType, as_type(heap, T, front) # {}  PROVE FALSE
        BY <2>1
      <4>1. heap[front].type = T \/ (T = "double" /\ heap[front].type = "int")
        BY AsIs
      <4> QED  BY <3>2, <4>1 DEF ValueType
    <3>4. \A x \in S : heap[x].is \in {"array", "static"}
      BY <1>1, <3>3 DEF Whole
    <3> QED  BY <3>1, <3>4 DEF Whole, S, s
  <2> QED  BY <2>2, <2>3
<1> QED  BY <1>2, <1>3

-----------------------------------------------------------------------------
(***************************************************************************)
(* clone: what CloneTo computes, one depth after the other.                *)
(***************************************************************************)

(* What CloneTo computes, step by step, and that it exists.                *)
Level(n, deeper) ==
  [of \in Seq(Element) \X Nat |->
     IF n = 0 THEN Copied(of[1], of[1][of[2]]) ELSE CloneOne(deeper, of[1], of[2])]

Leveled(n, f) == f[0] = Level(0, <<>>) /\ \A k \in 1..n : f[k] = Level(k, f[k - 1])

(* The first n depths of CloneTo exist.                                    *)
LEMMA LeveledExists ==
  ASSUME NEW n \in Nat
  PROVE  \E f : Leveled(n, f)
<1> DEFINE T == {k \in Nat : \E f : Leveled(k, f)}
<1>1. 0 \in T
  <2>1. Leveled(0, [k \in 0..0 |-> Level(0, <<>>)])
    BY DEF Leveled
  <2> QED  BY <2>1
<1>2. ASSUME NEW m \in Nat, m \in T  PROVE m + 1 \in T
  <2>1. PICK f : Leveled(m, f)
    BY <1>2
  <2> DEFINE g == [k \in 0..(m + 1) |-> IF k = m + 1 THEN Level(m + 1, f[m]) ELSE f[k]]
  <2>2. g[0] = Level(0, <<>>)
    BY <2>1 DEF Leveled
  <2>3. ASSUME NEW k \in 1..(m + 1)  PROVE g[k] = Level(k, g[k - 1])
    <3>1. CASE k = m + 1
      <4>1. k - 1 = m /\ m # m + 1 /\ m \in 0..(m + 1) /\ k \in 0..(m + 1)
        BY <3>1
      <4>2. g[k] = Level(m + 1, f[m]) /\ g[m] = f[m]
        BY <3>1, <4>1
      <4> QED  BY <3>1, <4>1, <4>2
    <3>2. CASE k # m + 1
      <4>1. k \in 1..m /\ k - 1 # m + 1 /\ k \in 0..(m + 1) /\ k - 1 \in 0..(m + 1)
        BY <3>2
      <4>2. g[k] = f[k] /\ g[k - 1] = f[k - 1]
        BY <3>2, <4>1
      <4> QED  BY <2>1, <4>1, <4>2 DEF Leveled
    <3> QED  BY <3>1, <3>2
  <2> HIDE DEF g
  <2>4. Leveled(m + 1, g)
    BY <2>2, <2>3 DEF Leveled
  <2> QED  BY <2>4
<1> HIDE DEF T
<1>3. n \in T
  BY <1>1, <1>2, Induction
<1> QED  BY <1>3 DEF T

(* CloneTo at one depth, by CloneTo at the one before.                     *)
LEMMA CloneSteps ==
  /\ CloneTo[0] = Level(0, <<>>)
  /\ \A n \in Nat \ {0} : CloneTo[n] = Level(n, CloneTo[n - 1])
<1> DEFINE Is(g) == g = [n \in Nat |-> Level(n, g[n - 1])]
           h == [n \in Nat |-> CHOOSE f : Leveled(n, f)]
           g == [n \in Nat |-> h[n][n]]
<1>1. \A n \in Nat : Leveled(n, h[n])
  BY LeveledExists
<1>2. \A x, y : Level(0, x) = Level(0, y)
  BY DEF Level
<1> HIDE DEF h
<1>3. ASSUME NEW n \in Nat  PROVE \A k \in Nat : k <= n => h[n][k] = h[n + 1][k]
  <2> DEFINE S == {k \in Nat : k <= n => h[n][k] = h[n + 1][k]}
  <2>1. 0 \in S
    BY <1>1 DEF Leveled
  <2>2. ASSUME NEW k \in Nat, k \in S  PROVE k + 1 \in S
    <3> SUFFICES ASSUME k + 1 <= n  PROVE h[n][k + 1] = h[n + 1][k + 1]
      OBVIOUS
    <3>1. k + 1 \in 1..n /\ k + 1 \in 1..(n + 1) /\ (k + 1) - 1 = k /\ k <= n /\ n + 1 \in Nat
      OBVIOUS
    <3>2. h[n][k] = h[n + 1][k]
      BY <2>2, <3>1
    <3> HIDE DEF S
    <3>3. h[n][k + 1] = Level(k + 1, h[n][(k + 1) - 1])
      BY <1>1, <3>1 DEF Leveled
    <3>4. h[n + 1][k + 1] = Level(k + 1, h[n + 1][(k + 1) - 1])
      BY <1>1, <3>1 DEF Leveled
    <3> QED  BY <3>1, <3>2, <3>3, <3>4
  <2> HIDE DEF S
  <2>3. Nat \subseteq S
    BY <2>1, <2>2, Induction
  <2> QED  BY <2>3 DEF S
<1>4. g[0] = Level(0, <<>>)
  BY <1>1 DEF Leveled
<1>5. ASSUME NEW k \in Nat \ {0}  PROVE g[k] = Level(k, g[k - 1])
  <2>1. k - 1 \in Nat /\ k \in 1..k /\ (k - 1) + 1 = k
    OBVIOUS
  <2>2. h[k][k] = Level(k, h[k][k - 1])
    BY <1>1, <2>1 DEF Leveled
  <2>3. h[k - 1][k - 1] = h[k][k - 1]
    BY <1>3, <2>1
  <2> QED  BY <2>1, <2>2, <2>3
<1>6. Is(g)
  <2> DEFINE rhs == [n \in Nat |-> Level(n, g[n - 1])]
  <2>1. ASSUME NEW n \in Nat  PROVE g[n] = rhs[n]
    <3>1. CASE n = 0
      <4>1. rhs[n] = Level(0, g[n - 1])
        BY <3>1
      <4>2. Level(0, g[n - 1]) = Level(0, <<>>)
        BY <1>2
      <4> QED  BY <1>4, <3>1, <4>1, <4>2
    <3>2. CASE n # 0
      BY <1>5, <3>2
    <3> QED  BY <3>1, <3>2
  <2>2. g = [n \in Nat |-> g[n]]
    OBVIOUS
  <2> HIDE DEF g
  <2> QED  BY <2>1, <2>2
<1> HIDE DEF g
<1>7. CloneTo = CHOOSE f : Is(f)
  BY DEF CloneTo, Level
<1>8. Is(CloneTo)
  BY <1>6, <1>7
<1>9. \A n \in Nat : CloneTo[n] = Level(n, CloneTo[n - 1])
  BY <1>8
<1>10. CloneTo[0] = Level(0, CloneTo[0 - 1])
  BY <1>9
<1> QED  BY <1>2, <1>9, <1>10

-----------------------------------------------------------------------------
(***************************************************************************)
(* Copies: the image of a copy is what it was made of.                     *)
(***************************************************************************)

(* The elements h with perhaps more of them than base.                     *)
Extends(base, h) ==
  /\ h \in Seq(Element) /\ Len(base) <= Len(h)
  /\ \A b \in 1..Len(base) : h[b] = base[b]

(* An element at i of a copy, made since there were n elements, is the     *)
(* image of one of base, and what is in it has been made before it.        *)
CopyIs(base, n, h, image, i) ==
  /\ image[i] \in 1..Len(base) /\ SameBut(base[image[i]], h[i])
  /\ \A j \in DOMAIN h[i].array_ :
        h[i].array_[j] \in (n + 1)..(i - 1) /\ image[h[i].array_[j]] = base[image[i]].array_[j]
  /\ \A key \in Key :
        h[i].map_[key] # Null =>
          h[i].map_[key] \in (n + 1)..(i - 1) /\ image[h[i].map_[key]] = base[image[i]].map_[key]

(* The elements h2 are h and copies.                                       *)
Copies(base, h, h2, image) ==
  /\ Extends(base, h2) /\ Extends(h, h2)
  /\ \A i \in (Len(h) + 1)..Len(h2) : CopyIs(base, Len(h), h2, image, i)

(* The elements that were there are there still.                           *)
LEMMA ExtendsIs ==
  ASSUME NEW base \in Seq(Element), NEW h, Extends(base, h)
  PROVE  /\ Len(base) \in Nat /\ Len(h) \in Nat /\ DOMAIN base = 1..Len(base) /\ DOMAIN h = 1..Len(h)
         /\ Len(base) <= Len(h) /\ h \in Seq(Element)
         /\ \A b \in DOMAIN base : b \in DOMAIN h /\ h[b] = base[b]
<1>1. /\ Len(base) \in Nat /\ DOMAIN base = 1..Len(base)
      /\ h \in Seq(Element) /\ Len(h) \in Nat /\ DOMAIN h = 1..Len(h) /\ Len(base) <= Len(h)
  BY DEF Extends
<1>2. \A b \in 1..Len(base) : b \in 1..Len(h)
  BY <1>1
<1> QED  BY <1>1, <1>2 DEF Extends

(* Copies and then more of them.                                           *)
LEMMA CopiesJoin ==
  ASSUME NEW base \in Seq(Element), NEW h, NEW h1, NEW h2, NEW image1, NEW image2, Extends(base, h),
         Copies(base, h, h1, image1), Copies(base, h1, h2, image2)
  PROVE  \E image : /\ Copies(base, h, h2, image)
                    /\ \A i \in (Len(h) + 1)..Len(h1) : image[i] = image1[i]
                    /\ \A i \in (Len(h1) + 1)..Len(h2) : image[i] = image2[i]
                    /\ (Len(h) + 1)..Len(h1) \subseteq (Len(h) + 1)..Len(h2)
                    /\ (Len(h1) + 1)..Len(h2) \subseteq (Len(h) + 1)..Len(h2)
<1> DEFINE image == [i \in (Len(h) + 1)..Len(h2) |-> IF i <= Len(h1) THEN image1[i] ELSE image2[i]]
<1>1. /\ Extends(base, h1) /\ Extends(h, h1) /\ Extends(base, h2) /\ Extends(h1, h2)
      /\ h \in Seq(Element) /\ h1 \in Seq(Element) /\ h2 \in Seq(Element)
  BY DEF Copies, Extends
<1>2. /\ Len(base) \in Nat /\ Len(h) \in Nat /\ Len(h1) \in Nat /\ Len(h2) \in Nat
      /\ Len(base) <= Len(h) /\ Len(h) <= Len(h1) /\ Len(h1) <= Len(h2)
  BY <1>1, ExtendsIs
<1> DEFINE A == (Len(h) + 1)..Len(h1)
           B == (Len(h1) + 1)..Len(h2)
           C == (Len(h) + 1)..Len(h2)
<1>3. A \subseteq C /\ B \subseteq C /\ C \subseteq A \cup B
      /\ (\A i \in A : i <= Len(h1) /\ i \in 1..Len(h1)) /\ \A i \in B : ~ (i <= Len(h1))
  BY <1>2
<1>4. (\A i \in A : image[i] = image1[i]) /\ (\A i \in B : image[i] = image2[i])
  <2> HIDE DEF A, B
  <2> QED  BY <1>3
<1>5. (\A i \in A : h2[i] = h1[i]) /\ \A b \in 1..Len(base) : h1[b] = base[b]
  BY <1>1, <1>3 DEF Extends
<1> HIDE DEF image
<1>6. ASSUME NEW i \in A  PROVE CopyIs(base, Len(h), h2, image, i)
  <2>1. CopyIs(base, Len(h), h1, image1, i)
    BY DEF Copies
  <2>2. \A x \in (Len(h) + 1)..(i - 1) : x \in A
    BY <1>2
  <2>3. h2[i] = h1[i] /\ image[i] = image1[i]
    BY <1>4, <1>5
  <2> HIDE DEF A
  <2> QED  BY <1>4, <2>1, <2>2, <2>3 DEF CopyIs
<1>7. ASSUME NEW i \in B  PROVE CopyIs(base, Len(h), h2, image, i)
  <2>1. CopyIs(base, Len(h1), h2, image2, i)
    BY DEF Copies
  <2>2. \A x \in (Len(h1) + 1)..(i - 1) : x \in B /\ x \in (Len(h) + 1)..(i - 1)
    BY <1>2
  <2> HIDE DEF B
  <2> QED  BY <1>4, <2>1, <2>2 DEF CopyIs
<1>8. Extends(h, h2)
  <2>1. \A b \in 1..Len(h) : b \in 1..Len(h1)
    BY <1>2
  <2> QED  BY <1>1, <1>2, <2>1 DEF Extends
<1>9. Copies(base, h, h2, image)
  <2> HIDE DEF A, B
  <2>1. \A i \in C : CopyIs(base, Len(h), h2, image, i)
    BY <1>3, <1>6, <1>7
  <2> QED  BY <1>1, <1>8, <2>1 DEF Copies
<1> QED  BY <1>3, <1>4, <1>9

(* A copy of the element b of base, among the elements of r.heap.          *)
IsCopy(base, h, b, r) ==
  \E image : /\ Copies(base, h, r.heap, image)
             /\ r.it \in (Len(h) + 1)..Len(r.heap) /\ image[r.it] = b

(* Copies of elements s of base.                                           *)
AreCopies(base, h, s, r) ==
  \E image : /\ Copies(base, h, r.heap, image)
             /\ r.its \in Seq(Nat) /\ Len(r.its) = Len(s)
             /\ \A i \in 1..Len(s) : r.its[i] \in (Len(h) + 1)..Len(r.heap) /\ image[r.its[i]] = s[i]

(* No copies, to begin with.                                               *)
LEMMA AreCopiesOfNone ==
  ASSUME NEW base \in Seq(Element), NEW h, Extends(base, h)
  PROVE  AreCopies(base, h, <<>>, [heap |-> h, its |-> <<>>])
<1>1. h \in Seq(Element) /\ Len(h) \in Nat
  BY DEF Extends
<1>2. \A i \in (Len(h) + 1)..Len(h) : FALSE
  BY <1>1
<1>3. Extends(h, h)
  BY <1>1 DEF Extends
<1>4. Copies(base, h, h, <<>>)
  BY <1>2, <1>3 DEF Copies
<1> QED  BY <1>4 DEF AreCopies

(* One copy more.                                                          *)
LEMMA AreCopiesOfMore ==
  ASSUME NEW base \in Seq(Element), NEW h, Extends(base, h), NEW s \in Seq(Nat), NEW b \in Nat,
         NEW r, AreCopies(base, h, s, r), NEW copy, IsCopy(base, r.heap, b, copy)
  PROVE  AreCopies(base, h, Append(s, b), [heap |-> copy.heap, its |-> Append(r.its, copy.it)])
<1>1. PICK image1 : /\ Copies(base, h, r.heap, image1)
                    /\ r.its \in Seq(Nat) /\ Len(r.its) = Len(s)
                    /\ \A i \in 1..Len(s) : r.its[i] \in (Len(h) + 1)..Len(r.heap) /\ image1[r.its[i]] = s[i]
  BY DEF AreCopies
<1>2. PICK image2 : /\ Copies(base, r.heap, copy.heap, image2)
                    /\ copy.it \in (Len(r.heap) + 1)..Len(copy.heap) /\ image2[copy.it] = b
  BY DEF IsCopy
<1>3. PICK image : /\ Copies(base, h, copy.heap, image)
                   /\ \A i \in (Len(h) + 1)..Len(r.heap) : image[i] = image1[i]
                   /\ \A i \in (Len(r.heap) + 1)..Len(copy.heap) : image[i] = image2[i]
                   /\ (Len(h) + 1)..Len(r.heap) \subseteq (Len(h) + 1)..Len(copy.heap)
                   /\ (Len(r.heap) + 1)..Len(copy.heap) \subseteq (Len(h) + 1)..Len(copy.heap)
  BY <1>1, <1>2, CopiesJoin
<1> DEFINE its == Append(r.its, copy.it)
           s2 == Append(s, b)
<1>4. copy.it \in Nat
  <2>1. Len(r.heap) \in Nat
    BY <1>1 DEF Copies, Extends
  <2> QED  BY <1>2, <2>1
<1>5. /\ its \in Seq(Nat) /\ Len(its) = Len(s2) /\ Len(s2) = Len(s) + 1 /\ Len(s) \in Nat
      /\ \A i \in 1..Len(s2) : IF i = Len(s) + 1 THEN its[i] = copy.it /\ s2[i] = b
                               ELSE i \in 1..Len(s) /\ its[i] = r.its[i] /\ s2[i] = s[i]
  BY <1>1, <1>4
<1> HIDE DEF its, s2
<1>6. \A i \in 1..Len(s2) : its[i] \in (Len(h) + 1)..Len(copy.heap) /\ image[its[i]] = s2[i]
  <2> TAKE i \in 1..Len(s2)
  <2>1. CASE i = Len(s) + 1
    <3>1. its[i] = copy.it /\ s2[i] = b
      BY <1>5, <2>1
    <3>2. copy.it \in (Len(h) + 1)..Len(copy.heap) /\ image[copy.it] = b
      BY <1>2, <1>3
    <3> QED  BY <3>1, <3>2
  <2>2. CASE i # Len(s) + 1
    <3>1. i \in 1..Len(s) /\ its[i] = r.its[i] /\ s2[i] = s[i]
      BY <1>5, <2>2
    <3>2. r.its[i] \in (Len(h) + 1)..Len(r.heap) /\ image1[r.its[i]] = s[i]
      BY <1>1, <3>1
    <3>3. r.its[i] \in (Len(h) + 1)..Len(copy.heap) /\ image[r.its[i]] = s[i]
      BY <1>3, <3>2
    <3> QED  BY <3>1, <3>3
  <2> QED  BY <2>1, <2>2
<1>7. AreCopies(base, h, s2, [heap |-> copy.heap, its |-> its])
  BY <1>3, <1>5, <1>6 DEF AreCopies
<1> QED  BY <1>7 DEF its, s2

(* Copies of the elements s of base, when deeper makes a copy of each.     *)
LEMMA CloneAllIs ==
  ASSUME NEW base \in Seq(Element), NEW h, Extends(base, h),
         NEW C, C \subseteq Nat, NEW s \in Seq(C), NEW deeper,
         \A h1, c : Extends(base, h1) /\ c \in C => IsCopy(base, h1, c, deeper[<<h1, c>>])
  PROVE  AreCopies(base, h, s, CloneAll(deeper, h, s))
<1> DEFINE n == Len(s)
           H == {x \in Seq(Element) : Extends(base, x)}
           R == [heap : H, its : Seq(Nat)]
           start == [heap |-> h, its |-> <<>>]
           More(r, b) == [heap |-> deeper[<<r.heap, b>>].heap, its |-> Append(r.its, deeper[<<r.heap, b>>].it)]
           g == [p \in R \X (1..n) |-> More(p[1], s[p[2]])]
           Is(f) == f = [t \in SUBSET DOMAIN s |->
                           IF t = {} THEN start ELSE More(f[t \ {Max(t)}], s[Max(t)])]
           iter == CHOOSE f : Is(f)
<1>1. n \in Nat /\ DOMAIN s = 1..n /\ \A i \in 1..n : s[i] \in C
  OBVIOUS
<1>2. ASSUME NEW r \in R, NEW b \in C  PROVE More(r, b) \in R
  <2>1. Extends(base, r.heap) /\ r.its \in Seq(Nat)
    OBVIOUS
  <2> DEFINE copy == deeper[<<r.heap, b>>]
  <2>2. IsCopy(base, r.heap, b, copy)
    BY <2>1
  <2> HIDE DEF copy
  <2>3. PICK image : /\ Copies(base, r.heap, copy.heap, image)
                     /\ copy.it \in (Len(r.heap) + 1)..Len(copy.heap)
    BY <2>2 DEF IsCopy
  <2>4. Extends(base, copy.heap) /\ copy.heap \in Seq(Element) /\ copy.it \in Nat
    <3>1. Extends(base, copy.heap) /\ Len(r.heap) \in Nat
      BY <2>1, <2>3 DEF Copies, Extends
    <3> QED  BY <2>3, <3>1 DEF Extends
  <2>5. Append(r.its, copy.it) \in Seq(Nat)
    BY <2>1, <2>4
  <2> QED  BY <2>4, <2>5 DEF copy
<1>3. start \in R
  <2>1. h \in H
    BY DEF Extends
  <2>2. <<>> \in Seq(Nat)
    OBVIOUS
  <2> HIDE DEF H
  <2> QED  BY <2>1, <2>2
<1>4. g \in [R \X (1..n) -> R]
  <2> HIDE DEF R, More, n
  <2> QED  BY <1>1, <1>2
<1>5. CloneAll(deeper, h, s) = iter[1..n]
  BY <1>1 DEF CloneAll, FoldLeft, MapThenFoldSet
<1>6. PICK f \in [SUBSET (1..n) -> R] : Folds(n, start, g, f)
  <2> HIDE DEF n, g, R, start
  <2> QED  BY <1>1, <1>3, <1>4, FoldExists DEF HasFold
<1>7. Is(f)
  <2>1. ASSUME NEW t \in SUBSET (1..n), t # {}
        PROVE  g[<<f[t \ {Max(t)}], Max(t)>>] = More(f[t \ {Max(t)}], s[Max(t)])
    <3>1. Max(t) \in 1..n
      BY <1>1, <2>1, MaxIs
    <3> HIDE DEF More, R
    <3>2. f[t \ {Max(t)}] \in R
      BY <1>6
    <3> QED  BY <3>1, <3>2
  <2> HIDE DEF g, More, R, start
  <2>2. f = [t \in SUBSET (1..n) |-> IF t = {} THEN start ELSE g[<<f[t \ {Max(t)}], Max(t)>>]]
    BY <1>6 DEF Folds
  <2> DEFINE rhs == [t \in SUBSET DOMAIN s |-> IF t = {} THEN start ELSE More(f[t \ {Max(t)}], s[Max(t)])]
  <2>3. \A t \in SUBSET (1..n) : f[t] = rhs[t]
    BY <1>1, <2>1, <2>2
  <2>4. DOMAIN rhs = SUBSET (1..n) /\ DOMAIN f = SUBSET (1..n)
    BY <1>1, <1>6
  <2>5. rhs = [t \in SUBSET (1..n) |-> rhs[t]] /\ f = [t \in SUBSET (1..n) |-> f[t]]
    BY <2>4
  <2> HIDE DEF rhs
  <2>6. f = rhs
    BY <2>3, <2>5
  <2> QED  BY <2>6 DEF rhs
<1>8. Is(iter)
  BY <1>7
<1> HIDE DEF iter
<1>9. iter[{}] = start
  BY <1>8
<1>10. ASSUME NEW i \in 1..n  PROVE iter[1..i] = More(iter[1..(i - 1)], s[i])
  <2>1. 1..i \in SUBSET DOMAIN s /\ i \in 1..i /\ 1..i # {} /\ n \in Nat
    BY <1>1
  <2>2. Max(1..i) \in 1..i /\ \A m \in 1..i : Max(1..i) >= m
    BY <1>1, <2>1, MaxIs
  <2>3. Max(1..i) = i
    BY <2>1, <2>2
  <2>4. (1..i) \ {i} = 1..(i - 1)
    OBVIOUS
  <2> HIDE DEF More, start, n
  <2>5. iter[1..i] = More(iter[(1..i) \ {Max(1..i)}], s[Max(1..i)])
    BY <1>8, <2>1
  <2> QED  BY <2>3, <2>4, <2>5
<1> DEFINE T == {i \in Nat : i <= n => AreCopies(base, h, SubSeq(s, 1, i), iter[1..i])}
<1> HIDE DEF n
<1>11. 0 \in T
  <2>1. 1..0 = {} /\ SubSeq(s, 1, 0) = <<>>
    OBVIOUS
  <2>2. AreCopies(base, h, <<>>, start)
    BY AreCopiesOfNone
  <2> HIDE DEF start
  <2> QED  BY <1>9, <2>1, <2>2
<1>12. ASSUME NEW i \in Nat, i \in T  PROVE i + 1 \in T
  <2> SUFFICES ASSUME i + 1 <= n  PROVE AreCopies(base, h, SubSeq(s, 1, i + 1), iter[1..(i + 1)])
    OBVIOUS
  <2>1. i + 1 \in 1..n /\ (i + 1) - 1 = i /\ i <= n /\ i \in 0..(n - 1)
    BY <1>1
  <2> DEFINE r == iter[1..i]
             b == s[i + 1]
             q == SubSeq(s, 1, i)
             copy == deeper[<<r.heap, b>>]
  <2>2. AreCopies(base, h, q, r)
    BY <1>12, <2>1
  <2>3. iter[1..(i + 1)] = [heap |-> copy.heap, its |-> Append(r.its, copy.it)]
    <3> HIDE DEF More
    <3>1. iter[1..(i + 1)] = More(iter[1..((i + 1) - 1)], b)
      BY <1>10, <2>1
    <3> QED  BY <2>1, <3>1 DEF More
  <2>4. /\ SubSeq(s, 1, i + 1) = Append(q, b) /\ b \in C
        /\ q \in Seq(C)
    BY <2>1, FirstOnes DEF n
  <2> HIDE DEF T, r, b, q
  <2>5. q \in Seq(Nat) /\ b \in Nat
    <3>1. Len(q) \in Nat /\ q = [k \in 1..Len(q) |-> q[k]] /\ \A k \in 1..Len(q) : q[k] \in C
      BY <2>4
    <3>2. [k \in 1..Len(q) |-> q[k]] \in Seq(Nat)
      BY <3>1
    <3> QED  BY <2>4, <3>1, <3>2
  <2>6. Extends(base, r.heap)
    BY <2>2 DEF AreCopies, Copies
  <2>7. IsCopy(base, r.heap, b, copy)
    BY <2>4, <2>6
  <2> HIDE DEF copy
  <2>8. AreCopies(base, h, Append(q, b), [heap |-> copy.heap, its |-> Append(r.its, copy.it)])
    BY <2>2, <2>5, <2>7, AreCopiesOfMore
  <2> QED  BY <2>3, <2>4, <2>8
<1> HIDE DEF T
<1>13. n \in T
  BY <1>1, <1>11, <1>12, Induction
<1>14. AreCopies(base, h, SubSeq(s, 1, n), iter[1..n])
  BY <1>13, <1>1 DEF T
<1>15. SubSeq(s, 1, n) = s
  BY FirstOnes DEF n
<1> QED  BY <1>5, <1>14, <1>15

(* A copy of an element, behind the copies of what is in it.               *)
LEMMA CopiedIs ==
  ASSUME NEW base \in Seq(Element), NEW h, Extends(base, h), NEW b \in DOMAIN base,
         NEW h2, NEW image, Copies(base, h, h2, image),
         NEW o \in Element, SameBut(base[b], o),
         \A j \in DOMAIN o.array_ :
            o.array_[j] \in (Len(h) + 1)..Len(h2) /\ image[o.array_[j]] = base[b].array_[j],
         \A key \in Key : o.map_[key] # Null =>
            o.map_[key] \in (Len(h) + 1)..Len(h2) /\ image[o.map_[key]] = base[b].map_[key]
  PROVE  IsCopy(base, h, b, Copied(h2, o))
<1> DEFINE n == Len(h2) + 1
           h3 == Append(h2, o)
           image3 == [i \in (Len(h) + 1)..n |-> IF i = n THEN b ELSE image[i]]
<1>1. /\ Extends(base, h2) /\ Extends(h, h2) /\ h2 \in Seq(Element) /\ h \in Seq(Element)
      /\ Len(base) \in Nat /\ Len(h) \in Nat /\ Len(h2) \in Nat
      /\ Len(base) <= Len(h) /\ Len(h) <= Len(h2)
      /\ b \in 1..Len(base)
  <2>1. Extends(base, h2) /\ Extends(h, h2) /\ h2 \in Seq(Element) /\ h \in Seq(Element)
    BY DEF Copies, Extends
  <2> QED  BY <2>1, ExtendsIs
<1>2. /\ h3 \in Seq(Element) /\ Len(h3) = n /\ h3[n] = o
      /\ \A i \in 1..Len(h2) : h3[i] = h2[i]
  BY <1>1
<1>3. /\ n \in (Len(h) + 1)..n
      /\ \A i \in (Len(h) + 1)..n : i = n \/ i \in (Len(h) + 1)..Len(h2)
      /\ \A i \in (Len(h) + 1)..Len(h2) : i # n /\ i \in (Len(h) + 1)..n /\ i \in 1..Len(h2)
      /\ n - 1 = Len(h2)
  BY <1>1
<1> HIDE DEF h3, n
<1>4. image3[n] = b /\ \A i \in (Len(h) + 1)..Len(h2) : image3[i] = image[i]
  BY <1>3
<1> HIDE DEF image3
<1>5. CopyIs(base, Len(h), h3, image3, n)
  <2>1. h3[n] = o /\ image3[n] = b /\ b \in 1..Len(base) /\ n - 1 = Len(h2)
    BY <1>1, <1>2, <1>3, <1>4
  <2>2. \A j \in DOMAIN o.array_ :
           o.array_[j] \in (Len(h) + 1)..Len(h2) /\ image3[o.array_[j]] = base[b].array_[j]
    BY <1>4
  <2>3. \A key \in Key : o.map_[key] # Null =>
           o.map_[key] \in (Len(h) + 1)..Len(h2) /\ image3[o.map_[key]] = base[b].map_[key]
    BY <1>4
  <2> QED  BY <2>1, <2>2, <2>3 DEF CopyIs
<1>6. ASSUME NEW i \in (Len(h) + 1)..Len(h2)  PROVE CopyIs(base, Len(h), h3, image3, i)
  <2>1. CopyIs(base, Len(h), h2, image, i)
    BY DEF Copies
  <2>2. \A x \in (Len(h) + 1)..(i - 1) : x \in (Len(h) + 1)..Len(h2)
    BY <1>1
  <2>3. h3[i] = h2[i] /\ image3[i] = image[i]
    BY <1>2, <1>3, <1>4
  <2> QED  BY <1>4, <2>1, <2>2, <2>3 DEF CopyIs
<1>7. Extends(base, h3) /\ Extends(h, h3)
  <2>1. n = Len(h2) + 1
    BY DEF n
  <2>2. \A i \in 1..Len(h) : i \in 1..Len(h2)
    BY <1>1
  <2>3. \A i \in 1..Len(base) : i \in 1..Len(h2)
    BY <1>1
  <2>4. Len(base) <= n /\ Len(h) <= n
    BY <1>1, <2>1
  <2> QED  BY <1>1, <1>2, <2>2, <2>3, <2>4 DEF Extends
<1>8. Copies(base, h, h3, image3)
  BY <1>2, <1>3, <1>5, <1>6, <1>7 DEF Copies
<1>9. Copied(h2, o).heap = h3 /\ Copied(h2, o).it = n
  BY DEF Copied, h3, n
<1> QED  BY <1>2, <1>3, <1>4, <1>8, <1>9 DEF IsCopy

(* A copy of an element with nothing in it.                                *)
LEMMA CopiedAlone ==
  ASSUME NEW base \in Seq(Element), NEW h, Extends(base, h), NEW b \in DOMAIN base,
         Children(base, b) = {}
  PROVE  IsCopy(base, h, b, Copied(h, h[b]))
<1>1. h[b] = base[b] /\ base[b] \in Element /\ SameBut(base[b], base[b])
  BY ExtendsIs DEF SameBut
<1>2. AreCopies(base, h, <<>>, [heap |-> h, its |-> <<>>])
  BY AreCopiesOfNone
<1>3. PICK image : Copies(base, h, h, image)
  BY <1>2 DEF AreCopies
<1>4. DOMAIN base[b].array_ = {} /\ \A key \in Key : base[b].map_[key] = Null
  BY ChildrenAre DEF ChildrenOf, ToSet
<1> QED  BY <1>1, <1>3, <1>4, CopiedIs

(* CloneOne copies an element when deeper copies those in it.              *)
LEMMA CloneOneIs ==
  ASSUME NEW base, Linked(base), NEW h, Extends(base, h), NEW b \in DOMAIN base, NEW deeper,
         \A h1, c : Extends(base, h1) /\ c \in Children(base, b) => IsCopy(base, h1, c, deeper[<<h1, c>>])
  PROVE  IsCopy(base, h, b, CloneOne(deeper, h, b))
<1> DEFINE e == base[b]
           C == Children(base, b)
           P == {key \in Key : contains(h, b, key)}
           present == SetToSeq(P)
           there == [i \in DOMAIN present |-> h[b].map_[present[i]]]
           elements == CloneAll(deeper, h, h[b].array_)
           items == CloneAll(deeper, elements.heap, there)
           ItemOf(key) == items.its[CHOOSE i \in DOMAIN present : present[i] = key]
           o == [h[b] EXCEPT !.array_ = elements.its,
                             !.map_ = [key \in Key |-> IF contains(h, b, key) THEN ItemOf(key) ELSE Null]]
<1>1. base \in Seq(Element) /\ h[b] = e /\ e \in Element
  BY ExtendsIs DEF Linked
<1>2. C \subseteq DOMAIN base /\ C \subseteq Nat
  <2>1. DOMAIN base \subseteq Nat
    BY <1>1
  <2> QED  BY <2>1 DEF Linked
<1>3. e.array_ \in Seq(C)
  <2>1. e.array_ \in Seq(Nat)
    BY <1>1 DEF Element
  <2>2. \A i \in DOMAIN e.array_ : e.array_[i] \in C
    BY DEF Children, ToSet
  <2> HIDE DEF C, e
  <2> QED  BY <2>1, <2>2
<1>4. P \subseteq Key /\ IsFiniteSet(P)
  <2>1. IsFiniteSet(Key)
    BY TreeAssumption
  <2> QED  BY <2>1, FS_Subset
<1>5. /\ present \in Seq(P)
      /\ \A key \in P : \E i \in DOMAIN present : present[i] = key
  <2> HIDE DEF P
  <2> QED  BY <1>4, SetToSeqHas
<1>6. \A key \in Key : key \in P <=> e.map_[key] # Null
  BY <1>1 DEF contains
<1>7. there \in Seq(C) /\ DOMAIN there = DOMAIN present /\ Len(there) = Len(present)
      /\ \A i \in DOMAIN present : present[i] \in P /\ there[i] = e.map_[present[i]]
  <2>1. DOMAIN present = 1..Len(present) /\ Len(present) \in Nat /\ \A i \in DOMAIN present : present[i] \in P
    <3> HIDE DEF present, P
    <3> QED  BY <1>5
  <2>2. \A i \in DOMAIN present : e.map_[present[i]] \in C
    <3>1. \A key \in P : e.map_[key] \in C
      BY <1>4, <1>6, ChildrenAre DEF ChildrenOf
    <3> HIDE DEF C, e, P
    <3> QED  BY <2>1, <3>1
  <2> HIDE DEF present, P, C, e
  <2>3. there = [i \in 1..Len(present) |-> e.map_[present[i]]]
    BY <1>1, <2>1
  <2> HIDE DEF there
  <2> QED  BY <2>1, <2>2, <2>3
<1> HIDE DEF P, present, there, C, e
<1>8. AreCopies(base, h, e.array_, elements)
  <2>1. \A h1, c : Extends(base, h1) /\ c \in C => IsCopy(base, h1, c, deeper[<<h1, c>>])
    BY DEF C
  <2> HIDE DEF elements
  <2>2. AreCopies(base, h, e.array_, CloneAll(deeper, h, e.array_))
    BY <1>1, <1>2, <1>3, <2>1, CloneAllIs
  <2> QED  BY <1>1, <2>2 DEF elements
<1> HIDE DEF elements
<1>9. PICK image1 : /\ Copies(base, h, elements.heap, image1)
                    /\ elements.its \in Seq(Nat) /\ Len(elements.its) = Len(e.array_)
                    /\ \A i \in 1..Len(e.array_) : /\ elements.its[i] \in (Len(h) + 1)..Len(elements.heap)
                                                   /\ image1[elements.its[i]] = e.array_[i]
  BY <1>8 DEF AreCopies
<1>10. Extends(base, elements.heap)
  BY <1>9 DEF Copies
<1>11. AreCopies(base, elements.heap, there, items)
  <2>1. \A h1, c : Extends(base, h1) /\ c \in C => IsCopy(base, h1, c, deeper[<<h1, c>>])
    BY DEF C
  <2> QED  BY <1>1, <1>2, <1>7, <1>10, <2>1, CloneAllIs
<1> HIDE DEF items
<1>12. PICK image2 : /\ Copies(base, elements.heap, items.heap, image2)
                     /\ items.its \in Seq(Nat) /\ Len(items.its) = Len(there)
                     /\ \A i \in 1..Len(there) : /\ items.its[i] \in (Len(elements.heap) + 1)..Len(items.heap)
                                                 /\ image2[items.its[i]] = there[i]
  BY <1>11 DEF AreCopies
<1>13. PICK image : /\ Copies(base, h, items.heap, image)
                    /\ \A i \in (Len(h) + 1)..Len(elements.heap) : image[i] = image1[i]
                    /\ \A i \in (Len(elements.heap) + 1)..Len(items.heap) : image[i] = image2[i]
                    /\ (Len(h) + 1)..Len(elements.heap) \subseteq (Len(h) + 1)..Len(items.heap)
                    /\ (Len(elements.heap) + 1)..Len(items.heap) \subseteq (Len(h) + 1)..Len(items.heap)
  BY <1>1, <1>9, <1>12, CopiesJoin
<1>14. ASSUME NEW key \in P
       PROVE  /\ ItemOf(key) \in (Len(h) + 1)..Len(items.heap) /\ ItemOf(key) \in Nat
              /\ image[ItemOf(key)] = e.map_[key]
  <2> DEFINE i == CHOOSE i \in DOMAIN present : present[i] = key
  <2>1. i \in DOMAIN present /\ present[i] = key
    BY <1>5
  <2> HIDE DEF i
  <2>2. i \in 1..Len(there) /\ there[i] = e.map_[key]
    BY <1>7, <2>1
  <2>3. items.its[i] \in (Len(elements.heap) + 1)..Len(items.heap) /\ image2[items.its[i]] = e.map_[key]
    BY <1>12, <2>2
  <2>4. items.its[i] \in Nat
    <3>1. i \in 1..Len(items.its)
      BY <1>12, <2>2
    <3> QED  BY <1>12, <3>1
  <2>5. items.its[i] \in (Len(h) + 1)..Len(items.heap) /\ image[items.its[i]] = e.map_[key]
    BY <1>13, <2>3
  <2> QED  BY <2>4, <2>5 DEF i
<1>15. \A i \in DOMAIN elements.its :
          elements.its[i] \in (Len(h) + 1)..Len(items.heap) /\ image[elements.its[i]] = e.array_[i]
  <2> TAKE i \in DOMAIN elements.its
  <2>1. i \in 1..Len(e.array_)
    BY <1>9
  <2>2. elements.its[i] \in (Len(h) + 1)..Len(elements.heap) /\ image1[elements.its[i]] = e.array_[i]
    BY <1>9, <2>1
  <2> QED  BY <1>13, <2>2
<1> DEFINE map2 == [key \in Key |-> IF contains(h, b, key) THEN ItemOf(key) ELSE Null]
<1> HIDE DEF ItemOf
<1>16. map2 \in [Key -> Nat] /\ \A key \in Key : map2[key] = IF key \in P THEN ItemOf(key) ELSE Null
  BY <1>14 DEF P, Null
<1> HIDE DEF map2
<1>17. o = [h[b] EXCEPT !.array_ = elements.its, !.map_ = map2]
  BY DEF map2
<1> HIDE DEF o
<1>18. /\ o \in Element /\ o.is = e.is /\ o.type = e.type /\ o.data = e.data
       /\ o.array_ = elements.its /\ o.map_ = map2
  BY <1>1, <1>9, <1>16, <1>17 DEF Element
<1>19. \A key \in P : ItemOf(key) # Null
  <2>1. Len(h) \in Nat
    BY DEF Extends
  <2> QED  BY <1>14, <2>1 DEF Null
<1>20. DOMAIN e.array_ = DOMAIN o.array_
  <2>1. DOMAIN e.array_ = 1..Len(e.array_) /\ DOMAIN elements.its = 1..Len(elements.its)
    BY <1>3, <1>9
  <2> QED  BY <1>9, <1>18, <2>1
<1>21. \A key \in Key : o.map_[key] # Null <=> e.map_[key] # Null
  BY <1>6, <1>16, <1>18, <1>19
<1>22. SameBut(base[b], o)
  BY <1>18, <1>20, <1>21 DEF SameBut, e
<1>23. \A j \in DOMAIN o.array_ :
          o.array_[j] \in (Len(h) + 1)..Len(items.heap) /\ image[o.array_[j]] = base[b].array_[j]
  BY <1>15, <1>18 DEF e
<1>24. \A key \in Key : o.map_[key] # Null =>
          o.map_[key] \in (Len(h) + 1)..Len(items.heap) /\ image[o.map_[key]] = base[b].map_[key]
  BY <1>6, <1>14, <1>16, <1>18, <1>21 DEF e
<1>25. IsCopy(base, h, b, Copied(items.heap, o))
  BY <1>1, <1>13, <1>18, <1>22, <1>23, <1>24, CopiedIs
<1>26. CloneOne(deeper, h, b) = Copied(items.heap, o)
  BY DEF CloneOne, o, items, elements, there, present, P, ItemOf
<1> QED  BY <1>25, <1>26

-----------------------------------------------------------------------------
(***************************************************************************)
(* CloneTo copies what it is deep enough for, and clone everything.        *)
(***************************************************************************)

(* CloneTo[n] copies every element of rank n at most.                      *)
LEMMA CloneToIs ==
  ASSUME NEW base, Linked(base), NEW S, S \subseteq DOMAIN base, NEW rank, Ranks(base, S, rank), NEW n \in Nat
  PROVE  \A h, b : Extends(base, h) /\ b \in S /\ rank[b] <= n =>
                     IsCopy(base, h, b, CloneTo[n][<<h, b>>])
<1> DEFINE T == {m \in Nat : \A h, b : Extends(base, h) /\ b \in S /\ rank[b] <= m =>
                                         IsCopy(base, h, b, CloneTo[m][<<h, b>>])}
<1>1. base \in Seq(Element) /\ DOMAIN base \subseteq Nat
  BY DEF Linked
<1>2. ASSUME NEW h, Extends(base, h), NEW b \in DOMAIN base, NEW m, NEW deeper
      PROVE  Level(m, deeper)[<<h, b>>] = IF m = 0 THEN Copied(h, h[b]) ELSE CloneOne(deeper, h, b)
  <2>1. <<h, b>> \in Seq(Element) \X Nat
    BY <1>1, <1>2 DEF Extends
  <2> QED  BY <2>1 DEF Level
<1>3. 0 \in T
  <2> SUFFICES ASSUME NEW h, NEW b, Extends(base, h), b \in S, rank[b] <= 0
               PROVE  IsCopy(base, h, b, CloneTo[0][<<h, b>>])
    OBVIOUS
  <2>1. Children(base, b) = {}
    <3> SUFFICES ASSUME NEW c \in Children(base, b)  PROVE FALSE
      OBVIOUS
    <3>1. c \in S
      BY DEF Ranks
    <3>2. rank[c] \in Nat /\ rank[b] \in Nat /\ rank[c] < rank[b]
      BY <3>1 DEF Ranks
    <3> QED  BY <3>2
  <2>2. CloneTo[0][<<h, b>>] = Copied(h, h[b])
    BY <1>2, CloneSteps
  <2> QED  BY <1>1, <2>1, <2>2, CopiedAlone
<1>4. ASSUME NEW m \in Nat, m \in T  PROVE m + 1 \in T
  <2> SUFFICES ASSUME NEW h, NEW b, Extends(base, h), b \in S, rank[b] <= m + 1
               PROVE  IsCopy(base, h, b, CloneTo[m + 1][<<h, b>>])
    OBVIOUS
  <2>1. m + 1 \in Nat \ {0} /\ (m + 1) - 1 = m /\ m + 1 # 0
    OBVIOUS
  <2>2. CloneTo[m + 1] = Level(m + 1, CloneTo[(m + 1) - 1])
    BY <2>1, CloneSteps
  <2>3. CloneTo[m + 1][<<h, b>>] = CloneOne(CloneTo[m], h, b)
    BY <1>2, <2>1, <2>2
  <2>4. ASSUME NEW h1, NEW c, Extends(base, h1), c \in Children(base, b)
        PROVE  IsCopy(base, h1, c, CloneTo[m][<<h1, c>>])
    <3>1. c \in S
      BY <2>4 DEF Ranks
    <3>2. rank[c] \in Nat /\ rank[b] \in Nat /\ rank[c] < rank[b]
      BY <2>4, <3>1 DEF Ranks
    <3>3. rank[c] <= m
      BY <3>2
    <3> QED  BY <1>4, <2>4, <3>1, <3>3
  <2> HIDE DEF T
  <2>5. IsCopy(base, h, b, CloneOne(CloneTo[m], h, b))
    BY <2>4, CloneOneIs
  <2> QED  BY <2>3, <2>5
<1> HIDE DEF T
<1>5. n \in T
  BY <1>3, <1>4, Induction
<1> QED  BY <1>5 DEF T

(* There are never more depths than elements.                              *)
LEMMA CloneIs ==
  ASSUME NEW h, WellFormed(h), NEW b \in DOMAIN h, IsTree(h, b)
  PROVE  IsCopy(h, h, b, clone(h, b))
<1>1. Linked(h)
  BY WellFormedIs
<1>2. PICK rank : Ranks(h, Below(h, b), rank) /\ rank[b] <= Len(h)
  BY <1>1, TreeIsRanked
<1>3. Len(h) \in Nat /\ h \in Seq(Element)
  BY <1>1 DEF Linked
<1>4. Extends(h, h)
  BY <1>3 DEF Extends
<1>5. b \in Below(h, b) /\ Below(h, b) \subseteq DOMAIN h
  BY <1>1, BelowIs
<1>6. IsCopy(h, h, b, CloneTo[Len(h)][<<h, b>>])
  BY <1>1, <1>2, <1>3, <1>4, <1>5, CloneToIs
<1> QED  BY <1>6 DEF clone

(* The elements with copies of some of them.                               *)
LEMMA CopiesAre ==
  ASSUME NEW h, Linked(h), NEW h2, NEW image, Copies(h, h, h2, image)
  PROVE  /\ h2 \in Seq(Element) /\ DOMAIN h = 1..Len(h) /\ DOMAIN h2 = 1..Len(h2)
         /\ Len(h) \in Nat /\ Len(h2) \in Nat /\ Len(h) <= Len(h2)
         /\ \A b \in DOMAIN h : b \in DOMAIN h2 /\ h2[b] = h[b] /\ Children(h2, b) = Children(h, b)
         /\ \A i \in (Len(h) + 1)..Len(h2) :
               /\ i \in DOMAIN h2 /\ i \notin DOMAIN h
               /\ image[i] \in DOMAIN h /\ SameBut(h[image[i]], h2[i])
               /\ Children(h2, i) \subseteq (Len(h) + 1)..(i - 1)
<1>1. h \in Seq(Element) /\ Extends(h, h2)
  BY DEF Linked, Copies
<1>2. /\ h2 \in Seq(Element) /\ DOMAIN h = 1..Len(h) /\ DOMAIN h2 = 1..Len(h2)
      /\ Len(h) \in Nat /\ Len(h2) \in Nat /\ Len(h) <= Len(h2)
      /\ \A b \in DOMAIN h : b \in DOMAIN h2 /\ h2[b] = h[b]
  BY <1>1, ExtendsIs
<1>3. \A b \in DOMAIN h : Children(h2, b) = Children(h, b)
  BY <1>2, ChildrenAre
<1>4. ASSUME NEW i \in (Len(h) + 1)..Len(h2)
      PROVE  /\ i \in DOMAIN h2 /\ i \notin DOMAIN h
             /\ image[i] \in DOMAIN h /\ SameBut(h[image[i]], h2[i])
             /\ Children(h2, i) \subseteq (Len(h) + 1)..(i - 1)
  <2>1. CopyIs(h, Len(h), h2, image, i)
    BY DEF Copies
  <2>2. i \in 1..Len(h2) /\ ~ (i \in 1..Len(h))
    BY <1>2
  <2>3. Children(h2, i) \subseteq (Len(h) + 1)..(i - 1)
    BY <2>1, ChildrenAre DEF CopyIs, ChildrenOf, ToSet
  <2> QED  BY <1>2, <2>1, <2>2, <2>3 DEF CopyIs
<1> QED  BY <1>2, <1>3, <1>4

(* With copies of some of them, elements stay what they are.               *)
LEMMA CopiesKeepForm ==
  ASSUME NEW h, WellFormed(h), NEW h2, NEW image, Copies(h, h, h2, image)
  PROVE  WellFormed(h2)
<1>1. /\ Linked(h)
      /\ \A x \in DOMAIN h : h[x].is = "value" <=> h[x].type \in ValueType
      /\ \A x \in DOMAIN h : h[x].is = "array" => Whole(h, ToSet(h[x].array_))
  BY WellFormedIs
<1> DEFINE New == (Len(h) + 1)..Len(h2)
<1>2. /\ h2 \in Seq(Element) /\ DOMAIN h = 1..Len(h) /\ DOMAIN h2 = 1..Len(h2)
      /\ Len(h) \in Nat /\ Len(h2) \in Nat /\ Len(h) <= Len(h2)
      /\ \A b \in DOMAIN h : b \in DOMAIN h2 /\ h2[b] = h[b] /\ Children(h2, b) = Children(h, b)
      /\ \A i \in New : /\ i \in DOMAIN h2 /\ i \notin DOMAIN h
                        /\ image[i] \in DOMAIN h /\ SameBut(h[image[i]], h2[i])
                        /\ Children(h2, i) \subseteq (Len(h) + 1)..(i - 1)
  BY <1>1, CopiesAre
<1>3. \A i \in DOMAIN h2 : i \in DOMAIN h \/ i \in New
  BY <1>2
<1>4. ASSUME NEW i \in New, NEW c \in Children(h2, i)  PROVE c \in New /\ c \in Nat /\ i \in Nat /\ c < i
  <2>1. c \in (Len(h) + 1)..(i - 1)
    BY <1>2
  <2> QED  BY <1>2, <2>1
<1>5. Linked(h2)
  <2>1. ASSUME NEW b \in DOMAIN h2  PROVE Children(h2, b) \subseteq DOMAIN h2
    <3>1. CASE b \in DOMAIN h
      BY <1>1, <1>2, <3>1 DEF Linked
    <3>2. CASE b \in New
      BY <1>2, <1>4, <3>2
    <3> QED  BY <1>3, <3>1, <3>2
  <2> QED  BY <1>2, <2>1 DEF Linked
<1>9. ASSUME NEW i \in DOMAIN h2
      PROVE  \E x \in DOMAIN h : h2[i].is = h[x].is /\ h2[i].type = h[x].type
  <2>1. CASE i \in DOMAIN h
    BY <1>2, <2>1
  <2>2. CASE i \in New
    BY <1>2, <2>2 DEF SameBut
  <2> QED  BY <1>3, <2>1, <2>2
<1>10. \A i \in DOMAIN h2 : h2[i].is = "value" <=> h2[i].type \in ValueType
  BY <1>1, <1>9
<1>11. ASSUME NEW i \in DOMAIN h2, h2[i].is = "array"  PROVE Whole(h2, ToSet(h2[i].array_))
  <2>1. CASE i \in DOMAIN h
    <3>1. h2[i] = h[i] /\ Whole(h, ToSet(h[i].array_)) /\ ToSet(h[i].array_) \subseteq DOMAIN h
      BY <1>1, <1>2, <1>11, <2>1 DEF Linked, Children
    <3> QED  BY <1>2, <3>1, WholeStays
  <2>2. CASE i \in New
    <3> DEFINE x == image[i]
    <3>1. x \in DOMAIN h /\ h[x].is = "array" /\ SameBut(h[x], h2[i])
      BY <1>2, <1>11, <2>2 DEF SameBut
    <3>2. CopyIs(h, Len(h), h2, image, i)
      BY <2>2 DEF Copies
    <3>3. Whole(h, ToSet(h[x].array_))
      BY <1>1, <3>1
    <3>4. ASSUME NEW y \in ToSet(h2[i].array_)
          PROVE  \E z \in ToSet(h[x].array_) : h2[y].is = h[z].is /\ h2[y].type = h[z].type
      <4>1. PICK j \in DOMAIN h2[i].array_ : y = h2[i].array_[j]
        BY DEF ToSet
      <4>2. image[y] = h[x].array_[j] /\ j \in DOMAIN h[x].array_
        BY <3>1, <3>2, <4>1 DEF CopyIs, SameBut
      <4>3. y \in New
        <5>1. y \in Children(h2, i)
          BY DEF Children
        <5> QED  BY <1>4, <2>2, <5>1
      <4>4. SameBut(h[image[y]], h2[y])
        BY <1>2, <4>3
      <4>5. image[y] \in ToSet(h[x].array_)
        BY <4>2 DEF ToSet
      <4> QED  BY <4>4, <4>5 DEF SameBut
    <3> HIDE DEF x
    <3> QED  BY <3>3, <3>4, WholeStays
  <2> QED  BY <1>3, <2>1, <2>2
<1> QED  BY <1>5, <1>10, <1>11, WellFormedIs

(* A copy is made of new elements only.                                    *)
LEMMA CopiesAreApart ==
  ASSUME NEW h, WellFormed(h), NEW h2, NEW image, Copies(h, h, h2, image),
         NEW c \in (Len(h) + 1)..Len(h2)
  PROVE  Below(h2, c) \cap DOMAIN h = {}
<1> DEFINE New == (Len(h) + 1)..Len(h2)
<1>1. Linked(h) /\ Linked(h2)
  BY CopiesKeepForm, WellFormedIs
<1>2. /\ DOMAIN h = 1..Len(h) /\ DOMAIN h2 = 1..Len(h2) /\ Len(h) \in Nat /\ Len(h2) \in Nat
      /\ \A i \in New : i \in DOMAIN h2 /\ i \notin DOMAIN h /\ Children(h2, i) \subseteq (Len(h) + 1)..(i - 1)
  BY <1>1, CopiesAre
<1>3. \A i \in New : (Len(h) + 1)..(i - 1) \subseteq New
  BY <1>2
<1>4. \A i \in New \cap DOMAIN h2 : Children(h2, i) \subseteq New
  BY <1>2, <1>3
<1>5. c \in DOMAIN h2 /\ c \in New
  BY <1>2
<1> HIDE DEF New
<1>6. Below(h2, c) \subseteq New
  BY <1>1, <1>4, <1>5, BelowIs
<1> QED  BY <1>2, <1>6

(* One depth of Alike.                                                     *)
Resembles(h, n, deeper) ==
  [of \in (DOMAIN h) \X (DOMAIN h) |->
     LET o == h[of[1]]
         p == h[of[2]] IN
       /\ SameBut(o, p)
       /\ n > 0 =>
            /\ \A i \in DOMAIN o.array_ : deeper[<<o.array_[i], p.array_[i]>>]
            /\ \A key \in Key : o.map_[key] # Null => deeper[<<o.map_[key], p.map_[key]>>]]

(* Alike at one depth, by Alike at the one before.                         *)
LEMMA AlikeSteps ==
  ASSUME NEW h
  PROVE  \E alike : /\ \A n \in Nat : alike[n] = Resembles(h, n, alike[n - 1])
                    /\ \A b, c : Alike(h, b, c) = alike[Len(h)][<<b, c>>]
<1> DEFINE X == (DOMAIN h) \X (DOMAIN h)
           D == [X -> BOOLEAN]
           step == [F \in D |-> Resembles(h, 1, F)]
           base == Resembles(h, 0, <<>>)
           Is(f) == f = [n \in Nat |-> Resembles(h, n, f[n - 1])]
           alike == CHOOSE f : Is(f)
<1>1. \A n, F : Resembles(h, n, F) \in D
  BY Zenon DEF Resembles
<1>2. step \in [D -> D] /\ base \in D
  <2> HIDE DEF D
  <2> QED  BY <1>1
<1>3. PICK f \in [Nat -> D] : f[0] = base /\ \A k \in Nat \ {0} : f[k] = step[f[k - 1]]
  <2> HIDE DEF D, step, base
  <2> QED  BY <1>2, RecursionExists
<1>4. \A F, G : Resembles(h, 0, F) = Resembles(h, 0, G)
  BY DEF Resembles
<1>5. \A n \in Nat \ {0} : \A F : Resembles(h, n, F) = Resembles(h, 1, F)
  <2>1. \A n \in Nat \ {0} : n > 0 <=> 1 > 0
    OBVIOUS
  <2> QED  BY <2>1 DEF Resembles
<1>6. ASSUME NEW n \in Nat  PROVE f[n] = Resembles(h, n, f[n - 1])
  <2>1. CASE n = 0
    <3>1. Resembles(h, 0, f[n - 1]) = base
      BY <1>4
    <3> QED  BY <1>3, <2>1, <3>1
  <2>2. CASE n # 0
    <3>1. n - 1 \in Nat /\ n \in Nat \ {0}
      BY <2>2
    <3> HIDE DEF D
    <3>2. f[n - 1] \in D
      BY <1>3, <3>1
    <3>3. step[f[n - 1]] = Resembles(h, 1, f[n - 1])
      BY <3>2
    <3> QED  BY <1>3, <1>5, <3>1, <3>3
  <2> QED  BY <2>1, <2>2
<1>7. Is(f)
  <2> DEFINE rhs == [n \in Nat |-> Resembles(h, n, f[n - 1])]
  <2>1. \A n \in Nat : f[n] = rhs[n]
    BY <1>6
  <2>2. f = [n \in Nat |-> f[n]]
    BY <1>3
  <2> QED  BY <2>1, <2>2
<1>8. Is(alike)
  BY <1>7
<1>9. \A b, c : Alike(h, b, c) = alike[Len(h)][<<b, c>>]
  BY DEF Alike, Resembles
<1> HIDE DEF alike
<1>10. \A n \in Nat : alike[n] = Resembles(h, n, alike[n - 1])
  BY <1>8
<1> QED  BY <1>9, <1>10

(* A copy has the shape of its image.                                      *)
LEMMA CopiesAreAlike ==
  ASSUME NEW h, WellFormed(h), NEW h2, NEW image, Copies(h, h, h2, image),
         NEW c \in (Len(h) + 1)..Len(h2)
  PROVE  Alike(h2, image[c], c)
<1> DEFINE New == (Len(h) + 1)..Len(h2)
<1>1. Linked(h) /\ Len(h2) \in Nat
  BY WellFormedIs, CopiesAre
<1>2. ASSUME NEW i \in New
      PROVE  /\ <<image[i], i>> \in (DOMAIN h2) \X (DOMAIN h2) /\ h2[image[i]] = h[image[i]]
             /\ SameBut(h2[image[i]], h2[i])
             /\ Children(h2, i) \subseteq New
             /\ CopyIs(h, Len(h), h2, image, i)
  <2>1. /\ i \in DOMAIN h2 /\ image[i] \in DOMAIN h2 /\ h2[image[i]] = h[image[i]]
        /\ SameBut(h[image[i]], h2[i])
    BY <1>1, CopiesAre
  <2>2. Children(h2, i) \subseteq (Len(h) + 1)..(i - 1) /\ Len(h) \in Nat
    BY <1>1, CopiesAre
  <2>3. (Len(h) + 1)..(i - 1) \subseteq New
    BY <1>1, <2>2
  <2> QED  BY <2>1, <2>2, <2>3 DEF Copies
<1>3. PICK alike : /\ \A n \in Nat : alike[n] = Resembles(h2, n, alike[n - 1])
                   /\ \A x, y : Alike(h2, x, y) = alike[Len(h2)][<<x, y>>]
  BY AlikeSteps
<1> DEFINE T == {n \in Nat : \A i \in New : alike[n][<<image[i], i>>]}
<1> HIDE DEF New
<1>4. ASSUME NEW n \in Nat, n > 0 => n - 1 \in T, NEW i \in New
      PROVE  alike[n][<<image[i], i>>]
  <2> DEFINE o == h2[image[i]]
             p == h2[i]
  <2>1. ASSUME n > 0, NEW j \in DOMAIN o.array_
        PROVE  alike[n - 1][<<o.array_[j], p.array_[j]>>]
    <3>1. j \in DOMAIN p.array_
      BY <1>2 DEF SameBut
    <3>2. p.array_[j] \in New /\ image[p.array_[j]] = o.array_[j]
      <4>1. p.array_[j] \in Children(h2, i)
        BY <3>1 DEF Children, ToSet
      <4>2. image[p.array_[j]] = h[image[i]].array_[j]
        BY <1>2, <3>1 DEF CopyIs
      <4>3. h2[image[i]] = h[image[i]] /\ Children(h2, i) \subseteq New
        BY <1>2
      <4> QED  BY <4>1, <4>2, <4>3
    <3> HIDE DEF o, p
    <3> QED  BY <1>4, <2>1, <3>2
  <2>2. ASSUME n > 0, NEW key \in Key, o.map_[key] # Null
        PROVE  alike[n - 1][<<o.map_[key], p.map_[key]>>]
    <3>1. p.map_[key] # Null
      BY <1>2, <2>2 DEF SameBut
    <3>2. p.map_[key] \in New /\ image[p.map_[key]] = o.map_[key]
      <4>1. p.map_[key] \in Children(h2, i)
        BY <3>1, ChildrenAre DEF ChildrenOf
      <4>2. image[p.map_[key]] = h[image[i]].map_[key]
        BY <1>2, <3>1 DEF CopyIs
      <4>3. h2[image[i]] = h[image[i]] /\ Children(h2, i) \subseteq New
        BY <1>2
      <4> QED  BY <4>1, <4>2, <4>3
    <3> HIDE DEF o, p
    <3> QED  BY <1>4, <2>2, <3>2
  <2>3. SameBut(o, p)
    BY <1>2
  <2>4. alike[n] = Resembles(h2, n, alike[n - 1])
    BY <1>3
  <2>5. Resembles(h2, n, alike[n - 1])[<<image[i], i>>]
    <3> DEFINE deeper == alike[n - 1]
    <3> HIDE DEF T
    <3>1. /\ SameBut(o, p)
          /\ n > 0 =>
               /\ \A j \in DOMAIN o.array_ : deeper[<<o.array_[j], p.array_[j]>>]
               /\ \A key \in Key : o.map_[key] # Null => deeper[<<o.map_[key], p.map_[key]>>]
      BY <2>1, <2>2, <2>3
    <3> HIDE DEF deeper
    <3>2. Resembles(h2, n, deeper)[<<image[i], i>>]
      BY <1>2, <3>1 DEF Resembles
    <3> QED  BY <3>2 DEF deeper
  <2> QED  BY <2>4, <2>5
<1>5. 0 \in T
  BY <1>4
<1>6. ASSUME NEW n \in Nat, n \in T  PROVE n + 1 \in T
  <2>1. n + 1 \in Nat /\ (n + 1) - 1 = n
    OBVIOUS
  <2>2. \A i \in New : alike[n + 1][<<image[i], i>>]
    BY <1>4, <1>6, <2>1
  <2> QED  BY <2>1, <2>2
<1> HIDE DEF T
<1>7. Len(h2) \in T
  BY <1>1, <1>5, <1>6, Induction
<1>8. alike[Len(h2)][<<image[c], c>>]
  BY <1>7 DEF T, New
<1> QED  BY <1>3, <1>8

-----------------------------------------------------------------------------
(***************************************************************************)
(* The inductive invariant.                                                *)
(***************************************************************************)

(* What the program has made is well formed at every moment, and what it   *)
(* was given first is still there.                                         *)
ElementsInv ==
  /\ WellFormed(heap)
  /\ keys \subseteq Key
  /\ Root \in DOMAIN heap

(* The program loses no element.                                           *)
LEMMA LongerKeepsRoot ==
  ASSUME Root \in DOMAIN heap, heap \in Seq(Element), NEW h \in Seq(Element), Len(heap) <= Len(h)
  PROVE  Root \in DOMAIN h
BY DEF Root

(* There is a double that is nearest, and ToDouble gives one of those.     *)
LEMMA DoubleIsNear ==
  ASSUME NEW n \in Int
  PROVE  ToDouble(n) \in Nearest(n)
<1> DEFINE Distances == {Distance(d, n) : d \in Double}
           near == Nearest(n)
<1>1. Double \subseteq Int /\ 0 \in Double
  BY TreeAssumption
<1>2. \A d \in Int : Distance(d, n) \in Nat /\ (d = n - Distance(d, n) \/ d = n + Distance(d, n))
  BY DEF Distance
<1>3. Distances \subseteq Nat /\ Distances # {}
  BY <1>1, <1>2
<1>4. PICK least \in Distances : \A m \in Distances : least <= m
  BY <1>3, Least
<1>5. least \in Nat
  BY <1>3, <1>4
<1>6. PICK nearest \in Double : least = Distance(nearest, n)
  BY <1>4
<1>7. nearest \in near
  BY <1>4, <1>6 DEF Nearest
<1>8. near \subseteq {n - least, n + least} /\ near \subseteq Int
  <2> SUFFICES ASSUME NEW d \in near  PROVE d \in {n - least, n + least} /\ d \in Int
    OBVIOUS
  <2>1. d \in Double /\ Distance(d, n) <= Distance(nearest, n)
    BY <1>6 DEF Nearest
  <2>2. least <= Distance(d, n)
    BY <1>4, <2>1
  <2> HIDE DEF Distances, near
  <2>3. d \in Int /\ Distance(d, n) \in Nat
    BY <1>1, <1>2, <2>1
  <2>4. Distance(d, n) = least
    BY <1>5, <1>6, <2>1, <2>2, <2>3
  <2> QED  BY <1>2, <2>3, <2>4
<1> HIDE DEF near
<1>9. \E low \in near : \A d \in near : low <= d
  BY <1>5, <1>7, <1>8
<1>10. \E high \in near : \A d \in near : high >= d
  BY <1>5, <1>7, <1>8
<1>11. Min(near) \in near /\ Max(near) \in near
  BY <1>9, <1>10 DEF Min, Max
<1> QED  BY <1>11 DEF ToDouble, near

(* One more element.                                                       *)
LEMMA MakeKeepsInv ==
  ASSUME ElementsInv, NEW is \in {"value", "array", "table", "table_array", "static"},
         NEW type \in ValueType \cup {"none"}, NEW data \in Int, is = "value" <=> type \in ValueType,
         Make(is, type, data)
  PROVE  WellFormed(heap') /\ Root \in DOMAIN heap'
<1> DEFINE o == Object(is, type, data)
<1>1. heap \in Seq(Element) /\ WellFormed(heap) /\ Root \in DOMAIN heap
  BY DEF ElementsInv, WellFormed
<1>2. o \in Element /\ o.is = is /\ o.type = type
  BY DEF Object, Element, Null
<1>3. ChildrenOf(o) = {}
  BY DEF ChildrenOf, Object, ToSet
<1>4. heap' = Append(heap, o)
  BY DEF Make
<1> HIDE DEF o
<1>5. WellFormed(Append(heap, o))
  BY <1>1, <1>2, <1>3, MadeKeepsForm
<1>6. Append(heap, o) \in Seq(Element) /\ Len(Append(heap, o)) = Len(heap) + 1 /\ Len(heap) \in Nat
  BY <1>1, <1>2
<1>7. Root \in DOMAIN Append(heap, o)
  BY <1>1, <1>6 DEF Root
<1> QED  BY <1>4, <1>5, <1>7

(* make_value, make_array, make_table, make_table_array.                   *)
LEMMA MakersKeepInv ==
  ASSUME ElementsInv,
         \/ \E made \in Made : make_value(made.type, made.number)
         \/ make_array \/ make_table \/ make_table_array
  PROVE  WellFormed(heap') /\ Root \in DOMAIN heap'
<1>1. ASSUME NEW made \in Made, make_value(made.type, made.number)
      PROVE  WellFormed(heap') /\ Root \in DOMAIN heap'
  <2> DEFINE data == IF made.type = "double" THEN ToDouble(made.number) ELSE made.number
  <2>1. made.type \in ValueType /\ made.number \in Int
    BY TreeAssumption
  <2>2. \A n \in Int : ToDouble(n) \in Int
    BY DoubleIsNear, TreeAssumption DEF Nearest
  <2>3. data \in Int
    BY <2>1, <2>2
  <2>4. Make("value", made.type, data)
    BY <1>1 DEF make_value
  <2> QED  BY <2>1, <2>3, <2>4, MakeKeepsInv
<1>2. "none" \notin ValueType /\ 0 \in Int
  BY DEF ValueType
<1>3. ASSUME make_array  PROVE WellFormed(heap') /\ Root \in DOMAIN heap'
  BY <1>2, <1>3, MakeKeepsInv DEF make_array
<1>4. ASSUME make_table  PROVE WellFormed(heap') /\ Root \in DOMAIN heap'
  BY <1>2, <1>4, MakeKeepsInv DEF make_table
<1>5. ASSUME make_table_array  PROVE WellFormed(heap') /\ Root \in DOMAIN heap'
  <2>1. Make("static", "none", 0) \/ Make("table_array", "none", 0)
    BY <1>5 DEF make_table_array
  <2> QED  BY <1>2, <2>1, MakeKeepsInv
<1> QED  BY <1>1, <1>3, <1>4, <1>5

(* insert and erase of a table.                                            *)
LEMMA TableCallsKeepInv ==
  ASSUME ElementsInv,
         \/ \E t, b \in DOMAIN heap, key \in keys : insert(t, key, b)
         \/ \E t \in DOMAIN heap, key \in keys : erase(t, key)
  PROVE  WellFormed(heap') /\ Root \in DOMAIN heap'
<1>1. /\ WellFormed(heap) /\ Root \in DOMAIN heap /\ heap \in Seq(Element) /\ keys \subseteq Key
      /\ DOMAIN heap \subseteq Nat /\ 0 \notin DOMAIN heap
  BY DEF ElementsInv, WellFormed
<1>2. ASSUME NEW t \in DOMAIN heap, NEW b \in DOMAIN heap, NEW key \in keys, insert(t, key, b)
      PROVE  WellFormed(heap') /\ Root \in DOMAIN heap'
  <2>1. heap[t].is = "table" /\ heap' = [heap EXCEPT ![t].map_[key] = b]
    BY <1>2 DEF insert
  <2>2. WellFormed([heap EXCEPT ![t].map_[key] = b])
    BY <1>1, <2>1, PutKeepsForm
  <2> QED  BY <1>1, <2>1, <2>2
<1>3. ASSUME NEW t \in DOMAIN heap, NEW key \in keys, erase(t, key)
      PROVE  WellFormed(heap') /\ Root \in DOMAIN heap'
  <2>1. heap[t].is = "table" /\ heap' = [heap EXCEPT ![t].map_[key] = Null]
    BY <1>3 DEF erase
  <2>2. WellFormed([heap EXCEPT ![t].map_[key] = Null])
    BY <1>1, <2>1, PutKeepsForm DEF Null
  <2> QED  BY <1>1, <2>1, <2>2
<1> QED  BY <1>2, <1>3

(* An array that takes an element can be read as a whole with it.          *)
LEMMA TakesIs ==
  ASSUME WellFormed(heap), NEW a \in DOMAIN heap, NEW b \in DOMAIN heap, Takes(a, b)
  PROVE  heap[a].is = "array" => Whole(heap, ToSet(heap[a].array_) \cup {b})
<1> SUFFICES ASSUME heap[a].is = "array"  PROVE Whole(heap, ToSet(heap[a].array_) \cup {b})
  OBVIOUS
<1>1. TakesElement(a, b)
  BY DEF Takes
<1> QED  BY <1>1, TakenIsWhole

(* What can be had whole can be had without some of it.                    *)
LEMMA SomeAreWhole ==
  ASSUME NEW h, NEW S, NEW S2 \in SUBSET S, Whole(h, S)
  PROVE  Whole(h, S2)
BY WholeStays

(* With elements of its own, and perhaps one that it takes.                *)
LEMMA ArrayKeepsInv ==
  ASSUME ElementsInv, NEW a \in DOMAIN heap, NEW b \in DOMAIN heap, NEW s \in Seq(Nat),
         \/ ToSet(s) \subseteq ToSet(heap[a].array_)
         \/ Takes(a, b) /\ ToSet(s) \subseteq ToSet(heap[a].array_) \cup {b},
         heap' = [heap EXCEPT ![a].array_ = s]
  PROVE  WellFormed(heap') /\ Root \in DOMAIN heap'
<1> DEFINE S == ToSet(heap[a].array_)
<1>1. heap[a].is = "array" => Whole(heap, S)
  BY WellFormedIs DEF ElementsInv
<1>2. WellFormed(heap) /\ Root \in DOMAIN heap /\ DOMAIN heap \subseteq Nat /\ 0 \notin DOMAIN heap
  BY DEF ElementsInv, WellFormed
<1>3. CASE ToSet(s) \subseteq S
  <2>1. heap[a].is = "array" => Whole(heap, ToSet(s))
    <3> HIDE DEF S
    <3> QED  BY <1>1, <1>2, <1>3, SomeAreWhole
  <2>2. ToSet(s) \subseteq S \cup ({0} \cap DOMAIN heap)
    BY <1>3
  <2>3. WellFormed([heap EXCEPT ![a].array_ = s])
    BY <1>2, <2>1, <2>2, ArrayKeepsForm
  <2> QED  BY <1>2, <2>3
<1>4. CASE Takes(a, b) /\ ToSet(s) \subseteq S \cup {b}
  <2>1. heap[a].is = "array" => Whole(heap, S \cup {b})
    BY <1>2, <1>4, TakesIs
  <2>2. heap[a].is = "array" => Whole(heap, ToSet(s))
    <3> HIDE DEF S
    <3> QED  BY <1>4, <2>1, SomeAreWhole
  <2>3. ToSet(s) \subseteq S \cup ({b} \cap DOMAIN heap)
    BY <1>4
  <2>4. WellFormed([heap EXCEPT ![a].array_ = s])
    BY <1>2, <2>1, <2>2, <2>3, ArrayKeepsForm
  <2> QED  BY <1>2, <2>4
<1> QED  BY <1>3, <1>4

(* push_back, insert, erase and clear of an array.                         *)
LEMMA ArrayCallsKeepInv ==
  ASSUME ElementsInv,
         \/ \E a, b \in DOMAIN heap : push_back(a, b)
         \/ \E a, b \in DOMAIN heap, position \in 1..MaxObjects : insert_at(a, position, b)
         \/ \E a \in DOMAIN heap, position \in 1..MaxObjects : erase_at(a, position)
         \/ \E a \in DOMAIN heap : clear(a)
  PROVE  WellFormed(heap') /\ Root \in DOMAIN heap'
<1>1. /\ heap \in Seq(Element) /\ DOMAIN heap \subseteq Nat
      /\ \A a \in DOMAIN heap : heap[a].array_ \in Seq(Nat)
  <2>1. heap \in Seq(Element)
    BY DEF ElementsInv, WellFormed
  <2>2. DOMAIN heap \subseteq Nat /\ \A a \in DOMAIN heap : heap[a] \in Element
    BY <2>1
  <2> QED  BY <2>1, <2>2 DEF Element
<1>2. ASSUME NEW a \in DOMAIN heap, NEW b \in DOMAIN heap, push_back(a, b)
      PROVE  WellFormed(heap') /\ Root \in DOMAIN heap'
  <2> DEFINE s == Append(heap[a].array_, b)
  <2>1. Takes(a, b) /\ heap' = [heap EXCEPT ![a].array_ = s]
    BY <1>2 DEF push_back
  <2>2. s \in Seq(Nat) /\ ToSet(s) \subseteq ToSet(heap[a].array_) \cup {b}
    <3>1. heap[a].array_ \in Seq(Nat) /\ b \in Nat
      BY <1>1
    <3> QED  BY <3>1, AppendIs
  <2> HIDE DEF s
  <2> QED  BY <2>1, <2>2, ArrayKeepsInv
<1>3. ASSUME NEW a \in DOMAIN heap, NEW b \in DOMAIN heap, NEW position \in 1..MaxObjects,
             insert_at(a, position, b)
      PROVE  WellFormed(heap') /\ Root \in DOMAIN heap'
  <2> DEFINE s == InsertAt(heap[a].array_, position, b)
  <2>1. Takes(a, b) /\ position \in DOMAIN heap[a].array_ /\ heap' = [heap EXCEPT ![a].array_ = s]
    BY <1>3 DEF insert_at
  <2>2. s \in Seq(Nat) /\ ToSet(s) \subseteq ToSet(heap[a].array_) \cup {b}
    <3>1. position \in DOMAIN heap[a].array_ /\ heap[a].array_ \in Seq(Nat) /\ b \in Nat
      BY <1>1, <2>1
    <3> QED  BY <3>1, InsertAtIs
  <2> HIDE DEF s
  <2> QED  BY <2>1, <2>2, ArrayKeepsInv
<1>4. ASSUME NEW a \in DOMAIN heap, NEW position \in 1..MaxObjects, erase_at(a, position)
      PROVE  WellFormed(heap') /\ Root \in DOMAIN heap'
  <2> DEFINE s == RemoveAt(heap[a].array_, position)
  <2>1. position \in DOMAIN heap[a].array_ /\ heap' = [heap EXCEPT ![a].array_ = s]
    BY <1>4 DEF erase_at
  <2>2. s \in Seq(Nat) /\ ToSet(s) \subseteq ToSet(heap[a].array_)
    <3>1. position \in DOMAIN heap[a].array_ /\ heap[a].array_ \in Seq(Nat)
      BY <1>1, <2>1
    <3> QED  BY <3>1, RemoveAtIs
  <2> HIDE DEF s
  <2> QED  BY <2>1, <2>2, ArrayKeepsInv
<1>5. ASSUME NEW a \in DOMAIN heap, clear(a)  PROVE WellFormed(heap') /\ Root \in DOMAIN heap'
  <2>1. heap' = [heap EXCEPT ![a].array_ = <<>>]
    BY <1>5 DEF clear
  <2>2. <<>> \in Seq(Nat) /\ ToSet(<<>>) \subseteq ToSet(heap[a].array_)
    BY DEF ToSet
  <2> QED  BY <2>1, <2>2, ArrayKeepsInv
<1> QED  BY <1>2, <1>3, <1>4, <1>5

(* clone.                                                                  *)
LEMMA CloneKeepsInv ==
  ASSUME ElementsInv, NEW b \in DOMAIN heap, Clone(b)
  PROVE  WellFormed(heap') /\ Root \in DOMAIN heap'
<1> DEFINE h == clone(heap, b).heap
<1>1. WellFormed(heap) /\ heap \in Seq(Element) /\ Root \in DOMAIN heap
  BY DEF ElementsInv, WellFormed
<1>0. IsTree(heap, b)
  BY DEF Clone
<1>2. PICK image : Copies(heap, heap, h, image)
  BY <1>0, <1>1, CloneIs DEF IsCopy
<1>3. heap' = h
  BY DEF Clone
<1> HIDE DEF h
<1>4. WellFormed(h)
  BY <1>1, <1>2, CopiesKeepForm
<1>5. h \in Seq(Element) /\ Len(heap) <= Len(h)
  BY <1>2 DEF Copies, Extends
<1>6. Root \in DOMAIN h
  BY <1>1, <1>5, LongerKeepsRoot
<1> QED  BY <1>3, <1>4, <1>6

(***************************************************************************)
(* Whatever calls a program makes, what is in an element is one, and the   *)
(* elements of an array are all arrays, of tables too, or all of one type. *)
(***************************************************************************)
THEOREM ElementsStayWellFormed == Spec => []ElementsInv
<1>1. Init => ElementsInv
  BY TreeAssumption, ConfigurationAssumption DEF Init, ElementsInv
<1>2. ElementsInv /\ [Next]_vars => ElementsInv'
  <2> SUFFICES ASSUME ElementsInv, [Next]_vars  PROVE ElementsInv'
    OBVIOUS
  <2>1. CASE Next
    <3>1. Call /\ keys' = keys
      BY <2>1 DEF Next
    <3>2. WellFormed(heap') /\ Root \in DOMAIN heap'
      <4>1. CASE \/ \E made \in Made : make_value(made.type, made.number)
                 \/ make_array \/ make_table \/ make_table_array
        BY <4>1, MakersKeepInv
      <4>2. CASE \/ \E t, b \in DOMAIN heap, key \in keys : insert(t, key, b)
                 \/ \E t \in DOMAIN heap, key \in keys : erase(t, key)
        BY <4>2, TableCallsKeepInv
      <4>3. CASE \/ \E a, b \in DOMAIN heap : push_back(a, b)
                 \/ \E a, b \in DOMAIN heap, position \in 1..MaxObjects : insert_at(a, position, b)
                 \/ \E a \in DOMAIN heap, position \in 1..MaxObjects : erase_at(a, position)
                 \/ \E a \in DOMAIN heap : clear(a)
        BY <4>3, ArrayCallsKeepInv
      <4>4. CASE \E b \in DOMAIN heap : Clone(b)
        BY <4>4, CloneKeepsInv
      <4> QED  BY <3>1, <4>1, <4>2, <4>3, <4>4 DEF Call
    <3>3. keys' \subseteq Key
      BY <3>1 DEF ElementsInv
    <3> QED  BY <3>2, <3>3 DEF ElementsInv
  <2>2. CASE UNCHANGED vars
    BY <2>2 DEF vars, ElementsInv
  <2> QED  BY <2>1, <2>2
<1> QED  BY <1>1, <1>2, PTL DEF Spec

-----------------------------------------------------------------------------
(***************************************************************************)
(* A key with a dot leads through a table.                                 *)
(***************************************************************************)

(* A key taken apart at its dots, one character after the other.           *)
SplitOne(parts, c) ==
  IF c = "." THEN Append(parts, <<>>) ELSE Append(Front(parts), Append(Last(parts), c))

(* split, one character after the other.                                   *)
LEMMA SplitSteps ==
  ASSUME NEW C, NEW value \in Seq(C)
  PROVE  \E f : /\ f[0] = <<<<>>>> /\ split(value, ".") = f[Len(value)]
                /\ \A i \in 1..Len(value) : f[i] = SplitOne(f[i - 1], value[i])
<1> DEFINE n == Len(value)
           R == Seq(Seq(C)) \ {<<>>}
           start == <<<<>>>>
           g == [p \in R \X (1..n) |-> SplitOne(p[1], value[p[2]])]
           Is(f) == f = [t \in SUBSET DOMAIN value |->
                           IF t = {} THEN start ELSE SplitOne(f[t \ {Max(t)}], value[Max(t)])]
           iter == CHOOSE f : Is(f)
<1>1. n \in Nat /\ DOMAIN value = 1..n /\ \A i \in 1..n : value[i] \in C
  OBVIOUS
<1>2. ASSUME NEW r \in R, NEW c \in C  PROVE SplitOne(r, c) \in R
  <2>1. r \in Seq(Seq(C)) /\ r # <<>> /\ Len(r) \in Nat \ {0}
    OBVIOUS
  <2>2. Last(r) \in Seq(C) /\ Front(r) \in Seq(Seq(C))
    BY <2>1 DEF Last, Front
  <2>3. Append(Last(r), c) \in Seq(C) /\ <<>> \in Seq(C)
    BY <2>2, AppendHas
  <2>4. ASSUME NEW q \in Seq(Seq(C)), NEW e \in Seq(C)  PROVE Append(q, e) \in R
    <3> DEFINE T == Seq(C)
    <3> HIDE DEF T
    <3>1. Append(q, e) \in Seq(T) /\ Len(Append(q, e)) = Len(q) + 1 /\ Len(q) \in Nat
      BY AppendHas DEF T
    <3>2. Len(<<>>) = 0
      OBVIOUS
    <3> DEFINE x == Append(q, e)
    <3> HIDE DEF x
    <3>3. x # <<>>
      <4>1. Len(x) = Len(q) + 1 /\ Len(q) \in Nat
        BY <3>1 DEF x
      <4>2. Len(x) # 0
        BY <4>1
      <4> QED  BY <3>2, <4>2
    <3> QED  BY <3>1, <3>3 DEF T, x
  <2> QED  BY <2>1, <2>2, <2>3, <2>4 DEF SplitOne
<1>3. start \in R
  OBVIOUS
<1>4. g \in [R \X (1..n) -> R]
  <2> HIDE DEF R, n
  <2> QED  BY <1>1, <1>2
<1>5. split(value, ".") = iter[1..n]
  BY <1>1 DEF split, SplitOne, FoldLeft, MapThenFoldSet
<1>6. PICK f \in [SUBSET (1..n) -> R] : Folds(n, start, g, f)
  <2> HIDE DEF n, g, R, start
  <2> QED  BY <1>1, <1>3, <1>4, FoldExists DEF HasFold
<1>7. Is(f)
  <2>1. ASSUME NEW t \in SUBSET (1..n), t # {}
        PROVE  g[<<f[t \ {Max(t)}], Max(t)>>] = SplitOne(f[t \ {Max(t)}], value[Max(t)])
    <3>1. Max(t) \in 1..n
      BY <1>1, <2>1, MaxIs
    <3> HIDE DEF R
    <3>2. f[t \ {Max(t)}] \in R
      BY <1>6
    <3> QED  BY <3>1, <3>2
  <2> HIDE DEF g, R, start
  <2>2. f = [t \in SUBSET (1..n) |-> IF t = {} THEN start ELSE g[<<f[t \ {Max(t)}], Max(t)>>]]
    BY <1>6 DEF Folds
  <2> DEFINE rhs == [t \in SUBSET DOMAIN value |->
                       IF t = {} THEN start ELSE SplitOne(f[t \ {Max(t)}], value[Max(t)])]
  <2>3. \A t \in SUBSET (1..n) : f[t] = rhs[t]
    BY <1>1, <2>1, <2>2
  <2>4. DOMAIN rhs = SUBSET (1..n) /\ DOMAIN f = SUBSET (1..n)
    BY <1>1, <1>6
  <2>5. rhs = [t \in SUBSET (1..n) |-> rhs[t]] /\ f = [t \in SUBSET (1..n) |-> f[t]]
    BY <2>4
  <2> HIDE DEF rhs
  <2>6. f = rhs
    BY <2>3, <2>5
  <2> QED  BY <2>6 DEF rhs
<1>8. Is(iter)
  BY <1>7
<1> HIDE DEF iter
<1>9. iter[{}] = start
  BY <1>8
<1>10. ASSUME NEW i \in 1..n  PROVE iter[1..i] = SplitOne(iter[1..(i - 1)], value[i])
  <2>1. 1..i \in SUBSET DOMAIN value /\ i \in 1..i /\ 1..i # {} /\ n \in Nat
    <3> HIDE DEF n
    <3>1. n \in Nat /\ i \in Nat /\ 1 <= i /\ i <= n
      BY <1>1
    <3>2. 1..i \subseteq 1..n /\ i \in 1..i
      BY <3>1
    <3> QED  BY <1>1, <3>1, <3>2
  <2>2. Max(1..i) \in 1..i /\ \A m \in 1..i : Max(1..i) >= m
    BY <1>1, <2>1, MaxIs
  <2>3. Max(1..i) = i
    BY <2>1, <2>2
  <2>4. (1..i) \ {i} = 1..(i - 1)
    OBVIOUS
  <2> HIDE DEF start, n
  <2>5. iter[1..i] = SplitOne(iter[(1..i) \ {Max(1..i)}], value[Max(1..i)])
    BY <1>8, <2>1
  <2> QED  BY <2>3, <2>4, <2>5
<1> DEFINE f2 == [i \in 0..n |-> iter[1..i]]
<1> HIDE DEF iter
<1>11. f2[0] = start
  <2>1. 1..0 = {} /\ 0 \in 0..n
    BY <1>1
  <2> HIDE DEF start
  <2> QED  BY <1>9, <2>1
<1>12. \A i \in 1..n : f2[i] = SplitOne(f2[i - 1], value[i])
  <2> TAKE i \in 1..n
  <2>1. i \in 0..n /\ i - 1 \in 0..n
    BY <1>1
  <2> HIDE DEF n
  <2> QED  BY <1>10, <2>1
<1>13. f2[n] = iter[1..n]
  BY <1>1
<1> HIDE DEF f2
<1> QED  BY <1>5, <1>11, <1>12, <1>13

LEMMA PrefixGrows ==
  ASSUME NEW C, NEW s \in Seq(C), NEW k \in Nat, k + 1 <= Len(s)
  PROVE  SubSeq(s, 1, k + 1) = Append(SubSeq(s, 1, k), s[k + 1])
<1>1. k \in 0..(Len(s) - 1)
  OBVIOUS
<1> QED  BY <1>1, FirstOnes

(* A dot begins a part, anything else goes to the last one.                *)
LEMMA SplitOneIs ==
  ASSUME NEW C, NEW c \in C, NEW p \in Seq(C), NEW q \in Seq(C)
  PROVE  /\ SplitOne(<<p>>, ".") = <<p, <<>>>>
         /\ c # "." => SplitOne(<<p>>, c) = <<Append(p, c)>>
         /\ c # "." => SplitOne(<<p, q>>, c) = <<p, Append(q, c)>>
<1> DEFINE T == Seq(C)
<1>1. p \in T /\ q \in T /\ Append(p, c) \in T /\ Append(q, c) \in T /\ <<>> \in T
  BY AppendHas
<1> HIDE DEF T
<1>2. Front(<<p>>) = <<>> /\ Last(<<p>>) = p /\ Front(<<p, q>>) = <<p>> /\ Last(<<p, q>>) = q
  BY <1>1, ShortEnds
<1>3. \A e \in T : Append(<<>>, e) = <<e>> /\ Append(<<p>>, e) = <<p, e>>
  BY <1>1, ShortOnesAre
<1> QED  BY <1>1, <1>2, <1>3 DEF SplitOne

(* A key of two names around a dot is taken apart into them.               *)
LEMMA SplitIs ==
  ASSUME NEW C, "." \in C, NEW name \in Seq(C), NEW last \in Seq(C),
         "." \notin ToSet(name), "." \notin ToSet(last)
  PROVE  split(name \o <<".">> \o last, ".") = <<name, last>>
<1> DEFINE key == name \o <<".">> \o last
           m == Len(name)
           l == Len(last)
<1>1. /\ m \in Nat /\ l \in Nat /\ key \in Seq(C) /\ Len(key) = m + 1 + l
      /\ \A i \in 1..m : key[i] = name[i] /\ name[i] \in C
      /\ key[m + 1] = "."
      /\ \A i \in 1..l : key[m + 1 + i] = last[i] /\ last[i] \in C
  <2> DEFINE dot == <<".">>
  <2>1. dot \in Seq(C) /\ Len(dot) = 1 /\ dot[1] = "."
    OBVIOUS
  <2>2. 1 \in 1..1 /\ m \in Nat /\ l \in Nat
        /\ (\A i \in 1..m : name[i] \in C) /\ \A i \in 1..l : last[i] \in C
    OBVIOUS
  <2> HIDE DEF dot, key
  <2>3. dot \in Seq(C)
    BY <2>1
  <2>4. /\ key \in Seq(C) /\ Len(key) = Len(name) + Len(dot) + Len(last)
        /\ \A i \in 1..Len(name) : key[i] = name[i]
        /\ \A i \in 1..Len(dot) : key[Len(name) + i] = dot[i]
        /\ \A i \in 1..Len(last) : key[Len(name) + Len(dot) + i] = last[i]
    BY <2>3, AroundIs, SMTT(30) DEF key, dot
  <2> HIDE DEF m, l
  <2> QED  BY <2>1, <2>2, <2>4 DEF m, l
<1>2. (\A i \in 1..m : name[i] # ".") /\ \A i \in 1..l : last[i] # "."
  BY <1>1 DEF ToSet
<1>3. PICK f : /\ f[0] = <<<<>>>> /\ split(key, ".") = f[Len(key)]
               /\ \A i \in 1..Len(key) : f[i] = SplitOne(f[i - 1], key[i])
  BY <1>1, SplitSteps
<1> HIDE DEF key, m, l
<1> DEFINE T == {i \in Nat : i <= m => f[i] = <<SubSeq(name, 1, i)>>}
           T2 == {i \in Nat : i <= l => f[m + 1 + i] = <<name, SubSeq(last, 1, i)>>}
<1>4. 0 \in T
  <2>1. SubSeq(name, 1, 0) = <<>>
    OBVIOUS
  <2> QED  BY <1>3, <2>1
<1>5. ASSUME NEW i \in Nat, i \in T  PROVE i + 1 \in T
  <2> SUFFICES ASSUME i + 1 <= m  PROVE f[i + 1] = <<SubSeq(name, 1, i + 1)>>
    OBVIOUS
  <2>1. i + 1 \in 1..m /\ i + 1 \in 1..Len(key) /\ (i + 1) - 1 = i /\ i <= m
    BY <1>1
  <2> DEFINE c == name[i + 1]
             p == SubSeq(name, 1, i)
  <2>2. f[i] = <<p>>
    BY <1>5, <2>1
  <2>3. c \in C /\ c # "." /\ key[i + 1] = c
    BY <1>1, <1>2, <2>1
  <2>4. p \in Seq(C)
    BY <1>1 DEF m
  <2>5. SubSeq(name, 1, i + 1) = Append(p, c)
    BY PrefixGrows DEF m
  <2>6. f[i + 1] = SplitOne(f[i], c)
    BY <1>3, <2>1, <2>3
  <2> HIDE DEF c, p
  <2>7. SplitOne(<<p>>, c) = <<Append(p, c)>>
    BY <2>3, <2>4, SplitOneIs
  <2> QED  BY <2>2, <2>5, <2>6, <2>7
<1>6. m \in T
  <2> HIDE DEF T
  <2> QED  BY <1>1, <1>4, <1>5, Induction
<1>7. f[m] = <<name>>
  <2>1. SubSeq(name, 1, m) = name
    BY FirstOnes DEF m
  <2> QED  BY <1>1, <1>6, <2>1
<1>8. 0 \in T2
  <2>1. m + 1 \in 1..Len(key) /\ (m + 1) - 1 = m /\ m + 1 + 0 = m + 1
    BY <1>1
  <2>2. f[m + 1] = <<name, <<>>>>
    <3>1. f[m + 1] = SplitOne(f[m], ".")
      BY <1>1, <1>3, <2>1
    <3>2. SplitOne(<<name>>, ".") = <<name, <<>>>>
      BY SplitOneIs
    <3> QED  BY <1>7, <3>1, <3>2
  <2>3. SubSeq(last, 1, 0) = <<>>
    OBVIOUS
  <2> QED  BY <2>1, <2>2, <2>3
<1>9. ASSUME NEW i \in Nat, i \in T2  PROVE i + 1 \in T2
  <2> SUFFICES ASSUME i + 1 <= l  PROVE f[m + 1 + (i + 1)] = <<name, SubSeq(last, 1, i + 1)>>
    OBVIOUS
  <2>1. /\ i + 1 \in 1..l /\ m + 1 + (i + 1) \in 1..Len(key) /\ (m + 1 + (i + 1)) - 1 = m + 1 + i
        /\ i <= l
    BY <1>1
  <2> DEFINE c == last[i + 1]
             q == SubSeq(last, 1, i)
  <2>2. f[m + 1 + i] = <<name, q>>
    BY <1>9, <2>1
  <2>3. c \in C /\ c # "." /\ key[m + 1 + (i + 1)] = c
    BY <1>1, <1>2, <2>1
  <2>4. q \in Seq(C)
    BY <1>1 DEF l
  <2>5. SubSeq(last, 1, i + 1) = Append(q, c)
    BY PrefixGrows DEF l
  <2>6. f[m + 1 + (i + 1)] = SplitOne(f[m + 1 + i], c)
    BY <1>3, <2>1, <2>3
  <2> HIDE DEF c, q
  <2>7. SplitOne(<<name, q>>, c) = <<name, Append(q, c)>>
    BY <2>3, <2>4, SplitOneIs
  <2> QED  BY <2>2, <2>5, <2>6, <2>7
<1>10. l \in T2
  <2> HIDE DEF T2
  <2> QED  BY <1>1, <1>8, <1>9, Induction
<1>11. f[m + 1 + l] = <<name, last>>
  <2>1. SubSeq(last, 1, l) = last
    BY FirstOnes DEF l
  <2>2. f[m + 1 + l] = <<name, SubSeq(last, 1, l)>>
    BY <1>1, <1>10
  <2> QED  BY <2>1, <2>2
<1> QED  BY <1>1, <1>3, <1>11 DEF key

(* The way through one table.                                              *)
LEMMA FoldOne ==
  ASSUME NEW h, NEW t, t # Null, NEW name
  PROVE  FoldLeft(LAMBDA u, part : IF u = Null THEN Null ELSE get_table(h, u, part), t, <<name>>)
           = get_table(h, t, name)
<1> DEFINE Is(f) == f = [s \in SUBSET DOMAIN <<name>> |->
                           IF s = {} THEN t
                           ELSE IF f[s \ {Max(s)}] = Null THEN Null
                                ELSE get_table(h, f[s \ {Max(s)}], <<name>>[Max(s)])]
           iter == CHOOSE f : Is(f)
           f0 == [s \in SUBSET {1} |-> IF s = {} THEN t ELSE get_table(h, t, name)]
<1>1. DOMAIN <<name>> = {1} /\ <<name>>[1] = name
  OBVIOUS
<1>2. Max({1}) = 1
  <2>1. {1} \in SUBSET (1..1) /\ {1} # {} /\ 1 \in Nat
    OBVIOUS
  <2>2. Max({1}) \in {1}
    BY <2>1, MaxIs
  <2> QED  BY <2>2
<1>3. \A s \in SUBSET {1} : s = {} \/ s = {1}
  OBVIOUS
<1>4. f0[{}] = t /\ f0[{1}] = get_table(h, t, name) /\ {1} \ {1} = {}
  OBVIOUS
<1>5. Is(f0)
  <2> DEFINE rhs == [s \in SUBSET DOMAIN <<name>> |->
                       IF s = {} THEN t
                       ELSE IF f0[s \ {Max(s)}] = Null THEN Null
                            ELSE get_table(h, f0[s \ {Max(s)}], <<name>>[Max(s)])]
  <2>1. \A s \in SUBSET {1} : f0[s] = rhs[s]
    <3> HIDE DEF f0
    <3>1. rhs[{}] = t
      BY <1>1
    <3>2. rhs[{1}] = get_table(h, t, name)
      BY <1>1, <1>2, <1>4
    <3> HIDE DEF rhs
    <3> QED  BY <1>3, <1>4, <3>1, <3>2
  <2>2. f0 = [s \in SUBSET {1} |-> f0[s]] /\ rhs = [s \in SUBSET {1} |-> rhs[s]]
    BY <1>1
  <2> HIDE DEF f0, rhs
  <2>3. f0 = rhs
    BY <2>1, <2>2
  <2> QED  BY <2>3 DEF rhs
<1>6. Is(iter)
  BY <1>5
<1> HIDE DEF iter
<1>7. iter[{}] = t
  BY <1>6
<1>8. iter[{1}] = get_table(h, t, name)
  BY <1>1, <1>2, <1>4, <1>6, <1>7
<1>9. FoldLeft(LAMBDA u, part : IF u = Null THEN Null ELSE get_table(h, u, part), t, <<name>>)
        = iter[DOMAIN <<name>>]
  BY DEF FoldLeft, MapThenFoldSet, iter
<1> QED  BY <1>1, <1>8, <1>9

(* A key of two names leads to a table and to what is in it.               *)
LEMMA ResolveIs ==
  ASSUME NEW h, NEW t, t # Null, NEW name \in Seq(STRING), NEW last \in Seq(STRING),
         "." \notin ToSet(name), "." \notin ToSet(last)
  PROVE  resolve_qualified(h, t, name \o <<".">> \o last)
           = IF get_table(h, t, name) = Null THEN Null ELSE h[get_table(h, t, name)].map_[last]
<1> DEFINE key == name \o <<".">> \o last
<1>1. split(key, ".") = <<name, last>>
  <2> DEFINE C == STRING \cup {"."}
  <2>1. "." \in C /\ name \in Seq(C) /\ last \in Seq(C)
    OBVIOUS
  <2> HIDE DEF C
  <2> QED  BY <2>1, SplitIs
<1>2. Front(<<name, last>>) = <<name>> /\ Last(<<name, last>>) = last
  BY ShortEnds
<1> HIDE DEF key
<1>3. FoldLeft(LAMBDA u, part : IF u = Null THEN Null ELSE get_table(h, u, part), t, <<name>>)
        = get_table(h, t, name)
  BY FoldOne
<1>4. resolve_qualified(h, t, key)
        = IF get_table(h, t, name) = Null THEN Null ELSE h[get_table(h, t, name)].map_[last]
  BY <1>1, <1>2, <1>3 DEF resolve_qualified
<1> QED  BY <1>4 DEF key

-----------------------------------------------------------------------------
(***************************************************************************)
(* What a program reads in its elements.                                   *)
(***************************************************************************)

(* What a table has at a key, or an array in it, is an element.            *)
LEMMA ItemsAre ==
  ASSUME NEW h, WellFormed(h), NEW t \in DOMAIN h
  PROVE  /\ h \in Seq(Element) /\ h[t] \in Element /\ 0 \notin DOMAIN h
         /\ \A key \in Key : h[t].map_[key] = Null \/ h[t].map_[key] \in DOMAIN h
         /\ \A i \in DOMAIN h[t].array_ : h[t].array_[i] \in DOMAIN h
<1>1. h \in Seq(Element) /\ Children(h, t) \subseteq DOMAIN h
  BY DEF WellFormed
<1>2. h[t] \in Element /\ 0 \notin DOMAIN h
  BY <1>1
<1>3. \A key \in Key : h[t].map_[key] # Null => h[t].map_[key] \in Children(h, t)
  BY DEF Children, contains
<1>4. \A i \in DOMAIN h[t].array_ : h[t].array_[i] \in Children(h, t)
  BY DEF Children, ToSet
<1> QED  BY <1>1, <1>2, <1>3, <1>4

(* Every array can be had whole, from wherever it is reached.              *)
LEMMA ElementsReadWhole ==
  ASSUME ElementsInv
  PROVE  ArraysReadWhole
<1>1. WellFormed(heap) /\ keys \subseteq Key
  BY DEF ElementsInv
<1>2. ASSUME NEW a \in DOMAIN heap, heap[a].is = "array"
      PROVE  \/ HoldsTables(heap, a)
             \/ get_array_of_array(heap, a) # {} \/ \E T \in ValueType : get_array_of(heap, T, a) # {}
  BY <1>1, <1>2 DEF WellFormed, ReadsWhole
<1>3. ASSUME NEW t \in Tables, NEW key \in keys, get_array(heap, t, key) # Null
      PROVE  \/ HoldsTables(heap, get_array(heap, t, key))
             \/ table_get_array_of_array(heap, t, key) # {}
             \/ \E T \in ValueType : table_get_array_of(heap, T, t, key) # {}
  <2> DEFINE a == get_array(heap, t, key)
  <2>1. t \in DOMAIN heap /\ key \in Key
    BY <1>1 DEF Tables
  <2>2. a = heap[t].map_[key] /\ a # Null /\ heap[a].is = "array"
    BY <1>3 DEF get_array, get_kind, contains
  <2>3. a \in DOMAIN heap
    BY <1>1, <2>1, <2>2, ItemsAre
  <2> HIDE DEF a
  <2>4. \/ HoldsTables(heap, a)
        \/ get_array_of_array(heap, a) # {} \/ \E T \in ValueType : get_array_of(heap, T, a) # {}
    BY <1>2, <2>2, <2>3
  <2> QED  BY <2>2, <2>4 DEF a, table_get_array_of_array, table_get_array_of
<1>4. ASSUME NEW t \in Tables, NEW name \in Dotless, NEW last \in Dotless,
             get_array_qualified(heap, t, name \o <<".">> \o last) # Null
      PROVE  \/ HoldsTables(heap, get_array_qualified(heap, t, name \o <<".">> \o last))
             \/ table_get_qualified_array_of_array(heap, t, name \o <<".">> \o last) # {}
             \/ \E T \in ValueType :
                  table_get_qualified_array_of(heap, T, t, name \o <<".">> \o last) # {}
  <2> DEFINE key == name \o <<".">> \o last
             u == get_table(heap, t, name)
             a == get_array_qualified(heap, t, key)
  <2>1. /\ t \in DOMAIN heap /\ name \in Key /\ last \in Key
        /\ "." \notin ToSet(name) /\ "." \notin ToSet(last)
    BY <1>1 DEF Tables, Dotless
  <2>2. t # Null /\ name \in Seq(STRING) /\ last \in Seq(STRING)
    BY <1>1, <2>1, ItemsAre, TreeAssumption DEF Null
  <2>3. resolve_qualified(heap, t, key) = IF u = Null THEN Null ELSE heap[u].map_[last]
    BY <2>1, <2>2, ResolveIs
  <2> HIDE DEF key
  <2>4. a # Null /\ a = resolve_qualified(heap, t, key) /\ heap[a].is = "array"
    BY <1>4 DEF get_array_qualified, get_qualified_kind, key
  <2>5. u # Null /\ a = heap[u].map_[last]
    BY <2>3, <2>4
  <2>6. u = heap[t].map_[name]
    BY <2>5 DEF get_table, get_kind
  <2>7. u \in DOMAIN heap
    BY <1>1, <2>1, <2>5, <2>6, ItemsAre
  <2> HIDE DEF u
  <2>8. a \in DOMAIN heap
    BY <1>1, <2>1, <2>4, <2>5, <2>7, ItemsAre
  <2> HIDE DEF a
  <2>9. \/ HoldsTables(heap, a)
        \/ get_array_of_array(heap, a) # {} \/ \E T \in ValueType : get_array_of(heap, T, a) # {}
    BY <1>2, <2>4, <2>8
  <2>10. \/ HoldsTables(heap, get_array_qualified(heap, t, key))
         \/ table_get_qualified_array_of_array(heap, t, key) # {}
         \/ \E T \in ValueType : table_get_qualified_array_of(heap, T, t, key) # {}
    BY <2>4, <2>9 DEF a, table_get_qualified_array_of_array, table_get_qualified_array_of
  <2> QED  BY <2>10 DEF key
<1>5. \A a \in DOMAIN heap : heap[a].is = "array" => HoldsTables(heap, a) \/ ReadsWhole(heap, a)
  BY <1>1 DEF WellFormed
<1> QED  BY <1>3, <1>4, <1>5, Zenon DEF ArraysReadWhole

(* A copy is a tree of its own, like the original.                         *)
LEMMA ElementsCloneApart ==
  ASSUME ElementsInv
  PROVE  ClonesAreApart
<1>1. WellFormed(heap) /\ heap \in Seq(Element)
  BY DEF ElementsInv, WellFormed
<1>2. ASSUME NEW b \in DOMAIN heap, IsTree(heap, b)
      PROVE  LET copy == clone(heap, b)
             IN  /\ SubSeq(copy.heap, 1, Len(heap)) = heap
                 /\ Alike(copy.heap, b, copy.it)
                 /\ Below(copy.heap, copy.it) \cap DOMAIN heap = {}
  <2> DEFINE h == clone(heap, b).heap
             it == clone(heap, b).it
  <2>1. PICK image : /\ Copies(heap, heap, h, image)
                     /\ it \in (Len(heap) + 1)..Len(h) /\ image[it] = b
    BY <1>1, <1>2, CloneIs DEF IsCopy
  <2> HIDE DEF h, it
  <2>2. Alike(h, b, it)
    BY <1>1, <2>1, CopiesAreAlike
  <2>3. Below(h, it) \cap DOMAIN heap = {}
    BY <1>1, <2>1, CopiesAreApart
  <2>4. SubSeq(h, 1, Len(heap)) = heap
    <3>1. h \in Seq(Element) /\ Len(heap) <= Len(h) /\ \A i \in 1..Len(heap) : h[i] = heap[i]
      BY <2>1 DEF Copies, Extends
    <3> DEFINE q == SubSeq(h, 1, Len(heap))
    <3>2. q \in Seq(Element) /\ Len(q) = Len(heap) /\ \A i \in 1..Len(heap) : q[i] = h[i]
      BY <1>1, <3>1
    <3> HIDE DEF q
    <3>3. q = heap
      BY <1>1, <3>1, <3>2, SameSeq
    <3> QED  BY <3>3 DEF q
  <2> QED  BY <2>2, <2>3, <2>4 DEF h, it
<1> QED  BY <1>2 DEF ClonesAreApart

(* The limits of a type are numbers.                                       *)
LEMMA LimitsAre ==
  ASSUME NEW T \in Integral
  PROVE  Lowest(T) \in Int /\ Highest(T) \in Int
BY TreeAssumption DEF Integral, Lowest, Highest

(* get_impl gives the number, or throws.                                   *)
LEMMA ImplIsExact ==
  ASSUME WellFormed(heap), NEW b \in DOMAIN heap, NEW T \in Integral \cup {"double"}
  PROVE  Exact(T, get_impl(heap, T, b), b)
<1> DEFINE n == heap[b].data
           got == get_impl(heap, T, b)
<1>1. b # Null /\ n \in Int
  BY ItemsAre DEF Null, Element
<1>2. CASE heap[b].type # "int"
  <2>1. as_type(heap, "int", b) = {}
    BY <1>2 DEF as_type
  <2>2. ~ got.thrown
    BY <2>1 DEF get_impl, Got
  <2> QED  BY <1>1, <1>2, <2>2 DEF Exact
<1>3. CASE heap[b].type = "int" /\ T = "double"
  <2>1. T \notin Integral
    BY <1>3 DEF Integral
  <2>2. as_type(heap, T, b) = {ToDouble(n)}
    BY <1>3 DEF as_type
  <2>3. got = Got({ToDouble(n)})
    BY <2>1, <2>2 DEF get_impl
  <2>4. got.option = {ToDouble(n)}
    BY <2>3 DEF Got
  <2> HIDE DEF got, n
  <2>5. got.option # {} /\ got.option \subseteq Nearest(n)
    BY <1>1, <2>4, DoubleIsNear
  <2> QED  BY <1>1, <1>3, <2>5 DEF Exact, got, n
<1>4. CASE heap[b].type = "int" /\ T # "double"
  <2>1. T \in Integral /\ Lowest(T) \in Int /\ Highest(T) \in Int
    BY <1>4, LimitsAre
  <2>2. as_type(heap, "int", b) = {n}
    BY <1>4 DEF as_type
  <2>3. got = IF n < Lowest(T) \/ n > Highest(T) THEN Thrown ELSE Got({n})
    BY <2>1, <2>2 DEF get_impl
  <2> HIDE DEF got, n
  <2>4. IF n \in Lowest(T)..Highest(T) THEN got = Got({n}) ELSE got.thrown
    BY <1>1, <2>1, <2>3 DEF Thrown
  <2> QED  BY <1>1, <1>4, <2>4 DEF Exact, got, n
<1> QED  BY <1>2, <1>3, <1>4

(* A visitor is given a value as what it is.                               *)
LEMMA AcceptIs ==
  ASSUME NEW h, NEW b, h[b].type \in ValueType
  PROVE  value_accept(h, b) = h[b].type
<1> DEFINE type == h[b].type
           Fits == {i \in DOMAIN accept_order : as_type(h, accept_order[i], b) # {}}
<1>1. /\ DOMAIN accept_order = {1, 2, 3, 4}
      /\ accept_order[1] = "string" /\ accept_order[2] = "int"
      /\ accept_order[3] = "double" /\ accept_order[4] = "bool"
  BY DEF accept_order
<1>2. \A T : as_type(h, T, b) # {} <=> type = T \/ (T = "double" /\ type = "int")
  BY AsIs
<1>3. ASSUME NEW m \in Fits, \A i \in Fits : m <= i  PROVE Min(Fits) = m
  <2>1. Fits \subseteq Int
    BY <1>1
  <2> HIDE DEF Fits
  <2>2. Min(Fits) \in Fits /\ \A i \in Fits : Min(Fits) <= i
    BY <1>3 DEF Min
  <2>3. Min(Fits) \in Int /\ m \in Int /\ Min(Fits) <= m /\ m <= Min(Fits)
    BY <1>3, <2>1, <2>2
  <2> QED  BY <2>3
<1> HIDE DEF Fits
<1>4. CASE type = "string"
  <2>1. Fits = {1}
    BY <1>1, <1>2, <1>4 DEF Fits
  <2> QED  BY <1>1, <1>3, <1>4, <2>1 DEF value_accept, Fits
<1>5. CASE type = "int"
  <2>1. Fits = {2, 3}
    BY <1>1, <1>2, <1>5 DEF Fits
  <2>2. Min(Fits) = 2
    BY <1>3, <2>1
  <2> QED  BY <1>1, <1>5, <2>2 DEF value_accept, Fits
<1>6. CASE type = "double"
  <2>1. Fits = {3}
    BY <1>1, <1>2, <1>6 DEF Fits
  <2> QED  BY <1>1, <1>3, <1>6, <2>1 DEF value_accept, Fits
<1>7. CASE type = "bool"
  <2>1. Fits = {4}
    BY <1>1, <1>2, <1>7 DEF Fits
  <2> QED  BY <1>1, <1>3, <1>7, <2>1 DEF value_accept, Fits
<1> QED  BY <1>4, <1>5, <1>6, <1>7 DEF ValueType

(* Every look-up is exact.                                                 *)
LEMMA ElementsLookUpExactly ==
  ASSUME ElementsInv
  PROVE  LookupsAreExact
<1>1. WellFormed(heap) /\ keys \subseteq Key
  BY DEF ElementsInv
<1>2. \A T : Exact(T, Got({}), Null)
  BY DEF Exact
<1>3. ASSUME NEW t \in Tables, NEW T \in Integral \cup {"double"}, NEW key \in keys
      PROVE  Exact(T, get_as(heap, T, t, key), heap[t].map_[key])
  <2>1. t \in DOMAIN heap /\ key \in Key
    BY <1>1 DEF Tables
  <2>2. heap[t].map_[key] = Null \/ heap[t].map_[key] \in DOMAIN heap
    BY <1>1, <2>1, ItemsAre
  <2>3. CASE heap[t].map_[key] = Null
    BY <1>2, <2>3 DEF get_as, contains
  <2>4. CASE heap[t].map_[key] # Null
    <3>1. get_as(heap, T, t, key) = get_impl(heap, T, heap[t].map_[key])
      BY <2>4 DEF get_as, contains
    <3> QED  BY <1>1, <2>2, <2>4, <3>1, ImplIsExact
  <2> QED  BY <2>3, <2>4
<1>4. ASSUME NEW t \in Tables, NEW T \in Integral \cup {"double"}, NEW name \in Dotless, NEW key \in Dotless
      PROVE  LET u == heap[t].map_[name]
             IN  Exact(T, get_qualified_as(heap, T, t, name \o <<".">> \o key),
                       IF u \in Tables THEN heap[u].map_[key] ELSE Null)
  <2> DEFINE u == heap[t].map_[name]
             b == IF u \in Tables THEN heap[u].map_[key] ELSE Null
             whole == name \o <<".">> \o key
  <2>1. /\ t \in DOMAIN heap /\ name \in Key /\ key \in Key
        /\ "." \notin ToSet(name) /\ "." \notin ToSet(key)
    BY <1>1 DEF Tables, Dotless
  <2>2. t # Null /\ name \in Seq(STRING) /\ key \in Seq(STRING) /\ 0 \notin DOMAIN heap
    BY <1>1, <2>1, ItemsAre, TreeAssumption DEF Null
  <2>3. u = Null \/ u \in DOMAIN heap
    BY <1>1, <2>1, ItemsAre
  <2>4. get_table(heap, t, name) = IF u \in Tables THEN u ELSE Null
    BY <2>2, <2>3 DEF get_table, get_kind, contains, Tables, Null
  <2>5. resolve_qualified(heap, t, whole)
          = IF get_table(heap, t, name) = Null THEN Null ELSE heap[get_table(heap, t, name)].map_[key]
    BY <2>1, <2>2, ResolveIs
  <2> HIDE DEF whole
  <2>6. resolve_qualified(heap, t, whole) = b
    BY <2>2, <2>4, <2>5 DEF Tables, Null
  <2>7. b = Null \/ b \in DOMAIN heap
    <3>1. CASE u \in Tables
      <4>1. u \in DOMAIN heap
        BY <3>1 DEF Tables
      <4> HIDE DEF u
      <4>2. heap[u].map_[key] = Null \/ heap[u].map_[key] \in DOMAIN heap
        BY <1>1, <2>1, <4>1, ItemsAre
      <4> QED  BY <3>1, <4>2
    <3> QED  BY <3>1
  <2> HIDE DEF b
  <2>8. CASE b = Null
    <3>1. get_qualified_as(heap, T, t, whole) = Got({})
      BY <2>6, <2>8 DEF get_qualified_as
    <3> QED  BY <1>2, <2>8, <3>1 DEF b, whole
  <2>9. CASE b # Null
    <3>1. get_qualified_as(heap, T, t, whole) = get_impl(heap, T, b)
      BY <2>6, <2>9 DEF get_qualified_as
    <3>2. Exact(T, get_impl(heap, T, b), b)
      BY <1>1, <2>7, <2>9, ImplIsExact
    <3> QED  BY <3>1, <3>2 DEF b, whole
  <2> QED  BY <2>8, <2>9
<1>5. ASSUME NEW b \in DOMAIN heap, heap[b].is = "value"  PROVE value_accept(heap, b) = heap[b].type
  <2>1. heap[b].type \in ValueType
    BY <1>1, <1>5 DEF WellFormed
  <2> QED  BY <2>1, AcceptIs
<1> QED  BY <1>3, <1>4, <1>5, Zenon DEF LookupsAreExact

(* What parse_config gets of a number and of a text.                       *)
LEMMA NumbersAre ==
  ASSUME WellFormed(heap), NEW t \in DOMAIN heap, NEW key \in Key
  PROVE  get_as(heap, "int", t, key) =
           IF Has(t, key, "int")
           THEN IF IsInt(Data(t, key)) THEN Got({Data(t, key)}) ELSE Thrown
           ELSE Got({})
<1> DEFINE b == heap[t].map_[key]
<1>1. b = Null \/ b \in DOMAIN heap
  BY ItemsAre
<1>2. CASE b = Null
  BY <1>2 DEF get_as, Has, contains
<1>3. CASE b # Null
  <2> HIDE DEF b
  <2>1. get_as(heap, "int", t, key) = get_impl(heap, "int", b) /\ contains(heap, t, key)
    BY <1>3 DEF get_as, contains, b
  <2>2. CASE heap[b].type # "int"
    <3>1. as_type(heap, "int", b) = {}
      BY <2>2 DEF as_type
    <3>2. get_impl(heap, "int", b) = Got({})
      BY <3>1 DEF get_impl
    <3>3. ~ Has(t, key, "int")
      BY <2>2 DEF Has, b
    <3> QED  BY <2>1, <3>2, <3>3
  <2>3. CASE heap[b].type = "int"
    <3> DEFINE n == heap[b].data
    <3>1. n \in Int
      BY <1>1, <1>3, ItemsAre DEF Element
    <3>2. as_type(heap, "int", b) = {n}
      BY <2>3 DEF as_type
    <3>3. "int" \in Integral
      BY DEF Integral
    <3>4. get_impl(heap, "int", b) = IF n < Lowest("int") \/ n > Highest("int") THEN Thrown ELSE Got({n})
      BY <3>2, <3>3 DEF get_impl
    <3>5. Has(t, key, "int") /\ Data(t, key) = n
      BY <2>1, <2>3 DEF Has, Data, b
    <3> HIDE DEF n
    <3>6. IsInt(n) <=> ~ (n < Lowest("int") \/ n > Highest("int"))
      BY <3>1, TreeAssumption DEF IsInt, Lowest, Highest
    <3> QED  BY <2>1, <3>4, <3>5, <3>6
  <2> QED  BY <2>2, <2>3
<1> QED  BY <1>2, <1>3

(* parse_config gets the text that is there.                               *)
LEMMA TextsAre ==
  ASSUME NEW t, NEW key, Has(t, key, "string")
  PROVE  get_as(heap, "string", t, key) = Got({Data(t, key)})
<1> DEFINE b == heap[t].map_[key]
<1>1. as_type(heap, "string", b) = {Data(t, key)}
  BY DEF Has, Data, as_type
<1>2. "string" \notin Integral
  BY DEF Integral
<1>3. get_impl(heap, "string", b) = Got({Data(t, key)})
  BY <1>1, <1>2 DEF get_impl
<1> QED  BY <1>3 DEF get_as, Has

(* What parse_config makes of the elements is what is in them.             *)
LEMMA ElementsConfigure ==
  ASSUME ElementsInv
  PROVE  ConfigIsOfTheFile
<1>1. WellFormed(heap) /\ Root \in DOMAIN heap
  BY DEF ElementsInv
<1>2. /\ Setting \subseteq Key /\ <<"peers">> \in Key
      /\ <<"peer-host">> \in Key /\ <<"peer-port">> \in Key
  BY ConfigurationAssumption
<1> DEFINE config == parse_config(heap)
           Numbers == {<<Root, key>> : key \in Setting} \cup
                      (IF HasPeers THEN {<<PeerTables[i], <<"peer-port">>>> : i \in DOMAIN PeerTables} ELSE {})
           AllInts == \A at \in Numbers : Has(at[1], at[2], "int") => IsInt(Data(at[1], at[2]))
           setting == [key \in Setting |-> get_as(heap, "int", Root, key)]
           port == [i \in DOMAIN PeerTables |-> get_as(heap, "int", PeerTables[i], <<"peer-port">>)]
           Bad == \/ \E i \in DOMAIN PeerTables : port[i].thrown
                  \/ \E key \in Setting : setting[key].thrown
           made == [is |-> "config",
                    peers |-> [i \in DOMAIN PeerTables |-> Peer(heap, PeerTables[i])],
                    my_addr |-> Text(get_as(heap, "string", Root, <<"my-addr">>).option),
                    settings |-> [key \in Setting |-> value_or(setting[key].option, Default[key])]]
<1>3. get_table_array(heap, Root, <<"peers">>) = IF HasPeers THEN Peers ELSE Null
  BY DEF get_table_array, get_kind, contains, HasPeers, Peers
<1>4. Peers = Null \/ Peers \in DOMAIN heap
  BY <1>1, <1>2, ItemsAre DEF Peers
<1>5. ~ HasPeers => config.is # "config"
  <2> SUFFICES ASSUME ~ HasPeers  PROVE config.is # "config"
    OBVIOUS
  <2>1. config = [is |-> "null dereferenced"]
    BY <1>3 DEF parse_config
  <2>2. [is |-> "null dereferenced"].is # "config"
    OBVIOUS
  <2> HIDE DEF config
  <2> QED  BY <2>1, <2>2
<1>6. HasPeers => config = IF Bad THEN [is |-> "thrown"] ELSE made
  <2>1. ASSUME HasPeers  PROVE config = IF Bad THEN [is |-> "thrown"] ELSE made
    <3>1. get_table_array(heap, Root, <<"peers">>) = Peers /\ Peers # Null
      BY <1>3, <2>1 DEF HasPeers
    <3> QED  BY <3>1 DEF parse_config, PeerTables
  <2> QED  BY <2>1
<1>7. ASSUME HasPeers, NEW i \in DOMAIN PeerTables  PROVE PeerTables[i] \in DOMAIN heap
  <2>1. Peers \in DOMAIN heap
    BY <1>4, <1>7 DEF HasPeers
  <2> QED  BY <1>1, <1>7, <2>1, ItemsAre DEF PeerTables
<1>8. ASSUME NEW t \in DOMAIN heap, NEW key \in Key
      PROVE  get_as(heap, "int", t, key).thrown <=> Has(t, key, "int") /\ ~ IsInt(Data(t, key))
  <2>1. get_as(heap, "int", t, key) =
           IF Has(t, key, "int")
           THEN IF IsInt(Data(t, key)) THEN Got({Data(t, key)}) ELSE Thrown
           ELSE Got({})
    BY <1>1, NumbersAre
  <2> QED  BY <2>1 DEF Got, Thrown
<1>9. HasPeers => (Bad <=> ~ AllInts)
  <2> SUFFICES ASSUME HasPeers  PROVE Bad <=> ~ AllInts
    OBVIOUS
  <2>1. AllInts <=> /\ \A key \in Setting : Has(Root, key, "int") => IsInt(Data(Root, key))
                    /\ \A i \in DOMAIN PeerTables :
                          Has(PeerTables[i], <<"peer-port">>, "int")
                            => IsInt(Data(PeerTables[i], <<"peer-port">>))
    <3> DEFINE Right(at) == Has(at[1], at[2], "int") => IsInt(Data(at[1], at[2]))
    <3>1. AllInts <=> /\ \A key \in Setting : Right(<<Root, key>>)
                      /\ \A i \in DOMAIN PeerTables : Right(<<PeerTables[i], <<"peer-port">>>>)
      <4> HIDE DEF Right
      <4>1. AllInts <=> \A at \in Numbers : Right(at)
        BY DEF Right
      <4> QED  BY <4>1
    <3>2. /\ \A key \in Setting :
               Right(<<Root, key>>) <=> (Has(Root, key, "int") => IsInt(Data(Root, key)))
          /\ \A i \in DOMAIN PeerTables :
               Right(<<PeerTables[i], <<"peer-port">>>>)
                 <=> (Has(PeerTables[i], <<"peer-port">>, "int")
                        => IsInt(Data(PeerTables[i], <<"peer-port">>)))
      OBVIOUS
    <3> HIDE DEF Right, AllInts
    <3> QED  BY <3>1, <3>2
  <2>2. \A key \in Setting : setting[key].thrown <=> Has(Root, key, "int") /\ ~ IsInt(Data(Root, key))
    BY <1>1, <1>2, <1>8
  <2>3. \A i \in DOMAIN PeerTables :
           port[i].thrown <=> /\ Has(PeerTables[i], <<"peer-port">>, "int")
                              /\ ~ IsInt(Data(PeerTables[i], <<"peer-port">>))
    BY <1>2, <1>7, <1>8
  <2> HIDE DEF setting, port, AllInts
  <2> QED  BY <2>1, <2>2, <2>3
<1>10. ASSUME HasPeers, ~ Bad
       PROVE  /\ DOMAIN made.peers = DOMAIN PeerTables
              /\ \A i \in DOMAIN PeerTables :
                    /\ Has(PeerTables[i], <<"peer-host">>, "string") =>
                         made.peers[i].host = Data(PeerTables[i], <<"peer-host">>)
                    /\ made.peers[i].port =
                         IF Has(PeerTables[i], <<"peer-port">>, "int")
                         THEN {Data(PeerTables[i], <<"peer-port">>)} ELSE {}
              /\ \A key \in Setting :
                    made.settings[key] = IF Has(Root, key, "int") THEN Data(Root, key) ELSE Default[key]
  <2>1. ASSUME NEW i \in DOMAIN PeerTables, Has(PeerTables[i], <<"peer-host">>, "string")
        PROVE  Peer(heap, PeerTables[i]).host = Data(PeerTables[i], <<"peer-host">>)
    <3>1. get_as(heap, "string", PeerTables[i], <<"peer-host">>).option
            = {Data(PeerTables[i], <<"peer-host">>)}
      BY <2>1, TextsAre DEF Got
    <3> QED  BY <3>1 DEF Peer, Text
  <2>2. ASSUME NEW t \in DOMAIN heap, NEW key \in Key, ~ get_as(heap, "int", t, key).thrown
        PROVE  get_as(heap, "int", t, key).option = IF Has(t, key, "int") THEN {Data(t, key)} ELSE {}
    <3>1. get_as(heap, "int", t, key) =
             IF Has(t, key, "int")
             THEN IF IsInt(Data(t, key)) THEN Got({Data(t, key)}) ELSE Thrown
             ELSE Got({})
      BY <1>1, NumbersAre
    <3> QED  BY <2>2, <3>1 DEF Got, Thrown
  <2>3. ASSUME NEW i \in DOMAIN PeerTables
        PROVE  Peer(heap, PeerTables[i]).port =
                 IF Has(PeerTables[i], <<"peer-port">>, "int")
                 THEN {Data(PeerTables[i], <<"peer-port">>)} ELSE {}
    <3>1. ~ port[i].thrown
      BY <1>10
    <3>2. ~ get_as(heap, "int", PeerTables[i], <<"peer-port">>).thrown
      BY <3>1
    <3> QED  BY <1>2, <1>7, <1>10, <2>2, <3>2 DEF Peer
  <2>4. ASSUME NEW key \in Setting
        PROVE  value_or(setting[key].option, Default[key])
                 = IF Has(Root, key, "int") THEN Data(Root, key) ELSE Default[key]
    <3>1. ~ setting[key].thrown
      BY <1>10
    <3>2. setting[key].option = IF Has(Root, key, "int") THEN {Data(Root, key)} ELSE {}
      BY <1>1, <1>2, <2>2, <3>1
    <3> HIDE DEF setting
    <3> QED  BY <3>2 DEF value_or
  <2> QED  BY <2>1, <2>3, <2>4
<1>11. config.is = "config" <=> HasPeers /\ AllInts
  <2>1. made.is = "config" /\ [is |-> "thrown"].is # "config"
    OBVIOUS
  <2> HIDE DEF config, Bad, made, AllInts
  <2> QED  BY <1>5, <1>6, <1>9, <2>1
<1>12. config.is = "config" => HasPeers /\ ~ Bad /\ config = made
  <2> HIDE DEF config, Bad, made, AllInts
  <2> QED  BY <1>6, <1>9, <1>11
<1>13. config.is = "config" =>
         /\ DOMAIN config.peers = DOMAIN PeerTables
         /\ \A i \in DOMAIN PeerTables :
               /\ Has(PeerTables[i], <<"peer-host">>, "string") =>
                    config.peers[i].host = Data(PeerTables[i], <<"peer-host">>)
               /\ config.peers[i].port =
                    IF Has(PeerTables[i], <<"peer-port">>, "int")
                    THEN {Data(PeerTables[i], <<"peer-port">>)} ELSE {}
         /\ \A key \in Setting :
               config.settings[key] = IF Has(Root, key, "int") THEN Data(Root, key) ELSE Default[key]
  <2> HIDE DEF config, Bad, made
  <2> QED  BY <1>10, <1>12
<1> QED  BY <1>11, <1>13, Zenon DEF ConfigIsOfTheFile

(***************************************************************************)
(* cpptoml.h:904, "Arrays must be homogenous.", although push_back and     *)
(* insert compare with the first element only: whatever is pushed, every   *)
(* array can be had whole, from the array and from the tables it is in.    *)
(***************************************************************************)
THEOREM ArraysStayWhole == Spec => []ArraysReadWhole
BY ElementsStayWellFormed, ElementsReadWhole, PTL

(***************************************************************************)
(* clone makes a copy of elements of its own, which has the shape of the   *)
(* original, and changes nothing that was there.                           *)
(***************************************************************************)
THEOREM ClonesStayApart == Spec => []ClonesAreApart
BY ElementsStayWellFormed, ElementsCloneApart, PTL

(***************************************************************************)
(* get_as and get_qualified_as give the number that is stored, or throw,   *)
(* in every type and at every key; a visitor is given what a value is.     *)
(***************************************************************************)
THEOREM LookupsStayExact == Spec => []LookupsAreExact
BY ElementsStayWellFormed, ElementsLookUpExactly, PTL

(***************************************************************************)
(* A node runs with its file's peers and settings, whatever was called to  *)
(* make the tree that parse_config reads.                                  *)
(***************************************************************************)
THEOREM ConfigStaysOfTheFile == Spec => []ConfigIsOfTheFile
BY ElementsStayWellFormed, ElementsConfigure, PTL
=============================================================================
