------------------------------ MODULE TextProofs ------------------------------
(***************************************************************************)
(* Proofs about texts, for every text of any characters.                   *)
(*                                                                         *)
(* How cpptoml.h reads the strings of a value: what is kept of a string    *)
(* over several lines, and the bytes of an escape.  parse_multiline_string *)
(* goes on from one place to a later one, so what it makes of the rest of  *)
(* a text is shown from the end of the text back to its beginning: it is   *)
(* right at a place if it is right further on, in each case of the code.   *)
(*                                                                         *)
(* What pattern_formatter.h makes of a pattern and a message: a compiled   *)
(* pattern prints one text after the other, whatever its caches hold, and  *)
(* this text is found from the end of the pattern back to its beginning.   *)
(***************************************************************************)
EXTENDS TomlValue, PatternFormatter, SequenceLemmas, SequenceTheorems

-------------------------------------------------------------------------------
(* A function that is defined by recursion on the place, from a to n.      *)
Steps(D, step) == step \in [Nat \X D -> D]

HasRecursion(D, a, n, base, step) ==
  \E f \in [a..n -> D] :
     a <= n => f[a] = base /\ \A i \in (a + 1)..n : f[i] = step[<<i, f[i - 1]>>]

(* It exists: it is what a function makes of pairs of a place and a value. *)
LEMMA RecursionFrom ==
  ASSUME NEW D, NEW a, NEW n, NEW base, NEW step,
         a \in Nat, n \in Nat, base \in D, Steps(D, step)
  PROVE  HasRecursion(D, a, n, base, step)
<1> DEFINE E == Nat \X D
           next == [e \in E |-> <<e[1] + 1, step[<<e[1] + 1, e[2]>>]>>]
           start == <<a, base>>
<1>0. step \in [E -> D]
  BY DEF Steps
<1>1. \A e \in E : e[1] \in Nat /\ e[1] + 1 \in Nat /\ e[2] \in D /\ e = <<e[1], e[2]>>
  OBVIOUS
<1>2. \A k \in Nat, d \in D : <<k, d>> \in E
  OBVIOUS
<1>3. \A e \in E : step[<<e[1] + 1, e[2]>>] \in D
  BY <1>0, <1>1, <1>2
<1>4. next \in [E -> E]
  BY <1>1, <1>2, <1>3
<1>5. start \in E /\ start[1] = a /\ start[2] = base
  OBVIOUS
<1>6. \A e \in E : next[e][1] = e[1] + 1 /\ next[e][2] = step[<<e[1] + 1, e[2]>>]
  OBVIOUS
<1> HIDE DEF next, E, start
<1>7. PICK g \in [Nat -> E] : g[0] = start /\ \A k \in Nat \ {0} : g[k] = next[g[k - 1]]
  BY <1>4, <1>5, RecursionExists, SMTT(30)
<1>8. \A k \in Nat : g[k] \in E /\ g[k + 1] = next[g[k]]
  <2> SUFFICES ASSUME NEW k \in Nat  PROVE g[k + 1] = next[g[k]]
    BY <1>7
  <2>1. k + 1 \in Nat \ {0} /\ (k + 1) - 1 = k
    OBVIOUS
  <2> QED  BY <1>7, <2>1
<1>9. \A k \in Nat : g[k][1] = a + k
  <2> DEFINE T == {k \in Nat : g[k][1] = a + k}
  <2>1. 0 \in T
    <3>1. g[0][1] = a
      BY <1>5, <1>7
    <3> QED  BY <3>1
  <2>2. ASSUME NEW k \in Nat, k \in T  PROVE k + 1 \in T
    <3>1. g[k + 1][1] = g[k][1] + 1
      BY <1>6, <1>8
    <3> QED  BY <2>2, <3>1
  <2> HIDE DEF T
  <2>3. Nat \subseteq T
    BY <2>1, <2>2, Induction
  <2> QED  BY <2>3 DEF T
<1> DEFINE f == [i \in a..n |-> g[i - a][2]]
<1>10. \A i \in a..n : i - a \in Nat
  OBVIOUS
<1>11. f \in [a..n -> D]
  BY <1>1, <1>8, <1>10
<1>12. ASSUME a <= n  PROVE f[a] = base
  <2>1. a \in a..n /\ a - a = 0
    BY <1>12
  <2>2. g[0][2] = base
    BY <1>5, <1>7
  <2> QED  BY <2>1, <2>2
<1>13. ASSUME NEW i \in (a + 1)..n  PROVE f[i] = step[<<i, f[i - 1]>>]
  <2>1. i \in a..n /\ i - 1 \in a..n /\ (i - 1) - a \in Nat /\ ((i - 1) - a) + 1 = i - a
    OBVIOUS
  <2>2. f[i] = g[i - a][2] /\ f[i - 1] = g[(i - 1) - a][2]
    BY <2>1
  <2>3. g[(i - 1) - a][1] = i - 1
    BY <1>9, <2>1
  <2>4. g[i - a] = next[g[(i - 1) - a]] /\ g[(i - 1) - a] \in E
    BY <1>8, <2>1
  <2>5. g[i - a][2] = step[<<(i - 1) + 1, g[(i - 1) - a][2]>>]
    BY <1>6, <2>3, <2>4
  <2>6. (i - 1) + 1 = i
    OBVIOUS
  <2> HIDE DEF f
  <2> QED  BY <2>2, <2>5, <2>6
<1> HIDE DEF f
<1> QED  BY <1>11, <1>12, <1>13 DEF HasRecursion

-------------------------------------------------------------------------------
(* Places in a text.                                                       *)
LEMMA BehindIs ==
  ASSUME NEW S, NEW s \in Seq(S), NEW i \in 1..(Len(s) + 1), NEW set
  PROVE  /\ Behind(s, i, set) \in i..(Len(s) + 1)
         /\ \A k \in i..(Behind(s, i, set) - 1) : s[k] \in set
         /\ Behind(s, i, set) <= Len(s) => s[Behind(s, i, set)] \notin set
<1>1. Len(s) \in Nat
  OBVIOUS
<1> DEFINE T == {j \in i..(Len(s) + 1) : j <= Len(s) => s[j] \notin set}
<1>2. T \subseteq Nat /\ Len(s) + 1 \in T
  BY <1>1
<1>3. PICK j \in T : \A m \in T : j <= m
  <2> HIDE DEF T
  <2> QED  BY <1>2, Least
<1>4. \A k \in i..(j - 1) : s[k] \in set
  <2> SUFFICES ASSUME NEW k \in i..(j - 1), s[k] \notin set  PROVE FALSE
    OBVIOUS
  <2>1. k \in T /\ ~ (j <= k)
    BY <1>1, <1>3
  <2> QED  BY <1>3, <2>1
<1>5. j \in i..(Len(s) + 1) /\ (j <= Len(s) => s[j] \notin set)
  BY <1>3
<1> QED  BY <1>4, <1>5 DEF Behind

(* A delimiter three times over begins with one.                           *)
LEMMA TripleHas ==
  ASSUME NEW s \in Seq(STRING), NEW i \in 1..Len(s), NEW d, Triple(s, i, d)
  PROVE  s[i] = d
<1> DEFINE last == IF i + 3 - 1 > Len(s) THEN Len(s) ELSE i + 3 - 1
<1>1. Len(s) \in Nat
  OBVIOUS
<1>2. last \in i..Len(s)
  BY <1>1
<1>3. SubSeq(s, i, last) = <<d, d, d>>
  BY DEF Triple, Slice
<1> HIDE DEF last
<1>4. SubSeq(s, i, last)[1] = s[i]
  BY <1>1, <1>2
<1>5. <<d, d, d>>[1] = d
  OBVIOUS
<1> QED  BY <1>3, <1>4, <1>5

Spaces == Blank \cup {"\n"}

(* The backslash that ends a line is followed by what is left out.         *)
LEMMA EndsLineIs ==
  ASSUME NEW s \in Seq(STRING), NEW i \in 1..Len(s), EndsLine(s, i)
  PROVE  s[i] = "\\" /\ (i + 1 <= Len(s) => s[i + 1] \in Spaces \cup {"NUL"})
<1>1. Len(s) \in Nat /\ i + 1 \in 1..(Len(s) + 1)
  OBVIOUS
<1>2. s[i] = "\\"
  BY DEF EndsLine, At
<1> DEFINE j == Behind(s, i + 1, Blank)
<1>3. /\ j \in (i + 1)..(Len(s) + 1)
      /\ \A k \in (i + 1)..(j - 1) : s[k] \in Blank
  BY <1>1, BehindIs
<1>4. At(s, j) \in {"\n", "NUL"}
  BY DEF EndsLine
<1> HIDE DEF j
<1>5. ASSUME i + 1 <= Len(s)  PROVE s[i + 1] \in Spaces \cup {"NUL"}
  <2>1. CASE j = i + 1
    <3>1. At(s, j) = s[i + 1]
      BY <1>1, <1>5, <2>1 DEF At
    <3> QED  BY <1>4, <3>1 DEF Spaces
  <2>2. CASE j # i + 1
    <3>1. i + 1 \in (i + 1)..(j - 1)
      BY <1>1, <1>3, <2>2
    <3> QED  BY <1>3, <3>1 DEF Spaces
  <2> QED  BY <2>1, <2>2
<1> QED  BY <1>2, <1>5

-------------------------------------------------------------------------------
(* Whether a character is escaped follows from the one before it.          *)
LEMMA NotBehindOther ==
  ASSUME NEW s, NEW i \in Nat, s[i] # "\\"
  PROVE  ~Escaped(s, i + 1)
<1> SUFFICES ASSUME Escaped(s, i + 1)  PROVE FALSE
  OBVIOUS
<1>1. PICK n \in 0..((i + 1) - 2) : n % 2 = 1 /\ \A k \in ((i + 1) - n)..((i + 1) - 1) : s[k] = "\\"
  BY DEF Escaped
<1>2. n >= 1
  BY <1>1
<1>3. i \in ((i + 1) - n)..((i + 1) - 1)
  BY <1>2
<1> QED  BY <1>1, <1>3

(* The character behind a backslash that is not escaped is escaped.        *)
LEMMA EscapedBehindOne ==
  ASSUME NEW s \in Seq(STRING), NEW i \in 2..Len(s), s[1] # "\\", s[i] = "\\", ~Escaped(s, i)
  PROVE  Escaped(s, i + 1)
<1>1. Len(s) \in Nat /\ i \in Nat /\ i - 1 \in Nat
  OBVIOUS
<1> DEFINE S == {j \in 1..(i - 1) : s[j] # "\\"}
           p == Max(S)
           n == (i - 1) - p
<1>2. S \in SUBSET (1..(i - 1)) /\ 1 \in S
  BY <1>1
<1>3. p \in S /\ \A m \in S : p >= m
  <2> HIDE DEF S
  <2> QED  BY <1>1, <1>2, MaxIs
<1>4. p \in 1..(i - 1) /\ s[p] # "\\"
  BY <1>3
<1>5. \A k \in (p + 1)..(i - 1) : s[k] = "\\"
  <2> SUFFICES ASSUME NEW k \in (p + 1)..(i - 1), s[k] # "\\"  PROVE FALSE
    OBVIOUS
  <2>1. k \in 1..(i - 1) /\ ~ (p >= k)
    BY <1>4
  <2>2. k \in S
    BY <2>1
  <2> QED  BY <1>3, <2>1, <2>2
<1> HIDE DEF p, S
<1>6. n \in 0..(i - 2) /\ i - n = p + 1 /\ i - n - 1 = p
  BY <1>4
<1>7. n % 2 # 1
  <2> SUFFICES ASSUME n % 2 = 1  PROVE Escaped(s, i)
    OBVIOUS
  <2> HIDE DEF n
  <2> QED  BY <1>4, <1>5, <1>6 DEF Escaped
<1>8. (n + 1) % 2 = 1
  <2> HIDE DEF n
  <2> QED  BY <1>6, <1>7
<1>9. n + 1 \in 0..((i + 1) - 2) /\ (i + 1) - (n + 1) = p + 1 /\ (i + 1) - (n + 1) - 1 = p
  BY <1>4, <1>6
<1>10. \A k \in (p + 1)..((i + 1) - 1) : s[k] = "\\"
  BY <1>4, <1>5
<1> HIDE DEF n
<1> QED  BY <1>4, <1>8, <1>9, <1>10 DEF Escaped

(* The character behind an escaped one is not escaped.                     *)
LEMMA NotBehindEscaped ==
  ASSUME NEW s, NEW i \in Nat, Escaped(s, i)
  PROVE  ~Escaped(s, i + 1)
<1> SUFFICES ASSUME Escaped(s, i + 1)  PROVE FALSE
  OBVIOUS
<1>1. PICK n \in 0..(i - 2) :
         n % 2 = 1 /\ (\A k \in (i - n)..(i - 1) : s[k] = "\\") /\ s[i - n - 1] # "\\"
  BY DEF Escaped
<1>2. PICK m \in 0..((i + 1) - 2) :
         m % 2 = 1 /\ (\A k \in ((i + 1) - m)..((i + 1) - 1) : s[k] = "\\") /\ s[(i + 1) - m - 1] # "\\"
  BY DEF Escaped
<1>3. m # n + 1 /\ m >= 1 /\ (i + 1) - m - 1 = i - m
  BY <1>1, <1>2
<1>4. CASE m < n + 1
  <2>1. i - m \in (i - n)..(i - 1)
    BY <1>3, <1>4
  <2> QED  BY <1>1, <1>2, <1>3, <2>1
<1>5. CASE m > n + 1
  <2>1. i - n - 1 \in ((i + 1) - m)..((i + 1) - 1)
    BY <1>5
  <2> QED  BY <1>1, <1>2, <2>1
<1> QED  BY <1>3, <1>4, <1>5

(* What an escape is made of.                                              *)
LEMMA UnicodeIs ==
  ASSUME NEW s \in Seq(STRING), NEW i \in Nat \ {0}, NEW n \in {4, 8}, EndOfUnicode(s, i, n) # 0
  PROVE  /\ EndOfUnicode(s, i, n) = i + n /\ i + n <= Len(s) + 1
         /\ \A k \in i..(i + n - 1) : s[k] \in Hex
<1>1. HexDigits(s, i, n) /\ EndOfUnicode(s, i, n) = i + n
  BY DEF EndOfUnicode
<1>2. i + n - 1 <= Len(s) /\ Len(s) \in Nat
  BY <1>1 DEF HexDigits
<1> QED  BY <1>1, <1>2 DEF HexDigits

Simple == {"b", "t", "n", "f", "r", "\"", "\\"}

(* An escape that is accepted ends in the text, and none of its characters *)
(* behind the first two is anything but a hexadecimal digit.               *)
LEMMA EscapeIs ==
  ASSUME NEW s \in Seq(STRING), NEW i \in 1..Len(s), NEW e, e = EndOfEscape(s, i), e # 0
  PROVE  /\ e \in (i + 2)..(Len(s) + 1) /\ e <= i + 10
         /\ s[i + 1] \in Simple \cup {"u", "U"}
         /\ \A k \in (i + 2)..(e - 1) : s[k] \in Hex
<1>1. Len(s) \in Nat /\ i + 2 \in Nat \ {0} /\ i + 1 \in Nat
  OBVIOUS
<1>2. At(s, i + 1) \in Simple \cup {"u", "U"}
  BY DEF EndOfEscape, Simple
<1>3. i + 1 <= Len(s) /\ At(s, i + 1) = s[i + 1]
  <2>1. "NUL" \notin Simple \cup {"u", "U"}
    BY DEF Simple
  <2>2. i + 1 \in 1..Len(s)
    BY <1>2, <2>1 DEF At
  <2> QED  BY <2>2 DEF At
<1>4. CASE At(s, i + 1) \in Simple
  <2>1. e = i + 2
    BY <1>4 DEF EndOfEscape, Simple
  <2> QED  BY <1>1, <1>2, <1>3, <2>1
<1>5. CASE At(s, i + 1) = "u"
  <2>1. e = EndOfUnicode(s, i + 2, 4)
    BY <1>5 DEF EndOfEscape
  <2>2. e = i + 2 + 4 /\ e <= Len(s) + 1 /\ \A k \in (i + 2)..(i + 2 + 4 - 1) : s[k] \in Hex
    BY <1>1, <2>1, UnicodeIs
  <2> QED  BY <1>1, <1>2, <1>3, <2>2
<1>6. CASE At(s, i + 1) = "U"
  <2>1. e = EndOfUnicode(s, i + 2, 8)
    BY <1>6 DEF EndOfEscape
  <2>2. e = i + 2 + 8 /\ e <= Len(s) + 1 /\ \A k \in (i + 2)..(i + 2 + 8 - 1) : s[k] \in Hex
    BY <1>1, <2>1, UnicodeIs
  <2> QED  BY <1>1, <1>2, <1>3, <2>2
<1> QED  BY <1>2, <1>4, <1>5, <1>6 DEF Simple

-------------------------------------------------------------------------------
(* Place i is behind a backslash at the end of a line, and only spaces and *)
(* line ends are between them.                                             *)
Taken(s, i) ==
  \E k \in 4..(i - 1) : ~Escaped(s, k) /\ EndsLine(s, k) /\ \A m \in (k + 1)..(i - 1) : s[m] \in Spaces

(* One place further, either there is a space more, or the line ended there.*)
LEMMA TakenNext ==
  ASSUME NEW s \in Seq(STRING), NEW i \in 4..Len(s)
  PROVE  Taken(s, i + 1) <=> \/ Taken(s, i) /\ s[i] \in Spaces
                             \/ ~Escaped(s, i) /\ EndsLine(s, i)
<1>1. (i + 1) - 1 = i /\ i \in Nat
  OBVIOUS
<1>2. ASSUME Taken(s, i), s[i] \in Spaces  PROVE Taken(s, i + 1)
  <2>1. PICK k \in 4..(i - 1) : ~Escaped(s, k) /\ EndsLine(s, k) /\ \A m \in (k + 1)..(i - 1) : s[m] \in Spaces
    BY <1>2 DEF Taken
  <2>2. \A m \in (k + 1)..((i + 1) - 1) : s[m] \in Spaces
    BY <1>2, <2>1
  <2>3. k \in 4..((i + 1) - 1)
    OBVIOUS
  <2> QED  BY <2>1, <2>2, <2>3 DEF Taken
<1>3. ASSUME ~Escaped(s, i), EndsLine(s, i)  PROVE Taken(s, i + 1)
  <2>1. i \in 4..((i + 1) - 1) /\ \A m \in (i + 1)..((i + 1) - 1) : s[m] \in Spaces
    OBVIOUS
  <2> QED  BY <1>3, <2>1 DEF Taken
<1>4. ASSUME Taken(s, i + 1), ~ (~Escaped(s, i) /\ EndsLine(s, i))
      PROVE  Taken(s, i) /\ s[i] \in Spaces
  <2>1. PICK k \in 4..((i + 1) - 1) :
           ~Escaped(s, k) /\ EndsLine(s, k) /\ \A m \in (k + 1)..((i + 1) - 1) : s[m] \in Spaces
    BY <1>4 DEF Taken
  <2>2. k # i
    BY <1>4, <2>1
  <2>3. k \in 4..(i - 1) /\ i \in (k + 1)..((i + 1) - 1)
    BY <2>2
  <2>4. \A m \in (k + 1)..(i - 1) : s[m] \in Spaces
    BY <2>1
  <2> QED  BY <2>1, <2>3, <2>4 DEF Taken
<1> QED  BY <1>2, <1>3, <1>4

(* Those places are left out, and the end of the first line is, which TOML *)
(* has only when nothing is on this line.                                  *)
LEMMA DroppedIs ==
  ASSUME NEW s \in Seq(STRING), NEW i \in 4..Len(s)
  PROVE  Dropped(s, i) <=> \/ s[i] = "\n" /\ IsFirstLine(s, i)
                           \/ s[1] = "\"" /\ Taken(s, i + 1)
<1>1. ASSUME NEW k \in 4..i
      PROVE  AllIn(SubSeq(s, k + 1, i), Spaces) <=> \A m \in (k + 1)..((i + 1) - 1) : s[m] \in Spaces
  <2> DEFINE t == SubSeq(s, k + 1, i)
  <2>1. Len(s) \in Nat /\ k \in Nat /\ i \in Nat /\ k <= i /\ i <= Len(s)
    OBVIOUS
  <2>2. Len(t) = i - k
    BY <2>1
  <2>3. \A m \in 1..(i - k) : t[m] = s[k + m]
    BY <2>1
  <2> HIDE DEF t
  <2>4. ASSUME \A m \in 1..(i - k) : t[m] \in Spaces, NEW m \in (k + 1)..((i + 1) - 1)  PROVE s[m] \in Spaces
    <3>1. m - k \in 1..(i - k) /\ k + (m - k) = m
      OBVIOUS
    <3> QED  BY <2>3, <2>4, <3>1
  <2>5. ASSUME \A m \in (k + 1)..((i + 1) - 1) : s[m] \in Spaces, NEW m \in 1..(i - k)  PROVE t[m] \in Spaces
    <3>1. k + m \in (k + 1)..((i + 1) - 1)
      OBVIOUS
    <3> QED  BY <2>3, <2>5, <3>1
  <2>6. AllIn(t, Spaces) <=> \A m \in 1..(i - k) : t[m] \in Spaces
    BY <2>2 DEF AllIn
  <2> QED  BY <2>4, <2>5, <2>6 DEF t
<1>2. (\E k \in 4..i : ~Escaped(s, k) /\ EndsLine(s, k) /\ AllIn(SubSeq(s, k + 1, i), Spaces))
        <=> Taken(s, i + 1)
  <2>1. (i + 1) - 1 = i
    OBVIOUS
  <2> QED  BY <1>1, <2>1 DEF Taken
<1>3. EndsFirstLine(s, i) <=> s[i] = "\n" /\ IsFirstLine(s, i)
  BY DEF IsFirstLine, EndsFirstLine
<1> QED  BY <1>2, <1>3 DEF Dropped, Trimmed, Spaces

-------------------------------------------------------------------------------
(* What is kept, place by place.                                           *)
LEMMA KeptIs ==
  ASSUME NEW s \in Seq(STRING), Len(s) >= 3
  PROVE  /\ \A n \in 3..Len(s) : Kept(s, n) \in Seq(STRING)
         /\ Kept(s, 3) = <<>>
         /\ \A n \in 4..Len(s) :
               Kept(s, n) = IF Dropped(s, n) THEN Kept(s, n - 1) ELSE Append(Kept(s, n - 1), s[n])
<1> DEFINE D == Seq(STRING)
           N == Len(s)
           next(n, t) == IF Dropped(s, n) THEN t ELSE IF n \in 1..N THEN Append(t, s[n]) ELSE t
           step == [p \in Nat \X D |-> next(p[1], p[2])]
           Is_(f) == f = [i \in 3..N |->
                           IF i = 3 THEN <<>> ELSE IF Dropped(s, i) THEN f[i - 1] ELSE Append(f[i - 1], s[i])]
           kept == CHOOSE f : Is_(f)
<1>1. N \in Nat /\ 3 \in Nat /\ 3 <= N /\ <<>> \in D
  OBVIOUS
<1>2. \A n \in Nat, t \in D : next(n, t) \in D
  <2> SUFFICES ASSUME NEW n \in Nat, NEW t \in Seq(STRING)  PROVE next(n, t) \in Seq(STRING)
    OBVIOUS
  <2>1. n \in 1..N => s[n] \in STRING
    OBVIOUS
  <2>2. n \in 1..N => Append(t, s[n]) \in Seq(STRING)
    BY <2>1
  <2> QED  BY <2>2
<1>3. Steps(D, step)
  <2> HIDE DEF next, D
  <2>1. \A p \in Nat \X D : p[1] \in Nat /\ p[2] \in D
    OBVIOUS
  <2> QED  BY <1>2, <2>1 DEF Steps
<1>4. \A n \in Nat, t \in D : step[<<n, t>>] = next(n, t)
  <2> HIDE DEF next, D
  <2> QED  OBVIOUS
<1> HIDE DEF step, D, N
<1>5. PICK f \in [3..N -> D] : f[3] = <<>> /\ \A i \in (3 + 1)..N : f[i] = step[<<i, f[i - 1]>>]
  <2> HIDE DEF next, Is, kept
  <2>1. HasRecursion(D, 3, N, <<>>, step)
    BY <1>1, <1>3, RecursionFrom
  <2> QED  BY <1>1, <2>1 DEF HasRecursion
<1>6. \A i \in 4..N : /\ i - 1 \in 3..N /\ i \in Nat /\ i \in 1..N
                      /\ f[i] = IF Dropped(s, i) THEN f[i - 1] ELSE Append(f[i - 1], s[i])
  <2> SUFFICES ASSUME NEW i \in 4..N
               PROVE  /\ i - 1 \in 3..N /\ i \in Nat /\ i \in 1..N
                      /\ f[i] = IF Dropped(s, i) THEN f[i - 1] ELSE Append(f[i - 1], s[i])
    OBVIOUS
  <2>1. i - 1 \in 3..N /\ i \in Nat /\ i \in 1..N /\ i \in (3 + 1)..N
    BY <1>1
  <2>2. f[i] = step[<<i, f[i - 1]>>] /\ f[i - 1] \in D
    BY <1>5, <2>1
  <2>3. f[i] = next(i, f[i - 1])
    BY <1>4, <2>1, <2>2
  <2> QED  BY <2>1, <2>3
<1>7. Is_(f)
  <2> DEFINE rhs == [i \in 3..N |->
                        IF i = 3 THEN <<>> ELSE IF Dropped(s, i) THEN f[i - 1] ELSE Append(f[i - 1], s[i])]
  <2>1. \A i \in 3..N : i # 3 => i \in 4..N
    BY <1>1
  <2>2. \A i \in 3..N : f[i] = rhs[i]
    BY <1>5, <1>6, <2>1
  <2>3. f = [i \in 3..N |-> f[i]]
    BY <1>5
  <2> HIDE DEF rhs
  <2>4. f = [i \in 3..N |-> rhs[i]]
    BY <2>2, <2>3
  <2> QED  BY <2>4 DEF rhs
<1>8. Is_(kept)
  BY <1>7 DEF kept
<1> HIDE DEF kept
<1>9. kept[3] = <<>> /\ \A i \in 4..N : kept[i] = IF Dropped(s, i) THEN kept[i - 1] ELSE Append(kept[i - 1], s[i])
  <2>1. 3 \in 3..N /\ \A i \in 4..N : i \in 3..N /\ i # 3
    BY <1>1
  <2> QED  BY <1>8, <2>1
<1>10. \A n \in 3..N : kept[n] = f[n]
  <2> DEFINE T == {k \in Nat : k + 3 <= N => kept[k + 3] = f[k + 3]}
  <2>1. 0 \in T
    BY <1>5, <1>9
  <2>2. ASSUME NEW k \in Nat, k \in T  PROVE k + 1 \in T
    <3> SUFFICES ASSUME (k + 1) + 3 <= N  PROVE kept[(k + 1) + 3] = f[(k + 1) + 3]
      OBVIOUS
    <3>1. (k + 1) + 3 \in 4..N /\ ((k + 1) + 3) - 1 = k + 3 /\ k + 3 <= N
      BY <1>1
    <3>2. kept[k + 3] = f[k + 3]
      BY <2>2, <3>1
    <3> HIDE DEF T
    <3> QED  BY <1>6, <1>9, <3>1, <3>2
  <2> HIDE DEF T
  <2>3. Nat \subseteq T
    BY <2>1, <2>2, Induction
  <2>4. \A n \in 3..N : n - 3 \in Nat /\ (n - 3) + 3 = n /\ n <= N
    BY <1>1
  <2>5. \A k \in Nat : k + 3 <= N => kept[k + 3] = f[k + 3]
    BY <2>3 DEF T
  <2> QED  BY <2>4, <2>5
<1>11. \A n : Kept(s, n) = kept[n]
  BY DEF Kept, kept, N
<1>12. \A n \in 3..N : kept[n] \in Seq(STRING)
  BY <1>5, <1>10 DEF D
<1> QED  BY <1>9, <1>11, <1>12 DEF N

Regrouped(a, b, c) == (a \o b) \o c = a \o (b \o c)

(* Three texts are joined in any order.                                    *)
LEMMA JoinTexts ==
  ASSUME NEW a, NEW b, NEW c, a \in Seq(STRING), b \in Seq(STRING), c \in Seq(STRING)
  PROVE  Regrouped(a, b, c)
BY JoinAssociative DEF Regrouped

(* A sequence with one more element, in two parts.                         *)
LEMMA OneMore ==
  ASSUME NEW a, NEW b, NEW e, a \in Seq(STRING), b \in Seq(STRING), e \in STRING
  PROVE  Append(a \o b, e) = a \o (b \o <<e>>)
<1>1. <<e>> \in Seq(STRING) /\ a \o b \in Seq(STRING)
  BY JoinHas, ShortOnes
<1>2. Append(a \o b, e) = (a \o b) \o <<e>>
  BY <1>1, AppendIsConcat
<1>3. (a \o b) \o <<e>> = a \o (b \o <<e>>)
  <2> DEFINE c == <<e>>
  <2>1. c \in Seq(STRING)
    BY <1>1
  <2> HIDE DEF c
  <2>2. (a \o b) \o c = a \o (b \o c)
    BY <2>1, JoinAssociative
  <2> QED  BY <2>2 DEF c
<1> QED  BY <1>2, <1>3

(* What is kept of a run of which all is kept.                             *)
KeepsAll(s, i, e) == \A j \in i..(e - 1) : ~Dropped(s, j)

(* Then it is added to what was kept before, as it is.                     *)
LEMMA KeptMany ==
  ASSUME NEW s \in Seq(STRING), NEW i \in 4..Len(s), NEW e \in (i + 1)..(Len(s) + 1), KeepsAll(s, i, e)
  PROVE  Kept(s, e - 1) = Kept(s, i - 1) \o SubSeq(s, i, e - 1)
<1> DEFINE old == Kept(s, i - 1)
           Holds(m) == m <= e - i => Kept(s, i + m - 1) = old \o SubSeq(s, i, i + m - 1)
           T == {m \in Nat : Holds(m)}
<1>1. Len(s) \in Nat /\ Len(s) >= 3 /\ i \in Nat /\ e \in Nat /\ i - 1 \in 3..Len(s) /\ i \in 1..Len(s)
  OBVIOUS
<1>2. old \in Seq(STRING)
  BY <1>1, KeptIs
<1>3. 0 \in T
  <2>1. i + 0 - 1 = i - 1 /\ i - 1 \in Int /\ i \in Int /\ i - 1 < i
    BY <1>1
  <2>2. SubSeq(s, i, i - 1) = <<>>
    BY <2>1, SubSeqEmpty
  <2>3. old \o <<>> = old
    BY <1>2, ConcatEmptySeq
  <2> QED  BY <2>1, <2>2, <2>3
<1>4. ASSUME NEW m \in Nat, m \in T  PROVE m + 1 \in T
  <2>a. Holds(m) /\ (Holds(m + 1) => m + 1 \in T)
    <3> HIDE DEF Holds
    <3> QED  BY <1>4
  <2> SUFFICES ASSUME m + 1 <= e - i  PROVE Kept(s, i + (m + 1) - 1) = old \o SubSeq(s, i, i + (m + 1) - 1)
    BY <2>a
  <2> HIDE DEF T
  <2> DEFINE k == i + m
  <2>1. /\ k \in i..(e - 1) /\ k \in 4..Len(s) /\ k \in i..Len(s) /\ k \in 1..Len(s)
        /\ i + (m + 1) - 1 = k /\ i + m - 1 = k - 1 /\ m <= e - i
    BY <1>1
  <2> HIDE DEF k
  <2>2. Kept(s, k - 1) = old \o SubSeq(s, i, k - 1)
    BY <2>1, <2>a
  <2>3. Kept(s, k) = Append(Kept(s, k - 1), s[k]) /\ Kept(s, k - 1) \in Seq(STRING)
    <3>1. k - 1 \in 3..Len(s)
      BY <2>1
    <3>2. ~Dropped(s, k)
      BY <2>1 DEF KeepsAll
    <3> QED  BY <1>1, <2>1, <3>1, <3>2, KeptIs
  <2>4. s[k] \in STRING
    BY <2>1
  <2>5. SubSeq(s, i, k) = SubSeq(s, i, k - 1) \o <<s[k]>>
    BY <1>1, <2>1, SubSeqRecursiveSecond
  <2>6. SubSeq(s, i, k - 1) \in Seq(STRING)
    <3>1. \A j \in i..(k - 1) : s[j] \in STRING
      BY <1>1, <2>1
    <3>2. i \in Int /\ k - 1 \in Int
      BY <1>1, <2>1
    <3> QED  BY <3>1, <3>2, SubSeqProperties
  <2> DEFINE b == SubSeq(s, i, k - 1)
             x == s[k]
  <2>7. b \in Seq(STRING) /\ x \in STRING
    BY <2>4, <2>6
  <2> HIDE DEF old, b, x
  <2>8. Append(old \o b, x) = old \o (b \o <<x>>)
    BY <1>2, <2>7, OneMore
  <2>9. Kept(s, k) = old \o SubSeq(s, i, k)
    BY <2>2, <2>3, <2>5, <2>8 DEF b, x
  <2> QED  BY <2>1, <2>9
<1> HIDE DEF T, Holds, old
<1>5. Nat \subseteq T
  BY <1>3, <1>4, Induction
<1>6. e - i \in Nat /\ i + (e - i) - 1 = e - 1 /\ e - i <= e - i
  BY <1>1
<1>7. e - i \in T
  BY <1>5, <1>6
<1>8. Kept(s, i + (e - i) - 1) = old \o SubSeq(s, i, i + (e - i) - 1)
  BY <1>6, <1>7 DEF T, Holds
<1> QED  BY <1>6, <1>8 DEF old

-------------------------------------------------------------------------------
(***************************************************************************)
(* The recursion of parse_multiline_string.                                *)
(***************************************************************************)
Nowhere == [value |-> <<>>, it |-> 0]
PutBefore(chars, r) == [r EXCEPT !.value = chars \o @]

RestAt(s, f, i, consuming) ==
  IF i > Len(s) THEN Nowhere
  ELSE IF consuming /\ s[i] \in Blank \cup {"\n"} THEN f[<<i + 1, TRUE>>]
  ELSE IF s[i] = "\n"
       THEN PutBefore(IF IsFirstLine(s, i) THEN <<>> ELSE <<"\n">>, f[<<i + 1, FALSE>>])
  ELSE IF s[1] = "\"" /\ EndsLine(s, i) THEN f[<<i + 1, TRUE>>]
  ELSE IF s[1] = "\"" /\ s[i] = "\\"
       THEN IF EndOfEscape(s, i) = 0 THEN Nowhere
            ELSE PutBefore(SubSeq(s, i, EndOfEscape(s, i) - 1), f[<<EndOfEscape(s, i), FALSE>>])
  ELSE IF Triple(s, i, s[1]) THEN [value |-> <<>>, it |-> i + 3]
  ELSE PutBefore(<<s[i]>>, f[<<i + 1, FALSE>>])

(* It looks at what is behind the place only.                              *)
LEMMA RestLooksAhead ==
  ASSUME NEW s \in Seq(STRING), NEW f, NEW g, NEW i \in 4..(Len(s) + 10), NEW c \in BOOLEAN,
         \A j \in (i + 1)..(Len(s) + 10), d \in BOOLEAN : f[<<j, d>>] = g[<<j, d>>]
  PROVE  RestAt(s, f, i, c) = RestAt(s, g, i, c)
<1>1. Len(s) \in Nat
  OBVIOUS
<1>2. CASE i > Len(s)
  BY <1>2 DEF RestAt
<1>3. CASE i <= Len(s)
  <2>1. i + 1 \in (i + 1)..(Len(s) + 10) /\ i \in 1..Len(s)
    BY <1>1, <1>3
  <2>2. f[<<i + 1, TRUE>>] = g[<<i + 1, TRUE>>] /\ f[<<i + 1, FALSE>>] = g[<<i + 1, FALSE>>]
    BY <2>1
  <2>3. EndOfEscape(s, i) # 0 => f[<<EndOfEscape(s, i), FALSE>>] = g[<<EndOfEscape(s, i), FALSE>>]
    <3> SUFFICES ASSUME EndOfEscape(s, i) # 0
                 PROVE  f[<<EndOfEscape(s, i), FALSE>>] = g[<<EndOfEscape(s, i), FALSE>>]
      OBVIOUS
    <3> DEFINE e == EndOfEscape(s, i)
    <3>1. e \in (i + 2)..(Len(s) + 1)
      BY <2>1, EscapeIs
    <3> HIDE DEF e
    <3>2. e \in (i + 1)..(Len(s) + 10)
      BY <1>1, <3>1
    <3>3. f[<<e, FALSE>>] = g[<<e, FALSE>>]
      BY <3>2
    <3> QED  BY <3>3 DEF e
  <2> QED  BY <2>2, <2>3 DEF RestAt
<1> QED  BY <1>1, <1>2, <1>3

(* It is well-founded: the rest of a text exists from its end on.          *)
LEMMA RestExists ==
  ASSUME NEW s \in Seq(STRING)
  PROVE  \E f : f = [p \in (4..(Len(s) + 10)) \X BOOLEAN |-> RestAt(s, f, p[1], p[2])]
<1> DEFINE N == Len(s) + 10
           D == (4..N) \X BOOLEAN
           From_(n, f) == \A i \in 4..N, c \in BOOLEAN : i + n >= N => f[<<i, c>>] = RestAt(s, f, i, c)
           T == {n \in Nat : \E f : f = [p \in D |-> f[p]] /\ From_(n, f)}
<1>1. Len(s) \in Nat /\ N \in Nat /\ N > Len(s) /\ N >= 4
  OBVIOUS
<1>2. \A i \in 4..N, c \in BOOLEAN : <<i, c>> \in D /\ <<i, c>>[1] = i /\ <<i, c>>[2] = c
  OBVIOUS
<1>3. \A p \in D : p[1] \in 4..N /\ p[2] \in BOOLEAN /\ p = <<p[1], p[2]>>
  OBVIOUS
<1> HIDE DEF N, D
<1>4. 0 \in T
  <2> DEFINE f == [p \in D |-> Nowhere]
  <2>1. ASSUME NEW i \in 4..N, NEW c \in BOOLEAN, i + 0 >= N  PROVE f[<<i, c>>] = RestAt(s, f, i, c)
    <3>1. i > Len(s)
      BY <1>1, <2>1
    <3>2. RestAt(s, f, i, c) = Nowhere
      BY <3>1 DEF RestAt
    <3>3. f[<<i, c>>] = Nowhere
      BY <1>2
    <3> QED  BY <3>2, <3>3
  <2>2. f = [p \in D |-> f[p]]
    OBVIOUS
  <2> HIDE DEF f
  <2> QED  BY <2>1, <2>2
<1>5. ASSUME NEW n \in Nat, n \in T  PROVE n + 1 \in T
  <2>1. PICK f : f = [p \in D |-> f[p]] /\ From_(n, f)
    BY <1>5
  <2> DEFINE g == [p \in D |-> RestAt(s, f, p[1], p[2])]
  <2>2. ASSUME NEW i \in 4..N, NEW c \in BOOLEAN  PROVE g[<<i, c>>] = RestAt(s, f, i, c)
    BY <1>2
  <2>3. g = [p \in D |-> g[p]]
    OBVIOUS
  <2> HIDE DEF g
  <2>4. ASSUME NEW i \in 4..N, NEW c \in BOOLEAN, i + (n + 1) >= N  PROVE g[<<i, c>>] = RestAt(s, g, i, c)
    <3>1. ASSUME NEW j \in (i + 1)..N, NEW d \in BOOLEAN  PROVE f[<<j, d>>] = g[<<j, d>>]
      <4>1. j \in 4..N /\ j + n >= N
        BY <1>1, <2>4
      <4> QED  BY <2>1, <2>2, <4>1
    <3>2. RestAt(s, f, i, c) = RestAt(s, g, i, c)
      BY <3>1, RestLooksAhead DEF N
    <3> QED  BY <2>2, <3>2
  <2> QED  BY <2>3, <2>4
<1> HIDE DEF T
<1>6. N \in T
  BY <1>1, <1>4, <1>5, Induction
<1>7. PICK f : f = [p \in D |-> f[p]] /\ From_(N, f)
  BY <1>6 DEF T
<1>8. \A i \in 4..N, c \in BOOLEAN : f[<<i, c>>] = RestAt(s, f, i, c)
  <2>1. \A i \in 4..N : i + N >= N
    BY <1>1
  <2> QED  BY <1>7, <2>1
<1>9. f = [p \in D |-> RestAt(s, f, p[1], p[2])]
  <2> DEFINE rhs == [p \in D |-> RestAt(s, f, p[1], p[2])]
  <2>1. ASSUME NEW p \in D  PROVE f[p] = rhs[p]
    <3>1. f[<<p[1], p[2]>>] = RestAt(s, f, p[1], p[2])
      BY <1>3, <1>8
    <3> QED  BY <1>3, <3>1
  <2> HIDE DEF rhs
  <2>2. [p \in D |-> f[p]] = [p \in D |-> rhs[p]]
    BY <2>1
  <2>3. rhs = [p \in D |-> rhs[p]]
    BY DEF rhs
  <2>4. f = rhs
    BY <1>7, <2>2, <2>3
  <2> QED  BY <2>4 DEF rhs
<1> QED  BY <1>9 DEF D, N

IsRest(s, f) == \A i \in 4..(Len(s) + 10), c \in BOOLEAN : f[<<i, c>>] = RestAt(s, f, i, c)

(* There is one function for all places that parse_multiline_string reads. *)
LEMMA MultilineIs ==
  ASSUME NEW s \in Seq(STRING)
  PROVE  \E f : parse_multiline_string(s) = MultilineUntil(f[<<4, FALSE>>]) /\ IsRest(s, f)
<1> DEFINE D == (4..(Len(s) + 10)) \X BOOLEAN
           Is_(f) == f = [p \in D |-> RestAt(s, f, p[1], p[2])]
           rest == CHOOSE f : Is_(f)
<1>1. parse_multiline_string(s) = MultilineUntil(rest[<<4, FALSE>>])
  BY DEF parse_multiline_string, RestAt, PutBefore, Nowhere
<1>2. Is_(rest)
  BY RestExists
<1> HIDE DEF rest
<1>3. ASSUME NEW i \in 4..(Len(s) + 10), NEW c \in BOOLEAN  PROVE rest[<<i, c>>] = RestAt(s, rest, i, c)
  <2>1. <<i, c>> \in D /\ <<i, c>>[1] = i /\ <<i, c>>[2] = c
    OBVIOUS
  <2>2. rest[<<i, c>>] = RestAt(s, rest, <<i, c>>[1], <<i, c>>[2])
    <3> HIDE DEF D
    <3> QED  BY <1>2, <2>1
  <2> QED  BY <2>1, <2>2
<1>4. IsRest(s, rest)
  BY <1>3 DEF IsRest
<1> QED  BY <1>1, <1>4

(***************************************************************************)
(* Place i is where parse_multiline_string may be, consuming or not, and   *)
(* the rest it has read from there is right.                               *)
(***************************************************************************)
May(s, i, consuming) ==
  /\ s[1] = "\"" /\ i <= Len(s) /\ Escaped(s, i) => s[i] \in Spaces \cup {"NUL"}
  /\ consuming <=> s[1] = "\"" /\ Taken(s, i)

Closes(s, i) == Triple(s, i, s[1]) /\ (s[1] = "\"" => ~Escaped(s, i))

Right(s, i, r) ==
  /\ r \in [value : Seq(STRING), it : Nat]
  /\ r.it # 0 =>
       /\ r.it - 3 \in i..Len(s)
       /\ Kept(s, r.it - 3 - 1) = Kept(s, i - 1) \o r.value
       /\ \A j \in i..(r.it - 3) : Closes(s, j) <=> j = r.it - 3

(* What throws is right.                                                   *)
LEMMA NowhereIsRight ==
  ASSUME NEW s, NEW i
  PROVE  Right(s, i, Nowhere)
<1>1. Nowhere.it = 0
  BY DEF Nowhere
<1>2. Nowhere \in [value : Seq(STRING), it : Nat]
  BY DEF Nowhere
<1> QED  BY <1>1, <1>2 DEF Right

(* The end is right.                                                       *)
LEMMA EndIsRight ==
  ASSUME NEW s \in Seq(STRING), NEW i \in 4..Len(s), Closes(s, i)
  PROVE  Right(s, i, [value |-> <<>>, it |-> i + 3])
<1> DEFINE r == [value |-> <<>>, it |-> i + 3]
<1>1. Len(s) \in Nat /\ Len(s) >= 3 /\ i - 1 \in 3..Len(s) /\ i \in Nat
  OBVIOUS
<1>2. r \in [value : Seq(STRING), it : Nat] /\ r.it = i + 3 /\ r.value = <<>>
  BY <1>1
<1>3. r.it - 3 = i
  BY <1>1, <1>2
<1>4. Kept(s, i - 1) \in Seq(STRING)
  BY <1>1, KeptIs
<1>5. Kept(s, i - 1) \o <<>> = Kept(s, i - 1)
  BY <1>4, ConcatEmptySeq
<1> HIDE DEF r
<1>6. \A j \in i..i : Closes(s, j) <=> j = i
  <2>1. \A j \in i..i : j = i
    BY <1>1
  <2> QED  BY <2>1
<1>7. i \in i..Len(s)
  BY <1>1
<1>8. Right(s, i, r)
  BY <1>2, <1>3, <1>5, <1>6, <1>7 DEF Right
<1> QED  BY <1>8 DEF r

(* A place that is left out, and neither is the end.                       *)
LEMMA LeftOutIsRight ==
  ASSUME NEW s \in Seq(STRING), NEW i \in 4..Len(s), NEW r, Right(s, i + 1, r), Dropped(s, i), ~Closes(s, i)
  PROVE  Right(s, i, r)
<1>1. Len(s) \in Nat /\ Len(s) >= 3 /\ (i + 1) - 1 = i
  OBVIOUS
<1>2. Kept(s, i) = Kept(s, i - 1)
  BY <1>1, KeptIs
<1> SUFFICES ASSUME r.it # 0
             PROVE  /\ r.it - 3 \in i..Len(s)
                    /\ Kept(s, r.it - 3 - 1) = Kept(s, i - 1) \o r.value
                    /\ \A j \in i..(r.it - 3) : Closes(s, j) <=> j = r.it - 3
  BY DEF Right
<1>3. /\ r.it - 3 \in (i + 1)..Len(s)
      /\ Kept(s, r.it - 3 - 1) = Kept(s, (i + 1) - 1) \o r.value
      /\ \A j \in (i + 1)..(r.it - 3) : Closes(s, j) <=> j = r.it - 3
  BY DEF Right
<1> DEFINE end == r.it - 3
<1> HIDE DEF end
<1>4. end \in (i + 1)..Len(s) /\ \A j \in (i + 1)..end : Closes(s, j) <=> j = end
  BY <1>3 DEF end
<1>5. end \in i..Len(s) /\ \A j \in i..end : j = i \/ j \in (i + 1)..end
  BY <1>1, <1>4
<1>6. i # end
  BY <1>1, <1>4
<1>7. \A j \in i..end : Closes(s, j) <=> j = end
  BY <1>4, <1>5, <1>6
<1> QED  BY <1>1, <1>2, <1>3, <1>5, <1>7 DEF end

(* Places that are kept, and none of them is the end.                      *)
EndsIn(s, i, e) == \E j \in i..(e - 1) : Closes(s, j)

(* Putting them before a rest that is right makes one that is right.       *)
LEMMA PutIsRight ==
  ASSUME NEW s \in Seq(STRING), NEW i \in 4..Len(s), NEW e \in (i + 1)..(Len(s) + 1), NEW r,
         Right(s, e, r), KeepsAll(s, i, e), ~EndsIn(s, i, e)
  PROVE  Right(s, i, PutBefore(SubSeq(s, i, e - 1), r))
<1> DEFINE b == SubSeq(s, i, e - 1)
           q == PutBefore(b, r)
<1>1. Len(s) \in Nat /\ Len(s) >= 3 /\ i \in Nat /\ e \in Nat /\ i - 1 \in 3..Len(s)
  OBVIOUS
<1>2. b \in Seq(STRING)
  <2>1. \A j \in i..(e - 1) : s[j] \in STRING
    BY <1>1
  <2>2. i \in Int /\ e - 1 \in Int
    BY <1>1
  <2> QED  BY <2>1, <2>2, SubSeqProperties
<1>3. r \in [value : Seq(STRING), it : Nat] /\ r.value \in Seq(STRING)
  BY DEF Right
<1>4. Kept(s, e - 1) = Kept(s, i - 1) \o b
  BY KeptMany
<1>5. Kept(s, i - 1) \in Seq(STRING)
  BY <1>1, KeptIs
<1> HIDE DEF b
<1>6. q.it = r.it /\ q.value = b \o r.value
  BY <1>3 DEF PutBefore
<1>7. b \o r.value \in Seq(STRING)
  BY <1>2, <1>3, JoinHas
<1>8. q \in [value : Seq(STRING), it : Nat]
  <2> DEFINE v == b \o r.value
  <2>1. v \in Seq(STRING)
    BY <1>7
  <2>2. q = [r EXCEPT !.value = v]
    BY DEF PutBefore
  <2> HIDE DEF v
  <2> QED  BY <1>3, <2>1, <2>2
<1> HIDE DEF q
<1>9. ASSUME r.it # 0
      PROVE  /\ r.it - 3 \in i..Len(s)
             /\ Kept(s, r.it - 3 - 1) = Kept(s, i - 1) \o q.value
             /\ \A j \in i..(r.it - 3) : Closes(s, j) <=> j = r.it - 3
  <2> DEFINE end == r.it - 3
  <2>1. /\ end \in e..Len(s)
        /\ Kept(s, end - 1) = Kept(s, e - 1) \o r.value
        /\ \A j \in e..end : Closes(s, j) <=> j = end
    BY <1>9 DEF Right
  <2> HIDE DEF end
  <2>2. end \in i..Len(s) /\ \A j \in i..end : j \in i..(e - 1) \/ j \in e..end
    BY <1>1, <2>1
  <2>3. \A j \in i..(e - 1) : j # end /\ ~Closes(s, j)
    BY <1>1, <2>1 DEF EndsIn
  <2>4. \A j \in i..end : Closes(s, j) <=> j = end
    BY <2>1, <2>2, <2>3
  <2>5. Kept(s, end - 1) = Kept(s, i - 1) \o q.value
    <3> DEFINE a == Kept(s, i - 1)
               c == r.value
    <3>1. a \in Seq(STRING) /\ c \in Seq(STRING)
      BY <1>3, <1>5
    <3>2. Kept(s, end - 1) = (a \o b) \o c
      BY <1>4, <2>1
    <3> HIDE DEF a, c
    <3>3. Regrouped(a, b, c)
      BY <1>2, <3>1, JoinTexts
    <3> QED  BY <1>6, <3>2, <3>3 DEF Regrouped, a, c
  <2> QED  BY <2>2, <2>4, <2>5 DEF end
<1>10. Right(s, i, q)
  BY <1>6, <1>8, <1>9 DEF Right
<1> QED  BY <1>10 DEF q, b

(* The delimiters a string over several lines begins with.                 *)
LEMMA OpeningIs ==
  ASSUME NEW s \in Seq(STRING), NEW d, Triple(s, 1, d)
  PROVE  Len(s) >= 3 /\ s[1] = d /\ s[3] = d
<1> DEFINE last == IF 1 + 3 - 1 > Len(s) THEN Len(s) ELSE 1 + 3 - 1
           t == SubSeq(s, 1, last)
<1>1. Len(s) \in Nat
  OBVIOUS
<1>2. last \in 0..Len(s) /\ last <= 3
  BY <1>1
<1>3. t = <<d, d, d>>
  BY DEF Triple, Slice
<1> HIDE DEF last
<1>4. Len(t) = last
  BY <1>1, <1>2
<1>5. Len(<<d, d, d>>) = 3 /\ <<d, d, d>>[1] = d /\ <<d, d, d>>[3] = d
  OBVIOUS
<1>6. last = 3
  BY <1>3, <1>4, <1>5
<1>7. t[1] = s[1] /\ t[3] = s[3]
  BY <1>1, <1>2, <1>6
<1>8. t[1] = d /\ t[3] = d
  <2> HIDE DEF t
  <2> QED  BY <1>3, <1>5
<1> HIDE DEF t
<1> QED  BY <1>2, <1>6, <1>7, <1>8

(* Places of a text.                                                       *)
LEMMA PlaceHas ==
  ASSUME NEW s \in Seq(STRING), NEW i \in 4..Len(s)
  PROVE  /\ i + 1 \in (i + 1)..(Len(s) + 10) /\ i \in Nat /\ Len(s) \in Nat /\ i \in 1..Len(s)
         /\ i \in 2..Len(s) /\ i + 1 \in Nat /\ i <= Len(s)
         /\ (i + 1) - 1 = i /\ i + 1 \in (i + 1)..(Len(s) + 1) /\ SubSeq(s, i, i) = <<s[i]>>
         /\ \A j \in i..((i + 1) - 1) : j = i
<1>1. Len(s) \in Nat /\ i \in Nat /\ i \in 1..Len(s)
  OBVIOUS
<1>2. SubSeq(s, i, i) = <<s[i]>>
  <2> DEFINE x == s[i]
             t == SubSeq(s, i, i)
             u == <<x>>
  <2>1. x \in STRING
    BY <1>1
  <2>2. t \in Seq(STRING) /\ Len(t) = 1 /\ t[1] = x
    BY <1>1
  <2> HIDE DEF x, t
  <2>3. u \in Seq(STRING) /\ Len(u) = 1 /\ u[1] = x
    BY <2>1, ShortOnes
  <2> HIDE DEF u
  <2>4. \A k \in 1..Len(t) : k = 1
    BY <2>2
  <2>5. t = u
    BY <2>2, <2>3, <2>4, SameSeq
  <2> QED  BY <2>5 DEF t, u, x
<1> QED  BY <1>1, <1>2

(* The places of an escape in a text of n characters.                      *)
LEMMA EscapePlaces ==
  ASSUME NEW n \in Nat, NEW i \in 4..n, NEW e \in (i + 2)..(n + 1)
  PROVE  /\ e \in (i + 1)..(n + 1) /\ e \in (i + 1)..(n + 10) /\ e - 1 \in i..(e - 1)
         /\ (e - 1) + 1 = e /\ e - 1 \in Nat /\ (e - 1 = i + 1 \/ e - 1 \in (i + 2)..(e - 1))
         /\ \A j \in i..(e - 1) : j \in 1..n /\ j \in 4..n /\ (j = i \/ j = i + 1 \/ j \in (i + 2)..(e - 1))
OBVIOUS

(* A backslash where parse_multiline_string may be is not escaped.         *)
LEMMA NotEscapedThere ==
  ASSUME NEW s, NEW i, NEW c \in BOOLEAN, May(s, i, c), s[1] = "\"", i <= Len(s), s[i] = "\\"
  PROVE  ~Escaped(s, i)
<1>1. "\\" \notin Spaces \cup {"NUL"}
  BY DEF Spaces, Blank
<1> QED  BY <1>1 DEF May

Delimited(s) == s[1] \in {"\"", "'"}

(* A delimiter is neither a backslash nor a space.                         *)
LEMMA DelimitedIs ==
  ASSUME NEW s, Delimited(s)
  PROVE  s[1] # "\\" /\ s[1] \notin Spaces
BY Zenon DEF Delimited, Spaces, Blank

Rests(s, f, i) ==
  \A j \in (i + 1)..(Len(s) + 10), c \in BOOLEAN : May(s, j, c) => Right(s, j, f[<<j, c>>])

(***************************************************************************)
(* The cases of parse_multiline_string at a place: what is read is right   *)
(* if it is further on.                                                    *)
(***************************************************************************)
LEMMA ConsumedIsRight ==
  ASSUME NEW s \in Seq(STRING), Delimited(s), NEW f, NEW i \in 4..Len(s), NEW c \in BOOLEAN,
         May(s, i, c), Rests(s, f, i), c, s[i] \in Spaces
  PROVE  Right(s, i, f[<<i + 1, TRUE>>])
<1>1. /\ i + 1 \in (i + 1)..(Len(s) + 10) /\ i \in Nat /\ Len(s) \in Nat /\ i \in 1..Len(s)
      /\ i <= Len(s)
  BY PlaceHas
<1>2. s[1] = "\"" /\ Taken(s, i)
  BY DEF May
<1>3. s[i] # "\\" /\ s[i] # s[1]
  BY DelimitedIs DEF Spaces, Blank
<1>4. ~Escaped(s, i + 1)
  BY <1>1, <1>3, NotBehindOther
<1>5. Taken(s, i + 1)
  BY <1>2, TakenNext
<1>6. May(s, i + 1, TRUE)
  BY <1>2, <1>4, <1>5 DEF May
<1>7. Right(s, i + 1, f[<<i + 1, TRUE>>])
  BY <1>1, <1>6 DEF Rests
<1>8. Dropped(s, i)
  BY <1>2, <1>5, DroppedIs
<1>9. ~Closes(s, i)
  BY <1>1, <1>3, TripleHas DEF Closes
<1> QED  BY <1>7, <1>8, <1>9, LeftOutIsRight

(* The end of a line, which is kept but for the first one.                 *)
LEMMA LineEndIsRight ==
  ASSUME NEW s \in Seq(STRING), Delimited(s), NEW f, NEW i \in 4..Len(s), NEW c \in BOOLEAN,
         May(s, i, c), Rests(s, f, i), ~c, s[i] = "\n"
  PROVE  Right(s, i, PutBefore(IF IsFirstLine(s, i) THEN <<>> ELSE <<"\n">>, f[<<i + 1, FALSE>>]))
<1>1. /\ i + 1 \in (i + 1)..(Len(s) + 10) /\ i \in Nat /\ Len(s) \in Nat /\ i \in 1..Len(s)
      /\ (i + 1) - 1 = i /\ i + 1 \in (i + 1)..(Len(s) + 1) /\ SubSeq(s, i, i) = <<s[i]>>
      /\ \A j \in i..((i + 1) - 1) : j = i
  BY PlaceHas
<1>2. s[i] # "\\" /\ s[i] # s[1]
  BY DelimitedIs DEF Spaces
<1>3. ~Escaped(s, i + 1)
  BY <1>1, <1>2, NotBehindOther
<1>4. ~EndsLine(s, i)
  BY <1>1, <1>2, EndsLineIs
<1>5. s[1] = "\"" => ~Taken(s, i + 1)
  BY <1>4, TakenNext DEF May
<1>6. May(s, i + 1, FALSE)
  BY <1>3, <1>5 DEF May
<1> DEFINE r == f[<<i + 1, FALSE>>]
<1>7. Right(s, i + 1, r)
  BY <1>1, <1>6 DEF Rests
<1>8. ~Closes(s, i)
  BY <1>1, <1>2, TripleHas DEF Closes
<1>9. Dropped(s, i) <=> IsFirstLine(s, i)
  BY <1>5, DroppedIs
<1> HIDE DEF r
<1>10. CASE IsFirstLine(s, i)
  <2>1. Right(s, i, r)
    BY <1>7, <1>8, <1>9, <1>10, LeftOutIsRight
  <2>2. PutBefore(<<>>, r) = r
    <3>1. r \in [value : Seq(STRING), it : Nat]
      BY <1>7 DEF Right
    <3>2. r.value \in Seq(STRING)
      BY <3>1
    <3>3. <<>> \o r.value = r.value
      BY <3>2, ConcatEmptySeq
    <3>4. [r EXCEPT !.value = r.value] = r
      BY <3>1
    <3> QED  BY <3>3, <3>4 DEF PutBefore
  <2> QED  BY <1>10, <2>1, <2>2 DEF r
<1>11. CASE ~IsFirstLine(s, i)
  <2>1. KeepsAll(s, i, i + 1) /\ ~EndsIn(s, i, i + 1)
    BY <1>1, <1>8, <1>9, <1>11 DEF KeepsAll, EndsIn
  <2>2. Right(s, i, PutBefore(SubSeq(s, i, (i + 1) - 1), r))
    BY <1>1, <1>7, <2>1, PutIsRight
  <2>3. SubSeq(s, i, (i + 1) - 1) = <<"\n">>
    BY <1>1
  <2> QED  BY <1>11, <2>2, <2>3 DEF r
<1> QED  BY <1>10, <1>11

(* A backslash at the end of a line.                                       *)
LEMMA BackslashIsRight ==
  ASSUME NEW s \in Seq(STRING), s[1] = "\"", NEW f, NEW i \in 4..Len(s), NEW c \in BOOLEAN,
         May(s, i, c), Rests(s, f, i), EndsLine(s, i)
  PROVE  Right(s, i, f[<<i + 1, TRUE>>])
<1>1. /\ i + 1 \in (i + 1)..(Len(s) + 10) /\ i \in Nat /\ Len(s) \in Nat /\ i \in 1..Len(s)
      /\ i <= Len(s)
  BY PlaceHas
<1>2. s[i] = "\\" /\ (i + 1 <= Len(s) => s[i + 1] \in Spaces \cup {"NUL"})
  BY <1>1, EndsLineIs
<1>3. ~Escaped(s, i)
  BY <1>1, <1>2, NotEscapedThere
<1>4. Taken(s, i + 1)
  BY <1>3, TakenNext
<1>5. May(s, i + 1, TRUE)
  BY <1>2, <1>4 DEF May
<1>6. Right(s, i + 1, f[<<i + 1, TRUE>>])
  BY <1>1, <1>5 DEF Rests
<1>7. Dropped(s, i)
  BY <1>4, DroppedIs
<1>8. ~Closes(s, i)
  BY <1>1, <1>2, TripleHas DEF Closes
<1> QED  BY <1>6, <1>7, <1>8, LeftOutIsRight

(* An escape, of which all characters are kept, delimiters among them.     *)
LEMMA EscapeIsRight ==
  ASSUME NEW s \in Seq(STRING), s[1] = "\"", NEW f, NEW i \in 4..Len(s), NEW c \in BOOLEAN, NEW e,
         May(s, i, c), Rests(s, f, i), ~EndsLine(s, i), s[i] = "\\", e = EndOfEscape(s, i), e # 0
  PROVE  Right(s, i, PutBefore(SubSeq(s, i, e - 1), f[<<e, FALSE>>]))
<1>1. Len(s) \in Nat /\ i \in 1..Len(s) /\ i \in 2..Len(s) /\ i \in Nat /\ i + 1 \in Nat /\ i <= Len(s)
  BY PlaceHas
<1>2. /\ e \in (i + 2)..(Len(s) + 1)
      /\ s[i + 1] \in Simple \cup {"u", "U"}
      /\ \A k \in (i + 2)..(e - 1) : s[k] \in Hex
  BY <1>1, EscapeIs
<1>3. ~Escaped(s, i) /\ Escaped(s, i + 1)
  <2>1. ~Escaped(s, i)
    BY <1>1, NotEscapedThere
  <2> QED  BY <1>1, <2>1, EscapedBehindOne
<1>4. /\ e \in (i + 1)..(Len(s) + 1) /\ e \in (i + 1)..(Len(s) + 10) /\ e - 1 \in i..(e - 1)
      /\ (e - 1) + 1 = e /\ e - 1 \in Nat /\ (e - 1 = i + 1 \/ e - 1 \in (i + 2)..(e - 1))
  BY <1>1, <1>2, EscapePlaces
<1>5. \A j \in i..(e - 1) : /\ j \in 1..Len(s) /\ j \in 4..Len(s)
                            /\ j = i \/ j = i + 1 \/ j \in (i + 2)..(e - 1)
  BY <1>1, <1>2, EscapePlaces
<1>6. \A j \in i..(e - 1) : s[j] \notin Spaces
  <2>1. s[i] \notin Spaces /\ s[i + 1] \notin Spaces
    BY <1>2 DEF Spaces, Blank, Simple
  <2>2. \A c1 \in Hex : c1 \notin Spaces
    BY DEF Hex, Digit, Spaces, Blank
  <2> QED  BY <1>2, <1>5, <2>1, <2>2
<1>7. \A j \in (i + 2)..(e - 1) : s[j] # "\\" /\ s[j] # "\""
  <2>1. \A c1 \in Hex : c1 # "\\" /\ c1 # "\""
    BY DEF Hex, Digit
  <2> QED  BY <1>2, <2>1
<1>8. ASSUME NEW j \in i..(e - 1)  PROVE ~Closes(s, j) /\ ~ (~Escaped(s, j) /\ EndsLine(s, j))
  <2>1. j \in 1..Len(s)
    BY <1>5
  <2>2. CASE j = i
    BY <2>1, <2>2, TripleHas DEF Closes
  <2>3. CASE j = i + 1
    BY <1>3, <2>3 DEF Closes
  <2>4. CASE j \in (i + 2)..(e - 1)
    BY <1>7, <2>1, <2>4, TripleHas, EndsLineIs DEF Closes
  <2> QED  BY <1>5, <2>2, <2>3, <2>4
<1>9. ASSUME NEW j \in i..(e - 1)  PROVE ~Taken(s, j + 1) /\ ~Dropped(s, j)
  <2>1. j \in 4..Len(s)
    BY <1>5
  <2>2. ~Taken(s, j + 1)
    BY <1>6, <1>8, <2>1, TakenNext
  <2>3. s[j] # "\n"
    BY <1>6 DEF Spaces
  <2> QED  BY <2>1, <2>2, <2>3, DroppedIs
<1>10. ~Escaped(s, e)
  <2> DEFINE l == e - 1
  <2>1. l \in i..(e - 1) /\ l + 1 = e /\ l \in Nat /\ (l = i + 1 \/ l \in (i + 2)..(e - 1))
    BY <1>4
  <2> HIDE DEF l
  <2>2. ~Escaped(s, l + 1)
    <3>1. CASE l = i + 1
      BY <1>1, <1>3, <3>1, NotBehindEscaped
    <3>2. CASE l \in (i + 2)..(e - 1)
      BY <1>7, <2>1, <3>2, NotBehindOther
    <3> QED  BY <2>1, <3>1, <3>2
  <2> QED  BY <2>1, <2>2
<1>11. ~Taken(s, e)
  BY <1>4, <1>9
<1>12. May(s, e, FALSE)
  BY <1>10, <1>11 DEF May
<1>13. Right(s, e, f[<<e, FALSE>>])
  BY <1>4, <1>12 DEF Rests
<1>14. KeepsAll(s, i, e) /\ ~EndsIn(s, i, e)
  BY <1>8, <1>9 DEF KeepsAll, EndsIn
<1> QED  BY <1>4, <1>13, <1>14, PutIsRight

(* Any other character.                                                    *)
LEMMA CharacterIsRight ==
  ASSUME NEW s \in Seq(STRING), Delimited(s), NEW f, NEW i \in 4..Len(s), NEW c \in BOOLEAN,
         May(s, i, c), Rests(s, f, i), ~ (c /\ s[i] \in Spaces), s[i] # "\n",
         s[1] = "\"" => ~EndsLine(s, i) /\ s[i] # "\\", ~Triple(s, i, s[1])
  PROVE  Right(s, i, PutBefore(<<s[i]>>, f[<<i + 1, FALSE>>]))
<1>1. /\ i + 1 \in (i + 1)..(Len(s) + 10) /\ i \in Nat /\ Len(s) \in Nat /\ i \in 1..Len(s)
      /\ (i + 1) - 1 = i /\ i + 1 \in (i + 1)..(Len(s) + 1) /\ SubSeq(s, i, i) = <<s[i]>>
      /\ \A j \in i..((i + 1) - 1) : j = i
  BY PlaceHas
<1>2. s[1] = "\"" => ~Taken(s, i + 1) /\ ~Escaped(s, i + 1)
  <2>1. s[1] = "\"" => ~Escaped(s, i + 1)
    BY <1>1, NotBehindOther
  <2>2. s[1] = "\"" => ~Taken(s, i + 1)
    BY TakenNext DEF May
  <2> QED  BY <2>1, <2>2
<1>3. May(s, i + 1, FALSE)
  BY <1>2 DEF May
<1> DEFINE r == f[<<i + 1, FALSE>>]
<1>4. Right(s, i + 1, r)
  BY <1>1, <1>3 DEF Rests
<1>5. ~Dropped(s, i)
  BY <1>2, DroppedIs
<1>6. KeepsAll(s, i, i + 1) /\ ~EndsIn(s, i, i + 1)
  BY <1>1, <1>5 DEF KeepsAll, EndsIn, Closes
<1> HIDE DEF r
<1>7. Right(s, i, PutBefore(SubSeq(s, i, (i + 1) - 1), r))
  BY <1>1, <1>4, <1>6, PutIsRight
<1>8. SubSeq(s, i, (i + 1) - 1) = <<s[i]>>
  BY <1>1
<1> QED  BY <1>7, <1>8 DEF r

(* One step of parse_multiline_string.                                     *)
LEMMA RestStep ==
  ASSUME NEW s \in Seq(STRING), Delimited(s), NEW f, NEW i \in 4..(Len(s) + 10), NEW c \in BOOLEAN,
         May(s, i, c), Rests(s, f, i)
  PROVE  Right(s, i, RestAt(s, f, i, c))
<1>1. CASE i > Len(s)
  <2>1. RestAt(s, f, i, c) = Nowhere
    BY <1>1 DEF RestAt
  <2> QED  BY <2>1, NowhereIsRight
<1>2. CASE ~ (i > Len(s))
  <2>1. i \in 4..Len(s)
    <3>1. Len(s) \in Nat
      OBVIOUS
    <3> QED  BY <1>2, <3>1
  <2>2. CASE c /\ s[i] \in Spaces
    <3>1. RestAt(s, f, i, c) = f[<<i + 1, TRUE>>]
      BY <1>2, <2>2 DEF RestAt, Spaces
    <3>2. Right(s, i, f[<<i + 1, TRUE>>])
      BY <2>1, <2>2, ConsumedIsRight
    <3> QED  BY <3>1, <3>2
  <2>3. CASE ~ (c /\ s[i] \in Spaces) /\ s[i] = "\n"
    <3>1. RestAt(s, f, i, c) = PutBefore(IF IsFirstLine(s, i) THEN <<>> ELSE <<"\n">>, f[<<i + 1, FALSE>>])
      BY <1>2, <2>3 DEF RestAt, Spaces
    <3>2. ~c
      BY <2>3 DEF Spaces
    <3>3. Right(s, i, PutBefore(IF IsFirstLine(s, i) THEN <<>> ELSE <<"\n">>, f[<<i + 1, FALSE>>]))
      BY <2>1, <2>3, <3>2, LineEndIsRight
    <3> QED  BY <3>1, <3>3
  <2>4. CASE ~ (c /\ s[i] \in Spaces) /\ s[i] # "\n" /\ s[1] = "\"" /\ EndsLine(s, i)
    <3>1. RestAt(s, f, i, c) = f[<<i + 1, TRUE>>]
      BY <1>2, <2>4 DEF RestAt, Spaces
    <3>2. Right(s, i, f[<<i + 1, TRUE>>])
      BY <2>1, <2>4, BackslashIsRight
    <3> QED  BY <3>1, <3>2
  <2>5. CASE ~ (c /\ s[i] \in Spaces) /\ s[i] # "\n" /\ s[1] = "\"" /\ ~EndsLine(s, i) /\ s[i] = "\\"
    <3> DEFINE e == EndOfEscape(s, i)
    <3>1. RestAt(s, f, i, c) = IF e = 0 THEN Nowhere ELSE PutBefore(SubSeq(s, i, e - 1), f[<<e, FALSE>>])
      BY <1>2, <2>5 DEF RestAt, Spaces
    <3>2. e # 0 => Right(s, i, PutBefore(SubSeq(s, i, e - 1), f[<<e, FALSE>>]))
      <4>1. e = EndOfEscape(s, i)
        OBVIOUS
      <4> HIDE DEF e
      <4> QED  BY <2>1, <2>5, <4>1, EscapeIsRight
    <3> HIDE DEF e
    <3> QED  BY <3>1, <3>2, NowhereIsRight
  <2>6. CASE /\ ~ (c /\ s[i] \in Spaces) /\ s[i] # "\n" /\ (s[1] = "\"" => ~EndsLine(s, i) /\ s[i] # "\\")
             /\ Triple(s, i, s[1])
    <3>1. RestAt(s, f, i, c) = [value |-> <<>>, it |-> i + 3]
      BY <1>2, <2>6 DEF RestAt, Spaces
    <3>2. s[i] = s[1]
      BY <2>1, <2>6, PlaceHas, TripleHas
    <3>3. s[1] = "\"" => ~Escaped(s, i)
      <4>1. i <= Len(s)
        BY <2>1, PlaceHas
      <4>2. "\"" \notin Spaces \cup {"NUL"}
        BY DEF Spaces, Blank
      <4> QED  BY <3>2, <4>1, <4>2 DEF May
    <3>4. Closes(s, i)
      BY <2>6, <3>3 DEF Closes
    <3>5. Right(s, i, [value |-> <<>>, it |-> i + 3])
      BY <2>1, <3>4, EndIsRight
    <3> QED  BY <3>1, <3>5
  <2>7. CASE /\ ~ (c /\ s[i] \in Spaces) /\ s[i] # "\n" /\ (s[1] = "\"" => ~EndsLine(s, i) /\ s[i] # "\\")
             /\ ~Triple(s, i, s[1])
    <3>1. RestAt(s, f, i, c) = PutBefore(<<s[i]>>, f[<<i + 1, FALSE>>])
      BY <1>2, <2>7 DEF RestAt, Spaces
    <3>2. Right(s, i, PutBefore(<<s[i]>>, f[<<i + 1, FALSE>>]))
      BY <2>1, <2>7, CharacterIsRight
    <3> QED  BY <3>1, <3>2
  <2> QED  BY <2>2, <2>3, <2>4, <2>5, <2>6, <2>7
<1> QED  BY <1>1, <1>2

(* From the end of a text to its beginning.                                *)
LEMMA Backwards ==
  ASSUME NEW a \in Nat, NEW N \in Nat, NEW S,
         \A i \in a..N : (\A j \in (i + 1)..N : j \in S) => i \in S
  PROVE  \A i \in a..N : i \in S
<1> DEFINE T == {n \in Nat : \A i \in a..N : i + n >= N => i \in S}
<1>1. 0 \in T
  <2> SUFFICES ASSUME NEW i \in a..N, i + 0 >= N  PROVE i \in S
    OBVIOUS
  <2>1. \A j \in (i + 1)..N : FALSE
    OBVIOUS
  <2> QED  BY <2>1
<1>2. ASSUME NEW n \in Nat, n \in T  PROVE n + 1 \in T
  <2> SUFFICES ASSUME NEW i \in a..N, i + (n + 1) >= N  PROVE i \in S
    OBVIOUS
  <2>1. \A j \in (i + 1)..N : j \in a..N /\ j + n >= N
    OBVIOUS
  <2>2. \A j \in (i + 1)..N : j \in S
    BY <1>2, <2>1
  <2> QED  BY <2>2
<1> HIDE DEF T
<1>3. N \in T
  BY <1>1, <1>2, Induction
<1>4. \A i \in a..N : i + N >= N
  OBVIOUS
<1> QED  BY <1>3, <1>4 DEF T

(* The rest is right from every place.                                     *)
LEMMA RestIsRight ==
  ASSUME NEW s \in Seq(STRING), Delimited(s), NEW f, IsRest(s, f)
  PROVE  \A i \in 4..(Len(s) + 10), c \in BOOLEAN : May(s, i, c) => Right(s, i, f[<<i, c>>])
<1> DEFINE N == Len(s) + 10
           Holds(i) == \A c \in BOOLEAN : May(s, i, c) => Right(s, i, f[<<i, c>>])
           S == {i \in 4..N : Holds(i)}
<1>1. N \in Nat /\ 4 \in Nat
  OBVIOUS
<1>2. ASSUME NEW i \in 4..N, \A j \in (i + 1)..N : j \in S  PROVE i \in S
  <2>1. Rests(s, f, i)
    BY <1>2 DEF Rests
  <2>2. ASSUME NEW c \in BOOLEAN, May(s, i, c)  PROVE Right(s, i, f[<<i, c>>])
    <3>1. Right(s, i, RestAt(s, f, i, c))
      BY <2>1, <2>2, RestStep
    <3>2. f[<<i, c>>] = RestAt(s, f, i, c)
      BY DEF IsRest
    <3> QED  BY <3>1, <3>2
  <2>3. Holds(i)
    BY <2>2
  <2> HIDE DEF Holds
  <2> QED  BY <2>3
<1> DEFINE a == 4
<1> HIDE DEF S, a
<1>3. \A i \in a..N : (\A j \in (i + 1)..N : j \in S) => i \in S
  BY <1>2 DEF a
<1>4. a \in Nat /\ N \in Nat
  BY <1>1 DEF a
<1> HIDE DEF N
<1>5. \A i \in a..N : i \in S
  BY <1>3, <1>4, Backwards
<1> QED  BY <1>5 DEF S, N, a

(***************************************************************************)
(* What parse_multiline_string makes of any text.                          *)
(***************************************************************************)
LEMMA StartsThere ==
  ASSUME NEW s \in Seq(STRING), Triple(s, 1, s[1]), Delimited(s)
  PROVE  May(s, 4, FALSE) /\ Len(s) >= 3
<1>1. Len(s) >= 3 /\ s[3] = s[1]
  BY OpeningIs
<1>2. s[3] # "\\"
  BY <1>1, DelimitedIs
<1>3. ~Escaped(s, 3 + 1)
  <2> DEFINE i == 3
  <2>1. i \in Nat /\ s[i] # "\\"
    BY <1>2
  <2> HIDE DEF i
  <2>2. ~Escaped(s, i + 1)
    BY <2>1, NotBehindOther
  <2> QED  BY <2>2 DEF i
<1>4. ~Taken(s, 4)
  <2>1. \A k \in 4..(4 - 1) : FALSE
    OBVIOUS
  <2> QED  BY <2>1 DEF Taken
<1>5. 3 + 1 = 4
  OBVIOUS
<1>6. ~Escaped(s, 4)
  BY <1>3, <1>5
<1> QED  BY <1>1, <1>4, <1>6 DEF May

AsWritten(s, r) ==
  r.type # "error" =>
    \E end \in {r.it - 3} :
       /\ r.value = Kept(s, end - 1)
       /\ \A i \in 4..end : Closes(s, i) <=> i = end

(* What is right from the first place on is as it is written.              *)
LEMMA RightIsAsWritten ==
  ASSUME NEW s \in Seq(STRING), Len(s) >= 3, NEW r, Right(s, 4, r)
  PROVE  AsWritten(s, MultilineUntil(r))
<1> DEFINE q == MultilineUntil(r)
<1>1. CASE r.it = 0
  <2>1. q.type = "error"
    BY <1>1 DEF MultilineUntil, Error, Read
  <2> QED  BY <2>1 DEF AsWritten
<1>2. CASE r.it # 0
  <2>1. q.it = r.it /\ q.value = r.value
    BY <1>2 DEF MultilineUntil, Read
  <2>2. Kept(s, 3) = <<>>
    BY KeptIs
  <2>3. r.value \in Seq(STRING)
    BY DEF Right
  <2>4. <<>> \o r.value = r.value
    BY <2>3, ConcatEmptySeq
  <2>5. /\ Kept(s, r.it - 3 - 1) = Kept(s, 4 - 1) \o r.value
        /\ \A j \in 4..(r.it - 3) : Closes(s, j) <=> j = r.it - 3
    BY <1>2 DEF Right
  <2>6. 4 - 1 = 3
    OBVIOUS
  <2>7. q.value = Kept(s, r.it - 3 - 1)
    BY <2>1, <2>2, <2>4, <2>5, <2>6
  <2> HIDE DEF q
  <2>8. AsWritten(s, q)
    BY <2>1, <2>5, <2>7 DEF AsWritten
  <2> QED  BY <2>8 DEF q
<1> QED  BY <1>1, <1>2

(* parse_multiline_string reads every text as it is written.               *)
LEMMA MultilineIsRight ==
  ASSUME NEW s \in Seq(STRING), Triple(s, 1, s[1]), Delimited(s)
  PROVE  AsWritten(s, parse_multiline_string(s))
<1>1. May(s, 4, FALSE) /\ Len(s) >= 3
  BY StartsThere
<1>2. PICK f : parse_multiline_string(s) = MultilineUntil(f[<<4, FALSE>>]) /\ IsRest(s, f)
  BY MultilineIs
<1>3. 4 \in 4..(Len(s) + 10)
  BY <1>1
<1>4. Right(s, 4, f[<<4, FALSE>>])
  BY <1>1, <1>2, <1>3, RestIsRight
<1> QED  BY <1>1, <1>2, <1>4, RightIsAsWritten

-------------------------------------------------------------------------------
(* Numerals are natural numbers.                                           *)
LEMMA DigitsAreNumbers ==
  \A c \in Hex : digit_value[c] \in Nat
<1> DEFINE value(c) ==
             CASE c = "0" -> 0 [] c = "1" -> 1 [] c = "2" -> 2 [] c = "3" -> 3
               [] c = "4" -> 4 [] c = "5" -> 5 [] c = "6" -> 6 [] c = "7" -> 7
               [] c = "8" -> 8 [] c = "9" -> 9
               [] c \in {"a", "A"} -> 10 [] c \in {"b", "B"} -> 11
               [] c \in {"c", "C"} -> 12 [] c \in {"d", "D"} -> 13
               [] c \in {"e", "E"} -> 14 [] c \in {"f", "F"} -> 15
<1>1. digit_value = [c \in Hex |-> value(c)]
  BY DEF digit_value
<1>2. \A c \in Hex : value(c) \in Nat
  BY DEF Hex, Digit
<1> HIDE DEF value
<1> QED  BY <1>1, <1>2

(* What the first digits stand for.                                        *)
IsValue(s, base, v) ==
  /\ v \in [0..Len(s) -> Nat]
  /\ v[0] = 0 /\ \A i \in 1..Len(s) : v[i] = base * v[i - 1] + digit_value[s[i]]

LEMMA NumeralIs ==
  ASSUME NEW S, NEW s \in Seq(S), \A i \in 1..Len(s) : s[i] \in Hex, NEW base \in Nat
  PROVE  \E v : IsValue(s, base, v) /\ Numeral(s, base) = v[Len(s)]
<1> DEFINE N == Len(s)
           d(i) == IF i \in 1..N THEN digit_value[s[i]] ELSE 0
           step == [p \in Nat \X Nat |-> base * p[2] + d(p[1])]
           Is_(f) == f = [i \in 0..N |-> IF i = 0 THEN 0 ELSE base * f[i - 1] + digit_value[s[i]]]
           value == CHOOSE f : Is_(f)
<1>1. N \in Nat /\ 0 \in Nat
  OBVIOUS
<1>2. \A i \in Nat : d(i) \in Nat
  BY DigitsAreNumbers
<1>3. Steps(Nat, step)
  <2> HIDE DEF d
  <2>1. \A p \in Nat \X Nat : p[1] \in Nat /\ p[2] \in Nat
    OBVIOUS
  <2>2. \A i \in Nat, v \in Nat : base * v + d(i) \in Nat
    <3>1. \A v \in Nat, w \in Nat : base * v \in Nat /\ base * v + w \in Nat
      OBVIOUS
    <3> QED  BY <1>2, <3>1
  <2>3. \A p \in Nat \X Nat : base * p[2] + d(p[1]) \in Nat
    BY <2>1, <2>2
  <2> QED  BY <2>3 DEF Steps
<1>4. \A i \in Nat, v \in Nat : step[<<i, v>>] = base * v + d(i)
  <2> HIDE DEF d
  <2> QED  OBVIOUS
<1> HIDE DEF step, N, Is_, value
<1>5. PICK f \in [0..N -> Nat] : f[0] = 0 /\ \A i \in (0 + 1)..N : f[i] = step[<<i, f[i - 1]>>]
  <2> HIDE DEF d
  <2>1. HasRecursion(Nat, 0, N, 0, step)
    BY <1>1, <1>3, RecursionFrom
  <2> QED  BY <1>1, <2>1 DEF HasRecursion
<1>6. \A i \in 1..N : i - 1 \in 0..N /\ f[i] = base * f[i - 1] + digit_value[s[i]]
  <2> SUFFICES ASSUME NEW i \in 1..N
               PROVE  i - 1 \in 0..N /\ f[i] = base * f[i - 1] + digit_value[s[i]]
    OBVIOUS
  <2>1. i - 1 \in 0..N /\ i \in Nat /\ i \in (0 + 1)..N
    BY <1>1
  <2>2. f[i] = step[<<i, f[i - 1]>>] /\ f[i - 1] \in Nat
    BY <1>5, <2>1
  <2>3. f[i] = base * f[i - 1] + d(i)
    <3> HIDE DEF d
    <3> QED  BY <1>4, <2>1, <2>2
  <2> QED  BY <2>1, <2>3
<1>7. Is_(f)
  <2> DEFINE rhs == [i \in 0..N |-> IF i = 0 THEN 0 ELSE base * f[i - 1] + digit_value[s[i]]]
  <2>1. \A i \in 0..N : i # 0 => i \in 1..N
    BY <1>1
  <2>2. \A i \in 0..N : f[i] = rhs[i]
    BY <1>5, <1>6, <2>1
  <2>3. f = [i \in 0..N |-> f[i]]
    BY <1>5
  <2> HIDE DEF rhs
  <2>4. f = [i \in 0..N |-> rhs[i]]
    BY <2>2, <2>3
  <2> QED  BY <2>4 DEF rhs, Is_
<1>8. Is_(value)
  BY <1>7 DEF value
<1>9. value[0] = 0 /\ \A i \in 1..N : value[i] = base * value[i - 1] + digit_value[s[i]]
  <2>1. 0 \in 0..N /\ \A i \in 1..N : i \in 0..N /\ i # 0
    BY <1>1
  <2> QED  BY <1>8, <2>1 DEF Is_
<1>10. \A n \in 0..N : value[n] = f[n]
  <2> DEFINE T == {k \in Nat : k <= N => value[k] = f[k]}
  <2>1. 0 \in T
    BY <1>5, <1>9
  <2>2. ASSUME NEW k \in Nat, k \in T  PROVE k + 1 \in T
    <3> SUFFICES ASSUME k + 1 <= N  PROVE value[k + 1] = f[k + 1]
      OBVIOUS
    <3>1. k + 1 \in 1..N /\ (k + 1) - 1 = k /\ k <= N
      BY <1>1
    <3>2. value[k] = f[k]
      BY <2>2, <3>1
    <3> HIDE DEF T
    <3> QED  BY <1>6, <1>9, <3>1, <3>2
  <2> HIDE DEF T
  <2>3. Nat \subseteq T
    BY <2>1, <2>2, Induction
  <2>4. \A n \in 0..N : n \in Nat /\ n <= N
    BY <1>1
  <2> QED  BY <2>3, <2>4 DEF T
<1>11. Numeral(s, base) = value[N]
  BY DEF Numeral, value, N, Is_
<1>12. IsValue(s, base, f)
  BY <1>5, <1>6 DEF IsValue, N
<1>13. N \in 0..N
  BY <1>1
<1> QED  BY <1>10, <1>11, <1>12, <1>13 DEF N

(* That is a natural number.                                               *)
LEMMA NumeralIsNat ==
  ASSUME NEW s \in Seq(STRING), \A i \in 1..Len(s) : s[i] \in Hex, NEW base \in Nat
  PROVE  Numeral(s, base) \in Nat
<1>1. PICK v : IsValue(s, base, v) /\ Numeral(s, base) = v[Len(s)]
  BY NumeralIs
<1>2. Len(s) \in 0..Len(s)
  OBVIOUS
<1> QED  BY <1>1, <1>2 DEF IsValue

(* An escape that is accepted has a Unicode scalar value.                  *)
LEMMA CodepointIs ==
  ASSUME NEW s \in Seq(STRING), NEW i \in 1..Len(s), NEW n \in {4, 8}, EndOfUnicode(s, i, n) # 0
  PROVE  parse_hex(s, i, n) \in Nat /\ parse_hex(s, i, n) <= 1114111
<1>1. /\ IsScalarValue(parse_hex(s, i, n))
      /\ i + n <= Len(s) + 1 /\ \A k \in i..(i + n - 1) : s[k] \in Hex
  <2>1. i \in Nat \ {0}
    OBVIOUS
  <2> QED  BY <2>1, UnicodeIs DEF EndOfUnicode
<1> DEFINE t == SubSeq(s, i, i + n - 1)
<1>2. Len(s) \in Nat /\ i \in Nat /\ n \in Nat
  OBVIOUS
<1>3. t \in Seq(STRING) /\ Len(t) = n /\ \A k \in 1..n : t[k] = s[i + k - 1]
  <2>1. \A k \in i..(i + n - 1) : s[k] \in STRING
    BY <1>1, <1>2
  <2>2. i \in Int /\ i + n - 1 \in Int /\ (i + n - 1) - i + 1 = n /\ i <= i + n - 1
    BY <1>2
  <2>3. Len(t) = (i + n - 1) - i + 1 /\ t \in Seq(STRING)
        /\ \A k \in 1..((i + n - 1) - i + 1) : t[k] = s[i + k - 1]
    BY <2>1, <2>2, SubSeqProperties
  <2> QED  BY <2>2, <2>3
<1> HIDE DEF t
<1>4. \A k \in 1..Len(t) : t[k] \in Hex
  <2>1. \A k \in 1..n : i + k - 1 \in i..(i + n - 1)
    BY <1>2
  <2> QED  BY <1>1, <1>3, <2>1
<1>5. Numeral(t, 16) \in Nat
  BY <1>3, <1>4, NumeralIsNat
<1>6. parse_hex(s, i, n) \in Nat
  BY <1>5, SMT DEF parse_hex, t
<1>7. parse_hex(s, i, n) <= 1114111
  BY <1>1, SMT DEF IsScalarValue
<1> QED  BY <1>6, <1>7, SMT

(* The bytes of a code point, read from the first one on.                  *)
Lead(n) == <<0, 192, 224, 240>>[n]

(* What bytes stand for, byte by byte.                                     *)
LEMMA DecodedIs ==
  ASSUME NEW b \in Seq(Int), Len(b) \in 1..4
  PROVE  \E f : /\ Decoded(b) = f[Len(b)] /\ f[1] = b[1] - Lead(Len(b))
                /\ \A i \in 2..Len(b) : f[i] = 64 * f[i - 1] + (b[i] - 128)
<1> DEFINE N == Len(b)
           lead == Lead(N)
           d(i) == IF i \in 1..N THEN b[i] - 128 ELSE 0
           step == [p \in Nat \X Int |-> 64 * p[2] + d(p[1])]
           Is_(f) == f = [i \in 1..N |-> IF i = 1 THEN b[1] - lead ELSE 64 * f[i - 1] + (b[i] - 128)]
           number == CHOOSE f : Is_(f)
<1>1. N \in 1..4 /\ N \in Nat /\ 1 \in Nat /\ 1 <= N /\ \A i \in 1..N : b[i] \in Int
  <2>1. \A i \in 1..N : b[i] \in Int
    <3> HIDE DEF step, Is_, number, d, lead
    <3> QED  OBVIOUS
  <2>2. N \in 1..4
    OBVIOUS
  <2> HIDE DEF N, step, Is_, number, d, lead
  <2>3. N \in Nat /\ 1 \in Nat /\ 1 <= N
    BY <2>2
  <2> QED  BY <2>1, <2>2, <2>3
<1>2. \A i \in Nat : d(i) \in Int
  <2> HIDE DEF N, step, Is_, number, lead
  <2>1. \A i \in 1..N : b[i] - 128 \in Int
    BY <1>1
  <2> QED  BY <2>1
<1>3. Steps(Int, step)
  <2> HIDE DEF d
  <2>1. \A p \in Nat \X Int : p[1] \in Nat /\ p[2] \in Int
    OBVIOUS
  <2>2. \A p \in Nat \X Int : 64 * p[2] + d(p[1]) \in Int
    BY <1>2, <2>1
  <2> QED  BY <2>2 DEF Steps
<1>4. \A i \in Nat, v \in Int : step[<<i, v>>] = 64 * v + d(i)
  <2> HIDE DEF d
  <2> QED  OBVIOUS
<1>5. b[1] - lead \in Int
  <2>1. lead \in Int
    <3> HIDE DEF N
    <3>1. N = 1 \/ N = 2 \/ N = 3 \/ N = 4
      BY <1>1
    <3> QED  BY <3>1 DEF Lead
  <2> HIDE DEF lead
  <2> QED  BY <1>1, <2>1
<1> DEFINE base == b[1] - lead
<1> HIDE DEF step, N, Is_, number, base, lead
<1>6. PICK f \in [1..N -> Int] : f[1] = base /\ \A i \in (1 + 1)..N : f[i] = step[<<i, f[i - 1]>>]
  <2> HIDE DEF d
  <2>1. HasRecursion(Int, 1, N, base, step)
    BY <1>1, <1>3, <1>5, RecursionFrom DEF base
  <2> QED  BY <1>1, <2>1 DEF HasRecursion
<1>7. \A i \in 2..N : f[i] = 64 * f[i - 1] + (b[i] - 128)
  <2> SUFFICES ASSUME NEW i \in 2..N  PROVE f[i] = 64 * f[i - 1] + (b[i] - 128)
    OBVIOUS
  <2>1. i - 1 \in 1..N /\ i \in Nat /\ i \in (1 + 1)..N /\ i \in 1..N
    BY <1>1
  <2>2. f[i] = step[<<i, f[i - 1]>>] /\ f[i - 1] \in Int
    BY <1>6, <2>1
  <2>3. f[i] = 64 * f[i - 1] + d(i)
    <3> HIDE DEF d
    <3> QED  BY <1>4, <2>1, <2>2
  <2> QED  BY <2>1, <2>3
<1>8. Is_(f)
  <2> DEFINE rhs == [i \in 1..N |-> IF i = 1 THEN b[1] - lead ELSE 64 * f[i - 1] + (b[i] - 128)]
  <2>1. \A i \in 1..N : i # 1 => i \in 2..N
    BY <1>1
  <2>2. \A i \in 1..N : f[i] = rhs[i]
    BY <1>6, <1>7, <2>1 DEF base
  <2>3. f = [i \in 1..N |-> f[i]]
    BY <1>6
  <2> HIDE DEF rhs
  <2>4. f = [i \in 1..N |-> rhs[i]]
    BY <2>2, <2>3
  <2> QED  BY <2>4 DEF rhs, Is_
<1>9. Is_(number)
  BY <1>8 DEF number
<1>10. number[1] = b[1] - lead /\ \A i \in 2..N : number[i] = 64 * number[i - 1] + (b[i] - 128)
  <2>1. 1 \in 1..N /\ \A i \in 2..N : i \in 1..N /\ i # 1
    BY <1>1
  <2> QED  BY <1>9, <2>1 DEF Is_
<1>11. Decoded(b) = number[N]
  BY DEF Decoded, number, N, Is_, lead, Lead
<1> QED  BY <1>10, <1>11 DEF N, lead

(* The bytes of every scalar value, in each of the four lengths.           *)
LEMMA TrailIs ==
  ASSUME NEW c \in Nat, NEW n \in Nat \ {0}
  PROVE  Trail(c, n) \in 128..191 /\ Trail(c, n) - 128 = (c \div n) % 64
<1> DEFINE q == c \div n
<1>1. q \in Nat
  BY SMT
<1> HIDE DEF q
<1>2. q % 64 \in 0..63
  BY <1>1
<1>3. Trail(c, n) = 128 + (q % 64)
  BY DEF Trail, q
<1>4. Trail(c, n) - 128 = q % 64
  BY <1>2, <1>3
<1> QED  BY <1>2, <1>3, <1>4 DEF q

(* A code point of at most seven bits.                                     *)
LEMMA OneByte ==
  ASSUME NEW c \in Nat, c <= 127
  PROVE  InUtf8(c, <<c>>)
<1> DEFINE b == <<c>>
<1>1. b \in Seq(Int) /\ Len(b) = 1 /\ b[1] = c
  OBVIOUS
<1> HIDE DEF b
<1>2. PICK f : Decoded(b) = f[Len(b)] /\ f[1] = b[1] - Lead(Len(b))
  BY <1>1, DecodedIs
<1>3. Lead(1) = 0
  BY DEF Lead
<1>4. Decoded(b) = c
  BY <1>1, <1>2, <1>3
<1>5. b[1] \in <<0..127, 194..223, 224..239, 240..244>>[Len(b)]
  BY <1>1
<1>6. InUtf8(c, b)
  BY <1>1, <1>4, <1>5 DEF InUtf8
<1> QED  BY <1>6 DEF b

(* The arithmetic of shifts by six bits.                                   *)
LEMMA SixBits ==
  ASSUME NEW c \in Nat
  PROVE  c \div 64 \in Nat /\ c % 64 \in 0..63 /\ c = 64 * (c \div 64) + (c % 64)
OBVIOUS

(* Shifts by more bits are shifts by six bits.                             *)
LEMMA Shifted ==
  ASSUME NEW c \in Nat
  PROVE  /\ c \div 1 = c
         /\ c \div 4096 = (c \div 64) \div 64
         /\ c \div 262144 = ((c \div 64) \div 64) \div 64
<1>1. c \div 1 = c
  BY SMT
<1>2. c \div 4096 = (c \div 64) \div 64
  BY SMT
<1>3. c \div 262144 = ((c \div 64) \div 64) \div 64
  BY SMT
<1> QED  BY <1>1, <1>2, <1>3, SMT

(* What two, three and four bytes stand for.                               *)
LEMMA DecodedInTwo ==
  ASSUME NEW x \in Int, NEW y \in Int
  PROVE  Decoded(<<x, y>>) = 64 * (x - 192) + (y - 128)
<1> DEFINE b == <<x, y>>
<1>1. b \in Seq(Int) /\ Len(b) = 2 /\ b[1] = x /\ b[2] = y
  OBVIOUS
<1> HIDE DEF b
<1>2. Len(b) \in 1..4
  BY <1>1
<1>3. PICK f : /\ Decoded(b) = f[Len(b)] /\ f[1] = b[1] - Lead(Len(b))
               /\ \A i \in 2..Len(b) : f[i] = 64 * f[i - 1] + (b[i] - 128)
  BY <1>1, <1>2, DecodedIs
<1>4. Lead(2) = 192
  BY DEF Lead
<1>5. f[1] = x - 192
  BY <1>1, <1>3, <1>4
<1>6. f[2] = 64 * f[1] + (y - 128)
  BY <1>1, <1>3
<1>7. Decoded(b) = 64 * (x - 192) + (y - 128)
  BY <1>1, <1>3, <1>5, <1>6
<1> QED  BY <1>7 DEF b

(* Three bytes.                                                            *)
LEMMA DecodedInThree ==
  ASSUME NEW x \in Int, NEW y \in Int, NEW z \in Int
  PROVE  Decoded(<<x, y, z>>) = 64 * (64 * (x - 224) + (y - 128)) + (z - 128)
<1> DEFINE b == <<x, y, z>>
<1>1. b \in Seq(Int) /\ Len(b) = 3 /\ b[1] = x /\ b[2] = y /\ b[3] = z
  OBVIOUS
<1> HIDE DEF b
<1>2. Len(b) \in 1..4
  BY <1>1
<1>3. PICK f : /\ Decoded(b) = f[Len(b)] /\ f[1] = b[1] - Lead(Len(b))
               /\ \A i \in 2..Len(b) : f[i] = 64 * f[i - 1] + (b[i] - 128)
  BY <1>1, <1>2, DecodedIs
<1>4. Lead(3) = 224
  BY DEF Lead
<1>5. f[1] = x - 224
  BY <1>1, <1>3, <1>4
<1>6. f[2] = 64 * f[1] + (y - 128)
  BY <1>1, <1>3
<1>7. f[3] = 64 * f[2] + (z - 128)
  BY <1>1, <1>3
<1>8. Decoded(b) = 64 * (64 * (x - 224) + (y - 128)) + (z - 128)
  BY <1>1, <1>3, <1>5, <1>6, <1>7
<1> QED  BY <1>8 DEF b

(* Four bytes.                                                             *)
LEMMA DecodedInFour ==
  ASSUME NEW w \in Int, NEW x \in Int, NEW y \in Int, NEW z \in Int
  PROVE  Decoded(<<w, x, y, z>>) = 64 * (64 * (64 * (w - 240) + (x - 128)) + (y - 128)) + (z - 128)
<1> DEFINE b == <<w, x, y, z>>
<1>1. b \in Seq(Int) /\ Len(b) = 4 /\ b[1] = w /\ b[2] = x /\ b[3] = y /\ b[4] = z
  OBVIOUS
<1> HIDE DEF b
<1>2. Len(b) \in 1..4
  BY <1>1
<1>3. PICK f : /\ Decoded(b) = f[Len(b)] /\ f[1] = b[1] - Lead(Len(b))
               /\ \A i \in 2..Len(b) : f[i] = 64 * f[i - 1] + (b[i] - 128)
  BY <1>1, <1>2, DecodedIs
<1>4. Lead(4) = 240
  BY DEF Lead
<1>5. f[1] = w - 240
  BY <1>1, <1>3, <1>4
<1>6. f[2] = 64 * f[1] + (x - 128)
  BY <1>1, <1>3
<1>7. f[3] = 64 * f[2] + (y - 128)
  BY <1>1, <1>3
<1>8. f[4] = 64 * f[3] + (z - 128)
  BY <1>1, <1>3
<1>9. Decoded(b) = 64 * (64 * (64 * (w - 240) + (x - 128)) + (y - 128)) + (z - 128)
  BY <1>1, <1>3, <1>5, <1>6, <1>7, <1>8
<1> QED  BY <1>9 DEF b

(* The bytes behind the first one have six bits each.                      *)
LEMMA Trails ==
  ASSUME NEW c \in Nat
  PROVE  /\ Trail(c, 1) \in 128..191 /\ Trail(c, 1) - 128 = c % 64
         /\ Trail(c, 64) \in 128..191 /\ Trail(c, 64) - 128 = (c \div 64) % 64
         /\ Trail(c, 4096) \in 128..191 /\ Trail(c, 4096) - 128 = ((c \div 64) \div 64) % 64
<1> DEFINE At_(n) == Trail(c, n) \in 128..191 /\ Trail(c, n) - 128 = (c \div n) % 64
<1>1. \A n \in Nat \ {0} : At_(n)
  BY TrailIs
<1> HIDE DEF At_
<1>2. At_(1) /\ At_(64) /\ At_(4096)
  BY <1>1, SMT
<1>3. c \div 1 = c /\ c \div 4096 = (c \div 64) \div 64
  BY Shifted, SMT
<1> QED  BY <1>2, <1>3, SMT DEF At_

(* Up to eleven bits.                                                      *)
LEMMA TwoBytes ==
  ASSUME NEW c \in Nat, 128 <= c, c <= 2047
  PROVE  InUtf8(c, <<192 + ((c \div 64) % 32), Trail(c, 1)>>)
<1> DEFINE q == c \div 64
           r == c % 64
           v == Trail(c, 1)
           b == <<192 + (q % 32), v>>
<1>1. q \in Nat /\ r \in 0..63 /\ c = 64 * q + r
  BY SixBits, SMT
<1>2. v \in 128..191 /\ v - 128 = r
  BY Trails, SMT
<1> HIDE DEF q, r, v
<1>3. q \in 2..31 /\ q % 32 = q /\ 192 + q \in 194..223 /\ v \in Int
  BY <1>1, <1>2, SMT
<1>4. Decoded(<<192 + q, v>>) = c
  <2>1. Decoded(<<192 + q, v>>) = 64 * ((192 + q) - 192) + (v - 128)
    BY <1>3, DecodedInTwo, SMT
  <2> QED  BY <1>1, <1>2, <1>3, <2>1, SMT
<1>5. InUtf8(c, <<192 + q, v>>)
  BY <1>2, <1>3, <1>4, SMT DEF InUtf8
<1>6. b = <<192 + q, v>>
  BY <1>3, SMT
<1> HIDE DEF b
<1>7. InUtf8(c, b)
  BY <1>5, <1>6, SMT
<1> QED  BY <1>7, SMT DEF b, q, v

(* Up to sixteen bits.                                                     *)
LEMMA ThreeBytes ==
  ASSUME NEW c \in Nat, 2048 <= c, c <= 65535
  PROVE  InUtf8(c, <<224 + ((c \div 4096) % 16), Trail(c, 64), Trail(c, 1)>>)
<1> DEFINE p == c \div 64
           r == c % 64
           q == p \div 64
           m == p % 64
           u == Trail(c, 64)
           v == Trail(c, 1)
           b == <<224 + ((c \div 4096) % 16), u, v>>
<1>1. p \in Nat /\ r \in 0..63 /\ c = 64 * p + r
  BY SixBits, SMT
<1>2. q \in Nat /\ m \in 0..63 /\ p = 64 * q + m
  BY <1>1, SixBits, SMT
<1>3. v \in 128..191 /\ v - 128 = r
  BY Trails, SMT
<1>4. u \in 128..191 /\ u - 128 = m
  BY Trails, SMT
<1>5. c \div 4096 = q
  BY Shifted, SMT
<1> HIDE DEF p, q, r, m, u, v
<1>6. q \in 0..15
  BY <1>1, <1>2, SMT
<1>7. q % 16 = q /\ 224 + q \in 224..239 /\ u \in Int /\ v \in Int
  BY <1>3, <1>4, <1>6, SMT
<1>8. Decoded(<<224 + q, u, v>>) = c
  <2> DEFINE w == 224 + q
  <2>1. w \in Int /\ w - 224 = q
    BY <1>6, SMT
  <2> HIDE DEF w
  <2>2. Decoded(<<w, u, v>>) = 64 * (64 * (w - 224) + (u - 128)) + (v - 128)
    BY <1>7, <2>1, DecodedInThree, SMT
  <2>3. Decoded(<<w, u, v>>) = c
    BY <1>1, <1>2, <1>3, <1>4, <1>6, <2>1, <2>2, SMT
  <2> QED  BY <2>3, SMT DEF w
<1>9. InUtf8(c, <<224 + q, u, v>>)
  BY <1>3, <1>4, <1>7, <1>8, SMT DEF InUtf8
<1>10. b = <<224 + q, u, v>>
  BY <1>5, <1>7, SMT
<1> HIDE DEF b
<1>11. InUtf8(c, b)
  BY <1>9, <1>10, SMT
<1> QED  BY <1>11, SMT DEF b, u, v

(* All others of Unicode.                                                  *)
LEMMA FourBytes ==
  ASSUME NEW c \in Nat, 65536 <= c, c <= 1114111
  PROVE  InUtf8(c, <<240 + ((c \div 262144) % 8), Trail(c, 4096), Trail(c, 64), Trail(c, 1)>>)
<1> DEFINE p == c \div 64
           r == c % 64
           o == p \div 64
           m == p % 64
           q == o \div 64
           n == o % 64
           t == Trail(c, 4096)
           u == Trail(c, 64)
           v == Trail(c, 1)
           b == <<240 + ((c \div 262144) % 8), t, u, v>>
<1>1. p \in Nat /\ r \in 0..63 /\ c = 64 * p + r
  BY SixBits, SMT
<1>2. o \in Nat /\ m \in 0..63 /\ p = 64 * o + m
  BY <1>1, SixBits, SMT
<1>3. q \in Nat /\ n \in 0..63 /\ o = 64 * q + n
  BY <1>2, SixBits, SMT
<1>4. v \in 128..191 /\ v - 128 = r
  BY Trails, SMT
<1>5. u \in 128..191 /\ u - 128 = m
  BY Trails, SMT
<1>6. t \in 128..191 /\ t - 128 = n
  BY Trails, SMT
<1>7. c \div 262144 = q
  BY Shifted, SMT
<1> HIDE DEF p, q, r, m, n, o, t, u, v
<1>8. q \in 0..4
  BY <1>1, <1>2, <1>3, SMT
<1>9. q % 8 = q /\ 240 + q \in 240..244 /\ t \in Int /\ u \in Int /\ v \in Int
  BY <1>4, <1>5, <1>6, <1>8, SMT
<1>10. Decoded(<<240 + q, t, u, v>>) = c
  <2> DEFINE w == 240 + q
  <2>1. w \in Int /\ w - 240 = q
    BY <1>8, SMT
  <2> HIDE DEF w
  <2>2. Decoded(<<w, t, u, v>>) = 64 * (64 * (64 * (w - 240) + (t - 128)) + (u - 128)) + (v - 128)
    BY <1>9, <2>1, DecodedInFour, SMT
  <2>3. Decoded(<<w, t, u, v>>) = c
    BY <1>1, <1>2, <1>3, <1>4, <1>5, <1>6, <1>8, <2>1, <2>2, SMT
  <2> QED  BY <2>3, SMT DEF w
<1>11. InUtf8(c, <<240 + q, t, u, v>>)
  BY <1>4, <1>5, <1>6, <1>9, <1>10, SMT DEF InUtf8
<1>12. b = <<240 + q, t, u, v>>
  BY <1>7, <1>9, SMT
<1> HIDE DEF b
<1>13. InUtf8(c, b)
  BY <1>11, <1>12, SMT
<1> QED  BY <1>13, SMT DEF b, t, u, v

(* utf8 writes the shortest form of every code point of Unicode.           *)
LEMMA Utf8Is ==
  ASSUME NEW c \in Nat, c <= 1114111
  PROVE  InUtf8(c, utf8(c))
<1> DEFINE one == <<c>>
           two == <<192 + ((c \div 64) % 32), Trail(c, 1)>>
           three == <<224 + ((c \div 4096) % 16), Trail(c, 64), Trail(c, 1)>>
           four == <<240 + ((c \div 262144) % 8), Trail(c, 4096), Trail(c, 64), Trail(c, 1)>>
<1>1. utf8(c) = CASE c <= 127 -> one [] c >= 128 /\ c <= 2047 -> two
                  [] c >= 2048 /\ c <= 65535 -> three [] OTHER -> four
  BY SMT DEF utf8
<1>2. c <= 127 => InUtf8(c, one)
  BY OneByte, SMT
<1>3. 128 <= c /\ c <= 2047 => InUtf8(c, two)
  BY TwoBytes, SMT
<1>4. 2048 <= c /\ c <= 65535 => InUtf8(c, three)
  BY ThreeBytes, SMT
<1>5. 65536 <= c => InUtf8(c, four)
  BY FourBytes, SMT
<1> HIDE DEF one, two, three, four
<1>6. CASE c <= 127
  <2>1. utf8(c) = one
    BY <1>1, <1>6, SMT
  <2> QED  BY <1>2, <1>6, <2>1, SMT
<1>7. CASE c >= 128 /\ c <= 2047
  <2>1. utf8(c) = two
    BY <1>1, <1>7, SMT
  <2> QED  BY <1>3, <1>7, <2>1, SMT
<1>8. CASE c >= 2048 /\ c <= 65535
  <2>1. utf8(c) = three
    BY <1>1, <1>8, SMT
  <2> QED  BY <1>4, <1>8, <2>1, SMT
<1>9. CASE c >= 65536
  <2>1. utf8(c) = four
    BY <1>1, <1>9, SMT
  <2> QED  BY <1>5, <1>9, <2>1, SMT
<1> QED  BY <1>6, <1>7, <1>8, <1>9, SMT

(* Every escape in the text at hand.                                       *)
LEMMA EscapesAreWrittenOut ==
  ASSUME text \in Seq(STRING)
  PROVE  EscapesAreUtf8
<1> SUFFICES ASSUME NEW i \in 1..Len(text), NEW n \in {4, 8}, EndOfUnicode(text, i, n) # 0
             PROVE  InUtf8(parse_hex(text, i, n), utf8(parse_hex(text, i, n)))
  BY DEF EscapesAreUtf8
<1> QED  BY CodepointIs, Utf8Is, SMT

(* Strings over several lines, in the text at hand.                        *)
LEMMA MultilineIsAsWritten ==
  ASSUME text \in Seq(STRING)
  PROVE  MultilineAsWritten
<1> SUFFICES ASSUME IsTripled  PROVE MultilineAsWritten
  BY DEF MultilineAsWritten
<1>1. At(text, 1) = text[1] /\ Delimited(text)
  BY Zenon DEF IsTripled, At, Delimited
<1>2. Triple(text, 1, text[1])
  BY <1>1 DEF IsTripled
<1>3. AsWritten(text, parse_multiline_string(text))
  BY <1>1, <1>2, MultilineIsRight
<1> QED  BY <1>3 DEF MultilineAsWritten, AsWritten, Closes

(* The texts are sequences of strings, and edits write strings.            *)
TextsAreStrings == text \in Seq(STRING) /\ alphabet \subseteq STRING

(* An edit that inserts.                                                   *)
LEMMA WrittenBetween ==
  ASSUME NEW S, NEW b \in Seq(S), NEW a \in Seq(S), NEW c \in S
  PROVE  b \o <<c>> \o a \in Seq(S)
<1>1. <<c>> \in Seq(S)
  OBVIOUS
<1>2. b \o <<c>> \in Seq(S)
  BY <1>1
<1> DEFINE t == b \o <<c>>
<1> HIDE DEF t
<1>3. t \o a \in Seq(S)
  BY <1>2 DEF t
<1> QED  BY <1>3 DEF t

(* Edits keep that.                                                        *)
LEMMA EditKeepsStrings ==
  ASSUME TextsAreStrings, Edit
  PROVE  TextsAreStrings'
<1>1. text \in Seq(STRING) /\ alphabet \subseteq STRING /\ alphabet' = alphabet
  BY DEF TextsAreStrings, Edit
<1>2. CASE \E i \in 1..(Len(text) + 1), c \in alphabet : text' = Before(text, i) \o <<c>> \o From(text, i)
  <2>1. PICK i \in 1..(Len(text) + 1), c \in alphabet : text' = Before(text, i) \o <<c>> \o From(text, i)
    BY <1>2
  <2>2. c \in STRING
    BY <1>1
  <2>3. Before(text, i) \in Seq(STRING)
    BY <1>1 DEF Before
  <2>4. From(text, i) \in Seq(STRING)
    BY <1>1 DEF From
  <2>5. text' \in Seq(STRING)
    BY <2>1, <2>2, <2>3, <2>4, WrittenBetween
  <2> QED  BY <1>1, <2>5 DEF TextsAreStrings
<1>3. CASE \E i \in 1..Len(text), c \in alphabet : text' = [text EXCEPT ![i] = c]
  <2>1. PICK i \in 1..Len(text), c \in alphabet : text' = [text EXCEPT ![i] = c]
    BY <1>3
  <2>2. c \in STRING
    BY <1>1
  <2>3. [text EXCEPT ![i] = c] \in Seq(STRING)
    BY <1>1, <2>2, ExceptSeq
  <2>4. text' \in Seq(STRING)
    BY <2>1, <2>3
  <2> QED  BY <1>1, <2>4 DEF TextsAreStrings
<1>4. CASE \E i \in 1..Len(text) : text' = RemoveAt(text, i)
  <2>1. PICK i \in 1..Len(text) : text' = RemoveAt(text, i)
    BY <1>4
  <2>2. i \in DOMAIN text
    BY <1>1
  <2>3. text' \in Seq(STRING)
    BY <1>1, <2>1, <2>2, RemoveAtIs
  <2> QED  BY <1>1, <2>3 DEF TextsAreStrings
<1> QED  BY <1>2, <1>3, <1>4 DEF Edit

(* So the text is a sequence of strings throughout.                        *)
LEMMA StringsStay == Spec => []TextsAreStrings
<1>1. Init => TextsAreStrings
  BY InputsAssumption DEF Init, TextsAreStrings
<1>2. TextsAreStrings /\ [Edit]_<<reader, text, alphabet, edits>> => TextsAreStrings'
  <2>1. ASSUME TextsAreStrings, UNCHANGED <<reader, text, alphabet, edits>>
        PROVE  TextsAreStrings'
    BY <2>1 DEF TextsAreStrings
  <2> QED  BY <2>1, EditKeepsStrings
<1> QED  BY <1>1, <1>2, PTL DEF Spec

(***************************************************************************)
(* The value of a string over several lines is what stands between its     *)
(* delimiters, and ends at the first that are not escaped; an escape in a  *)
(* string is written out in UTF-8, in the shortest form: for every text,   *)
(* and whatever edits make of it.                                          *)
(***************************************************************************)
THEOREM StringsCorrect == Spec => []StringsAreAsWritten
<1>1. TextsAreStrings => StringsAreAsWritten
  BY EscapesAreWrittenOut, MultilineIsAsWritten DEF TextsAreStrings, StringsAreAsWritten
<1> QED  BY <1>1, StringsStay, PTL

-------------------------------------------------------------------------------
(***************************************************************************)
(* A function that is defined by recursion on arguments of a lower rank:   *)
(* next makes of a function the one whose values it defines.               *)
(***************************************************************************)
Lowers(S, D, rank, next) ==
  /\ next \in [[S -> D] -> [S -> D]]
  /\ \A f, g \in [S -> D], x \in S :
        (\A y \in S : rank[y] < rank[x] => f[y] = g[y]) => next[f][x] = next[g][x]

LEMMA RecursionDown ==
  ASSUME NEW S, NEW D, NEW d \in D, NEW n \in Nat, NEW rank \in [S -> 0..n], NEW next,
         Lowers(S, D, rank, next)
  PROVE  \E f \in [S -> D] : f = next[f]
<1> DEFINE E == [S -> D]
           start == [x \in S |-> d]
<1>1. start \in E
  OBVIOUS
<1>2. next \in [E -> E]
  BY DEF Lowers
<1>3. \A x \in S : rank[x] \in Nat /\ rank[x] <= n
  OBVIOUS
<1>4. \A f, g \in E, x \in S : (\A y \in S : rank[y] < rank[x] => f[y] = g[y]) => next[f][x] = next[g][x]
  BY DEF Lowers
<1> HIDE DEF E, start
<1>5. PICK g \in [Nat -> E] : g[0] = start /\ \A k \in Nat \ {0} : g[k] = next[g[k - 1]]
  BY <1>1, <1>2, RecursionExists
<1>6. \A k \in Nat : g[k] \in E /\ g[k + 1] = next[g[k]]
  <2>1. \A k \in Nat : k + 1 \in Nat \ {0} /\ (k + 1) - 1 = k
    OBVIOUS
  <2> QED  BY <1>5, <2>1
<1> DEFINE Same(k) == \A x \in S : rank[x] < k => g[k + 1][x] = g[k][x]
           T == {k \in Nat : Same(k)}
<1>7. 0 \in T
  BY <1>3
<1>8. ASSUME NEW k \in Nat, k \in T  PROVE k + 1 \in T
  <2>1. ASSUME NEW x \in S, rank[x] < k + 1  PROVE g[(k + 1) + 1][x] = g[k + 1][x]
    <3>1. ASSUME NEW y \in S, rank[y] < rank[x]  PROVE g[k + 1][y] = g[k][y]
      <4>1. rank[y] < k
        BY <1>3, <2>1, <3>1
      <4> QED  BY <1>8, <4>1
    <3>2. k + 1 \in Nat
      OBVIOUS
    <3>3. /\ g[k] \in E /\ g[k + 1] \in E /\ g[k + 1] = next[g[k]] /\ g[(k + 1) + 1] = next[g[k + 1]]
      BY <1>6, <3>2
    <3> QED  BY <1>4, <3>1, <3>3
  <2> QED  BY <2>1
<1> HIDE DEF T
<1>9. n + 1 \in T
  <2>1. n + 1 \in Nat
    OBVIOUS
  <2> QED  BY <1>7, <1>8, <2>1, Induction
<1> DEFINE f == g[n + 1]
<1>10. n + 1 \in Nat /\ f \in E /\ next[f] \in E /\ g[(n + 1) + 1] = next[f]
  BY <1>2, <1>6
<1>11. \A x \in S : next[f][x] = f[x]
  <2>1. Same(n + 1)
    BY <1>9 DEF T
  <2>2. \A x \in S : rank[x] < n + 1
    BY <1>3
  <2> QED  BY <1>10, <2>1, <2>2
<1>12. f = next[f]
  <2> HIDE DEF f
  <2> QED  BY <1>10, <1>11 DEF E
<1> QED  BY <1>10, <1>12 DEF E

-------------------------------------------------------------------------------
(***************************************************************************)
(* What lines are made of: STRING, and the literals of which the provers   *)
(* do not know that they are in it.                                        *)
(***************************************************************************)
Signs == {":", "/", " ", "-", "+", ".", "[", "]", "%", "^", "$", "AM", "PM", "colour", "reset"}

Words_ == Range(days) \cup Range(full_days) \cup Range(months) \cup Range(full_months)

Symbols == STRING \cup Digit \cup Flags \cup Signs \cup Words_

LEMMA StringsAreSymbols ==
  ASSUME NEW s \in Seq(STRING)
  PROVE  s \in Seq(Symbols)
<1>1. Len(s) \in Nat /\ s = [i \in 1..Len(s) |-> s[i]] /\ \A i \in 1..Len(s) : s[i] \in STRING
  OBVIOUS
<1>2. \A i \in 1..Len(s) : s[i] \in Symbols
  BY <1>1 DEF Symbols
<1> QED  BY <1>1, <1>2

-------------------------------------------------------------------------------
(* Which characters of a pattern are flags.                                *)
LEMMA FirstIsNoFlag ==
  ASSUME NEW s
  PROVE  ~IsFlag(s, 1)
<1>1. 1..(1 - 1) = {}
  OBVIOUS
<1> QED  BY <1>1 DEF IsFlag

(* Whether all characters from r to i - 1 are a "%".                       *)
Percents(s, r, i) == \A k \in r..(i - 1) : s[k] = "%"

LEMMA PercentsAre ==
  ASSUME NEW s \in Seq(Symbols), NEW i \in 1..(Len(s) + 1), NEW r \in 1..(i - 1)
  PROVE  AllIn(SubSeq(s, r, i - 1), {"%"}) <=> Percents(s, r, i)
<1> DEFINE t == SubSeq(s, r, i - 1)
<1>1. Len(s) \in Nat /\ i \in Nat /\ r \in Nat /\ r <= i - 1 /\ i - 1 <= Len(s)
  OBVIOUS
<1>2. Len(t) = (i - 1) - r + 1 /\ \A k \in 1..((i - 1) - r + 1) : t[k] = s[r + k - 1]
  BY <1>1
<1> HIDE DEF t
<1>3. ASSUME AllIn(t, {"%"}), NEW k \in r..(i - 1)  PROVE s[k] = "%"
  <2>1. k - r + 1 \in 1..((i - 1) - r + 1) /\ r + (k - r + 1) - 1 = k
    BY <1>1
  <2> QED  BY <1>2, <1>3, <2>1 DEF AllIn
<1>4. ASSUME Percents(s, r, i), NEW k \in 1..Len(t)  PROVE t[k] \in {"%"}
  <2>1. r + k - 1 \in r..(i - 1)
    BY <1>1, <1>2
  <2> QED  BY <1>2, <1>4, <2>1 DEF Percents
<1> QED  BY <1>3, <1>4 DEF AllIn, Percents, t

(* Where the "%" begin of which one is before place i.                     *)
LEMMA RunBegins ==
  ASSUME NEW s \in Seq(Symbols), NEW i \in 2..(Len(s) + 1), s[i - 1] = "%"
  PROVE  \E r \in 1..(i - 1) : At(s, r - 1) # "%" /\ Percents(s, r, i)
<1>1. Len(s) \in Nat /\ i \in Nat /\ i - 1 \in 1..Len(s)
  OBVIOUS
<1> DEFINE T == {r \in 1..(i - 1) : Percents(s, r, i)}
<1>2. i - 1 \in T
  BY <1>1 DEF Percents
<1>3. T \subseteq Nat
  OBVIOUS
<1>4. PICK r \in T : \A m \in T : r <= m
  <2> HIDE DEF T
  <2> QED  BY <1>2, <1>3, Least
<1>5. At(s, r - 1) # "%"
  <2> SUFFICES ASSUME At(s, r - 1) = "%"  PROVE FALSE
    OBVIOUS
  <2>1. r - 1 \in 1..Len(s) /\ s[r - 1] = "%"
    BY DEF At
  <2>2. r - 1 \in T
    <3>1. r - 1 \in 1..(i - 1)
      BY <1>1, <2>1
    <3>2. \A k \in (r - 1)..(i - 1) : k = r - 1 \/ k \in r..(i - 1)
      BY <1>1
    <3>3. Percents(s, r - 1, i)
      BY <1>4, <2>1, <3>2 DEF Percents
    <3> QED  BY <3>1, <3>3
  <2> QED  BY <1>4, <2>2
<1> QED  BY <1>4, <1>5

(* A flag is what is behind a "%" that is no flag itself.                  *)
LEMMA FlagIs ==
  ASSUME NEW s \in Seq(Symbols), NEW i \in 1..Len(s)
  PROVE  IsFlag(s, i + 1) <=> s[i] = "%" /\ ~IsFlag(s, i)
<1>1. Len(s) \in Nat /\ i \in Nat /\ i + 1 \in 1..(Len(s) + 1) /\ i \in 1..(Len(s) + 1)
      /\ (i + 1) - 1 = i
  OBVIOUS
<1> DEFINE Run(r, j) == (j - r) % 2 = 1 /\ At(s, r - 1) # "%" /\ Percents(s, r, j)
<1>2. IsFlag(s, i + 1) <=> \E r \in 1..i : Run(r, i + 1)
  <2>1. \A r \in 1..((i + 1) - 1) : AllIn(SubSeq(s, r, (i + 1) - 1), {"%"}) <=> Percents(s, r, i + 1)
    BY <1>1, PercentsAre
  <2> QED  BY <1>1, <2>1 DEF IsFlag
<1>3. IsFlag(s, i) <=> \E r \in 1..(i - 1) : Run(r, i)
  <2>1. \A r \in 1..(i - 1) : AllIn(SubSeq(s, r, i - 1), {"%"}) <=> Percents(s, r, i)
    BY <1>1, PercentsAre
  <2> QED  BY <2>1 DEF IsFlag
<1>4. ASSUME NEW r \in 1..i  PROVE Percents(s, r, i + 1) <=> s[i] = "%" /\ Percents(s, r, i)
  <2>1. \A k \in r..i : k = i \/ k \in r..(i - 1)
    BY <1>1
  <2>2. i \in r..i /\ \A k \in r..(i - 1) : k \in r..i
    BY <1>1
  <2> QED  BY <1>1, <2>1, <2>2 DEF Percents
<1>5. ASSUME NEW r \in 1..i  PROVE ((i + 1) - r) % 2 = 1 <=> (i - r) % 2 # 1
  OBVIOUS
<1>6. ASSUME IsFlag(s, i + 1)  PROVE s[i] = "%" /\ ~IsFlag(s, i)
  <2>1. PICK r \in 1..i : Run(r, i + 1)
    BY <1>2, <1>6
  <2>2. s[i] = "%" /\ Percents(s, r, i) /\ (i - r) % 2 # 1
    BY <1>4, <1>5, <2>1
  <2>3. ASSUME NEW q \in 1..(i - 1), Run(q, i)  PROVE FALSE
    <3>1. q # r
      BY <2>2, <2>3
    <3>2. CASE q < r
      <4>1. r - 1 \in q..(i - 1) /\ r - 1 \in 1..Len(s)
        BY <1>1, <3>2
      <4>2. s[r - 1] = "%"
        BY <2>3, <4>1 DEF Percents
      <4> QED  BY <2>1, <4>1, <4>2 DEF At
    <3>3. CASE r < q
      <4>1. q - 1 \in r..(i - 1) /\ q - 1 \in 1..Len(s)
        BY <1>1, <3>3
      <4>2. s[q - 1] = "%"
        BY <2>2, <4>1 DEF Percents
      <4> QED  BY <2>3, <4>1, <4>2 DEF At
    <3> QED  BY <3>1, <3>2, <3>3
  <2> QED  BY <1>3, <2>2, <2>3
<1>7. ASSUME s[i] = "%", ~IsFlag(s, i)  PROVE IsFlag(s, i + 1)
  <2>1. i + 1 \in 2..(Len(s) + 1)
    BY <1>1
  <2>2. PICK r \in 1..i : At(s, r - 1) # "%" /\ Percents(s, r, i + 1)
    <3>1. s[(i + 1) - 1] = "%"
      BY <1>1, <1>7
    <3> QED  BY <1>1, <2>1, <3>1, RunBegins
  <2>3. (i - r) % 2 # 1
    <3> SUFFICES ASSUME (i - r) % 2 = 1  PROVE FALSE
      OBVIOUS
    <3>1. r \in 1..(i - 1)
      OBVIOUS
    <3> QED  BY <1>3, <1>4, <1>7, <2>2, <3>1
  <2> QED  BY <1>2, <1>5, <2>2, <2>3
<1> QED  BY <1>6, <1>7

(* It depends on what is before it only.                                   *)
LEMMA SameFlags ==
  ASSUME NEW s \in Seq(Symbols), NEW t \in Seq(Symbols), NEW n \in Nat, n <= Len(s), n <= Len(t),
         \A k \in 1..n : s[k] = t[k]
  PROVE  \A i \in 1..(n + 1) : IsFlag(s, i) <=> IsFlag(t, i)
<1> DEFINE T == {k \in Nat : k <= n => (IsFlag(s, k + 1) <=> IsFlag(t, k + 1))}
<1>1. 0 \in T
  <2>1. 0 + 1 = 1
    OBVIOUS
  <2> QED  BY <2>1, FirstIsNoFlag
<1>2. ASSUME NEW k \in Nat, k \in T  PROVE k + 1 \in T
  <2> SUFFICES ASSUME k + 1 <= n  PROVE IsFlag(s, (k + 1) + 1) <=> IsFlag(t, (k + 1) + 1)
    OBVIOUS
  <2>1. k + 1 \in 1..Len(s) /\ k + 1 \in 1..Len(t) /\ k + 1 \in 1..n /\ k <= n
    OBVIOUS
  <2>2. IsFlag(s, k + 1) <=> IsFlag(t, k + 1)
    BY <1>2, <2>1
  <2> HIDE DEF T
  <2>3. /\ IsFlag(s, (k + 1) + 1) <=> s[k + 1] = "%" /\ ~IsFlag(s, k + 1)
        /\ IsFlag(t, (k + 1) + 1) <=> t[k + 1] = "%" /\ ~IsFlag(t, k + 1)
    BY <2>1, FlagIs
  <2> QED  BY <2>1, <2>2, <2>3
<1> HIDE DEF T
<1>3. Nat \subseteq T
  BY <1>1, <1>2, Induction
<1>4. \A i \in 1..(n + 1) : i - 1 \in Nat /\ i - 1 <= n /\ (i - 1) + 1 = i
  OBVIOUS
<1> QED  BY <1>3, <1>4 DEF T

-------------------------------------------------------------------------------
(***************************************************************************)
(* Numbers, as they are written with ten digits.                           *)
(***************************************************************************)
AllDigits(s) == s \in Seq(Symbols) /\ \A i \in 1..Len(s) : s[i] \in Digit

LEMMA DigitCharIs ==
  ASSUME NEW k \in 0..9
  PROVE  DigitChar[k + 1] \in Digit /\ DigitChar[k + 1] \in Symbols /\ digit_value[DigitChar[k + 1]] = k
<1>1. /\ DigitChar[1] = "0" /\ DigitChar[2] = "1" /\ DigitChar[3] = "2" /\ DigitChar[4] = "3"
      /\ DigitChar[5] = "4" /\ DigitChar[6] = "5" /\ DigitChar[7] = "6" /\ DigitChar[8] = "7"
      /\ DigitChar[9] = "8" /\ DigitChar[10] = "9"
  <2>1. DigitChar[1] = "0" /\ DigitChar[2] = "1"
    BY DEF DigitChar
  <2>2. DigitChar[3] = "2" /\ DigitChar[4] = "3"
    BY DEF DigitChar
  <2>3. DigitChar[5] = "4" /\ DigitChar[6] = "5"
    BY DEF DigitChar
  <2>4. DigitChar[7] = "6" /\ DigitChar[8] = "7"
    BY DEF DigitChar
  <2>5. DigitChar[9] = "8" /\ DigitChar[10] = "9"
    BY DEF DigitChar
  <2> QED  BY <2>1, <2>2, <2>3, <2>4, <2>5
<1>2. \A c \in Digit : c \in Hex /\ c \in Symbols
  <2>1. \A c \in Digit : c \in Hex
    BY DEF Hex
  <2>2. \A c \in Digit : c \in Symbols
    BY DEF Symbols
  <2> QED  BY <2>1, <2>2
<1>3. /\ digit_value["0"] = 0 /\ digit_value["1"] = 1 /\ digit_value["2"] = 2
      /\ digit_value["3"] = 3 /\ digit_value["4"] = 4 /\ digit_value["5"] = 5
      /\ digit_value["6"] = 6 /\ digit_value["7"] = 7 /\ digit_value["8"] = 8
      /\ digit_value["9"] = 9
  <2>0. digit_value["0"] = 0
    BY DEF digit_value, Hex, Digit
  <2>1. digit_value["1"] = 1
    BY DEF digit_value, Hex, Digit
  <2>2. digit_value["2"] = 2
    BY DEF digit_value, Hex, Digit
  <2>3. digit_value["3"] = 3
    BY DEF digit_value, Hex, Digit
  <2>4. digit_value["4"] = 4
    BY DEF digit_value, Hex, Digit
  <2>5. digit_value["5"] = 5
    BY DEF digit_value, Hex, Digit
  <2>6. digit_value["6"] = 6
    BY DEF digit_value, Hex, Digit
  <2>7. digit_value["7"] = 7
    BY DEF digit_value, Hex, Digit
  <2>8. digit_value["8"] = 8
    BY DEF digit_value, Hex, Digit
  <2>9. digit_value["9"] = 9
    BY DEF digit_value, Hex, Digit
  <2> QED  BY <2>0, <2>1, <2>2, <2>3, <2>4, <2>5, <2>6, <2>7, <2>8, <2>9
<1>4. k = 0 \/ k = 1 \/ k = 2 \/ k = 3 \/ k = 4 \/ k = 5 \/ k = 6 \/ k = 7 \/ k = 8 \/ k = 9
  OBVIOUS
<1>5. /\ DigitChar[k + 1] \in Digit /\ digit_value[DigitChar[k + 1]] = k
  <2>1. \A c : c \in {"0", "1", "2", "3", "4", "5", "6", "7", "8", "9"} => c \in Digit
    BY DEF Digit
  <2>2. /\ 0 + 1 = 1 /\ 1 + 1 = 2 /\ 2 + 1 = 3 /\ 3 + 1 = 4 /\ 4 + 1 = 5
        /\ 5 + 1 = 6 /\ 6 + 1 = 7 /\ 7 + 1 = 8 /\ 8 + 1 = 9 /\ 9 + 1 = 10
    OBVIOUS
  <2>3. CASE k \in 0..4
    BY <1>1, <1>3, <2>1, <2>2, <2>3
  <2>4. CASE k \in 5..9
    BY <1>1, <1>3, <2>1, <2>2, <2>4
  <2> QED  BY <1>4, <2>3, <2>4
<1> QED  BY <1>2, <1>5

DigitsAreHex(s) == s \in Seq(Symbols) /\ \A i \in 1..Len(s) : s[i] \in Hex

LEMMA AllDigitsAreHex ==
  ASSUME NEW s, AllDigits(s)
  PROVE  DigitsAreHex(s)
BY DEF AllDigits, DigitsAreHex, Hex

(* The digits of s are those of t behind place k.                          *)
AreBehind(s, t, k) == k + Len(s) <= Len(t) /\ \A i \in 1..Len(s) : t[k + i] = s[i]

(* The same digits further on, behind nothing but zeros.                   *)
LEMMA SameValues ==
  ASSUME NEW s, NEW t, NEW base \in Nat, NEW k \in Nat, DigitsAreHex(s), DigitsAreHex(t), AreBehind(s, t, k),
         NEW v, IsValue(s, base, v), NEW w, IsValue(t, base, w), w[k] = 0
  PROVE  \A i \in 0..Len(s) : w[k + i] = v[i]
<1>1. Len(s) \in Nat /\ Len(t) \in Nat
  BY DEF DigitsAreHex
<1> DEFINE T == {i \in Nat : i <= Len(s) => w[k + i] = v[i]}
<1>2. 0 \in T
  <2>1. k + 0 = k /\ v[0] = 0
    BY DEF IsValue
  <2> QED  BY <2>1
<1>3. ASSUME NEW i \in Nat, i \in T  PROVE i + 1 \in T
  <2> SUFFICES ASSUME i + 1 <= Len(s)  PROVE w[k + (i + 1)] = v[i + 1]
    OBVIOUS
  <2>0. k + Len(s) <= Len(t) /\ \A j \in 1..Len(s) : t[k + j] = s[j]
    BY DEF AreBehind
  <2>1. /\ k + (i + 1) \in 1..Len(t) /\ (k + (i + 1)) - 1 = k + i
        /\ i + 1 \in 1..Len(s) /\ (i + 1) - 1 = i /\ i <= Len(s)
    BY <1>1, <2>0
  <2>2. w[k + i] = v[i] /\ t[k + (i + 1)] = s[i + 1]
    BY <1>3, <2>0, <2>1
  <2> HIDE DEF T
  <2>3. /\ w[k + (i + 1)] = base * w[(k + (i + 1)) - 1] + digit_value[t[k + (i + 1)]]
        /\ v[i + 1] = base * v[(i + 1) - 1] + digit_value[s[i + 1]]
    BY <2>1 DEF IsValue
  <2> QED  BY <2>1, <2>2, <2>3
<1> HIDE DEF T
<1>4. Nat \subseteq T
  BY <1>2, <1>3, Induction
<1>5. \A i \in 0..Len(s) : i \in Nat /\ i <= Len(s)
  BY <1>1
<1> QED  BY <1>4, <1>5 DEF T

(* One more digit.                                                         *)
LEMMA NumeralAppend ==
  ASSUME NEW s, DigitsAreHex(s), NEW c \in Hex, c \in Symbols
  PROVE  /\ DigitsAreHex(Append(s, c))
         /\ Numeral(Append(s, c), 10) = 10 * Numeral(s, 10) + digit_value[c]
<1> DEFINE t == Append(s, c)
           n == Len(s)
<1>1. s \in Seq(Symbols) /\ n \in Nat /\ \A i \in 1..n : s[i] \in Hex
  BY DEF DigitsAreHex
<1>2. t \in Seq(Symbols) /\ Len(t) = n + 1 /\ (\A i \in 1..n : t[i] = s[i]) /\ t[n + 1] = c
  BY <1>1, AppendHas
<1> HIDE DEF t, n
<1>3. \A i \in 1..Len(t) : t[i] \in Hex
  <2>1. \A i \in 1..(n + 1) : i \in 1..n \/ i = n + 1
    BY <1>1
  <2> QED  BY <1>1, <1>2, <2>1
<1>4. DigitsAreHex(t)
  BY <1>2, <1>3 DEF DigitsAreHex
<1>5. PICK v : IsValue(s, 10, v) /\ Numeral(s, 10) = v[n]
  BY <1>1, NumeralIs DEF n
<1>6. PICK w : IsValue(t, 10, w) /\ Numeral(t, 10) = w[n + 1]
  BY <1>2, <1>3, NumeralIs
<1>7. w[n] = v[n]
  <2>1. w[0] = 0 /\ 0 + Len(s) <= Len(t) /\ n \in 0..Len(s) /\ 0 + n = n
    BY <1>1, <1>2, <1>6 DEF IsValue, n
  <2>2. AreBehind(s, t, 0)
    BY <1>1, <1>2 DEF n, AreBehind
  <2>3. \A i \in 0..Len(s) : w[0 + i] = v[i]
    BY <1>4, <1>5, <1>6, <2>1, <2>2, SameValues
  <2> QED  BY <2>1, <2>3
<1>8. w[n + 1] = 10 * w[n] + digit_value[c]
  <2>1. n + 1 \in 1..Len(t) /\ (n + 1) - 1 = n
    BY <1>1, <1>2
  <2> QED  BY <1>2, <1>6, <2>1 DEF IsValue
<1> QED  BY <1>4, <1>5, <1>6, <1>7, <1>8 DEF t

LEMMA NumeralOfNone ==
  Numeral(<<>>, 10) = 0
<1>1. <<>> \in Seq(Symbols) /\ Len(<<>>) = 0 /\ \A i \in 1..0 : FALSE
  OBVIOUS
<1>2. PICK v : IsValue(<<>>, 10, v) /\ Numeral(<<>>, 10) = v[0]
  <2>1. \A i \in 1..Len(<<>>) : <<>>[i] \in Hex
    BY <1>1
  <2> QED  BY <1>1, <2>1, NumeralIs
<1> QED  BY <1>2 DEF IsValue

-------------------------------------------------------------------------------
(* How many digits a number has, up to nine.                               *)
HasDigits(m, l) ==
  /\ l \in Nat /\ l >= 1
  /\ m < 10 <=> l <= 1
  /\ m < 100 <=> l <= 2
  /\ m < 1000 <=> l <= 3
  /\ m < 10000 <=> l <= 4
  /\ m < 100000 <=> l <= 5
  /\ m < 1000000 <=> l <= 6
  /\ m < 10000000 <=> l <= 7
  /\ m < 100000000 <=> l <= 8
  /\ m < 1000000000 <=> l <= 9

LEMMA OneDigit ==
  ASSUME NEW m \in Nat, m < 10
  PROVE  HasDigits(m, 1)
BY SMT DEF HasDigits

LEMMA OneMoreDigit ==
  ASSUME NEW m \in Nat, m >= 10, NEW q \in Nat, NEW r \in 0..9, m = 10 * q + r, NEW l, HasDigits(q, l)
  PROVE  HasDigits(m, l + 1)
BY SMT DEF HasDigits

LEMMA DivideByTen ==
  ASSUME NEW m \in Nat
  PROVE  /\ m \div 10 \in Nat /\ m % 10 \in 0..9 /\ m = 10 * (m \div 10) + (m % 10)
         /\ m >= 10 => m \div 10 < m
BY SMT

(* t is how m is written.                                                  *)
IsDecimal(m, t) == AllDigits(t) /\ Numeral(t, 10) = m /\ HasDigits(m, Len(t))

LEMMA DecimalOfOne ==
  ASSUME NEW m \in Nat, m < 10
  PROVE  IsDecimal(m, <<DigitChar[m + 1]>>)
<1> DEFINE c == DigitChar[m + 1]
           t == <<c>>
<1>1. m \in 0..9
  OBVIOUS
<1>2. c \in Digit /\ c \in Symbols /\ digit_value[c] = m
  BY <1>1, DigitCharIs
<1> HIDE DEF c
<1>3. t \in Seq(Symbols) /\ Len(t) = 1 /\ t[1] = c /\ t = Append(<<>>, c)
  BY <1>2, ShortOnes, ShortOnesAre
<1> HIDE DEF t
<1>4. AllDigits(t)
  <2>1. \A i \in 1..1 : i = 1
    OBVIOUS
  <2> QED  BY <1>2, <1>3, <2>1 DEF AllDigits
<1>5. Numeral(t, 10) = m
  <2>1. DigitsAreHex(<<>>)
    <3>1. <<>> \in Seq(Symbols) /\ Len(<<>>) = 0 /\ \A i \in 1..0 : FALSE
      OBVIOUS
    <3> QED  BY <3>1 DEF DigitsAreHex
  <2>2. c \in Hex
    BY <1>2 DEF Hex
  <2>3. Numeral(Append(<<>>, c), 10) = 10 * Numeral(<<>>, 10) + digit_value[c]
    BY <1>2, <2>1, <2>2, NumeralAppend
  <2> QED  BY <1>2, <1>3, <2>3, NumeralOfNone
<1>6. HasDigits(m, Len(t))
  BY <1>3, OneDigit
<1> QED  BY <1>4, <1>5, <1>6 DEF IsDecimal, t, c

LEMMA DecimalOfMore ==
  ASSUME NEW m \in Nat, m >= 10, NEW u, IsDecimal(m \div 10, u)
  PROVE  IsDecimal(m, Append(u, DigitChar[(m % 10) + 1]))
<1> DEFINE q == m \div 10
           r == m % 10
           c == DigitChar[r + 1]
           t == Append(u, c)
<1>1. q \in Nat /\ r \in 0..9 /\ m = 10 * q + r
  BY DivideByTen
<1>2. AllDigits(u) /\ Numeral(u, 10) = q /\ HasDigits(q, Len(u))
  BY DEF IsDecimal
<1> HIDE DEF q, r
<1>3. c \in Digit /\ c \in Symbols /\ digit_value[c] = r
  BY <1>1, DigitCharIs
<1> HIDE DEF c
<1>4. u \in Seq(Symbols) /\ Len(u) \in Nat /\ \A i \in 1..Len(u) : u[i] \in Digit
  BY <1>2 DEF AllDigits
<1>5. t \in Seq(Symbols) /\ Len(t) = Len(u) + 1 /\ (\A i \in 1..Len(u) : t[i] = u[i]) /\ t[Len(u) + 1] = c
  <2>1. u \in Seq(Symbols) /\ c \in Symbols
    BY <1>3, <1>4
  <2> HIDE DEF t
  <2>2. \A e \in Symbols : /\ Append(u, e) \in Seq(Symbols) /\ Len(Append(u, e)) = Len(u) + 1
                          /\ \A i \in 1..Len(u) : Append(u, e)[i] = u[i]
                          /\ Append(u, e)[Len(u) + 1] = e
    BY <2>1, AppendHas
  <2> QED  BY <2>1, <2>2 DEF t
<1> HIDE DEF t
<1>6. AllDigits(t)
  <2>1. \A i \in 1..(Len(u) + 1) : i \in 1..Len(u) \/ i = Len(u) + 1
    BY <1>4
  <2> QED  BY <1>3, <1>4, <1>5, <2>1 DEF AllDigits
<1>7. Numeral(t, 10) = 10 * q + r
  <2>1. c \in Hex /\ DigitsAreHex(u)
    BY <1>2, <1>3, AllDigitsAreHex DEF Hex
  <2>2. Numeral(Append(u, c), 10) = 10 * Numeral(u, 10) + digit_value[c]
    BY <1>3, <2>1, NumeralAppend
  <2> QED  BY <1>2, <1>3, <2>2 DEF t
<1>8. HasDigits(m, Len(t))
  <2>1. HasDigits(m, Len(u) + 1)
    BY <1>1, <1>2, OneMoreDigit
  <2> QED  BY <1>5, <2>1
<1>9. IsDecimal(m, t)
  BY <1>1, <1>6, <1>7, <1>8 DEF IsDecimal
<1> QED  BY <1>9 DEF t, c, r

-------------------------------------------------------------------------------
(* count_digits and format_uint, to base 10.                               *)
LEMMA CountExists ==
  ASSUME NEW n \in Nat
  PROVE  \E f : f = [m \in 0..n |-> IF m < 10 THEN 1 ELSE 1 + f[m \div 10]]
<1> DEFINE S == 0..n
           E == [S -> Nat]
           rank == [m \in S |-> m]
           next == [f \in E |-> [m \in S |-> IF m < 10 THEN 1 ELSE 1 + f[m \div 10]]]
<1>1. \A m \in S : m >= 10 => m \div 10 \in S /\ m \div 10 < m
  <2> SUFFICES ASSUME NEW m \in S, m >= 10  PROVE m \div 10 \in S /\ m \div 10 < m
    OBVIOUS
  <2>1. m \in Nat /\ m <= n
    OBVIOUS
  <2>2. m \div 10 \in Nat /\ m \div 10 < m
    BY <2>1, DivideByTen
  <2> QED  BY <2>1, <2>2
<1>2. \A m \in S : rank[m] = m /\ m \in Nat
  OBVIOUS
<1>3. rank \in [S -> 0..n]
  OBVIOUS
<1> HIDE DEF S, rank
<1>4. Lowers(S, Nat, rank, next)
  <2>1. ASSUME NEW f \in E, NEW m \in S  PROVE (IF m < 10 THEN 1 ELSE 1 + f[m \div 10]) \in Nat
    BY <1>1, <1>2
  <2>2. next \in [E -> E]
    BY <2>1
  <2>3. ASSUME NEW f \in E, NEW g \in E, NEW x \in S, \A y \in S : rank[y] < rank[x] => f[y] = g[y]
        PROVE  next[f][x] = next[g][x]
    <3>1. x >= 10 => f[x \div 10] = g[x \div 10]
      BY <1>1, <1>2, <2>3
    <3> QED  BY <1>2, <3>1
  <2> HIDE DEF next
  <2> QED  BY <2>2, <2>3 DEF Lowers
<1>5. PICK f \in [S -> Nat] : f = next[f]
  <2> HIDE DEF next
  <2> QED  BY <1>3, <1>4, RecursionDown
<1>6. f = [m \in S |-> IF m < 10 THEN 1 ELSE 1 + f[m \div 10]]
  BY <1>5
<1> QED  BY <1>6 DEF S

LEMMA FormatExists ==
  ASSUME NEW n \in Nat
  PROVE  \E f : f = [m \in 0..n |-> IF m < 10 THEN <<DigitChar[m + 1]>>
                                    ELSE Append(f[m \div 10], DigitChar[(m % 10) + 1])]
<1> DEFINE S == 0..n
           D == Seq(Symbols)
           E == [S -> D]
           digit(k) == DigitChar[k + 1]
           rank == [m \in S |-> m]
           next == [f \in E |-> [m \in S |-> IF m < 10 THEN <<digit(m)>> ELSE Append(f[m \div 10], digit(m % 10))]]
<1>1. \A m \in S : m >= 10 => m \div 10 \in S /\ m \div 10 < m
  <2> SUFFICES ASSUME NEW m \in S, m >= 10  PROVE m \div 10 \in S /\ m \div 10 < m
    OBVIOUS
  <2>1. m \in Nat /\ m <= n
    OBVIOUS
  <2>2. m \div 10 \in Nat /\ m \div 10 < m
    BY <2>1, DivideByTen
  <2> QED  BY <2>1, <2>2
<1>2. \A m \in S : rank[m] = m /\ m \in Nat /\ m % 10 \in 0..9
  OBVIOUS
<1>3. rank \in [S -> 0..n]
  OBVIOUS
<1>4. \A k \in 0..9 : digit(k) \in Symbols
  BY DigitCharIs
<1> HIDE DEF S, rank, digit
<1>5. Lowers(S, D, rank, next)
  <2>1. ASSUME NEW f \in E, NEW m \in S
        PROVE  (IF m < 10 THEN <<digit(m)>> ELSE Append(f[m \div 10], digit(m % 10))) \in D
    <3>1. CASE m < 10
      <4>1. m \in 0..9
        BY <1>2, <3>1
      <4>2. digit(m) \in Symbols
        BY <1>4, <4>1
      <4>3. <<digit(m)>> \in D
        BY <4>2, ShortOnes
      <4> QED  BY <3>1, <4>3
    <3>2. CASE ~(m < 10)
      <4>1. f[m \div 10] \in D /\ digit(m % 10) \in Symbols
        BY <1>1, <1>2, <1>4, <3>2
      <4>2. Append(f[m \div 10], digit(m % 10)) \in D
        BY <4>1, AppendHas
      <4> QED  BY <3>2, <4>2
    <3> QED  BY <3>1, <3>2
  <2>2. next \in [E -> E]
    <3> HIDE DEF D
    <3> QED  BY <2>1
  <2>3. ASSUME NEW f \in E, NEW g \in E, NEW x \in S, \A y \in S : rank[y] < rank[x] => f[y] = g[y]
        PROVE  next[f][x] = next[g][x]
    <3>1. ASSUME ~(x < 10)  PROVE f[x \div 10] = g[x \div 10]
      <4>1. x \in Nat /\ x >= 10 /\ rank[x] = x
        BY <1>2, <3>1
      <4>2. x \div 10 \in S /\ x \div 10 < x
        BY <1>1, <4>1
      <4>3. rank[x \div 10] < rank[x]
        BY <1>2, <4>1, <4>2
      <4> QED  BY <2>3, <4>2, <4>3
    <3> HIDE DEF D
    <3> QED  BY <1>2, <3>1
  <2> HIDE DEF next
  <2> QED  BY <2>2, <2>3 DEF Lowers
<1>6. PICK f \in [S -> D] : f = next[f]
  <2>1. <<>> \in D
    OBVIOUS
  <2> HIDE DEF next, D
  <2> QED  BY <1>3, <1>5, <2>1, RecursionDown
<1>7. f = [m \in S |-> IF m < 10 THEN <<digit(m)>> ELSE Append(f[m \div 10], digit(m % 10))]
  <2> HIDE DEF D
  <2> QED  BY <1>6
<1> QED  BY <1>7 DEF S, digit

(* A number is written with the digits that read back as it.               *)
LEMMA DecimalIs ==
  ASSUME NEW n \in Nat
  PROVE  IsDecimal(n, append_int(n)) /\ count_digits(n, 10) = Len(append_int(n))
<1> DEFINE Is1(f) == f = [m \in 0..n |-> IF m < 10 THEN 1 ELSE 1 + f[m \div 10]]
           Is2(f) == f = [m \in 0..n |-> IF m < 10 THEN <<DigitChar[m + 1]>>
                                         ELSE Append(f[m \div 10], DigitChar[(m % 10) + 1])]
           count == CHOOSE f : Is1(f)
           from == CHOOSE f : Is2(f)
<1>1. count_digits(n, 10) = count[n]
  BY DEF count_digits
<1>2. append_int(n) = from[n]
  BY DEF append_int, format_uint
<1>3. Is1(count)
  BY CountExists
<1>4. Is2(from)
  BY FormatExists
<1> HIDE DEF count, from
<1>5. ASSUME NEW m \in 0..n
      PROVE  /\ count[m] = IF m < 10 THEN 1 ELSE 1 + count[m \div 10]
             /\ from[m] = IF m < 10 THEN <<DigitChar[m + 1]>>
                          ELSE Append(from[m \div 10], DigitChar[(m % 10) + 1])
  BY <1>3, <1>4
<1> HIDE DEF Is1, Is2
<1> DEFINE Holds(m) == IsDecimal(m, from[m]) /\ count[m] = Len(from[m])
           T == {k \in Nat : \A m \in 0..n : m <= k => Holds(m)}
<1>6. ASSUME NEW m \in 0..n, m < 10  PROVE Holds(m)
  <2>1. m \in Nat
    OBVIOUS
  <2>2. from[m] = <<DigitChar[m + 1]>> /\ count[m] = 1
    BY <1>5, <1>6
  <2>3. IsDecimal(m, from[m])
    BY <1>6, <2>1, <2>2, DecimalOfOne
  <2>4. Len(from[m]) = 1
    BY <2>2
  <2> QED  BY <2>2, <2>3, <2>4
<1>7. 0 \in T
  <2>1. \A m \in 0..n : m <= 0 => m < 10
    OBVIOUS
  <2> HIDE DEF Holds
  <2> QED  BY <1>6, <2>1
<1>8. ASSUME NEW k \in Nat, k \in T  PROVE k + 1 \in T
  <2> SUFFICES ASSUME NEW m \in 0..n, m <= k + 1  PROVE Holds(m)
    BY DEF T
  <2>1. CASE m < 10
    BY <1>6, <2>1
  <2>2. CASE m >= 10
    <3>1. m \in Nat /\ m <= n
      OBVIOUS
    <3>2. m \div 10 \in 0..n /\ m \div 10 <= k
      <4>1. m \div 10 \in Nat /\ m \div 10 < m
        BY <2>2, <3>1, DivideByTen
      <4> QED  BY <3>1, <4>1
    <3>3. Holds(m \div 10)
      BY <1>8, <3>2
    <3>4. /\ count[m] = 1 + count[m \div 10]
          /\ from[m] = Append(from[m \div 10], DigitChar[(m % 10) + 1])
      <4>1. ~(m < 10)
        BY <2>2, <3>1
      <4> QED  BY <1>5, <4>1
    <3>5. IsDecimal(m, from[m])
      BY <2>2, <3>1, <3>3, <3>4, DecimalOfMore
    <3>6. Len(from[m]) = Len(from[m \div 10]) + 1
      <4>1. from[m \div 10] \in Seq(Symbols)
        BY <3>3 DEF IsDecimal, AllDigits
      <4>2. Len(Append(from[m \div 10], DigitChar[(m % 10) + 1])) = Len(from[m \div 10]) + 1
        BY <4>1
      <4> QED  BY <3>4, <4>2
    <3>7. Len(from[m \div 10]) \in Nat
      BY <3>3 DEF IsDecimal, AllDigits
    <3> QED  BY <3>3, <3>4, <3>5, <3>6, <3>7
  <2>3. m \in Nat
    OBVIOUS
  <2> QED  BY <2>1, <2>2, <2>3
<1> HIDE DEF T
<1>9. n \in T
  BY <1>7, <1>8, Induction
<1>10. Holds(n)
  <2>1. n \in 0..n /\ n <= n
    OBVIOUS
  <2> QED  BY <1>9, <2>1 DEF T
<1> QED  BY <1>1, <1>2, <1>10

-------------------------------------------------------------------------------
(* Characters that fill up.                                                *)
LEMMA FillIs ==
  ASSUME NEW n \in Int, NEW c \in Symbols
  PROVE  /\ Fill(n, c) \in Seq(Symbols) /\ Len(Fill(n, c)) = IF n > 0 THEN n ELSE 0
         /\ \A i \in 1..Len(Fill(n, c)) : Fill(n, c)[i] = c
<1>1. CASE n > 0
  <2>1. n \in Nat
    BY <1>1
  <2>2. [i \in 1..n |-> c] \in Seq(Symbols) /\ Len([i \in 1..n |-> c]) = n
    BY <2>1
  <2> QED  BY <1>1, <2>1, <2>2 DEF Fill
<1>2. CASE ~(n > 0)
  <2>1. 1..n = {} /\ 1..0 = {}
    BY <1>2
  <2>2. [i \in 1..n |-> c] = [i \in 1..0 |-> c]
    BY <2>1
  <2>3. [i \in 1..0 |-> c] \in Seq(Symbols) /\ Len([i \in 1..0 |-> c]) = 0
    OBVIOUS
  <2> QED  BY <1>2, <2>1, <2>2, <2>3 DEF Fill
<1> QED  BY <1>1, <1>2

LEMMA AllDigitsJoin ==
  ASSUME NEW a, NEW b, AllDigits(a), AllDigits(b)
  PROVE  /\ AllDigits(a \o b) /\ Len(a \o b) = Len(a) + Len(b) /\ Len(a) \in Nat /\ Len(b) \in Nat
         /\ \A i \in 1..Len(a) : (a \o b)[i] = a[i]
         /\ \A i \in 1..Len(b) : (a \o b)[Len(a) + i] = b[i]
<1> DEFINE t == a \o b
<1>1. /\ a \in Seq(Symbols) /\ Len(a) \in Nat /\ \A i \in 1..Len(a) : a[i] \in Digit
      /\ b \in Seq(Symbols) /\ Len(b) \in Nat /\ \A i \in 1..Len(b) : b[i] \in Digit
  BY DEF AllDigits
<1>2. /\ t \in Seq(Symbols) /\ Len(t) = Len(a) + Len(b)
      /\ \A i \in 1..Len(a) : t[i] = a[i]
      /\ \A i \in 1..Len(b) : t[Len(a) + i] = b[i]
  BY <1>1, JoinHas
<1> HIDE DEF t
<1>3. ASSUME NEW i \in 1..Len(t)  PROVE t[i] \in Digit
  <2>1. CASE i <= Len(a)
    <3>1. i \in 1..Len(a)
      BY <1>1, <1>2, <2>1
    <3> QED  BY <1>1, <1>2, <3>1
  <2>2. CASE ~(i <= Len(a))
    <3>1. i - Len(a) \in 1..Len(b) /\ Len(a) + (i - Len(a)) = i
      BY <1>1, <1>2, <2>2
    <3> QED  BY <1>1, <1>2, <3>1
  <2> QED  BY <2>1, <2>2
<1>4. AllDigits(t)
  BY <1>2, <1>3 DEF AllDigits
<1> QED  BY <1>1, <1>2, <1>4 DEF t

LEMMA ZeroIs ==
  "0" \in Digit /\ "0" \in Symbols /\ digit_value["0"] = 0
<1>1. DigitChar[0 + 1] = "0"
  BY DEF DigitChar
<1>2. 0 \in 0..9
  OBVIOUS
<1> QED  BY <1>1, <1>2, DigitCharIs

(* Zeros before a number change nothing.                                   *)
LEMMA ZerosBefore ==
  ASSUME NEW k \in Int, NEW d, AllDigits(d)
  PROVE  /\ AllDigits(Fill(k, "0") \o d) /\ Numeral(Fill(k, "0") \o d, 10) = Numeral(d, 10)
         /\ Len(Fill(k, "0") \o d) = IF k > 0 THEN k + Len(d) ELSE Len(d)
<1> DEFINE z == Fill(k, "0")
           t == z \o d
           n == Len(z)
<1>1. z \in Seq(Symbols) /\ n = (IF k > 0 THEN k ELSE 0) /\ \A i \in 1..n : z[i] = "0"
  BY ZeroIs, FillIs
<1> HIDE DEF z
<1>2. AllDigits(z)
  BY <1>1, ZeroIs DEF AllDigits
<1>3. /\ AllDigits(t) /\ Len(t) = n + Len(d) /\ n \in Nat /\ Len(d) \in Nat
      /\ \A i \in 1..n : t[i] = z[i]
      /\ \A i \in 1..Len(d) : t[n + i] = d[i]
  BY <1>2, AllDigitsJoin
<1> HIDE DEF t, n
<1>4. /\ DigitsAreHex(t) /\ DigitsAreHex(d) /\ t \in Seq(Symbols) /\ d \in Seq(Symbols)
      /\ \A i \in 1..Len(t) : t[i] \in Hex
      /\ \A i \in 1..Len(d) : d[i] \in Hex
  BY <1>3, AllDigitsAreHex DEF DigitsAreHex
<1>5. PICK v : IsValue(d, 10, v) /\ Numeral(d, 10) = v[Len(d)]
  BY <1>4, NumeralIs
<1>6. PICK w : IsValue(t, 10, w) /\ Numeral(t, 10) = w[Len(t)]
  BY <1>4, NumeralIs
<1>7. w[n] = 0
  <2> DEFINE T == {i \in Nat : i <= n => w[i] = 0}
  <2>1. 0 \in T
    BY <1>6 DEF IsValue
  <2>2. ASSUME NEW i \in Nat, i \in T  PROVE i + 1 \in T
    <3> SUFFICES ASSUME i + 1 <= n  PROVE w[i + 1] = 0
      OBVIOUS
    <3>1. i + 1 \in 1..n /\ i + 1 \in 1..Len(t) /\ (i + 1) - 1 = i /\ i <= n
      BY <1>3
    <3>2. w[i] = 0
      BY <2>2, <3>1
    <3> HIDE DEF T
    <3>3. t[i + 1] = "0"
      BY <1>1, <1>3, <3>1
    <3>4. w[i + 1] = 10 * w[(i + 1) - 1] + digit_value[t[i + 1]]
      BY <1>6, <3>1 DEF IsValue
    <3> QED  BY <3>1, <3>2, <3>3, <3>4, ZeroIs
  <2> HIDE DEF T
  <2>3. n \in T
    BY <1>3, <2>1, <2>2, Induction
  <2>4. n <= n
    BY <1>3
  <2> QED  BY <2>3, <2>4 DEF T
<1>8. \A i \in 0..Len(d) : w[n + i] = v[i]
  <2>1. AreBehind(d, t, n)
    BY <1>3 DEF AreBehind
  <2> QED  BY <1>3, <1>4, <1>5, <1>6, <1>7, <2>1, SameValues
<1>9. Len(d) \in 0..Len(d)
  BY <1>3
<1>10. Numeral(t, 10) = Numeral(d, 10)
  BY <1>3, <1>5, <1>6, <1>8, <1>9
<1>11. Len(t) = IF k > 0 THEN k + Len(d) ELSE Len(d)
  BY <1>1, <1>3
<1> QED  BY <1>3, <1>10, <1>11 DEF t, z

(* Three more digits.                                                      *)
OfLength(s, n) == AllDigits(s) /\ Len(s) = n

LEMMA ThreeMoreDigits ==
  ASSUME NEW a, NEW b, AllDigits(a), OfLength(b, 3)
  PROVE  Numeral(a \o b, 10) = 1000 * Numeral(a, 10) + Numeral(b, 10)
<1> DEFINE t == a \o b
           n == Len(a)
<1>1. /\ AllDigits(t) /\ Len(t) = n + 3 /\ n \in Nat
      /\ \A i \in 1..n : t[i] = a[i]
      /\ \A i \in 1..3 : t[n + i] = b[i]
  <2>1. /\ AllDigits(t) /\ Len(t) = n + Len(b) /\ n \in Nat
        /\ \A i \in 1..n : t[i] = a[i]
        /\ \A i \in 1..Len(b) : t[n + i] = b[i]
    <3>1. AllDigits(b)
      BY DEF OfLength
    <3> QED  BY <3>1, AllDigitsJoin
  <2>2. Len(b) = 3
    BY DEF OfLength
  <2> HIDE DEF t, n
  <2> QED  BY <2>1, <2>2
<1> HIDE DEF t, n
<1>2. /\ DigitsAreHex(t) /\ DigitsAreHex(a) /\ DigitsAreHex(b)
      /\ t \in Seq(Symbols) /\ a \in Seq(Symbols) /\ b \in Seq(Symbols)
      /\ \A i \in 1..Len(t) : t[i] \in Hex
      /\ \A i \in 1..Len(a) : a[i] \in Hex
      /\ \A i \in 1..Len(b) : b[i] \in Hex
  BY <1>1, AllDigitsAreHex DEF DigitsAreHex, OfLength
<1>3. PICK u : IsValue(a, 10, u) /\ Numeral(a, 10) = u[n]
  BY <1>2, NumeralIs DEF n
<1>4. PICK v : IsValue(b, 10, v) /\ Numeral(b, 10) = v[3]
  <2>1. Len(b) = 3
    BY DEF OfLength
  <2>2. \E v : IsValue(b, 10, v) /\ Numeral(b, 10) = v[Len(b)]
    BY <1>2, NumeralIs
  <2> QED  BY <2>1, <2>2
<1>5. PICK w : IsValue(t, 10, w) /\ Numeral(t, 10) = w[n + 3]
  <2>1. \E w : IsValue(t, 10, w) /\ Numeral(t, 10) = w[Len(t)]
    BY <1>2, NumeralIs
  <2> QED  BY <1>1, <2>1
<1>6. w[n] = u[n] /\ u[n] \in Nat
  <2>1. w[0] = 0 /\ 0 + Len(a) <= Len(t) /\ n \in 0..Len(a) /\ 0 + n = n
    BY <1>1, <1>5 DEF IsValue, n
  <2>2. AreBehind(a, t, 0)
    BY <1>1, <2>1 DEF n, AreBehind
  <2>3. \A i \in 0..Len(a) : w[0 + i] = u[i]
    BY <1>2, <1>3, <1>5, <2>1, <2>2, SameValues
  <2>4. u[n] \in Nat
    BY <1>3, <2>1 DEF IsValue
  <2> QED  BY <2>1, <2>3, <2>4
<1>7. ASSUME NEW i \in 1..3
      PROVE  /\ v[i] = 10 * v[i - 1] + digit_value[b[i]] /\ v[i - 1] \in Nat /\ v[i] \in Nat
             /\ w[n + i] = 10 * w[n + i - 1] + digit_value[b[i]] /\ digit_value[b[i]] \in Nat
  <2>1. i \in 1..Len(b) /\ i - 1 \in 0..Len(b) /\ i \in 0..Len(b) /\ n + i \in 1..Len(t)
        /\ (n + i) - 1 = n + i - 1
    BY <1>1 DEF OfLength
  <2>2. v[i] = 10 * v[i - 1] + digit_value[b[i]] /\ v[i - 1] \in Nat /\ v[i] \in Nat
    BY <1>4, <2>1 DEF IsValue
  <2>3. w[n + i] = 10 * w[n + i - 1] + digit_value[t[n + i]]
    BY <1>5, <2>1 DEF IsValue
  <2>4. digit_value[b[i]] \in Nat
    BY <1>2, <2>1, DigitsAreNumbers
  <2> QED  BY <1>1, <2>2, <2>3, <2>4
<1>8. v[0] = 0 /\ 1 - 1 = 0 /\ 2 - 1 = 1 /\ 3 - 1 = 2 /\ n + 1 - 1 = n /\ n + 2 - 1 = n + 1 /\ n + 3 - 1 = n + 2
  BY <1>1, <1>4 DEF IsValue
<1>9. 1 \in 1..3 /\ 2 \in 1..3 /\ 3 \in 1..3
  OBVIOUS
<1> DEFINE e1 == digit_value[b[1]]
           e2 == digit_value[b[2]]
           e3 == digit_value[b[3]]
<1>10. v[1] = e1 /\ v[2] = 10 * e1 + e2 /\ v[3] = 10 * (10 * e1 + e2) + e3
       /\ e1 \in Nat /\ e2 \in Nat /\ e3 \in Nat
  <2>1. v[1] = 10 * v[0] + e1 /\ e1 \in Nat
    BY <1>7, <1>8, <1>9
  <2>2. v[2] = 10 * v[1] + e2 /\ e2 \in Nat
    BY <1>7, <1>8, <1>9
  <2>3. v[3] = 10 * v[2] + e3 /\ e3 \in Nat
    BY <1>7, <1>8, <1>9
  <2> HIDE DEF e1, e2, e3
  <2> QED  BY <1>8, <2>1, <2>2, <2>3
<1>11. w[n + 1] = 10 * u[n] + e1 /\ w[n + 2] = 10 * w[n + 1] + e2 /\ w[n + 3] = 10 * w[n + 2] + e3
  <2>1. w[n + 1] = 10 * w[n] + e1
    BY <1>7, <1>8, <1>9
  <2>2. w[n + 2] = 10 * w[n + 1] + e2
    BY <1>7, <1>8, <1>9
  <2>3. w[n + 3] = 10 * w[n + 2] + e3
    BY <1>7, <1>8, <1>9
  <2> QED  BY <1>6, <2>1, <2>2, <2>3
<1> HIDE DEF e1, e2, e3
<1>12. w[n + 3] = 1000 * u[n] + v[3]
  <2> DEFINE x0 == u[n]
             x1 == w[n + 1]
             x2 == w[n + 2]
             x3 == w[n + 3]
             y == v[3]
  <2>1. /\ x0 \in Nat /\ e1 \in Nat /\ e2 \in Nat /\ e3 \in Nat
        /\ x1 = 10 * x0 + e1 /\ x2 = 10 * x1 + e2 /\ x3 = 10 * x2 + e3
        /\ y = 10 * (10 * e1 + e2) + e3
    BY <1>6, <1>10, <1>11
  <2> HIDE DEF x0, x1, x2, x3, y
  <2>2. x3 = 1000 * x0 + y
    BY <2>1, SMT
  <2> QED  BY <2>2, SMT DEF x0, x3, y
<1> QED  BY <1>3, <1>4, <1>5, <1>12, SMT DEF t

-------------------------------------------------------------------------------
(* t is how n is written with so many digits at least.                     *)
IsPadded(n, width, t) ==
  /\ AllDigits(t) /\ Numeral(t, 10) = n
  /\ Len(t) = IF width > Len(append_int(n)) THEN width ELSE Len(append_int(n))

LEMMA PadIs ==
  ASSUME NEW n \in Nat, NEW width \in Nat
  PROVE  IsPadded(n, width, pad(n, width))
<1> DEFINE d == append_int(n)
           k == width - Len(d)
<1>1. AllDigits(d) /\ Numeral(d, 10) = n /\ d \in Seq(Symbols)
  BY DecimalIs DEF IsDecimal, AllDigits
<1>2. Len(d) \in Nat /\ k \in Int
  BY <1>1
<1>3. pad(n, width) = Fill(k, "0") \o d
  BY DEF pad
<1> HIDE DEF d, k
<1>4. /\ AllDigits(Fill(k, "0") \o d) /\ Numeral(Fill(k, "0") \o d, 10) = Numeral(d, 10)
      /\ Len(Fill(k, "0") \o d) = IF k > 0 THEN k + Len(d) ELSE Len(d)
  BY <1>1, <1>2, ZerosBefore
<1>5. (IF k > 0 THEN k + Len(d) ELSE Len(d)) = IF width > Len(d) THEN width ELSE Len(d)
  BY <1>2 DEF k
<1> QED  BY <1>1, <1>3, <1>4, <1>5 DEF IsPadded, d

(* So many digits, and no more.                                            *)
IsWritten(n, width, t) == AllDigits(t) /\ Numeral(t, 10) = n /\ Len(t) = width

LEMMA PadExactly ==
  ASSUME NEW n \in Nat, NEW width \in Nat, Len(append_int(n)) <= width
  PROVE  IsWritten(n, width, pad(n, width))
<1> DEFINE l == Len(append_int(n))
           t == pad(n, width)
<1>1. AllDigits(t) /\ Numeral(t, 10) = n /\ Len(t) = IF width > l THEN width ELSE l
  BY PadIs DEF IsPadded
<1>2. l \in Nat /\ l <= width
  BY DecimalIs DEF IsDecimal, AllDigits
<1> HIDE DEF l, t
<1>3. Len(t) = width
  BY <1>1, <1>2
<1> QED  BY <1>1, <1>3 DEF IsWritten, t

LEMMA Pad2Is ==
  ASSUME NEW n \in Nat
  PROVE  AllDigits(pad2(n)) /\ (n < 100 => IsWritten(n, 2, pad2(n)))
<1>1. IsPadded(n, 2, pad2(n))
  BY PadIs DEF pad2
<1>2. ASSUME n < 100  PROVE IsWritten(n, 2, pad2(n))
  <2>1. HasDigits(n, Len(append_int(n)))
    BY DecimalIs DEF IsDecimal
  <2>2. Len(append_int(n)) <= 2
    BY <1>2, <2>1, SMT DEF HasDigits
  <2> QED  BY <2>2, PadExactly DEF pad2
<1> QED  BY <1>1, <1>2 DEF IsPadded

LEMMA Pad3Is ==
  ASSUME NEW n \in Nat
  PROVE  AllDigits(pad3(n)) /\ (n < 1000 => IsWritten(n, 3, pad3(n)))
<1>1. IsPadded(n, 3, pad3(n))
  BY PadIs DEF pad3
<1>2. ASSUME n < 1000  PROVE IsWritten(n, 3, pad3(n))
  <2>1. HasDigits(n, Len(append_int(n)))
    BY DecimalIs DEF IsDecimal
  <2>2. Len(append_int(n)) <= 3
    BY <1>2, <2>1, SMT DEF HasDigits
  <2> HIDE <1>2
  <2> QED  BY <2>2, PadExactly DEF pad3
<1> QED  BY <1>1, <1>2, SMT DEF IsPadded

(* How pad6 puts two numbers of three digits together.                     *)
LEMMA TwoOfThree ==
  ASSUME NEW q \in Nat, NEW r \in Nat, NEW a, NEW b, IsWritten(q, 3, a), IsWritten(r, 3, b)
  PROVE  IsWritten(1000 * q + r, 6, a \o b)
<1>0. AllDigits(a) /\ AllDigits(b)
  BY SMT DEF IsWritten
<1>1. /\ Len(a) = 3 /\ Len(b) = 3 /\ OfLength(b, 3)
      /\ Numeral(a, 10) = q /\ Numeral(b, 10) = r
  BY SMT DEF IsWritten, OfLength
<1>2. AllDigits(a \o b) /\ Len(a \o b) = Len(a) + Len(b)
  BY <1>0, AllDigitsJoin, SMT
<1>3. Numeral(a \o b, 10) = 1000 * Numeral(a, 10) + Numeral(b, 10)
  BY <1>0, <1>1, ThreeMoreDigits, SMT
<1> DEFINE t == a \o b
<1> HIDE DEF t
<1>4. AllDigits(t) /\ Len(t) = 6 /\ Numeral(t, 10) = 1000 * q + r
  BY <1>1, <1>2, <1>3, SMT DEF t
<1>5. IsWritten(1000 * q + r, 6, t)
  BY <1>4, SMT DEF IsWritten
<1> QED  BY <1>5, SMT DEF t

LEMMA Thousands ==
  ASSUME NEW n \in Nat, n < 1000000
  PROVE  /\ n \div 1000 \in Nat /\ n \div 1000 < 1000 /\ n % 1000 \in Nat /\ n % 1000 < 1000
         /\ n = 1000 * (n \div 1000) + (n % 1000)
BY SMT

LEMMA Pad6Is ==
  ASSUME NEW n \in Nat
  PROVE  AllDigits(pad6(n)) /\ (n < 1000000 => IsWritten(n, 6, pad6(n)))
<1>1. CASE n > 99999
  <2>1. pad6(n) = append_int(n)
    BY <1>1, SMT DEF pad6
  <2>2. AllDigits(append_int(n)) /\ Numeral(append_int(n), 10) = n /\ HasDigits(n, Len(append_int(n)))
    BY DecimalIs, SMT DEF IsDecimal
  <2>3. ASSUME n < 1000000  PROVE Len(append_int(n)) = 6
    <3> DEFINE l == Len(append_int(n))
    <3>1. HasDigits(n, l)
      BY <2>2, SMT
    <3> HIDE DEF l
    <3>2. l \in Nat /\ l <= 6 /\ ~(l <= 5)
      BY <1>1, <2>3, <3>1, SMT DEF HasDigits
    <3> QED  BY <3>2, SMT DEF l
  <2>4. ASSUME n < 1000000  PROVE IsWritten(n, 6, pad6(n))
    BY <2>1, <2>2, <2>3, <2>4, SMT DEF IsWritten
  <2> QED  BY <2>1, <2>2, <2>4, SMT
<1>2. CASE ~(n > 99999)
  <2> DEFINE q == n \div 1000
             r == n % 1000
  <2>1. n < 1000000
    BY <1>2, SMT
  <2>2. q \in Nat /\ r \in Nat /\ q < 1000 /\ r < 1000 /\ n = 1000 * q + r
    BY <2>1, Thousands, SMT
  <2>3. pad6(n) = pad3(q) \o pad3(r)
    BY <1>2, SMT DEF pad6
  <2> HIDE DEF q, r
  <2>4. IsWritten(q, 3, pad3(q)) /\ IsWritten(r, 3, pad3(r))
    BY <2>2, Pad3Is, SMT
  <2>5. IsWritten(1000 * q + r, 6, pad3(q) \o pad3(r))
    BY <2>2, <2>4, TwoOfThree, SMT
  <2>6. IsWritten(n, 6, pad6(n))
    <3> DEFINE t == pad3(q) \o pad3(r)
               m == 1000 * q + r
    <3>1. IsWritten(m, 6, t) /\ m = n /\ pad6(n) = t
      BY <2>2, <2>3, <2>5, SMT
    <3> HIDE DEF t, m
    <3> QED  BY <3>1, SMT
  <2> QED  BY <2>6, SMT DEF IsWritten
<1> QED  BY <1>1, <1>2, SMT

-------------------------------------------------------------------------------
(***************************************************************************)
(* What F_formatter writes: the format string "{:09}", step by step.       *)
(***************************************************************************)
NineDigits == <<"{", ":", "0", "9", "}">>

Nanos(n) == <<[type |-> "int", value |-> n, chars |-> <<>>, name |-> <<>>]>>

Reading(it, next_arg_id, arg, specs, out, bad) ==
  [it |-> it, next_arg_id |-> next_arg_id, arg |-> arg, specs |-> specs, out |-> out, bad |-> bad]

Specs(fill, align, sign, hash, width, precision, type) ==
  [fill |-> fill, align |-> align, sign |-> sign, hash |-> hash, width |-> width, precision |-> precision,
   type |-> type]

WithIt(st, x) == [st EXCEPT !.it = x]
WithNext(st, x) == [st EXCEPT !.next_arg_id = x]
WithArg(st, x) == [st EXCEPT !.arg = x]
WithSpecs(st, x) == [st EXCEPT !.specs = x]
WithOut(st, x) == [st EXCEPT !.out = x]
WithFill(specs, x) == [specs EXCEPT !.fill = x]
WithAlign(specs, x) == [specs EXCEPT !.align = x]
WithWidth(specs, x) == [specs EXCEPT !.width = x]

(* What is in such records, and what EXCEPT makes of them.                 *)
LEMMA ReadingHas ==
  ASSUME NEW i, NEW n, NEW a, NEW s, NEW o, NEW b
  PROVE  /\ Reading(i, n, a, s, o, b).it = i /\ Reading(i, n, a, s, o, b).next_arg_id = n
         /\ Reading(i, n, a, s, o, b).arg = a /\ Reading(i, n, a, s, o, b).specs = s
         /\ Reading(i, n, a, s, o, b).out = o /\ Reading(i, n, a, s, o, b).bad = b
BY DEF Reading

LEMMA PutIt ==
  ASSUME NEW i, NEW n, NEW a, NEW s, NEW o, NEW b, NEW x
  PROVE  WithIt(Reading(i, n, a, s, o, b), x) = Reading(x, n, a, s, o, b)
BY DEF Reading, WithIt

LEMMA PutNext ==
  ASSUME NEW i, NEW n, NEW a, NEW s, NEW o, NEW b, NEW x
  PROVE  WithNext(Reading(i, n, a, s, o, b), x) = Reading(i, x, a, s, o, b)
BY DEF Reading, WithNext

LEMMA PutArg ==
  ASSUME NEW i, NEW n, NEW a, NEW s, NEW o, NEW b, NEW x
  PROVE  WithArg(Reading(i, n, a, s, o, b), x) = Reading(i, n, x, s, o, b)
BY DEF Reading, WithArg

LEMMA PutSpecs ==
  ASSUME NEW i, NEW n, NEW a, NEW s, NEW o, NEW b, NEW x
  PROVE  WithSpecs(Reading(i, n, a, s, o, b), x) = Reading(i, n, a, x, o, b)
BY DEF Reading, WithSpecs

LEMMA PutOut ==
  ASSUME NEW i, NEW n, NEW a, NEW s, NEW o, NEW b, NEW x
  PROVE  WithOut(Reading(i, n, a, s, o, b), x) = Reading(i, n, a, s, x, b)
BY DEF Reading, WithOut

LEMMA SpecsHave ==
  ASSUME NEW f, NEW a, NEW g, NEW h, NEW w, NEW p, NEW t
  PROVE  /\ Specs(f, a, g, h, w, p, t).fill = f /\ Specs(f, a, g, h, w, p, t).align = a
         /\ Specs(f, a, g, h, w, p, t).sign = g /\ Specs(f, a, g, h, w, p, t).hash = h
         /\ Specs(f, a, g, h, w, p, t).width = w /\ Specs(f, a, g, h, w, p, t).precision = p
         /\ Specs(f, a, g, h, w, p, t).type = t
BY DEF Specs

LEMMA PutFill ==
  ASSUME NEW f, NEW a, NEW g, NEW h, NEW w, NEW p, NEW t, NEW x
  PROVE  WithFill(Specs(f, a, g, h, w, p, t), x) = Specs(x, a, g, h, w, p, t)
BY DEF Specs, WithFill

LEMMA PutAlign ==
  ASSUME NEW f, NEW a, NEW g, NEW h, NEW w, NEW p, NEW t, NEW x
  PROVE  WithAlign(Specs(f, a, g, h, w, p, t), x) = Specs(f, x, g, h, w, p, t)
BY DEF Specs, WithAlign

LEMMA PutWidth ==
  ASSUME NEW f, NEW a, NEW g, NEW h, NEW w, NEW p, NEW t, NEW x
  PROVE  WithWidth(Specs(f, a, g, h, w, p, t), x) = Specs(f, a, g, h, x, p, t)
BY DEF Specs, WithWidth

(* The specs along the way; constants by names, which hide what they are   *)
(* from the provers.                                                       *)
No == FALSE
None_ == -1
Space == " "
Zero_ == "0"
Equal_ == "="
Empty_ == ""

Specs0 == Specs(Space, Empty_, Empty_, No, 0, None_, Empty_)
Specs1 == Specs(Zero_, Equal_, Empty_, No, 0, None_, Empty_)
Specs2 == Specs(Zero_, Equal_, Empty_, No, 9, None_, Empty_)

(* Where it begins.                                                        *)
LEMMA BeginIs ==
  Begin = Reading(1, 0, 0, Specs0, Nothing, No)
BY DEF Begin, Reading, DefaultSpecs, Specs, Specs0, No, None_, Space, Empty_

LEMMA NineDigitsHas ==
  /\ Len(NineDigits) = 5 /\ NineDigits[1] = "{" /\ NineDigits[4] = "9" /\ NineDigits[5] = "}"
  /\ At(NineDigits, 2) = ":" /\ At(NineDigits, 3) = "0" /\ At(NineDigits, 4) = "9"
  /\ At(NineDigits, 5) = "}"
<1> DEFINE s == NineDigits
<1>1. Len(s) = 5 /\ s[1] = "{" /\ s[2] = ":" /\ s[3] = "0" /\ s[4] = "9" /\ s[5] = "}"
  BY DEF NineDigits
<1> HIDE DEF s
<1>2. At(s, 2) = ":" /\ At(s, 3) = "0" /\ At(s, 4) = "9" /\ At(s, 5) = "}"
  <2>1. 2 \in 1..5 /\ 3 \in 1..5 /\ 4 \in 1..5 /\ 5 \in 1..5
    OBVIOUS
  <2>2. At(s, 2) = ":" /\ At(s, 3) = "0"
    BY <1>1, <2>1, Zenon DEF At
  <2>3. At(s, 4) = "9" /\ At(s, 5) = "}"
    BY <1>1, <2>1, Zenon DEF At
  <2> QED  BY <2>2, <2>3
<1> QED  BY <1>1, <1>2 DEF s

LEMMA NineDigitsIsSeq ==
  \E S : NineDigits \in Seq(S)
<1>1. NineDigits \in Seq({"{", ":", "0", "9", "}"})
  BY DEF NineDigits
<1> QED  BY <1>1

(* No text is before the field.                                            *)
LEMMA NoTextIs ==
  on_text(<<>>, Begin) = Begin
<1> DEFINE Is_(f) == f = [i \in 1..(Len(<<>>) + 2) |->
                           CASE i > Len(<<>>) -> <<>>
                             [] i <= Len(<<>>) /\ <<>>[i] # "}" -> <<<<>>[i]>> \o f[i + 1]
                             [] OTHER -> <<"}">> \o f[i + 2]]
           from == CHOOSE f : Is_(f)
<1>1. Len(<<>>) = 0 /\ 0 + 2 = 2 /\ \A i \in 1..2 : i > 0
  OBVIOUS
<1>2. \A f : Is_(f) <=> f = [i \in 1..2 |-> <<>>]
  BY <1>1
<1>3. Is_(from)
  BY <1>2
<1>4. from[1] = <<>>
  <2>1. 1 \in 1..2
    OBVIOUS
  <2> HIDE DEF from, Is_
  <2> QED  BY <1>2, <1>3, <2>1
<1> HIDE DEF from, Is_
<1>5. Begin.it = 1 /\ Begin.out = Nothing /\ Put(Nothing, Wrote(0, <<>>)) = Nothing
  <2>1. <<>> \o <<>> = <<>>
    OBVIOUS
  <2> QED  BY <2>1 DEF Begin, Nothing, Put, Wrote
<1>6. \A i \in {k \in 1..Len(<<>>) : <<>>[k] = "}"} : FALSE
  <2>1. 1..0 = {}
    OBVIOUS
  <2> QED  BY <1>1, <2>1
<1>7. [Begin EXCEPT !.out = Put(@, Wrote(Len(<<>>), <<>>)), !.it = @ + Len(<<>>)] = Begin
  <2> DEFINE o == Put(Begin.out, Wrote(Len(<<>>), <<>>))
             j == Begin.it + Len(<<>>)
  <2>1. o = Nothing /\ j = 1
    BY <1>1, <1>5
  <2>2. WithOut(Begin, Nothing) = Begin
    <3>1. WithOut(Reading(1, 0, 0, Specs0, Nothing, No), Nothing) = Reading(1, 0, 0, Specs0, Nothing, No)
      BY PutOut
    <3> QED  BY <3>1, BeginIs, Zenon
  <2>3. WithIt(Begin, 1) = Begin
    <3>1. WithIt(Reading(1, 0, 0, Specs0, Nothing, No), 1) = Reading(1, 0, 0, Specs0, Nothing, No)
      BY PutIt
    <3> QED  BY <3>1, BeginIs, Zenon
  <2>4. WithIt(WithOut(Begin, o), j) = Begin
    BY <2>1, <2>2, <2>3, Zenon
  <2> QED  BY <2>4 DEF WithIt, WithOut
<1>8. on_text(<<>>, Begin) =
        Require([Begin EXCEPT !.out = Put(@, Wrote(Len(from[1]), from[1])), !.it = @ + Len(<<>>)],
                \A i \in {k \in 1..Len(<<>>) : <<>>[k] = "}"} :
                   i - 1 \notin {k \in 1..Len(<<>>) : <<>>[k] = "}"} =>
                     (Behind(<<>>, i, {"}"}) - i) % 2 = 0)
  BY DEF on_text, from, Is_
<1> QED  BY <1>4, <1>6, <1>7, <1>8 DEF Require

(* The first field starts with the number of the first argument.           *)
LEMMA NextArgIs ==
  ASSUME NEW v, NEW s, NEW o, NEW b
  PROVE  parse_arg_id(NineDigits, Nanos(v), Reading(2, 0, 0, s, o, b)) = Reading(2, 1, 1, s, o, b)
<1> DEFINE st == Reading(2, 0, 0, s, o, b)
           st2 == Reading(2, 1, 0, s, o, b)
<1>1. st.it = 2 /\ st.next_arg_id = 0
  BY ReadingHas
<1>2. WithNext(st, 1) = st2
  BY PutNext
<1>21. WithArg(st2, 1) = Reading(2, 1, 1, s, o, b)
  BY PutArg
<1> HIDE DEF st, st2
<1>3. parse_arg_id(NineDigits, Nanos(v), st) = next_arg(Nanos(v), st)
  <2>1. At(NineDigits, st.it) \in {"}", ":"}
    BY <1>1, NineDigitsHas
  <2>2. At(NineDigits, st.it) \notin Digit
    BY <1>1, NineDigitsHas DEF Digit
  <2>3. At(NineDigits, st.it) \notin NameStart
    BY <1>1, NineDigitsHas DEF NameStart
  <2> HIDE DEF st
  <2> QED  BY <2>1, <2>2, <2>3 DEF parse_arg_id
<1>4. next_arg(Nanos(v), st) = do_get_arg(Nanos(v), st2, 0)
  <2>1. ~(st.next_arg_id < 0) /\ st.next_arg_id + 1 = 1
    BY <1>1
  <2> QED  BY <1>1, <1>2, <2>1, Zenon DEF next_arg, WithNext
<1>5. do_get_arg(Nanos(v), st2, 0) = Reading(2, 1, 1, s, o, b)
  <2>1. 0 < Len(Nanos(v)) /\ 0 + 1 = 1
    BY DEF Nanos
  <2> QED  BY <1>21, <2>1, Zenon DEF do_get_arg, Require, WithArg
<1> QED  BY <1>3, <1>4, <1>5 DEF st

-------------------------------------------------------------------------------
(* Its specs, read part by part.                                           *)
LEMMA NoIs ==
  No = FALSE
BY DEF No

LEMMA RequireIs ==
  ASSUME NEW st, NEW c, c
  PROVE  Require(st, c) = st
BY DEF Require

LEMMA IsNumeric ==
  ASSUME NEW v, NEW st
  PROVE  /\ require_numeric_argument(Nanos(v)[1], st) = st
         /\ Nanos(v)[1].type = "int" /\ Nanos(v)[1].value = v
<1>1. Nanos(v)[1].type = "int" /\ Nanos(v)[1].value = v
  BY DEF Nanos
<1>2. "int" \in Arithmetic
  BY DEF Arithmetic, Integral
<1> QED  BY <1>1, <1>2 DEF require_numeric_argument, Require

LEMMA NoAlignIs ==
  ASSUME NEW arg, NEW st, st.it = 3
  PROVE  parse_align(NineDigits, arg, st) = st
<1>1. At(NineDigits, st.it) = "0" /\ At(NineDigits, st.it + 1) = "9"
  <2>1. st.it + 1 = 4
    OBVIOUS
  <2> QED  BY <2>1, NineDigitsHas
<1>2. "0" \notin Align /\ "9" \notin Align
  BY DEF Align
<1> QED  BY <1>1, <1>2 DEF parse_align

LEMMA NoSignIs ==
  ASSUME NEW arg, NEW st, st.it = 3
  PROVE  parse_sign(NineDigits, arg, st) = st
<1>1. At(NineDigits, st.it) \notin {"+", "-", " "}
  BY NineDigitsHas
<1> QED  BY <1>1 DEF parse_sign

LEMMA NoHashIs ==
  ASSUME NEW arg, NEW st, st.it = 3
  PROVE  parse_hash(NineDigits, arg, st) = st
<1>1. At(NineDigits, st.it) # "#"
  BY NineDigitsHas
<1> QED  BY <1>1 DEF parse_hash

LEMMA ZeroIsRead ==
  ASSUME NEW v, NEW o
  PROVE  parse_zero(NineDigits, Nanos(v)[1], Reading(3, 1, 1, Specs0, o, No))
           = Reading(4, 1, 1, Specs1, o, No)
<1> DEFINE st == Reading(3, 1, 1, Specs0, o, No)
<1>1. st.it = 3 /\ st.specs = Specs0
  BY ReadingHas
<1>2. WithFill(WithAlign(Specs0, Equal_), Zero_) = Specs1
  <2>1. WithAlign(Specs0, Equal_) = Specs(Space, Equal_, Empty_, No, 0, None_, Empty_)
    BY PutAlign DEF Specs0
  <2>2. WithFill(Specs(Space, Equal_, Empty_, No, 0, None_, Empty_), Zero_) = Specs1
    BY PutFill DEF Specs1
  <2> QED  BY <2>1, <2>2
<1> DEFINE st1 == WithSpecs(st, WithAlign(st.specs, Equal_))
           st2 == WithSpecs(st1, WithFill(st1.specs, Zero_))
           st3 == WithIt(st2, st2.it + 1)
<1>3. st1 = Reading(3, 1, 1, WithAlign(Specs0, Equal_), o, No)
  BY <1>1, PutSpecs
<1>4. st2 = Reading(3, 1, 1, Specs1, o, No)
  <2>1. st1.specs = WithAlign(Specs0, Equal_)
    BY <1>3, ReadingHas
  <2>2. WithFill(st1.specs, Zero_) = Specs1
    BY <1>2, <2>1
  <2>3. WithSpecs(Reading(3, 1, 1, WithAlign(Specs0, Equal_), o, No), Specs1)
          = Reading(3, 1, 1, Specs1, o, No)
    BY PutSpecs
  <2> HIDE DEF st1
  <2> QED  BY <1>3, <2>2, <2>3
<1>5. st3 = Reading(4, 1, 1, Specs1, o, No)
  <2>1. st2.it + 1 = 4
    BY <1>4, ReadingHas
  <2>2. WithIt(Reading(3, 1, 1, Specs1, o, No), 4) = Reading(4, 1, 1, Specs1, o, No)
    BY PutIt
  <2> HIDE DEF st2
  <2> QED  BY <1>4, <2>1, <2>2
<1>6. At(NineDigits, st.it) = "0"
  BY <1>1, NineDigitsHas
<1>7. [st EXCEPT !.specs.align = "=", !.specs.fill = "0", !.it = @ + 1] = st3
  <2> HIDE DEF st
  <2> QED  BY DEF st3, st2, st1, WithIt, WithSpecs, WithFill, WithAlign, Zero_, Equal_
<1>8. require_numeric_argument(Nanos(v)[1], st3) = st3
  BY IsNumeric
<1>9. parse_zero(NineDigits, Nanos(v)[1], st)
        = require_numeric_argument(Nanos(v)[1],
            [st EXCEPT !.specs.align = "=", !.specs.fill = "0", !.it = @ + 1])
  <2> HIDE DEF st
  <2> QED  BY <1>6, Zenon DEF parse_zero
<1> HIDE DEF st, st3
<1>10. parse_zero(NineDigits, Nanos(v)[1], st) = st3
  BY <1>7, <1>8, <1>9
<1> QED  BY <1>5, <1>10 DEF st

LEMMA WidthEnds ==
  Behind(NineDigits, 4, Digit) = 5
<1> DEFINE s == NineDigits
           j == Behind(s, 4, Digit)
<1>1. Len(s) = 5 /\ s[4] = "9" /\ s[5] = "}"
  BY NineDigitsHas
<1>2. s[4] \in Digit /\ s[5] \notin Digit
  BY <1>1 DEF Digit
<1>3. PICK S : s \in Seq(S)
  BY NineDigitsIsSeq
<1> HIDE DEF s
<1>4. 4 \in 1..(Len(s) + 1)
  <2>1. 4 \in 1..(5 + 1)
    OBVIOUS
  <2> QED  BY <1>1, <2>1, Zenon
<1>5. /\ j \in 4..(Len(s) + 1) /\ (\A k \in 4..(j - 1) : s[k] \in Digit)
      /\ j <= Len(s) => s[j] \notin Digit
  <2>1. \A i \in 1..(Len(s) + 1) :
          /\ Behind(s, i, Digit) \in i..(Len(s) + 1)
          /\ \A k \in i..(Behind(s, i, Digit) - 1) : s[k] \in Digit
          /\ Behind(s, i, Digit) <= Len(s) => s[Behind(s, i, Digit)] \notin Digit
    BY <1>3, BehindIs
  <2> QED  BY <1>4, <2>1, Zenon
<1> HIDE DEF j
<1>51. j \in 4..(5 + 1) /\ (j <= 5 => s[j] \notin Digit)
  BY <1>1, <1>5, Zenon
<1>6. j = 4 \/ j = 5 \/ j = 6
  BY <1>51
<1>7. j # 4
  <2>1. ASSUME j = 4  PROVE FALSE
    <3>1. 4 <= 5
      OBVIOUS
    <3> QED  BY <1>2, <1>51, <2>1, <3>1, Zenon
  <2> QED  BY <2>1
<1>8. j # 6
  <2>1. ASSUME j = 6  PROVE FALSE
    <3>1. 5 \in 4..(j - 1)
      BY <2>1
    <3> QED  BY <1>2, <1>5, <3>1
  <2> QED  BY <2>1
<1> QED  BY <1>6, <1>7, <1>8 DEF j, s

LEMMA WidthIs ==
  parse_nonnegative_int(NineDigits, 4) = 9
<1> DEFINE Is_(f) == f = [k \in 4..5 |->
                           IF k = 4 THEN 0
                           ELSE IF f[k - 1] > MaxInt \div 10 THEN MaxInt + 1
                           ELSE 10 * f[k - 1] + digit_value[NineDigits[k - 1]]]
           value == CHOOSE f : Is_(f)
           g == [k \in 4..5 |-> IF k = 4 THEN 0 ELSE 9]
<1>1. parse_nonnegative_int(NineDigits, 4) = value[5]
  BY WidthEnds, Zenon DEF parse_nonnegative_int
<1>2. digit_value[NineDigits[5 - 1]] = 9
  <2>1. NineDigits[5 - 1] = "9" /\ DigitChar[9 + 1] = "9"
    <3>1. 5 - 1 = 4 /\ 9 + 1 = 10
      OBVIOUS
    <3>2. DigitChar[10] = "9"
      BY DEF DigitChar
    <3> QED  BY <3>1, <3>2, NineDigitsHas
  <2>2. 9 \in 0..9
    OBVIOUS
  <2> QED  BY <2>1, <2>2, DigitCharIs
<1>3. ~(0 > MaxInt \div 10)
  BY MaxIntAssumption
<1>4. Is_(g)
  <2>1. g[5 - 1] = 0
    OBVIOUS
  <2>2. \A k \in 4..5 : g[k] = IF k = 4 THEN 0
                                ELSE IF g[k - 1] > MaxInt \div 10 THEN MaxInt + 1
                                ELSE 10 * g[k - 1] + digit_value[NineDigits[k - 1]]
    <3> SUFFICES ASSUME NEW k \in 4..5
                 PROVE  g[k] = IF k = 4 THEN 0
                               ELSE IF g[k - 1] > MaxInt \div 10 THEN MaxInt + 1
                               ELSE 10 * g[k - 1] + digit_value[NineDigits[k - 1]]
      OBVIOUS
    <3>1. CASE k = 4
      BY <3>1
    <3>2. CASE k = 5
      <4>1. g[k] = 9 /\ 10 * 0 + 9 = 9 /\ k # 4
        BY <3>2
      <4> HIDE DEF g
      <4> QED  BY <1>2, <1>3, <2>1, <3>2, <4>1
    <3> QED  BY <3>1, <3>2
  <2>3. g = [k \in 4..5 |-> g[k]]
    OBVIOUS
  <2> HIDE DEF g
  <2> QED  BY <2>2, <2>3
<1>5. Is_(value)
  <2> HIDE DEF Is_, g
  <2> QED  BY <1>4
<1>6. value[4] = 0
  <2>1. 4 \in 4..5
    OBVIOUS
  <2> HIDE DEF value
  <2> QED  BY <1>5, <2>1
<1>7. value[5] = 9
  <2>1. 5 \in 4..5 /\ 5 # 4 /\ 5 - 1 = 4 /\ 10 * 0 + 9 = 9
    OBVIOUS
  <2> HIDE DEF value
  <2> QED  BY <1>2, <1>3, <1>5, <1>6, <2>1
<1> QED  BY <1>1, <1>7

LEMMA WidthIsRead ==
  ASSUME NEW args, NEW o
  PROVE  parse_width(NineDigits, args, Reading(4, 1, 1, Specs1, o, No)) = Reading(5, 1, 1, Specs2, o, No)
<1> DEFINE st == Reading(4, 1, 1, Specs1, o, No)
           st1 == WithIt(st, Behind(NineDigits, st.it, Digit))
           st2 == WithSpecs(st1, WithWidth(st1.specs, 9))
<1>1. st.it = 4
  BY ReadingHas
<1>2. st1 = Reading(5, 1, 1, Specs1, o, No)
  <2>1. WithIt(st, 5) = Reading(5, 1, 1, Specs1, o, No)
    BY PutIt
  <2> HIDE DEF st
  <2> QED  BY <1>1, <2>1, WidthEnds
<1>3. WithWidth(Specs1, 9) = Specs2
  BY PutWidth DEF Specs1, Specs2
<1>4. st2 = Reading(5, 1, 1, Specs2, o, No)
  <2>1. st1.specs = Specs1
    BY <1>2, ReadingHas
  <2>2. WithSpecs(Reading(5, 1, 1, Specs1, o, No), Specs2) = Reading(5, 1, 1, Specs2, o, No)
    BY PutSpecs
  <2> HIDE DEF st1
  <2> QED  BY <1>2, <1>3, <2>1, <2>2
<1> DEFINE count == Count(NineDigits, args, st)
<1> HIDE DEF st
<1>5. At(NineDigits, st.it) = "9" /\ "9" \in Digit
  BY <1>1, NineDigitsHas DEF Digit
<1>6. count = [st |-> st1, value |-> 9]
  <2>1. 9 <= MaxInt
    BY MaxIntAssumption
  <2>2. [st EXCEPT !.it = Behind(NineDigits, @, Digit)] = st1
    BY DEF WithIt
  <2>3. Require(st1, 9 <= MaxInt) = st1
    BY <2>1, RequireIs
  <2>4. At(NineDigits, st.it) # "{"
    BY <1>5
  <2> HIDE DEF st1
  <2> QED  BY <1>1, <2>2, <2>3, <2>4, WidthIs, Zenon DEF Count
<1>7. parse_width(NineDigits, args, st) = on_width(count)
  BY <1>5, Zenon DEF parse_width
<1>8. on_width([st |-> st1, value |-> 9]) = st2
  <2>1. [st |-> st1, value |-> 9].st = st1 /\ [st |-> st1, value |-> 9].value = 9
    OBVIOUS
  <2> HIDE DEF st1
  <2>2. on_width([st |-> st1, value |-> 9]) = [st1 EXCEPT !.specs.width = 9]
    BY <2>1, Zenon DEF on_width
  <2>3. [st1 EXCEPT !.specs.width = 9] = st2
    BY DEF WithSpecs, WithWidth
  <2> QED  BY <2>2, <2>3
<1> QED  BY <1>4, <1>6, <1>7, <1>8 DEF st

LEMMA SpecsAreRead ==
  ASSUME NEW v, NEW o
  PROVE  parse_format_specs(NineDigits, Nanos(v), Reading(3, 1, 1, Specs0, o, No))
           = Reading(5, 1, 1, Specs2, o, No)
<1> DEFINE s == NineDigits
           args == Nanos(v)
           st == Reading(3, 1, 1, Specs0, o, No)
           st4 == Reading(4, 1, 1, Specs1, o, No)
           st5 == Reading(5, 1, 1, Specs2, o, No)
<1>1. st.it = 3 /\ st.arg = 1 /\ st5.it = 5 /\ st5.bad = No
  BY ReadingHas
<1>2. parse_zero(s, args[1], st) = st4
  BY ZeroIsRead
<1>3. parse_width(s, args, st4) = st5
  BY WidthIsRead
<1> HIDE DEF st, st4, st5
<1>4. parse_align(s, args[1], st) = st /\ parse_sign(s, args[1], st) = st /\ parse_hash(s, args[1], st) = st
  BY <1>1, NoAlignIs, NoSignIs, NoHashIs
<1>5. parse_precision(s, args, st5) = st5
  <2>1. At(s, st5.it) # "."
    BY <1>1, NineDigitsHas
  <2> QED  BY <2>1, Zenon DEF parse_precision
<1>6. parse_type(s, st5) = st5
  <2>1. At(s, st5.it) \in {"}", "NUL"}
    BY <1>1, NineDigitsHas
  <2> QED  BY <2>1, Zenon DEF parse_type
<1>7. At(s, st.it) \notin {"}", "NUL"}
  BY <1>1, NineDigitsHas
<1> HIDE DEF s, args
<1>8. parse_format_specs(s, args, st) =
        parse_type(s, parse_precision(s, args, parse_width(s, args, parse_zero(s, args[1],
          parse_hash(s, args[1], parse_sign(s, args[1], parse_align(s, args[1], st)))))))
  BY <1>1, <1>7, Zenon DEF parse_format_specs
<1>9. parse_format_specs(s, args, st) = st5
  BY <1>2, <1>3, <1>4, <1>5, <1>6, <1>8, Zenon
<1> QED  BY <1>9 DEF s, args, st, st5

(* What is written: the digits, and the zeros before them.                 *)
ZerosFor(v) == Fill(9 - Len(append_int(v)), "0")

LEMMA Specs2Is ==
  /\ Specs2.fill = "0" /\ Specs2.align = "=" /\ Specs2.sign = "" /\ ~Specs2.hash /\ Specs2.width = 9
  /\ Specs2.type = ""
<1>1. /\ Specs2.fill = Zero_ /\ Specs2.align = Equal_ /\ Specs2.sign = Empty_ /\ Specs2.hash = No
      /\ Specs2.width = 9 /\ Specs2.type = Empty_
  BY SpecsHave DEF Specs2
<1> QED  BY <1>1, NoIs DEF Zero_, Equal_, Empty_

LEMMA FillOfNone ==
  Fill(0, "0") = <<>>
BY DEF Fill

LEMMA IntIsWritten ==
  ASSUME NEW v \in Nat, Len(append_int(v)) <= 9
  PROVE  int_writer(v, Specs2).chars = (<<>> \o ZerosFor(v)) \o append_int(v)
<1> DEFINE l == Len(append_int(v))
           d == append_int(v)
<1>1. l \in Nat /\ l <= 9 /\ count_digits(v, 10) = l /\ d \in Seq(Symbols)
  BY DecimalIs DEF IsDecimal, AllDigits
<1>2. format_uint(v, 10, DigitChar) = d
  BY DEF append_int
<1> HIDE DEF d, l
<1>3. ~(v < 0)
  OBVIOUS
<1>4. Sign(FALSE, Specs2) = <<>>
  <2>1. Specs2.sign \notin {"+", " "}
    BY Specs2Is
  <2> QED  BY <2>1 DEF Sign
<1>5. write_int(l, <<>>, Specs2, d).chars = (<<>> \o Fill(9 - l, "0")) \o d
  <2> DEFINE size == Len(<<>>) + l
             p == IF Specs2.width > size THEN Specs2.width - size ELSE 0
             chars == (<<>> \o Fill(p, "0")) \o d
  <2>1. size = l /\ 9 - l >= 0
    BY <1>1
  <2>21. Specs2.width = 9
    BY Specs2Is
  <2>22. p = IF 9 > l THEN 9 - l ELSE 0
    BY <2>1, <2>21, Zenon
  <2> HIDE DEF p
  <2>23. p = 9 - l
    BY <1>1, <2>22
  <2>2. Specs2.width = 9 /\ p = 9 - l
    BY <2>21, <2>23
  <2>3. size + p = 9
    BY <1>1, <2>1, <2>2
  <2>4. OrRight(Specs2) = Specs2
    BY Specs2Is DEF OrRight
  <2> HIDE DEF size
  <2>5. write_int(l, <<>>, Specs2, d) = write_padded(size + p, OrRight(Specs2), chars)
    BY Specs2Is DEF write_int, size, p
  <2> HIDE DEF chars
  <2>6. write_padded(9, Specs2, chars) = Wrote(9, chars)
    <3>1. Specs2.width <= 9
      BY <2>2
    <3> QED  BY <3>1, Zenon DEF write_padded
  <2>7. write_int(l, <<>>, Specs2, d).chars = chars
    BY <2>3, <2>4, <2>5, <2>6 DEF Wrote
  <2> QED  BY <2>2, <2>7 DEF chars
<1>6. int_writer(v, Specs2) = write_int(l, <<>> \o <<>>, Specs2, d)
  <2>1. Specs2.type \notin {"x", "X"} /\ Specs2.type \notin {"b", "B"} /\ Specs2.type # "o"
        /\ Specs2.type # "n" /\ ~Specs2.hash
    BY Specs2Is
  <2>2. (v < 0) = FALSE
    BY <1>3
  <2> QED  BY <1>1, <1>2, <1>3, <1>4, <2>1, <2>2 DEF int_writer
<1>7. <<>> \o <<>> = <<>>
  OBVIOUS
<1>8. int_writer(v, Specs2).chars = (<<>> \o Fill(9 - l, "0")) \o d
  BY <1>5, <1>6, <1>7
<1> QED  BY <1>8 DEF ZerosFor, l, d

LEMMA ArgIsWritten ==
  ASSUME NEW v
  PROVE  arg_formatter(Nanos(v)[1], Specs2) = int_writer(v, Specs2)
<1> DEFINE arg == Nanos(v)[1]
<1>1. arg.type = "int" /\ arg.value = v
  BY IsNumeric
<1> HIDE DEF arg
<1> QED  BY <1>1 DEF arg_formatter, arg

LEMMA FieldIsRead ==
  ASSUME NEW v
  PROVE  /\ Field(NineDigits, Nanos(v), Reading(2, 0, 0, Specs0, Nothing, No)).out
              = Put(Nothing, int_writer(v, Specs2))
         /\ Field(NineDigits, Nanos(v), Reading(2, 0, 0, Specs0, Nothing, No)).it = 6
         /\ Field(NineDigits, Nanos(v), Reading(2, 0, 0, Specs0, Nothing, No)).bad = FALSE
<1> DEFINE s == NineDigits
           args == Nanos(v)
           st == Reading(2, 1, 1, Specs0, Nothing, No)
           st3 == Reading(3, 1, 1, Specs0, Nothing, No)
           st5 == Reading(5, 1, 1, Specs2, Nothing, No)
<1>1. parse_arg_id(s, args, Reading(2, 0, 0, Specs0, Nothing, No)) = st
  BY NextArgIs
<1>2. st.it = 2 /\ st.bad = FALSE
  BY ReadingHas, NoIs
<1>3. WithIt(st, st.it + 1) = st3
  <2>1. WithIt(st, 3) = st3
    BY PutIt
  <2>2. st.it + 1 = 3
    BY <1>2
  <2> HIDE DEF st, st3
  <2> QED  BY <2>1, <2>2
<1>4. parse_format_specs(s, args, st3) = st5
  BY SpecsAreRead
<1>5. st5.it = 5 /\ st5.bad = FALSE /\ st5.arg = 1 /\ st5.specs = Specs2 /\ st5.out = Nothing
  BY ReadingHas, NoIs
<1> HIDE DEF st, st3, st5
<1>6. EndsAtBrace(s, st5) = st5
  <2>1. At(s, st5.it) = "}"
    BY <1>5, NineDigitsHas
  <2> QED  BY <2>1 DEF EndsAtBrace, Require
<1> DEFINE after == on_replacement_field(args, st5)
<1>7. AfterArgId(s, args, st) = after
  <2>1. At(s, st.it) = ":"
    BY <1>2, NineDigitsHas
  <2>2. At(s, st.it) \in {"}", ":"} /\ At(s, st.it) # "}"
    BY <2>1
  <2>3. AfterArgId(s, args, st)
          = on_replacement_field(args,
              EndsAtBrace(s, parse_format_specs(s, args, WithIt(st, st.it + 1))))
    BY <1>2, <2>2, Zenon DEF AfterArgId, WithIt
  <2> QED  BY <1>3, <1>4, <1>6, <2>3, Zenon
<1>8. Field(s, args, Reading(2, 0, 0, Specs0, Nothing, No)) = after
  BY <1>1, <1>7, Zenon DEF Field
<1>9. Takes(args[st5.arg], st5.specs)
  <2>1. args[1].type = "int"
    BY IsNumeric
  <2>2. Specs2.type \in IntTypes
    BY Specs2Is DEF IntTypes
  <2> HIDE DEF args
  <2> QED  BY <1>5, <2>1, <2>2 DEF Takes
<1> DEFINE o == Put(st5.out, arg_formatter(args[st5.arg], st5.specs))
<1>10. after = [[[st5 EXCEPT !.out = o] EXCEPT !.it = st5.it + 1] EXCEPT !.specs = DefaultSpecs]
  BY <1>5, <1>9, Zenon DEF on_replacement_field
<1>11. o = Put(Nothing, int_writer(v, Specs2))
  BY <1>5, ArgIsWritten
<1> HIDE DEF after, o
<1>12. after.out = o /\ after.it = st5.it + 1 /\ after.bad = FALSE
  <2>1. DOMAIN st5 = {"it", "next_arg_id", "arg", "specs", "out", "bad"}
    BY DEF st5, Reading
  <2> QED  BY <1>5, <1>10, <2>1
<1>13. after.it = 6
  BY <1>5, <1>12
<1> QED  BY <1>8, <1>11, <1>12, <1>13

(* The first round of the loop reads all of it.                            *)
LEMMA FirstBrace ==
  Behind(NineDigits, 1, Range(NineDigits) \ {"{"}) = 1
<1> DEFINE s == NineDigits
           set == Range(s) \ {"{"}
<1>1. Len(s) = 5 /\ s[1] = "{"
  BY NineDigitsHas
<1>2. PICK S : s \in Seq(S)
  BY NineDigitsIsSeq
<1> HIDE DEF s
<1>3. s[1] \notin set
  BY <1>1, Zenon
<1> HIDE DEF set
<1>4. 1 \in 1..(Len(s) + 1)
  <2>1. 1 \in 1..(5 + 1)
    OBVIOUS
  <2> QED  BY <1>1, <2>1, Zenon
<1> DEFINE j == Behind(s, 1, set)
<1>5. j \in 1..(Len(s) + 1) /\ \A k \in 1..(j - 1) : s[k] \in set
  <2>1. \A i \in 1..(Len(s) + 1) :
          /\ Behind(s, i, set) \in i..(Len(s) + 1)
          /\ \A k \in i..(Behind(s, i, set) - 1) : s[k] \in set
    BY <1>2, BehindIs
  <2> QED  BY <1>4, <2>1, Zenon
<1> HIDE DEF j
<1>6. j \in 1..(5 + 1)
  BY <1>1, <1>5, Zenon
<1>7. j = 1
  <2>1. ASSUME j # 1  PROVE FALSE
    <3>1. 1 \in 1..(j - 1)
      BY <1>6, <2>1
    <3> QED  BY <1>3, <1>5, <3>1, Zenon
  <2> QED  BY <2>1
<1> QED  BY <1>7 DEF j, set, s

LEMMA FirstRound ==
  ASSUME NEW v
  PROVE  Onwards(NineDigits, Nanos(v), Begin) = Field(NineDigits, Nanos(v), Reading(2, 0, 0, Specs0, Nothing, No))
<1> DEFINE s == NineDigits
           args == Nanos(v)
           inside == Reading(2, 0, 0, Specs0, Nothing, No)
           p == Behind(s, Begin.it, Range(s) \ {"{"})
<1>1. Begin.it = 1 /\ Begin.bad = FALSE
  BY DEF Begin
<1>2. p = 1
  BY <1>1, FirstBrace
<1>3. SubSeq(s, Begin.it, p - 1) = <<>>
  <2>1. PICK S : s \in Seq(S)
    BY NineDigitsIsSeq
  <2> HIDE DEF s
  <2>2. \A i \in {1}, k \in {0} : SubSeq(s, i, k) = <<>>
    BY <2>1
  <2>3. 1 - 1 = 0
    OBVIOUS
  <2> QED  BY <1>1, <1>2, <2>2, <2>3
<1>4. on_text(SubSeq(s, Begin.it, p - 1), Begin) = Begin
  BY <1>3, NoTextIs
<1>5. WithIt(Begin, p + 1) = inside
  <2>1. WithIt(Reading(1, 0, 0, Specs0, Nothing, No), 2) = inside
    BY PutIt
  <2> HIDE DEF inside, p
  <2>2. p + 1 = 2
    BY <1>2
  <2> QED  BY <2>1, <2>2, BeginIs, Zenon
<1>6. At(s, p + 1) = ":"
  <2> HIDE DEF p
  <2>1. p + 1 = 2
    BY <1>2
  <2> QED  BY <2>1, NineDigitsHas
<1>7. ~(Begin.bad \/ Begin.it > Len(s)) /\ ~(p > Len(s))
  <2>1. ~(1 > 5)
    OBVIOUS
  <2> HIDE DEF p, s
  <2> QED  BY <1>1, <1>2, <2>1, NineDigitsHas, Zenon DEF s
<1>8. At(s, p + 1) # "NUL" /\ At(s, p + 1) # "{"
  <2> HIDE DEF p, s
  <2> QED  BY <1>6
<1> HIDE DEF s, args, inside
<1>9. Onwards(s, args, Begin) = Field(s, args, WithIt(Begin, p + 1))
  <2>1. Onwards(s, args, Begin) =
          LET st1 == on_text(SubSeq(s, Begin.it, p - 1), Begin)
              in == [st1 EXCEPT !.it = p + 1]
          IN  CASE Begin.bad \/ Begin.it > Len(s) -> Begin
                [] ~(Begin.bad \/ Begin.it > Len(s)) /\ p > Len(s) -> st1
                [] OTHER ->
                     CASE At(s, p + 1) = "NUL" -> on_error(in)
                       [] At(s, p + 1) = "{" -> [in EXCEPT !.out = Put(@, Wrote(1, <<"{">>)), !.it = @ + 1]
                       [] OTHER -> IF st1.bad THEN st1 ELSE Field(s, args, in)
    BY Zenon DEF Onwards
  <2> DEFINE st1 == on_text(SubSeq(s, Begin.it, p - 1), Begin)
             other == [WithIt(st1, p + 1) EXCEPT !.out = Put(@, Wrote(1, <<"{">>)), !.it = @ + 1]
  <2>2. Onwards(s, args, Begin) =
          CASE Begin.bad \/ Begin.it > Len(s) -> Begin
            [] ~(Begin.bad \/ Begin.it > Len(s)) /\ p > Len(s) -> st1
            [] OTHER ->
                 CASE At(s, p + 1) = "NUL" -> on_error(WithIt(st1, p + 1))
                   [] At(s, p + 1) = "{" -> other
                   [] OTHER -> IF st1.bad THEN st1 ELSE Field(s, args, WithIt(st1, p + 1))
    BY <2>1, Zenon DEF WithIt
  <2>3. st1 = Begin
    BY <1>4
  <2> HIDE DEF st1, other, p
  <2> QED  BY <1>1, <1>7, <1>8, <2>2, <2>3
<1> QED  BY <1>5, <1>9 DEF s, args, inside

LEMMA NanosAreWritten ==
  ASSUME NEW v \in Nat, Len(append_int(v)) <= 9
  PROVE  vformat_to(NineDigits, Nanos(v)).out.chars = (<<>> \o ZerosFor(v)) \o append_int(v)
<1> DEFINE s == NineDigits
           args == Nanos(v)
           field == Onwards(s, args, Begin)
           Is_(f) == f = [n \in 0..Len(s) |-> IF n = 0 THEN Begin ELSE Onwards(s, args, f[n - 1])]
           after == CHOOSE f : Is_(f)
           g == [n \in 0..5 |-> IF n = 0 THEN Begin ELSE field]
<1>1. /\ field.out = Put(Nothing, int_writer(v, Specs2)) /\ field.it = 6 /\ field.bad = FALSE
  BY FirstRound, FieldIsRead
<1>2. Len(s) = 5
  BY NineDigitsHas
<1>3. vformat_to(s, args) = after[Len(s)]
  BY Zenon DEF vformat_to, parse_format_string
<1> HIDE DEF s, args
<1>4. Onwards(s, args, field) = field
  <2>1. field.it > Len(s)
    BY <1>1, <1>2
  <2> HIDE DEF field
  <2> QED  BY <2>1, Zenon DEF Onwards
<1>5. Is_(g)
  <2>1. \A n \in 0..5 : g[n] = IF n = 0 THEN Begin ELSE Onwards(s, args, g[n - 1])
    <3> SUFFICES ASSUME NEW n \in 0..5
                 PROVE  g[n] = IF n = 0 THEN Begin ELSE Onwards(s, args, g[n - 1])
      OBVIOUS
    <3>1. CASE n = 0
      BY <3>1
    <3>2. CASE n # 0
      <4>1. g[n] = field /\ n - 1 \in 0..5
        BY <3>2
      <4>2. g[n - 1] = Begin \/ g[n - 1] = field
        BY <4>1
      <4> HIDE DEF g
      <4>3. Onwards(s, args, g[n - 1]) = field
        <5>1. CASE g[n - 1] = Begin
          BY <5>1
        <5>2. CASE g[n - 1] = field
          <6> HIDE DEF field
          <6> QED  BY <1>4, <5>2
        <5> QED  BY <4>2, <5>1, <5>2
      <4> QED  BY <3>2, <4>1, <4>3
    <3> QED  BY <3>1, <3>2
  <2>2. g = [n \in 0..5 |-> g[n]]
    OBVIOUS
  <2> HIDE DEF g
  <2> QED  BY <1>2, <2>1, <2>2
<1>6. Is_(after)
  <2> HIDE DEF Is_, g
  <2> QED  BY <1>5
<1>7. after[5] = field
  <2>1. /\ 0 \in 0..5 /\ 1 \in 0..5 /\ 2 \in 0..5 /\ 3 \in 0..5 /\ 4 \in 0..5 /\ 5 \in 0..5
        /\ 1 - 1 = 0 /\ 2 - 1 = 1 /\ 3 - 1 = 2 /\ 4 - 1 = 3 /\ 5 - 1 = 4
    OBVIOUS
  <2> HIDE DEF after
  <2>2. \A n \in 0..5 : after[n] = IF n = 0 THEN Begin ELSE Onwards(s, args, after[n - 1])
    BY <1>2, <1>6
  <2>3. after[0] = Begin /\ after[1] = field
    BY <2>1, <2>2
  <2> HIDE DEF field
  <2>4. after[2] = field
    BY <1>4, <2>1, <2>2, <2>3
  <2>5. after[3] = field
    BY <1>4, <2>1, <2>2, <2>4
  <2>6. after[4] = field
    BY <1>4, <2>1, <2>2, <2>5
  <2> QED  BY <1>4, <2>1, <2>2, <2>6
<1> DEFINE w == int_writer(v, Specs2)
<1>8. w.chars = (<<>> \o ZerosFor(v)) \o append_int(v)
  BY IntIsWritten
<1>9. vformat_to(s, args).out.chars = <<>> \o w.chars
  <2>1. vformat_to(s, args) = field
    BY <1>2, <1>3, <1>7
  <2>2. Put(Nothing, w).chars = <<>> \o w.chars
    BY DEF Put, Nothing
  <2> HIDE DEF field, w
  <2> QED  BY <1>1, <2>1, <2>2 DEF w
<1>10. <<>> \o w.chars = w.chars
  <2>1. append_int(v) \in Seq(Symbols)
    BY DecimalIs DEF IsDecimal, AllDigits
  <2>2. ZerosFor(v) \in Seq(Symbols)
    <3>1. 9 - Len(append_int(v)) \in Int
      BY <2>1
    <3> QED  BY <3>1, ZeroIs, FillIs DEF ZerosFor
  <2>3. w.chars \in Seq(Symbols)
    <3> DEFINE z == ZerosFor(v)
               d == append_int(v)
    <3> HIDE DEF z, d, w
    <3>1. z \in Seq(Symbols) /\ d \in Seq(Symbols) /\ w.chars = (<<>> \o z) \o d
      BY <1>8, <2>1, <2>2 DEF z, d
    <3> QED  BY <3>1
  <2> HIDE DEF w
  <2> QED  BY <2>3
<1> QED  BY <1>8, <1>9, <1>10 DEF s, args

(* F_formatter writes nine digits.                                         *)
LEMMA NineIs ==
  ASSUME NEW v \in Nat, v < 1000000000
  PROVE  IsWritten(v, 9, vformat_to(NineDigits, Nanos(v)).out.chars)
<1> DEFINE d == append_int(v)
           l == Len(d)
<1>2. AllDigits(d) /\ Numeral(d, 10) = v /\ HasDigits(v, l)
  BY DecimalIs, SMT DEF IsDecimal
<1>3. l \in Nat /\ l <= 9
  BY <1>2, SMT DEF HasDigits
<1>4. vformat_to(NineDigits, Nanos(v)).out.chars = (<<>> \o ZerosFor(v)) \o d
  BY <1>3, NanosAreWritten, SMT
<1> HIDE DEF d, l
<1>5. <<>> \o ZerosFor(v) = ZerosFor(v)
  <2>1. 9 - l \in Int
    BY <1>3, SMT
  <2>2. ZerosFor(v) \in Seq(Symbols)
    BY <2>1, ZeroIs, FillIs, SMT DEF ZerosFor, l, d
  <2> QED  BY <2>2, SMT
<1>6. /\ AllDigits(ZerosFor(v) \o d) /\ Numeral(ZerosFor(v) \o d, 10) = Numeral(d, 10)
      /\ Len(ZerosFor(v) \o d) = IF 9 - l > 0 THEN (9 - l) + Len(d) ELSE Len(d)
  <2>1. 9 - l \in Int
    BY <1>3, SMT
  <2>2. ZerosFor(v) = Fill(9 - l, "0")
    BY SMT DEF ZerosFor, l, d
  <2> QED  BY <1>2, <2>1, <2>2, ZerosBefore, SMT
<1>7. Len(ZerosFor(v) \o d) = 9
  <2>1. Len(d) = l
    BY SMT DEF l
  <2> QED  BY <1>3, <1>6, <2>1, SMT
<1> QED  BY <1>2, <1>4, <1>5, <1>6, <1>7, SMT DEF IsWritten

-------------------------------------------------------------------------------
(***************************************************************************)
(* What a flag makes of a message, flag by flag, and that it is a text.    *)
(***************************************************************************)
LEMMA Flags1 ==
  ASSUME NEW msg, NEW tm
  PROVE  /\ Flag("n", msg, tm) = msg.name
         /\ Flag("l", msg, tm) = <<msg.level>>
         /\ Flag("L", msg, tm) = <<msg.short_level>>
         /\ Flag("t", msg, tm) = pad6(msg.thread_id)
         /\ Flag("v", msg, tm) = msg.raw
BY DEF Flag

LEMMA Flags2 ==
  ASSUME NEW msg, NEW tm
  PROVE  /\ Flag("a", msg, tm) = <<days[tm.wday + 1]>>
         /\ Flag("A", msg, tm) = <<full_days[tm.wday + 1]>>
         /\ Flag("b", msg, tm) = <<months[tm.mon + 1]>>
         /\ Flag("h", msg, tm) = <<months[tm.mon + 1]>>
         /\ Flag("B", msg, tm) = <<full_months[tm.mon + 1]>>
BY DEF Flag

LEMMA Flags3 ==
  ASSUME NEW msg, NEW tm
  PROVE  /\ Flag("c", msg, tm) = c_formatter(tm)
         /\ Flag("C", msg, tm) = pad2(tm.year % 100)
         /\ Flag("Y", msg, tm) = append_int(tm.year + 1900)
         /\ Flag("D", msg, tm) = D_formatter(tm)
         /\ Flag("x", msg, tm) = D_formatter(tm)
BY DEF Flag

LEMMA Flags4 ==
  ASSUME NEW msg, NEW tm
  PROVE  /\ Flag("m", msg, tm) = pad2(tm.mon + 1)
         /\ Flag("d", msg, tm) = pad2(tm.mday)
         /\ Flag("H", msg, tm) = pad2(tm.hour)
         /\ Flag("I", msg, tm) = pad2(to12h(tm))
         /\ Flag("M", msg, tm) = pad2(tm.min)
BY DEF Flag

LEMMA Flags5 ==
  ASSUME NEW msg, NEW tm
  PROVE  /\ Flag("S", msg, tm) = pad2(tm.sec)
         /\ Flag("e", msg, tm) = pad3(millis(msg))
         /\ Flag("f", msg, tm) = pad6(micros(msg))
         /\ Flag("F", msg, tm) = F_formatter(msg)
         /\ Flag("E", msg, tm) = append_int(msg.secs)
BY DEF Flag

LEMMA Flags6 ==
  ASSUME NEW msg, NEW tm
  PROVE  /\ Flag("p", msg, tm) = ampm(tm)
         /\ Flag("r", msg, tm) = r_formatter(tm)
         /\ Flag("R", msg, tm) = R_formatter(tm)
         /\ Flag("T", msg, tm) = T_formatter(tm)
         /\ Flag("X", msg, tm) = T_formatter(tm)
BY DEF Flag

LEMMA Flags7 ==
  ASSUME NEW msg, NEW tm
  PROVE  /\ Flag("z", msg, tm) = z_formatter(tm)
         /\ Flag("P", msg, tm) = append_int(msg.pid)
         /\ Flag("i", msg, tm) = pad6(msg.id)
BY DEF Flag

Texts == Seq(Symbols)

(* The two ways to join three of them are one.                             *)
LEMMA TextsJoin ==
  /\ <<>> \in Texts
  /\ \A a, b \in Texts : a \o b \in Texts
  /\ \A a \in Texts : a \o <<>> = a /\ <<>> \o a = a
  /\ \A a, b, c \in Texts : (a \o b) \o c = a \o (b \o c)
<1>1. <<>> \in Seq(Symbols)
  OBVIOUS
<1>2. \A a, b \in Seq(Symbols) : a \o b \in Seq(Symbols)
  BY JoinHas
<1>3. \A a \in Seq(Symbols) : a \o <<>> = a /\ <<>> \o a = a
  OBVIOUS
<1>4. \A a, b, c \in Seq(Symbols) : (a \o b) \o c = a \o (b \o c)
  BY JoinAssociative
<1> QED  BY <1>1, <1>2, <1>3, <1>4, Zenon DEF Texts

LEMMA OneIsText ==
  ASSUME NEW c \in Symbols
  PROVE  <<c>> \in Texts
BY DEF Texts

LEMMA SignsAreTexts ==
  /\ <<":">> \in Texts /\ <<"/">> \in Texts /\ <<" ">> \in Texts /\ <<"-">> \in Texts
  /\ <<"+">> \in Texts /\ <<".">> \in Texts /\ <<"[">> \in Texts /\ <<"]">> \in Texts
  /\ <<"%">> \in Texts /\ <<"AM">> \in Texts /\ <<"PM">> \in Texts
<1>1. \A c \in Signs : <<c>> \in Texts
  <2>1. \A c \in Signs : c \in Symbols
    BY Zenon DEF Symbols
  <2> QED  BY <2>1, OneIsText
<1>2. ":" \in Signs /\ "/" \in Signs /\ " " \in Signs /\ "-" \in Signs
  BY DEF Signs
<1>3. "+" \in Signs /\ "." \in Signs /\ "[" \in Signs /\ "]" \in Signs
  BY DEF Signs
<1>4. "%" \in Signs /\ "AM" \in Signs /\ "PM" \in Signs
  BY DEF Signs
<1> QED  BY <1>1, <1>2, <1>3, <1>4, Zenon

LEMMA NumbersAreTexts ==
  ASSUME NEW n \in Nat
  PROVE  append_int(n) \in Texts /\ pad2(n) \in Texts /\ pad3(n) \in Texts /\ pad6(n) \in Texts
<1>1. \A t : AllDigits(t) => t \in Texts
  BY DEF AllDigits, Texts
<1>2. AllDigits(append_int(n)) /\ AllDigits(pad2(n)) /\ AllDigits(pad3(n)) /\ AllDigits(pad6(n))
  BY DecimalIs, Pad2Is, Pad3Is, Pad6Is, SMT DEF IsDecimal
<1> QED  BY <1>1, <1>2, Zenon

LEMMA NameIsText ==
  ASSUME NEW f, NEW i \in DOMAIN f, f[i] \in Words_
  PROVE  <<f[i]>> \in Texts
<1>1. f[i] \in Symbols
  BY Zenon DEF Symbols
<1> QED  BY <1>1, OneIsText

LEMMA NamesAreTexts ==
  /\ \A w \in 0..6 : <<days[w + 1]>> \in Texts /\ <<full_days[w + 1]>> \in Texts
  /\ \A m \in 0..11 : <<months[m + 1]>> \in Texts /\ <<full_months[m + 1]>> \in Texts
<1>1. DOMAIN days = 1..7 /\ DOMAIN full_days = 1..7
  BY DEF days, full_days
<1>2. DOMAIN months = 1..12 /\ DOMAIN full_months = 1..12
  BY DEF months, full_months
<1>3. \A f : \A i \in DOMAIN f : f[i] \in Range(f)
  BY DEF Range
<1>4. ASSUME NEW w \in 0..6  PROVE <<days[w + 1]>> \in Texts /\ <<full_days[w + 1]>> \in Texts
  <2>1. w + 1 \in 1..7
    OBVIOUS
  <2>2. days[w + 1] \in Words_ /\ full_days[w + 1] \in Words_
    BY <1>1, <1>3, <2>1, Zenon DEF Words_
  <2> QED  BY <1>1, <2>1, <2>2, NameIsText, Zenon
<1>5. ASSUME NEW m \in 0..11  PROVE <<months[m + 1]>> \in Texts /\ <<full_months[m + 1]>> \in Texts
  <2>1. m + 1 \in 1..12
    OBVIOUS
  <2>2. months[m + 1] \in Words_ /\ full_months[m + 1] \in Words_
    BY <1>2, <1>3, <2>1, Zenon DEF Words_
  <2> QED  BY <1>2, <2>1, <2>2, NameIsText, Zenon
<1> QED  BY <1>4, <1>5

LEMMA TimeHas ==
  ASSUME NEW tm \in CalendarTimes
  PROVE  /\ tm.year \in Nat /\ tm.mon \in 0..11 /\ tm.mday \in 1..31 /\ tm.hour \in 0..23 /\ tm.min \in 0..59
         /\ tm.sec \in 0..60 /\ tm.wday \in 0..6 /\ tm.offset \in Int
BY DEF CalendarTimes

LEMMA TimeIs ==
  ASSUME NEW tm \in CalendarTimes
  PROVE  /\ tm.year + 1900 \in Nat /\ tm.year % 100 \in Nat /\ tm.mon + 1 \in Nat /\ tm.mday \in Nat
         /\ tm.hour \in Nat /\ tm.min \in Nat /\ tm.sec \in Nat /\ to12h(tm) \in Nat
<1>1. /\ tm.year \in Nat /\ tm.mon \in Nat /\ tm.mday \in Nat /\ tm.hour \in Nat /\ tm.min \in Nat
      /\ tm.sec \in Nat
  BY TimeHas
<1>2. to12h(tm) \in Nat
  BY <1>1 DEF to12h
<1>3. \A n \in Nat : n + 1900 \in Nat /\ n % 100 \in Nat /\ n + 1 \in Nat
  BY SMT
<1> QED  BY <1>1, <1>2, <1>3, SMT

LEMMA MessageHas ==
  ASSUME NEW msg \in Messages
  PROVE  /\ msg.secs \in Nat \ {0} /\ msg.nanos \in Nat /\ msg.tm \in CalendarTimes
         /\ msg.name \in Texts /\ msg.raw \in Texts /\ <<msg.level>> \in Texts /\ <<msg.short_level>> \in Texts
         /\ msg.thread_id \in Nat /\ msg.pid \in Nat /\ msg.id \in Nat
<1>1. /\ msg.secs \in Nat \ {0} /\ msg.nanos \in Nat /\ msg.tm \in CalendarTimes
      /\ msg.name \in Seq(STRING) /\ msg.raw \in Seq(STRING)
      /\ msg.level \in STRING /\ msg.short_level \in STRING
      /\ msg.thread_id \in Nat /\ msg.pid \in Nat /\ msg.id \in Nat
  BY MessagesAssumption, SMT
<1>2. msg.name \in Texts /\ msg.raw \in Texts
  BY <1>1, StringsAreSymbols DEF Texts
<1>3. <<msg.level>> \in Texts /\ <<msg.short_level>> \in Texts
  <2>1. msg.level \in Symbols /\ msg.short_level \in Symbols
    BY <1>1, Zenon DEF Symbols
  <2> QED  BY <2>1, OneIsText
<1> QED  BY <1>1, <1>2, <1>3, Zenon

LEMMA FractionsAre ==
  ASSUME NEW n \in Nat, n < 1000000000
  PROVE  /\ n \div 1000000 \in Nat /\ n \div 1000000 < 1000
         /\ n \div 1000 \in Nat /\ n \div 1000 < 1000000
BY SMT

LEMMA FractionsOfMessage ==
  ASSUME NEW msg \in Messages
  PROVE  /\ millis(msg) \in Nat /\ millis(msg) < 1000 /\ micros(msg) \in Nat /\ micros(msg) < 1000000
<1>1. msg.nanos \in Nat /\ msg.nanos < 1000000000
  BY MessagesAssumption, SMT
<1> DEFINE n == msg.nanos
<1> HIDE DEF n
<1>2. /\ n \div 1000000 \in Nat /\ n \div 1000000 < 1000
      /\ n \div 1000 \in Nat /\ n \div 1000 < 1000000
  BY <1>1, FractionsAre, SMT DEF n
<1> QED  BY <1>2, SMT DEF millis, micros, n

LEMMA ClocksAreTexts ==
  ASSUME NEW tm \in CalendarTimes
  PROVE  /\ R_formatter(tm) \in Texts /\ T_formatter(tm) \in Texts /\ ampm(tm) \in Texts
         /\ D_formatter(tm) \in Texts /\ r_formatter(tm) \in Texts
<1>1. /\ pad2(tm.hour) \in Texts /\ pad2(tm.min) \in Texts /\ pad2(tm.sec) \in Texts
      /\ pad2(tm.mon + 1) \in Texts /\ pad2(tm.mday) \in Texts /\ pad2(tm.year % 100) \in Texts
      /\ pad2(to12h(tm)) \in Texts
  BY TimeIs, NumbersAreTexts, SMT
<1>2. R_formatter(tm) \in Texts
  BY <1>1, SignsAreTexts, TextsJoin, Zenon DEF R_formatter
<1>3. T_formatter(tm) \in Texts
  BY <1>1, <1>2, SignsAreTexts, TextsJoin, Zenon DEF T_formatter
<1>4. D_formatter(tm) \in Texts
  BY <1>1, SignsAreTexts, TextsJoin, Zenon DEF D_formatter
<1>5. ampm(tm) \in Texts
  BY SignsAreTexts, Zenon DEF ampm
<1>6. r_formatter(tm) \in Texts
  BY <1>1, <1>5, SignsAreTexts, TextsJoin, Zenon DEF r_formatter
<1> QED  BY <1>2, <1>3, <1>4, <1>5, <1>6

LEMMA PairIs ==
  ASSUME NEW S, NEW a \in S, NEW b \in S
  PROVE  <<a>> \o <<b>> = <<a, b>>
<1> DEFINE l == <<a>> \o <<b>>
           r == <<a, b>>
           x == <<a>>
           y == <<b>>
<1>1. x \in Seq(S) /\ Len(x) = 1 /\ x[1] = a /\ y \in Seq(S) /\ Len(y) = 1 /\ y[1] = b
  OBVIOUS
<1>2. r \in Seq(S) /\ Len(r) = 2 /\ r[1] = a /\ r[2] = b
  OBVIOUS
<1> HIDE DEF x, y, r
<1>3. l \in Seq(S) /\ Len(l) = Len(x) + Len(y) /\ (\A i \in 1..Len(x) : l[i] = x[i])
      /\ \A i \in 1..Len(y) : l[Len(x) + i] = y[i]
  BY <1>1, JoinHas DEF x, y
<1> HIDE DEF l
<1>4. Len(l) = 2 /\ l[1] = a /\ l[2] = b
  <2>1. 1 \in 1..1 /\ 1 + 1 = 2
    OBVIOUS
  <2> QED  BY <1>1, <1>3, <2>1
<1>5. \A i \in 1..2 : l[i] = r[i]
  BY <1>2, <1>4
<1>6. l = r
  BY <1>2, <1>3, <1>4, <1>5, SameSeq
<1> QED  BY <1>6 DEF l, r

LEMMA PairsAre ==
  ASSUME NEW S, NEW a \in S, NEW b \in S, NEW c \in S, NEW d \in S
  PROVE  <<a, b>> \o <<c, d>> = <<a, b, c, d>>
<1> DEFINE r == <<a, b, c, d>>
           x == <<a, b>>
           y == <<c, d>>
           l == x \o y
<1>1. x \in Seq(S) /\ Len(x) = 2 /\ x[1] = a /\ x[2] = b
  OBVIOUS
<1>2. y \in Seq(S) /\ Len(y) = 2 /\ y[1] = c /\ y[2] = d
  OBVIOUS
<1>3. r \in Seq(S) /\ Len(r) = 4 /\ r[1] = a /\ r[2] = b /\ r[3] = c /\ r[4] = d
  OBVIOUS
<1> HIDE DEF x, y, r
<1>4. l \in Seq(S) /\ Len(l) = Len(x) + Len(y) /\ (\A i \in 1..Len(x) : l[i] = x[i])
      /\ \A i \in 1..Len(y) : l[Len(x) + i] = y[i]
  <2>1. x \in Seq(S) /\ y \in Seq(S)
    BY <1>1, <1>2
  <2> QED  BY <2>1, JoinHas
<1> HIDE DEF l
<1>5. Len(l) = 4 /\ l[1] = a /\ l[2] = b /\ l[3] = c /\ l[4] = d
  <2>1. 1 \in 1..2 /\ 2 \in 1..2 /\ 2 + 1 = 3 /\ 2 + 2 = 4
    OBVIOUS
  <2> QED  BY <1>1, <1>2, <1>4, <2>1
<1>6. \A i \in 1..4 : l[i] = r[i]
  <2>1. \A i \in 1..4 : i = 1 \/ i = 2 \/ i = 3 \/ i = 4
    OBVIOUS
  <2> QED  BY <1>3, <1>5, <2>1, Zenon
<1>7. l = r
  BY <1>3, <1>4, <1>5, <1>6, SameSeq
<1> QED  BY <1>7 DEF l, r, x, y

LEMMA SpacedTexts ==
  ASSUME NEW a, NEW b, <<a>> \in Texts, <<b>> \in Texts
  PROVE  <<a, " ", b, " ">> \in Texts
<1>1. <<" ">> \in Texts
  BY SignsAreTexts
<1>2. (<<a>> \o <<" ">>) \o (<<b>> \o <<" ">>) \in Texts
  BY <1>1, TextsJoin, Zenon
<1>3. (<<a>> \o <<" ">>) \o (<<b>> \o <<" ">>) = <<a, " ", b, " ">>
  <2> DEFINE c == " "
             S == {a, b, c}
  <2> HIDE DEF c
  <2>0. a \in S /\ b \in S /\ c \in S
    OBVIOUS
  <2> HIDE DEF S
  <2>1. <<a>> \o <<c>> = <<a, c>> /\ <<b>> \o <<c>> = <<b, c>>
    BY <2>0, PairIs
  <2>2. <<a, c>> \o <<b, c>> = <<a, c, b, c>>
    BY <2>0, PairsAre
  <2> QED  BY <2>1, <2>2 DEF c
<1> QED  BY <1>2, <1>3

LEMMA DatesAreTexts ==
  ASSUME NEW tm \in CalendarTimes
  PROVE  c_formatter(tm) \in Texts /\ z_formatter(tm) \in Texts
<1> DEFINE date == <<days[tm.wday + 1], " ", months[tm.mon + 1], " ">>
           year == append_int(tm.year + 1900)
           day == append_int(tm.mday)
<1>1. date \in Texts
  BY TimeHas, NamesAreTexts, SpacedTexts
<1>2. year \in Texts /\ day \in Texts
  BY TimeIs, NumbersAreTexts, SMT
<1>3. T_formatter(tm) \in Texts
  BY ClocksAreTexts
<1>4. c_formatter(tm) = date \o day \o <<" ">> \o T_formatter(tm) \o <<" ">> \o year
  BY SMT DEF c_formatter
<1> HIDE DEF date, year, day
<1>5. c_formatter(tm) \in Texts
  <2> DEFINE time == T_formatter(tm)
             space == <<" ">>
  <2>1. space \in Texts /\ time \in Texts
    BY <1>3, SignsAreTexts
  <2>2. c_formatter(tm) = date \o day \o space \o time \o space \o year
    BY <1>4
  <2> HIDE DEF time, space
  <2>3. date \o day \o space \o time \o space \o year \in Texts
    BY <1>1, <1>2, <2>1, TextsJoin
  <2> QED  BY <2>2, <2>3
<1>6. z_formatter(tm) \in Texts
  <2> DEFINE m == IF tm.offset < 0 THEN -tm.offset ELSE tm.offset
             sign == IF tm.offset < 0 THEN "-" ELSE "+"
  <2>1. m \in Nat
    BY TimeHas
  <2>2. z_formatter(tm) = <<sign>> \o pad2(m \div 60) \o <<":">> \o pad2(m % 60)
    BY Zenon DEF z_formatter
  <2>3. <<sign>> \in Texts
    BY SignsAreTexts, Zenon
  <2> HIDE DEF m, sign
  <2>4. m \div 60 \in Nat /\ m % 60 \in Nat
    BY <2>1, SMT
  <2>5. pad2(m \div 60) \in Texts /\ pad2(m % 60) \in Texts
    BY <2>4, NumbersAreTexts
  <2> DEFINE a == pad2(m \div 60)
             b == pad2(m % 60)
             colon == <<":">>
  <2>6. a \in Texts /\ b \in Texts /\ colon \in Texts
    BY <2>5, SignsAreTexts
  <2>7. z_formatter(tm) = <<sign>> \o a \o colon \o b
    BY <2>2
  <2> HIDE DEF a, b, colon
  <2> QED  BY <2>3, <2>6, <2>7, TextsJoin
<1> QED  BY <1>5, <1>6

LEMMA FIs ==
  ASSUME NEW msg \in Messages
  PROVE  IsWritten(msg.nanos, 9, F_formatter(msg))
<1>1. msg.nanos \in Nat /\ msg.nanos < 1000000000
  BY MessagesAssumption, SMT
<1>2. F_formatter(msg) = vformat_to(NineDigits, Nanos(msg.nanos)).out.chars
  BY Zenon DEF F_formatter, NineDigits, Nanos
<1> QED  BY <1>1, <1>2, NineIs, SMT

LEMMA FlagIsText ==
  ASSUME NEW msg \in Messages, NEW flag \in Flags
  PROVE  Flag(flag, msg, msg.tm) \in Texts
<1> DEFINE tm == msg.tm
<1>0. tm \in CalendarTimes
  BY MessageHas
<1> HIDE DEF tm
<1>1. CASE flag \in {"n", "l", "L", "t", "v"}
  BY <1>1, MessageHas, NumbersAreTexts, Flags1, SMT DEF tm
<1>2. CASE flag \in {"a", "A", "b", "h", "B"}
  BY <1>0, <1>2, TimeHas, NamesAreTexts, Flags2, SMT DEF tm
<1>3. CASE flag \in {"c", "C", "Y", "D", "x"}
  BY <1>0, <1>3, TimeIs, NumbersAreTexts, DatesAreTexts, ClocksAreTexts, Flags3, SMT DEF tm
<1>4. CASE flag \in {"m", "d", "H", "I", "M"}
  BY <1>0, <1>4, TimeIs, NumbersAreTexts, Flags4, SMT DEF tm
<1>5. CASE flag \in {"S", "e", "f", "F", "E"}
  <2>1. F_formatter(msg) \in Texts
    BY FIs, SMT DEF IsWritten, AllDigits, Texts
  <2>2. pad2(tm.sec) \in Texts /\ pad3(millis(msg)) \in Texts /\ pad6(micros(msg)) \in Texts
    BY <1>0, TimeIs, FractionsOfMessage, NumbersAreTexts, SMT
  <2>3. append_int(msg.secs) \in Texts
    <3>1. msg.secs \in Nat
      BY MessageHas
    <3> QED  BY <3>1, NumbersAreTexts
  <2> QED  BY <1>5, <2>1, <2>2, <2>3, Flags5, SMT DEF tm
<1>6. CASE flag \in {"p", "r", "R", "T", "X"}
  BY <1>0, <1>6, ClocksAreTexts, Flags6, SMT DEF tm
<1>7. CASE flag \in {"z", "P", "i"}
  <2>1. z_formatter(tm) \in Texts
    BY <1>0, DatesAreTexts
  <2>2. append_int(msg.pid) \in Texts /\ pad6(msg.id) \in Texts
    <3>1. msg.pid \in Nat /\ msg.id \in Nat
      BY MessageHas
    <3> QED  BY <3>1, NumbersAreTexts
  <2> QED  BY <1>7, <2>1, <2>2, Flags7, SMT DEF tm
<1>8. \/ flag \in {"n", "l", "L", "t", "v"} \/ flag \in {"a", "A", "b", "h", "B"}
      \/ flag \in {"c", "C", "Y", "D", "x"} \/ flag \in {"m", "d", "H", "I", "M"}
      \/ flag \in {"S", "e", "f", "F", "E"} \/ flag \in {"p", "r", "R", "T", "X"}
      \/ flag \in {"z", "P", "i"}
  BY Zenon DEF Flags
<1> QED  BY <1>1, <1>2, <1>3, <1>4, <1>5, <1>6, <1>7, <1>8

-------------------------------------------------------------------------------
(***************************************************************************)
(* The formatters of a compiled pattern, and what each puts in a line.     *)
(***************************************************************************)
FlagOf(c) == [kind |-> "flag", flag |-> c]

Full(datetime, timestamp) ==
  [kind |-> "full", cached_datetime_ |-> datetime, cache_timestamp_ |-> timestamp]

Start_ == [kind |-> "color_start"]
Stop_ == [kind |-> "color_stop"]

Formatters ==
  {Chars(s) : s \in Texts} \cup {FlagOf(c) : c \in Flags} \cup {Start_, Stop_, Full(<<>>, 0)}

(* One as it formats a message.                                            *)
Made(f, msg) == IF f.kind = "full" THEN Full(Datetime(msg.tm), msg.secs) ELSE f

Closed == <<"]", " ">>

Named(msg) == IF msg.name = <<>> THEN <<>> ELSE <<"[">> \o msg.name \o Closed

Heading(msg) == Datetime(msg.tm) \o pad3(millis(msg)) \o Closed \o Named(msg) \o <<"[">>

Leveled(msg) == <<msg.level, "]", " ">>

Whole(msg) == (Heading(msg) \o Leveled(msg)) \o msg.raw

Puts(f, msg) ==
  CASE f.kind = "chars" -> f.chars
    [] f.kind = "flag" -> Flag(f.flag, msg, msg.tm)
    [] f.kind = "full" -> Whole(msg)
    [] OTHER -> <<>>

Lines == {line \in [dest : Texts, color_range_start : Nat, color_range_end : Nat] :
            line.color_range_start <= Len(line.dest) /\ line.color_range_end <= Len(line.dest)}

PutIn(f, msg, line) == Formatted(Made(f, msg), msg, msg.tm, line)

LEMMA ClosedIs ==
  Closed \in Texts /\ Closed = <<"]">> \o <<" ">>
<1>1. <<"]">> \o <<" ">> = Closed
  <2> DEFINE a == "]"
             b == " "
             S == {a, b}
  <2> HIDE DEF a, b
  <2>1. a \in S /\ b \in S
    OBVIOUS
  <2> HIDE DEF S
  <2> QED  BY <2>1, PairIs DEF Closed, a, b
<1> QED  BY <1>1, SignsAreTexts, TextsJoin, Zenon

LEMMA TripleIs ==
  ASSUME NEW S, NEW a \in S, NEW b \in S, NEW c \in S
  PROVE  <<a, b, c>> = <<a>> \o <<b, c>> /\ Len(<<a, b, c>>) = 3
<1> DEFINE r == <<a, b, c>>
           x == <<a>>
           y == <<b, c>>
           l == x \o y
<1>1. x \in Seq(S) /\ Len(x) = 1 /\ x[1] = a
  OBVIOUS
<1>2. y \in Seq(S) /\ Len(y) = 2 /\ y[1] = b /\ y[2] = c
  OBVIOUS
<1>3. r \in Seq(S) /\ Len(r) = 3 /\ r[1] = a /\ r[2] = b /\ r[3] = c
  OBVIOUS
<1> HIDE DEF x, y, r
<1>4. l \in Seq(S) /\ Len(l) = Len(x) + Len(y) /\ (\A i \in 1..Len(x) : l[i] = x[i])
      /\ \A i \in 1..Len(y) : l[Len(x) + i] = y[i]
  <2>1. x \in Seq(S) /\ y \in Seq(S)
    BY <1>1, <1>2
  <2> QED  BY <2>1, JoinHas
<1> HIDE DEF l
<1>5. Len(l) = 3 /\ l[1] = a /\ l[2] = b /\ l[3] = c
  <2>1. 1 \in 1..1 /\ 1 \in 1..2 /\ 2 \in 1..2 /\ 1 + 1 = 2 /\ 1 + 2 = 3
    OBVIOUS
  <2> QED  BY <1>1, <1>2, <1>4, <2>1
<1>6. \A i \in 1..3 : l[i] = r[i]
  <2>1. \A i \in 1..3 : i = 1 \/ i = 2 \/ i = 3
    OBVIOUS
  <2> QED  BY <1>3, <1>5, <2>1, Zenon
<1>7. l = r
  BY <1>3, <1>4, <1>5, <1>6, SameSeq
<1> QED  BY <1>3, <1>7 DEF l, r, x, y

LEMMA LeveledIs ==
  ASSUME NEW msg \in Messages
  PROVE  Leveled(msg) \in Texts /\ Len(Leveled(msg)) = 3 /\ Leveled(msg) = <<msg.level>> \o Closed
<1> DEFINE a == msg.level
           b == "]"
           c == " "
           S == {a, b, c}
<1>1. Leveled(msg) = <<a, b, c>> /\ Closed = <<b, c>>
  BY DEF Leveled, Closed
<1>2. <<a>> \in Texts
  BY MessageHas
<1> HIDE DEF a, b, c
<1>3. a \in S /\ b \in S /\ c \in S
  OBVIOUS
<1> HIDE DEF S
<1>4. <<a, b, c>> = <<a>> \o <<b, c>> /\ Len(<<a, b, c>>) = 3
  BY <1>3, TripleIs
<1>5. <<a>> \o Closed \in Texts
  BY <1>2, ClosedIs, TextsJoin
<1> QED  BY <1>1, <1>4, <1>5 DEF a

LEMMA DatetimeIsText ==
  ASSUME NEW tm \in CalendarTimes
  PROVE  Datetime(tm) \in Texts
<1> DEFINE y == append_int(tm.year + 1900)
           m == pad2(tm.mon + 1)
           d == pad2(tm.mday)
           t == T_formatter(tm)
<1>1. y \in Texts
  BY TimeIs, NumbersAreTexts, SMT
<1>2. m \in Texts
  BY TimeIs, NumbersAreTexts, SMT
<1>3. d \in Texts
  BY TimeIs, NumbersAreTexts, SMT
<1>4. t \in Texts
  BY ClocksAreTexts
<1>5. Datetime(tm) = <<"[">> \o y \o <<"-">> \o m \o <<"-">> \o d \o <<" ">> \o t \o <<".">>
  BY SMT DEF Datetime
<1> HIDE DEF y, m, d, t
<1> DEFINE p == <<"[">>
           q == <<"-">>
           r == <<" ">>
           z == <<".">>
<1>6. p \in Texts /\ q \in Texts /\ r \in Texts /\ z \in Texts
  BY SignsAreTexts
<1> HIDE DEF p, q, r, z
<1>7. p \o y \o q \o m \o q \o d \o r \o t \o z \in Texts
  BY <1>1, <1>2, <1>3, <1>4, <1>6, TextsJoin
<1> QED  BY <1>5, <1>7 DEF p, q, r, z

LEMMA HeadingIs ==
  ASSUME NEW msg \in Messages
  PROVE  /\ Heading(msg) \in Texts /\ Whole(msg) \in Texts /\ Named(msg) \in Texts
         /\ Head_(Full(Datetime(msg.tm), msg.secs), msg) = Heading(msg)
<1>1. Datetime(msg.tm) \in Texts
  BY MessageHas, DatetimeIsText
<1>2. pad3(millis(msg)) \in Texts
  BY FractionsOfMessage, NumbersAreTexts, SMT
<1>3. msg.name \in Texts /\ msg.raw \in Texts
  BY MessageHas
<1>4. Named(msg) \in Texts
  BY <1>3, ClosedIs, SignsAreTexts, TextsJoin, Zenon DEF Named
<1>5. Heading(msg) \in Texts
  <2> DEFINE d == Datetime(msg.tm)
             m == pad3(millis(msg))
             p == <<"[">>
  <2>1. p \in Texts
    BY SignsAreTexts
  <2> HIDE DEF d, m, p
  <2>2. d \o m \o Closed \o Named(msg) \o p \in Texts
    BY <1>1, <1>2, <1>4, <2>1, ClosedIs, TextsJoin DEF d, m
  <2> QED  BY <2>2 DEF Heading, d, m, p
<1>6. Whole(msg) \in Texts
  BY <1>3, <1>5, LeveledIs, TextsJoin, Zenon DEF Whole
<1>7. Full(Datetime(msg.tm), msg.secs).cached_datetime_ = Datetime(msg.tm)
  BY DEF Full
<1>8. Head_(Full(Datetime(msg.tm), msg.secs), msg) = Heading(msg)
  BY <1>7, Zenon DEF Head_, Heading, Named, Closed
<1> QED  BY <1>4, <1>5, <1>6, <1>8

(* The cases of a formatter.                                               *)
LEMMA FormatterIs ==
  ASSUME NEW f \in Formatters
  PROVE  \/ f.kind = "chars" /\ f.chars \in Texts
         \/ f.kind = "flag" /\ f.flag \in Flags
         \/ f.kind = "color_start"
         \/ f.kind = "color_stop"
         \/ f.kind = "full" /\ f = Full(<<>>, 0)
<1>1. CASE \E s \in Texts : f = Chars(s)
  BY <1>1 DEF Chars
<1>2. CASE \E c \in Flags : f = FlagOf(c)
  BY <1>2 DEF FlagOf
<1>3. CASE f \in {Start_, Stop_, Full(<<>>, 0)}
  BY <1>3 DEF Start_, Stop_, Full
<1> QED  BY <1>1, <1>2, <1>3 DEF Formatters

LEMMA MadeIs ==
  ASSUME NEW f, NEW msg
  PROVE  /\ f.kind # "full" => Made(f, msg) = f
         /\ f.kind = "full" => Made(f, msg) = Full(Datetime(msg.tm), msg.secs)
         /\ Made(f, msg).kind = f.kind
BY DEF Made, Full

LEMMA LineHas ==
  ASSUME NEW line \in Lines
  PROVE  /\ line.dest \in Texts /\ Len(line.dest) \in Nat
         /\ line.color_range_start \in Nat /\ line.color_range_start <= Len(line.dest)
         /\ line.color_range_end \in Nat /\ line.color_range_end <= Len(line.dest)
         /\ line = [dest |-> line.dest, color_range_start |-> line.color_range_start,
                    color_range_end |-> line.color_range_end]
BY DEF Lines, Texts

LEMMA IsLine ==
  ASSUME NEW d \in Texts, NEW a \in Nat, NEW b \in Nat, a <= Len(d), b <= Len(d)
  PROVE  [dest |-> d, color_range_start |-> a, color_range_end |-> b] \in Lines
BY DEF Lines

(* What a formatter does to a line.                                        *)
PutsWell(line2, line, chars) == line2 \in Lines /\ line2.dest = line.dest \o chars

LEMMA AppendsWell ==
  ASSUME NEW line \in Lines, NEW chars \in Texts
  PROVE  PutsWell(Append_(line, chars), line, chars)
<1> DEFINE d == line.dest \o chars
           a == line.color_range_start
           b == line.color_range_end
<1>1. d \in Texts
  BY LineHas, TextsJoin
<1>2. a \in Nat /\ b \in Nat /\ a <= Len(d) /\ b <= Len(d)
  <2>1. line.dest \in Seq(Symbols) /\ chars \in Seq(Symbols)
    BY LineHas DEF Texts
  <2>2. Len(d) = Len(line.dest) + Len(chars) /\ Len(chars) \in Nat
    BY <2>1
  <2> HIDE DEF d
  <2> QED  BY <2>2, LineHas
<1>3. Append_(line, chars) = [dest |-> d, color_range_start |-> a, color_range_end |-> b]
  <2> DEFINE e == line.dest
  <2>1. line = [dest |-> e, color_range_start |-> a, color_range_end |-> b]
    BY LineHas
  <2>2. \A x, y, z, c : [[dest |-> x, color_range_start |-> y, color_range_end |-> z] EXCEPT !.dest = c]
                          = [dest |-> c, color_range_start |-> y, color_range_end |-> z]
    OBVIOUS
  <2>3. Append_(line, chars) = [line EXCEPT !.dest = d]
    BY DEF Append_
  <2> HIDE DEF a, b, e, d
  <2>4. [line EXCEPT !.dest = d] = [dest |-> d, color_range_start |-> a, color_range_end |-> b]
    BY <2>1, <2>2
  <2> QED  BY <2>3, <2>4, Zenon
<1> HIDE DEF d, a, b
<1>4. Append_(line, chars) \in Lines
  BY <1>1, <1>2, <1>3, IsLine
<1>5. Append_(line, chars).dest = d
  BY <1>3
<1> QED  BY <1>4, <1>5 DEF PutsWell, d

LEMMA ColorsWell ==
  ASSUME NEW line \in Lines
  PROVE  /\ PutsWell([line EXCEPT !.color_range_start = Len(line.dest)], line, <<>>)
         /\ PutsWell([line EXCEPT !.color_range_end = Len(line.dest)], line, <<>>)
<1> DEFINE d == line.dest
           a == line.color_range_start
           b == line.color_range_end
           n == Len(d)
<1>1. line = [dest |-> d, color_range_start |-> a, color_range_end |-> b]
  BY LineHas
<1>2. d \in Texts /\ a \in Nat /\ b \in Nat /\ n \in Nat /\ a <= n /\ b <= n /\ n <= n
  BY LineHas
<1>3. d \o <<>> = d
  BY <1>2, TextsJoin
<1>4. [dest |-> d, color_range_start |-> n, color_range_end |-> b] \in Lines
      /\ [dest |-> d, color_range_start |-> a, color_range_end |-> n] \in Lines
  <2> HIDE DEF d, a, b
  <2> QED  BY <1>2, IsLine
<1>5. \A x, y, z, c :
         /\ [[dest |-> x, color_range_start |-> y, color_range_end |-> z] EXCEPT !.color_range_start = c]
              = [dest |-> x, color_range_start |-> c, color_range_end |-> z]
         /\ [[dest |-> x, color_range_start |-> y, color_range_end |-> z] EXCEPT !.color_range_end = c]
              = [dest |-> x, color_range_start |-> y, color_range_end |-> c]
  OBVIOUS
<1>6. /\ [line EXCEPT !.color_range_start = n] = [dest |-> d, color_range_start |-> n, color_range_end |-> b]
      /\ [line EXCEPT !.color_range_end = n] = [dest |-> d, color_range_start |-> a, color_range_end |-> n]
  <2> HIDE DEF d, a, b, n
  <2> QED  BY <1>1, <1>5
<1>7. /\ [line EXCEPT !.color_range_start = n].dest = d
      /\ [line EXCEPT !.color_range_end = n].dest = d
  <2> HIDE DEF d, a, b, n
  <2> QED  BY <1>6
<1> QED  BY <1>3, <1>4, <1>6, <1>7, Zenon DEF PutsWell

LEMMA FullWell ==
  ASSUME NEW msg \in Messages, NEW line \in Lines
  PROVE  PutsWell(Formatted(Full(Datetime(msg.tm), msg.secs), msg, msg.tm, line), line, Whole(msg))
<1> DEFINE f == Full(Datetime(msg.tm), msg.secs)
           before == line.dest \o Heading(msg)
           d == before \o Leveled(msg) \o msg.raw
           l == [dest |-> d, color_range_start |-> Len(before), color_range_end |-> Len(before) + 1]
<1>1. f.kind = "full"
  BY DEF Full
<1>2. Formatted(f, msg, msg.tm, line) = l
  <2>1. Head_(f, msg) = Heading(msg)
    BY HeadingIs
  <2>2. Formatted(f, msg, msg.tm, line) =
          LET b == line.dest \o Head_(f, msg)
          IN  [dest |-> b \o <<msg.level, "]", " ">> \o msg.raw,
               color_range_start |-> Len(b), color_range_end |-> Len(b) + 1]
    <3> HIDE DEF f
    <3> QED  BY <1>1 DEF Formatted
  <2> HIDE DEF f
  <2> QED  BY <2>1, <2>2 DEF Leveled
<1>3. line.dest \in Texts /\ Heading(msg) \in Texts /\ Leveled(msg) \in Texts /\ msg.raw \in Texts
  BY LineHas, HeadingIs, LeveledIs, MessageHas
<1>4. before \in Texts /\ before \o Leveled(msg) \in Texts /\ d \in Texts
  BY <1>3, TextsJoin
<1>5. Len(before) \in Nat /\ Len(before) + 1 <= Len(d)
  <2> DEFINE b == before
             x == Leveled(msg)
             c == b \o x
             r == msg.raw
  <2>1. b \in Seq(Symbols) /\ x \in Seq(Symbols) /\ c \in Seq(Symbols) /\ r \in Seq(Symbols) /\ Len(x) = 3
    BY <1>3, <1>4, LeveledIs DEF Texts
  <2> HIDE DEF b, x, r
  <2>2. Len(c) = Len(b) + Len(x) /\ Len(b) \in Nat
    <3>1. b \in Seq(Symbols) /\ x \in Seq(Symbols)
      BY <2>1
    <3> QED  BY <3>1
  <2> HIDE DEF c
  <2>3. Len(c \o r) = Len(c) + Len(r) /\ Len(c) \in Nat /\ Len(r) \in Nat
    <3>1. c \in Seq(Symbols) /\ r \in Seq(Symbols)
      BY <2>1
    <3> QED  BY <3>1
  <2>4. Len(b) \in Nat /\ Len(b) + 1 <= Len(c \o r)
    BY <2>1, <2>2, <2>3
  <2> QED  BY <2>4 DEF c, b, x, r
<1>6. d = line.dest \o Whole(msg)
  <2> DEFINE e == line.dest
             h == Heading(msg)
             x == Leveled(msg)
             r == msg.raw
  <2>1. e \in Texts /\ h \in Texts /\ x \in Texts /\ r \in Texts
    BY <1>3
  <2> HIDE DEF e, h, x, r
  <2>2. h \o x \in Texts /\ (e \o h) \o x = e \o (h \o x)
    BY <2>1, TextsJoin
  <2>3. (e \o (h \o x)) \o r = e \o ((h \o x) \o r)
    BY <2>1, <2>2, TextsJoin
  <2>4. ((e \o h) \o x) \o r = e \o ((h \o x) \o r)
    BY <2>2, <2>3
  <2> QED  BY <2>4 DEF e, h, x, r, Whole
<1> HIDE DEF f, d, before
<1>7. l \in Lines
  <2>1. Len(before) + 1 \in Nat /\ Len(before) <= Len(d)
    <3>1. Len(d) \in Nat
      BY <1>4 DEF Texts
    <3> QED  BY <1>5, <3>1
  <2> QED  BY <1>4, <1>5, <2>1, IsLine
<1>8. l.dest = d
  OBVIOUS
<1> QED  BY <1>2, <1>6, <1>7, <1>8, Zenon DEF PutsWell, f

LEMMA FormattedIs ==
  ASSUME NEW f \in Formatters, NEW msg \in Messages, NEW line \in Lines
  PROVE  Puts(f, msg) \in Texts /\ PutsWell(PutIn(f, msg, line), line, Puts(f, msg))
<1>1. CASE f.kind = "chars" /\ f.chars \in Texts
  <2>1. Puts(f, msg) = f.chars
    BY <1>1 DEF Puts
  <2>2. PutIn(f, msg, line) = Append_(line, f.chars)
    <3>1. Made(f, msg) = f
      BY <1>1, MadeIs
    <3>2. Formatted(f, msg, msg.tm, line) = Append_(line, f.chars)
      BY <1>1 DEF Formatted
    <3> QED  BY <3>1, <3>2 DEF PutIn
  <2> QED  BY <1>1, <2>1, <2>2, AppendsWell
<1>2. CASE f.kind = "flag" /\ f.flag \in Flags
  <2>1. Puts(f, msg) = Flag(f.flag, msg, msg.tm)
    BY <1>2 DEF Puts
  <2>2. PutIn(f, msg, line) = Append_(line, Flag(f.flag, msg, msg.tm))
    <3>1. Made(f, msg) = f
      BY <1>2, MadeIs
    <3>2. Formatted(f, msg, msg.tm, line) = Append_(line, Flag(f.flag, msg, msg.tm))
      BY <1>2 DEF Formatted
    <3> QED  BY <3>1, <3>2 DEF PutIn
  <2>3. Flag(f.flag, msg, msg.tm) \in Texts
    BY <1>2, FlagIsText
  <2> QED  BY <2>1, <2>2, <2>3, AppendsWell
<1>3. CASE f.kind = "color_start"
  <2>1. Puts(f, msg) = <<>>
    BY <1>3 DEF Puts
  <2>2. PutIn(f, msg, line) = [line EXCEPT !.color_range_start = Len(line.dest)]
    <3>1. Made(f, msg) = f
      BY <1>3, MadeIs
    <3>2. Formatted(f, msg, msg.tm, line) = [line EXCEPT !.color_range_start = Len(line.dest)]
      BY <1>3 DEF Formatted
    <3> QED  BY <3>1, <3>2 DEF PutIn
  <2> QED  BY <2>1, <2>2, ColorsWell, TextsJoin
<1>4. CASE f.kind = "color_stop"
  <2>1. Puts(f, msg) = <<>>
    BY <1>4 DEF Puts
  <2>2. PutIn(f, msg, line) = [line EXCEPT !.color_range_end = Len(line.dest)]
    <3>1. Made(f, msg) = f
      BY <1>4, MadeIs
    <3>2. Formatted(f, msg, msg.tm, line) = [line EXCEPT !.color_range_end = Len(line.dest)]
      BY <1>4 DEF Formatted
    <3> QED  BY <3>1, <3>2 DEF PutIn
  <2> QED  BY <2>1, <2>2, ColorsWell, TextsJoin
<1>5. CASE f.kind = "full" /\ f = Full(<<>>, 0)
  <2>1. Puts(f, msg) = Whole(msg)
    BY <1>5 DEF Puts
  <2>2. PutIn(f, msg, line) = Formatted(Full(Datetime(msg.tm), msg.secs), msg, msg.tm, line)
    BY <1>5, MadeIs DEF PutIn
  <2> QED  BY <2>1, <2>2, FullWell, HeadingIs
<1> QED  BY <1>1, <1>2, <1>3, <1>4, <1>5, FormatterIs

-------------------------------------------------------------------------------
(***************************************************************************)
(* What formatters print, one after the other.                             *)
(***************************************************************************)
IsPrinted(fs, msg, d) ==
  /\ d \in [0..Len(fs) -> Texts] /\ d[0] = <<>>
  /\ \A i \in 1..Len(fs) : d[i] = d[i - 1] \o Puts(fs[i], msg)

Printed(fs, msg) == (CHOOSE d : IsPrinted(fs, msg, d))[Len(fs)]

LEMMA ALineExists ==
  NoLine \in Lines /\ NoLine.dest = <<>>
<1>1. <<>> \in Texts /\ Len(<<>>) = 0
  BY TextsJoin
<1> QED  BY <1>1 DEF NoLine, Lines

LEMMA SomethingIsPrinted ==
  ASSUME NEW fs \in Seq(Formatters), NEW msg \in Messages
  PROVE  \E d : IsPrinted(fs, msg, d)
<1> DEFINE n == Len(fs)
           step == [e \in Nat \X Texts |-> IF e[1] \in 1..n THEN e[2] \o Puts(fs[e[1]], msg) ELSE <<>>]
<1>1. n \in Nat /\ \A i \in 1..n : fs[i] \in Formatters
  OBVIOUS
<1>2. <<>> \in Texts /\ \A a, b \in Texts : a \o b \in Texts
  BY TextsJoin
<1>3. ASSUME NEW i \in 1..n  PROVE Puts(fs[i], msg) \in Texts
  BY <1>1, <1>2, FormattedIs, ALineExists
<1>4. Steps(Texts, step)
  <2>1. ASSUME NEW e \in Nat \X Texts
        PROVE  (IF e[1] \in 1..n THEN e[2] \o Puts(fs[e[1]], msg) ELSE <<>>) \in Texts
    <3>1. e[2] \in Texts
      OBVIOUS
    <3> HIDE DEF n
    <3> QED  BY <1>2, <1>3, <3>1
  <2> QED  BY <2>1 DEF Steps
<1>5. \A i \in 1..n, c \in Texts : step[<<i, c>>] = c \o Puts(fs[i], msg)
  <2> SUFFICES ASSUME NEW i \in 1..n, NEW c \in Texts  PROVE step[<<i, c>>] = c \o Puts(fs[i], msg)
    OBVIOUS
  <2>1. <<i, c>> \in Nat \X Texts /\ <<i, c>>[1] = i /\ <<i, c>>[2] = c
    OBVIOUS
  <2> QED  BY <2>1
<1> HIDE DEF step
<1>6. PICK d \in [0..n -> Texts] : d[0] = <<>> /\ \A i \in 1..n : d[i] = step[<<i, d[i - 1]>>]
  <2>1. HasRecursion(Texts, 0, n, <<>>, step)
    BY <1>1, <1>2, <1>4, RecursionFrom
  <2>2. 0 <= n /\ 0 + 1 = 1
    BY <1>1
  <2> QED  BY <2>1, <2>2 DEF HasRecursion
<1>7. ASSUME NEW i \in 1..n  PROVE d[i] = d[i - 1] \o Puts(fs[i], msg)
  <2>1. i - 1 \in 0..n
    BY <1>1
  <2> QED  BY <1>5, <1>6, <2>1
<1> QED  BY <1>6, <1>7 DEF IsPrinted

(* Formatters print the same as others with which they begin.              *)
LEMMA PrintedAlike ==
  ASSUME NEW a \in Seq(Formatters), NEW b \in Seq(Formatters), NEW msg \in Messages, NEW n \in Nat,
         n <= Len(a), n <= Len(b), \A i \in 1..n : a[i] = b[i],
         NEW d, NEW e, IsPrinted(a, msg, d), IsPrinted(b, msg, e)
  PROVE  \A i \in 0..n : d[i] = e[i]
<1> DEFINE T == {i \in Nat : i <= n => d[i] = e[i]}
<1>1. d[0] = e[0]
  BY DEF IsPrinted
<1>2. 0 \in T
  BY <1>1
<1>3. ASSUME NEW i \in Nat, i \in T  PROVE i + 1 \in T
  <2> SUFFICES ASSUME i + 1 <= n  PROVE d[i + 1] = e[i + 1]
    OBVIOUS
  <2>1. i + 1 \in 1..n /\ i + 1 \in 1..Len(a) /\ i + 1 \in 1..Len(b) /\ (i + 1) - 1 = i /\ i <= n
    OBVIOUS
  <2>2. d[i] = e[i]
    BY <1>3, <2>1
  <2>3. a[i + 1] = b[i + 1]
    BY <2>1
  <2>4. d[i + 1] = d[(i + 1) - 1] \o Puts(a[i + 1], msg) /\ e[i + 1] = e[(i + 1) - 1] \o Puts(b[i + 1], msg)
    BY <2>1 DEF IsPrinted
  <2> HIDE DEF T
  <2> QED  BY <2>1, <2>2, <2>3, <2>4, Zenon
<1> HIDE DEF T
<1>4. Nat \subseteq T
  BY <1>2, <1>3, Induction
<1>5. \A i \in 0..n : i \in Nat /\ i <= n
  OBVIOUS
<1> QED  BY <1>4, <1>5 DEF T

LEMMA PrintedIs ==
  ASSUME NEW fs \in Seq(Formatters), NEW msg \in Messages
  PROVE  /\ Printed(fs, msg) \in Texts
         /\ \A d : IsPrinted(fs, msg, d) => Printed(fs, msg) = d[Len(fs)]
<1> DEFINE e == CHOOSE d : IsPrinted(fs, msg, d)
<1>1. IsPrinted(fs, msg, e)
  BY SomethingIsPrinted
<1>2. Printed(fs, msg) = e[Len(fs)]
  BY DEF Printed
<1> HIDE DEF e
<1>3. Len(fs) \in Nat /\ Len(fs) \in 0..Len(fs)
  OBVIOUS
<1>4. e[Len(fs)] \in Texts
  BY <1>1, <1>3 DEF IsPrinted
<1>5. ASSUME NEW d, IsPrinted(fs, msg, d)  PROVE e[Len(fs)] = d[Len(fs)]
  <2>1. \A i \in 0..Len(fs) : e[i] = d[i]
    BY <1>1, <1>3, <1>5, PrintedAlike
  <2> QED  BY <1>3, <2>1
<1> QED  BY <1>2, <1>4, <1>5

(* Formatters print what their parts print.                                *)
LEMMA PrintedJoin ==
  ASSUME NEW a \in Seq(Formatters), NEW b \in Seq(Formatters), NEW msg \in Messages
  PROVE  a \o b \in Seq(Formatters) /\ Printed(a \o b, msg) = Printed(a, msg) \o Printed(b, msg)
<1> DEFINE c == a \o b
           m == Len(a)
           n == Len(b)
<1>1. /\ c \in Seq(Formatters) /\ Len(c) = m + n /\ m \in Nat /\ n \in Nat
      /\ \A i \in 1..m : c[i] = a[i]
      /\ \A i \in 1..n : c[m + i] = b[i]
  BY JoinHas
<1> HIDE DEF c
<1>2. PICK d : IsPrinted(a, msg, d)
  BY SomethingIsPrinted
<1>3. PICK e : IsPrinted(b, msg, e)
  BY SomethingIsPrinted
<1>4. PICK f : IsPrinted(c, msg, f)
  BY <1>1, SomethingIsPrinted
<1>5. Printed(a, msg) = d[m] /\ Printed(b, msg) = e[n] /\ Printed(c, msg) = f[m + n]
  BY <1>1, <1>2, <1>3, <1>4, PrintedIs
<1>6. f[m] = d[m] /\ d[m] \in Texts
  <2>1. \A i \in 0..m : f[i] = d[i]
    <3>1. m <= Len(c) /\ m <= m /\ c \in Seq(Formatters) /\ m \in Nat /\ \A i \in 1..m : c[i] = a[i]
      BY <1>1
    <3> QED  BY <1>2, <1>4, <3>1, PrintedAlike
  <2>2. m \in 0..m
    BY <1>1
  <2> QED  BY <1>2, <2>1, <2>2 DEF IsPrinted
<1> DEFINE T == {i \in Nat : i <= n => f[m + i] = d[m] \o e[i]}
<1>7. 0 \in T
  <2>1. m + 0 = m /\ e[0] = <<>>
    BY <1>1, <1>3 DEF IsPrinted
  <2>2. d[m] \o <<>> = d[m]
    BY <1>6, TextsJoin
  <2>3. f[m + 0] = d[m] \o e[0]
    BY <1>6, <2>1, <2>2, Zenon
  <2> HIDE DEF m
  <2> QED  BY <1>1, <2>3
<1>8. ASSUME NEW i \in Nat, i \in T  PROVE i + 1 \in T
  <2>0. i + 1 \in Nat
    OBVIOUS
  <2> SUFFICES ASSUME i + 1 <= n  PROVE f[m + (i + 1)] = d[m] \o e[i + 1]
    BY <2>0, Zenon
  <2>1. i + 1 \in 1..n /\ m + (i + 1) \in 1..(m + n) /\ (i + 1) - 1 = i /\ (m + (i + 1)) - 1 = m + i
        /\ i <= n /\ i \in 0..n
    BY <1>1
  <2>2. f[m + i] = d[m] \o e[i]
    BY <1>8, <2>1
  <2>3. c[m + (i + 1)] = b[i + 1] /\ b[i + 1] \in Formatters
    BY <1>1, <2>1
  <2> DEFINE p == Puts(b[i + 1], msg)
  <2>4. f[m + (i + 1)] = f[m + i] \o p
    BY <1>1, <1>4, <2>1, <2>3 DEF IsPrinted
  <2>5. e[i + 1] = e[i] \o p /\ e[i] \in Texts
    BY <1>3, <2>1 DEF IsPrinted
  <2>6. p \in Texts
    BY <2>3, FormattedIs, ALineExists
  <2> HIDE DEF p, T
  <2>7. (d[m] \o e[i]) \o p = d[m] \o (e[i] \o p)
    BY <1>6, <2>5, <2>6, TextsJoin
  <2> QED  BY <2>2, <2>4, <2>5, <2>7, Zenon
<1> HIDE DEF T
<1>9. Nat \subseteq T
  BY <1>7, <1>8, Induction
<1>10. f[m + n] = d[m] \o e[n]
  <2>1. n \in T /\ n <= n
    BY <1>1, <1>9
  <2> QED  BY <2>1, Zenon DEF T
<1> QED  BY <1>1, <1>5, <1>10 DEF c

LEMMA PrintedOne ==
  ASSUME NEW f \in Formatters, NEW msg \in Messages
  PROVE  <<f>> \in Seq(Formatters) /\ Printed(<<f>>, msg) = Puts(f, msg)
<1> DEFINE fs == <<f>>
<1>1. fs \in Seq(Formatters) /\ Len(fs) = 1 /\ fs[1] = f
  OBVIOUS
<1> HIDE DEF fs
<1>2. PICK d : IsPrinted(fs, msg, d)
  BY <1>1, SomethingIsPrinted
<1>3. d[1] = d[0] \o Puts(f, msg) /\ d[0] = <<>>
  <2>1. 1 \in 1..1 /\ 1 - 1 = 0
    OBVIOUS
  <2> QED  BY <1>1, <1>2, <2>1 DEF IsPrinted
<1>4. Puts(f, msg) \in Texts
  BY FormattedIs, ALineExists
<1>5. d[1] = Puts(f, msg)
  BY <1>3, <1>4, TextsJoin
<1> QED  BY <1>1, <1>2, <1>5, PrintedIs DEF fs

LEMMA NonePrinted ==
  ASSUME NEW msg \in Messages
  PROVE  <<>> \in Seq(Formatters) /\ Printed(<<>>, msg) = <<>>
<1>1. <<>> \in Seq(Formatters) /\ Len(<<>>) = 0
  OBVIOUS
<1>2. PICK d : IsPrinted(<<>>, msg, d)
  BY <1>1, SomethingIsPrinted
<1> QED  BY <1>1, <1>2, PrintedIs DEF IsPrinted

-------------------------------------------------------------------------------
(* The line of a message.                                                  *)
IsLined(fs, msg, l) == l = [i \in 0..Len(fs) |-> IF i = 0 THEN NoLine ELSE PutIn(fs[i], msg, l[i - 1])]

LEMMA LinedIs ==
  ASSUME NEW fs \in Seq(Formatters), NEW msg \in Messages, NEW l, IsLined(fs, msg, l)
  PROVE  l[Len(fs)] \in Lines /\ l[Len(fs)].dest = Printed(fs, msg)
<1>1. PICK d : IsPrinted(fs, msg, d)
  BY SomethingIsPrinted
<1> DEFINE n == Len(fs)
           T == {i \in Nat : i <= n => l[i] \in Lines /\ l[i].dest = d[i]}
<1>2. n \in Nat /\ \A i \in 1..n : fs[i] \in Formatters
  OBVIOUS
<1>3. l[0] = NoLine /\ \A i \in 1..n : l[i] = PutIn(fs[i], msg, l[i - 1])
  <2>1. 0 \in 0..n /\ \A i \in 1..n : i \in 0..n /\ i # 0
    BY <1>2
  <2> HIDE DEF n
  <2>2. l = [i \in 0..n |-> IF i = 0 THEN NoLine ELSE PutIn(fs[i], msg, l[i - 1])]
    BY DEF IsLined, n
  <2> QED  BY <2>1, <2>2, Zenon
<1>4. 0 \in T
  <2>1. NoLine \in Lines /\ NoLine.dest = <<>>
    BY ALineExists
  <2> QED  BY <1>1, <1>3, <2>1 DEF IsPrinted
<1>5. ASSUME NEW i \in Nat, i \in T  PROVE i + 1 \in T
  <2> SUFFICES ASSUME i + 1 <= n  PROVE l[i + 1] \in Lines /\ l[i + 1].dest = d[i + 1]
    OBVIOUS
  <2>1. i + 1 \in 1..n /\ (i + 1) - 1 = i /\ i <= n
    BY <1>2
  <2>2. l[i] \in Lines /\ l[i].dest = d[i]
    BY <1>5, <2>1
  <2>3. l[i + 1] = PutIn(fs[i + 1], msg, l[i]) /\ fs[i + 1] \in Formatters
    BY <1>2, <1>3, <2>1
  <2>4. PutsWell(l[i + 1], l[i], Puts(fs[i + 1], msg))
    BY <2>2, <2>3, FormattedIs
  <2>5. d[i + 1] = d[i] \o Puts(fs[i + 1], msg)
    BY <1>1, <2>1 DEF IsPrinted
  <2> HIDE DEF T
  <2> QED  BY <2>2, <2>4, <2>5 DEF PutsWell
<1> HIDE DEF T
<1>6. Nat \subseteq T
  BY <1>4, <1>5, Induction
<1>7. l[n] \in Lines /\ l[n].dest = d[n]
  BY <1>2, <1>6 DEF T
<1> QED  BY <1>1, <1>7, PrintedIs

-------------------------------------------------------------------------------
(* What is behind a "%" prints.                                            *)
FlagOut(c, msg) ==
  CASE c \in Flags -> Flag(c, msg, msg.tm)
    [] c = "+" -> Whole(msg)
    [] c = "^" \/ c = "$" -> <<>>
    [] OTHER -> <<"%">> \o <<c>>

LEMMA NoneOfTheFlags ==
  "+" \notin Flags /\ "^" \notin Flags /\ "$" \notin Flags
BY DEF Flags

LEMMA FlagOutIs ==
  ASSUME NEW c, NEW msg
  PROVE  /\ c \in Flags => FlagOut(c, msg) = Flag(c, msg, msg.tm)
         /\ c = "+" => FlagOut(c, msg) = Whole(msg)
         /\ c = "^" \/ c = "$" => FlagOut(c, msg) = <<>>
         /\ c \notin Flags /\ c # "+" /\ c # "^" /\ c # "$" => FlagOut(c, msg) = <<"%">> \o <<c>>
<1>0. "+" # "^" /\ "+" # "$"
  OBVIOUS
<1>1. ASSUME c \in Flags  PROVE FlagOut(c, msg) = Flag(c, msg, msg.tm)
  BY <1>1, NoneOfTheFlags, Zenon DEF FlagOut
<1>2. ASSUME c = "+"  PROVE FlagOut(c, msg) = Whole(msg)
  BY <1>0, <1>2, NoneOfTheFlags, Zenon DEF FlagOut
<1>3. ASSUME c = "^" \/ c = "$"  PROVE FlagOut(c, msg) = <<>>
  BY <1>0, <1>3, NoneOfTheFlags, Zenon DEF FlagOut
<1>4. ASSUME c \notin Flags, c # "+", c # "^", c # "$"  PROVE FlagOut(c, msg) = <<"%">> \o <<c>>
  BY <1>4, Zenon DEF FlagOut
<1> QED  BY <1>1, <1>2, <1>3, <1>4

LEMMA HandledIs ==
  ASSUME NEW c
  PROVE  /\ c \in Flags => handle_flag_(c) = <<FlagOf(c)>>
         /\ c = "+" => handle_flag_(c) = <<Full(<<>>, 0)>>
         /\ c = "^" => handle_flag_(c) = <<Start_>>
         /\ c = "$" => handle_flag_(c) = <<Stop_>>
         /\ c \notin Flags /\ c # "+" /\ c # "^" /\ c # "$" => handle_flag_(c) = <<Chars(<<"%">>), Chars(<<c>>)>>
<1>0. "+" # "^" /\ "+" # "$" /\ "^" # "$"
  OBVIOUS
<1>1. ASSUME c \in Flags  PROVE handle_flag_(c) = <<FlagOf(c)>>
  BY <1>1, NoneOfTheFlags, Zenon DEF handle_flag_, FlagOf
<1>2. ASSUME c = "+"  PROVE handle_flag_(c) = <<Full(<<>>, 0)>>
  BY <1>0, <1>2, NoneOfTheFlags, Zenon DEF handle_flag_, Full
<1>3. ASSUME c = "^"  PROVE handle_flag_(c) = <<Start_>>
  BY <1>0, <1>3, NoneOfTheFlags, Zenon DEF handle_flag_, Start_
<1>4. ASSUME c = "$"  PROVE handle_flag_(c) = <<Stop_>>
  BY <1>0, <1>4, NoneOfTheFlags, Zenon DEF handle_flag_, Stop_
<1>5. ASSUME c \notin Flags, c # "+", c # "^", c # "$"  PROVE handle_flag_(c) = <<Chars(<<"%">>), Chars(<<c>>)>>
  BY <1>5, Zenon DEF handle_flag_
<1> QED  BY <1>1, <1>2, <1>3, <1>4, <1>5

LEMMA FormattersAre ==
  /\ \A s \in Texts : Chars(s) \in Formatters
  /\ \A c \in Flags : FlagOf(c) \in Formatters
  /\ Start_ \in Formatters /\ Stop_ \in Formatters /\ Full(<<>>, 0) \in Formatters
BY DEF Formatters

LEMMA PutsAre ==
  ASSUME NEW msg
  PROVE  /\ \A s : Puts(Chars(s), msg) = s
         /\ \A c : Puts(FlagOf(c), msg) = Flag(c, msg, msg.tm)
         /\ Puts(Start_, msg) = <<>> /\ Puts(Stop_, msg) = <<>> /\ Puts(Full(<<>>, 0), msg) = Whole(msg)
<1>0. "chars" # "flag" /\ "chars" # "full" /\ "flag" # "full" /\ "color_start" # "chars" /\ "color_start" # "flag"
      /\ "color_start" # "full" /\ "color_stop" # "chars" /\ "color_stop" # "flag" /\ "color_stop" # "full"
  OBVIOUS
<1>1. ASSUME NEW s  PROVE Puts(Chars(s), msg) = s
  <2>1. Chars(s).kind = "chars" /\ Chars(s).chars = s
    BY DEF Chars
  <2> QED  BY <1>0, <2>1, Zenon DEF Puts
<1>2. ASSUME NEW c  PROVE Puts(FlagOf(c), msg) = Flag(c, msg, msg.tm)
  <2>1. FlagOf(c).kind = "flag" /\ FlagOf(c).flag = c
    BY DEF FlagOf
  <2> QED  BY <1>0, <2>1, Zenon DEF Puts
<1>3. Puts(Start_, msg) = <<>>
  <2>1. Start_.kind = "color_start"
    BY DEF Start_
  <2> QED  BY <1>0, <2>1, Zenon DEF Puts
<1>4. Puts(Stop_, msg) = <<>>
  <2>1. Stop_.kind = "color_stop"
    BY DEF Stop_
  <2> QED  BY <1>0, <2>1, Zenon DEF Puts
<1>5. Puts(Full(<<>>, 0), msg) = Whole(msg)
  <2>1. Full(<<>>, 0).kind = "full"
    BY DEF Full
  <2> QED  BY <1>0, <2>1, Zenon DEF Puts
<1> QED  BY <1>1, <1>2, <1>3, <1>4, <1>5

LEMMA HandledPrints ==
  ASSUME NEW c \in Symbols
  PROVE  /\ handle_flag_(c) \in Seq(Formatters)
         /\ \A msg \in Messages : Printed(handle_flag_(c), msg) = FlagOut(c, msg) /\ FlagOut(c, msg) \in Texts
<1> DEFINE h == handle_flag_(c)
           OneOf(f) == \A msg \in Messages : Puts(f, msg) = FlagOut(c, msg)
<1>0. ASSUME NEW f \in Formatters, h = <<f>>, OneOf(f)
      PROVE  /\ h \in Seq(Formatters)
             /\ \A msg \in Messages : Printed(h, msg) = FlagOut(c, msg) /\ FlagOut(c, msg) \in Texts
  <2>1. h \in Seq(Formatters)
    BY <1>0, PrintedOne
  <2>2. ASSUME NEW msg \in Messages  PROVE Printed(h, msg) = FlagOut(c, msg) /\ FlagOut(c, msg) \in Texts
    <3>1. Puts(f, msg) \in Texts
      BY FormattedIs, ALineExists
    <3>2. Printed(<<f>>, msg) = Puts(f, msg)
      BY PrintedOne
    <3>3. Puts(f, msg) = FlagOut(c, msg)
      BY <1>0
    <3> QED  BY <1>0, <3>1, <3>2, <3>3, Zenon
  <2> QED  BY <2>1, <2>2
<1>1. CASE c \in Flags
  <2>1. h = <<FlagOf(c)>> /\ FlagOf(c) \in Formatters
    BY <1>1, HandledIs, FormattersAre
  <2>2. OneOf(FlagOf(c))
    <3> SUFFICES ASSUME NEW msg \in Messages  PROVE Puts(FlagOf(c), msg) = FlagOut(c, msg)
      OBVIOUS
    <3>1. Puts(FlagOf(c), msg) = Flag(c, msg, msg.tm)
      BY PutsAre
    <3>2. FlagOut(c, msg) = Flag(c, msg, msg.tm)
      BY <1>1, FlagOutIs
    <3> QED  BY <3>1, <3>2, Zenon
  <2> HIDE DEF h, OneOf
  <2> QED  BY <1>0, <2>1, <2>2 DEF h
<1>2. CASE c = "+"
  <2>1. h = <<Full(<<>>, 0)>> /\ Full(<<>>, 0) \in Formatters
    BY <1>2, HandledIs, FormattersAre
  <2>2. OneOf(Full(<<>>, 0))
    BY <1>2, FlagOutIs, PutsAre
  <2> HIDE DEF h, OneOf
  <2> QED  BY <1>0, <2>1, <2>2 DEF h
<1>3. CASE c = "^"
  <2>1. h = <<Start_>> /\ Start_ \in Formatters
    BY <1>3, HandledIs, FormattersAre
  <2>2. OneOf(Start_)
    BY <1>3, FlagOutIs, PutsAre
  <2> HIDE DEF h, OneOf
  <2> QED  BY <1>0, <2>1, <2>2 DEF h
<1>4. CASE c = "$"
  <2>1. h = <<Stop_>> /\ Stop_ \in Formatters
    BY <1>4, HandledIs, FormattersAre
  <2>2. OneOf(Stop_)
    BY <1>4, FlagOutIs, PutsAre
  <2> HIDE DEF h, OneOf
  <2> QED  BY <1>0, <2>1, <2>2 DEF h
<1>5. CASE c \notin Flags /\ c # "+" /\ c # "^" /\ c # "$"
  <2> DEFINE p == Chars(<<"%">>)
             q == Chars(<<c>>)
  <2>1. <<"%">> \in Texts /\ <<c>> \in Texts
    BY SignsAreTexts, OneIsText
  <2>2. handle_flag_(c) = <<p, q>>
    BY <1>5, HandledIs
  <2>3. p \in Formatters /\ q \in Formatters
    BY <2>1, FormattersAre
  <2>4. \A msg : Puts(p, msg) = <<"%">> /\ Puts(q, msg) = <<c>>
    BY PutsAre
  <2> HIDE DEF p, q
  <2>5. <<p, q>> = <<p>> \o <<q>>
    <3> DEFINE S == {p, q}
    <3>1. p \in S /\ q \in S
      OBVIOUS
    <3> HIDE DEF S
    <3> QED  BY <3>1, PairIs
  <2>6. ASSUME NEW msg \in Messages
        PROVE  Printed(handle_flag_(c), msg) = FlagOut(c, msg) /\ FlagOut(c, msg) \in Texts
    <3>1. FlagOut(c, msg) = <<"%">> \o <<c>>
      BY <1>5, FlagOutIs
    <3>2. FlagOut(c, msg) \in Texts
      BY <2>1, <3>1, TextsJoin
    <3>3. <<p>> \in Seq(Formatters) /\ <<q>> \in Seq(Formatters)
      BY <2>3, ShortOnes
    <3>4. Printed(<<p>>, msg) = <<"%">> /\ Printed(<<q>>, msg) = <<c>>
      BY <2>3, <2>4, PrintedOne
    <3>5. Printed(<<p>> \o <<q>>, msg) = Printed(<<p>>, msg) \o Printed(<<q>>, msg)
      BY <3>3, PrintedJoin
    <3> QED  BY <2>2, <2>5, <3>1, <3>2, <3>4, <3>5, Zenon
  <2>7. handle_flag_(c) \in Seq(Formatters)
    BY <2>2, <2>3, ShortOnes
  <2> QED  BY <2>6, <2>7
<1> QED  BY <1>1, <1>2, <1>3, <1>4, <1>5

-------------------------------------------------------------------------------
(* Where the characters at i end, up to the next "%".                      *)
IsRunEnd(s, i, j) ==
  /\ j \in (i + 1)..(Len(s) + 1) /\ \A k \in i..(j - 1) : s[k] # "%"
  /\ j <= Len(s) => s[j] = "%"

RunEnd(s, i) == Behind(s, i, Range(s) \ {"%"})

LEMMA RunEndIs ==
  ASSUME NEW s \in Texts, NEW i \in 1..Len(s), s[i] # "%"
  PROVE  IsRunEnd(s, i, RunEnd(s, i)) /\ RunEnd(s, i) \in Nat
<1> DEFINE set == Range(s) \ {"%"}
           j == RunEnd(s, i)
<1>1. s \in Seq(Symbols) /\ Len(s) \in Nat
  BY DEF Texts
<1>2. \A k \in 1..Len(s) : s[k] \in set <=> s[k] # "%"
  <2>1. DOMAIN s = 1..Len(s)
    BY <1>1
  <2> QED  BY <2>1 DEF Range
<1> HIDE DEF set
<1>3. /\ j \in i..(Len(s) + 1)
      /\ \A k \in i..(j - 1) : s[k] \in set
      /\ j <= Len(s) => s[j] \notin set
  <2>1. i \in 1..(Len(s) + 1)
    BY <1>1
  <2> QED  BY <1>1, <2>1, BehindIs DEF RunEnd, set
<1> HIDE DEF j
<1>4. j # i
  BY <1>2, <1>3
<1>5. \A k \in i..(j - 1) : k \in 1..Len(s)
  BY <1>1, <1>3
<1>6. j \in (i + 1)..(Len(s) + 1) /\ (j <= Len(s) => j \in 1..Len(s)) /\ j \in Nat
  BY <1>1, <1>3, <1>4
<1> QED  BY <1>2, <1>3, <1>5, <1>6 DEF IsRunEnd, j

LEMMA RunEndsOnce ==
  ASSUME NEW s \in Texts, NEW i \in 1..Len(s), NEW j, NEW k, IsRunEnd(s, i, j), IsRunEnd(s, i, k)
  PROVE  j = k
<1>1. Len(s) \in Nat
  BY DEF Texts
<1>2. j \in Nat /\ k \in Nat /\ i < j /\ i < k /\ j <= Len(s) + 1 /\ k <= Len(s) + 1
  BY <1>1 DEF IsRunEnd
<1>3. ASSUME j < k  PROVE FALSE
  <2>1. j \in i..(k - 1) /\ j <= Len(s)
    BY <1>1, <1>2, <1>3
  <2> QED  BY <2>1 DEF IsRunEnd
<1>4. ASSUME k < j  PROVE FALSE
  <2>1. k \in i..(j - 1) /\ k <= Len(s)
    BY <1>1, <1>2, <1>4
  <2> QED  BY <2>1 DEF IsRunEnd
<1> QED  BY <1>2, <1>3, <1>4

LEMMA RunEndsNext ==
  ASSUME NEW s \in Texts, NEW i \in 1..Len(s), s[i] # "%"
  PROVE  /\ i < Len(s) /\ s[i + 1] # "%" => RunEnd(s, i) = RunEnd(s, i + 1)
         /\ i = Len(s) \/ s[i + 1] = "%" => RunEnd(s, i) = i + 1
<1>1. Len(s) \in Nat
  BY DEF Texts
<1>2. ASSUME i < Len(s), s[i + 1] # "%"  PROVE RunEnd(s, i) = RunEnd(s, i + 1)
  <2> DEFINE j == RunEnd(s, i + 1)
  <2>1. i + 1 \in 1..Len(s)
    BY <1>1, <1>2
  <2>2. IsRunEnd(s, i + 1, j) /\ j \in Nat
    BY <1>2, <2>1, RunEndIs
  <2> HIDE DEF j
  <2>3. j \in ((i + 1) + 1)..(Len(s) + 1) /\ (\A k \in (i + 1)..(j - 1) : s[k] # "%") /\ (j <= Len(s) => s[j] = "%")
    BY <2>2 DEF IsRunEnd
  <2>4. j \in (i + 1)..(Len(s) + 1) /\ \A k \in i..(j - 1) : k = i \/ k \in (i + 1)..(j - 1)
    BY <1>1, <2>3
  <2>5. IsRunEnd(s, i, j)
    BY <2>3, <2>4 DEF IsRunEnd
  <2>6. IsRunEnd(s, i, RunEnd(s, i))
    BY RunEndIs
  <2> QED  BY <2>5, <2>6, RunEndsOnce DEF j
<1>3. ASSUME i = Len(s) \/ s[i + 1] = "%"  PROVE RunEnd(s, i) = i + 1
  <2>1. i + 1 \in (i + 1)..(Len(s) + 1) /\ \A k \in i..((i + 1) - 1) : k = i
    BY <1>1
  <2>2. i + 1 <= Len(s) => s[i + 1] = "%"
    BY <1>1, <1>3
  <2>3. IsRunEnd(s, i, i + 1)
    BY <2>1, <2>2 DEF IsRunEnd
  <2>4. IsRunEnd(s, i, RunEnd(s, i))
    BY RunEndIs
  <2> QED  BY <2>3, <2>4, RunEndsOnce
<1> QED  BY <1>2, <1>3

-------------------------------------------------------------------------------
(***************************************************************************)
(* The formatters of the pattern from i on, by those of later places.      *)
(***************************************************************************)
CharsThen(s, f, i) == user_chars(s, i, RunEnd(s, i)) \o f[RunEnd(s, i)]
FlagThen(s, f, i) == handle_flag_(s[i + 1]) \o f[i + 2]

Compiled(s, f, i) ==
  CASE i > Len(s) -> <<>>
    [] i <= Len(s) /\ s[i] # "%" -> CharsThen(s, f, i)
    [] OTHER -> IF i = Len(s) THEN <<>> ELSE FlagThen(s, f, i)

LEMMA CompiledIs ==
  ASSUME NEW s \in Texts, NEW f, NEW i \in 1..(Len(s) + 2)
  PROVE  /\ i > Len(s) => Compiled(s, f, i) = <<>>
         /\ i <= Len(s) /\ s[i] # "%" => Compiled(s, f, i) = CharsThen(s, f, i)
         /\ i <= Len(s) /\ s[i] = "%" /\ i = Len(s) => Compiled(s, f, i) = <<>>
         /\ i <= Len(s) /\ s[i] = "%" /\ i # Len(s) => Compiled(s, f, i) = FlagThen(s, f, i)
<1>1. Len(s) \in Nat
  BY DEF Texts
<1>2. i > Len(s) <=> ~(i <= Len(s))
  BY <1>1
<1>3. ASSUME i > Len(s)  PROVE Compiled(s, f, i) = <<>>
  BY <1>2, <1>3, Zenon DEF Compiled
<1>4. ASSUME i <= Len(s), s[i] # "%"  PROVE Compiled(s, f, i) = CharsThen(s, f, i)
  BY <1>2, <1>4, Zenon DEF Compiled
<1>5. ASSUME i <= Len(s), s[i] = "%", i = Len(s)  PROVE Compiled(s, f, i) = <<>>
  BY <1>2, <1>5, Zenon DEF Compiled
<1>6. ASSUME i <= Len(s), s[i] = "%", i # Len(s)  PROVE Compiled(s, f, i) = FlagThen(s, f, i)
  BY <1>2, <1>6, Zenon DEF Compiled
<1> QED  BY <1>3, <1>4, <1>5, <1>6

LEMMA PieceIsText ==
  ASSUME NEW s \in Texts, NEW i \in 1..Len(s), s[i] # "%"
  PROVE  /\ user_chars(s, i, RunEnd(s, i)) = <<Chars(SubSeq(s, i, RunEnd(s, i) - 1))>>
         /\ SubSeq(s, i, RunEnd(s, i) - 1) \in Texts
         /\ user_chars(s, i, RunEnd(s, i)) \in Seq(Formatters)
<1> DEFINE j == RunEnd(s, i)
<1>1. IsRunEnd(s, i, j) /\ j \in Nat
  BY RunEndIs
<1> HIDE DEF j
<1>2. s \in Seq(Symbols) /\ Len(s) \in Nat
  BY DEF Texts
<1>3. i < j /\ j <= Len(s) + 1
  BY <1>1, <1>2 DEF IsRunEnd
<1>4. SubSeq(s, i, j - 1) \in Seq(Symbols)
  <2>1. j - 1 \in i..Len(s)
    BY <1>1, <1>2, <1>3
  <2> QED  BY <1>2, <2>1
<1>5. SubSeq(s, i, j - 1) \in Texts
  BY <1>4 DEF Texts
<1>6. user_chars(s, i, j) = <<Chars(SubSeq(s, i, j - 1))>>
  BY DEF user_chars
<1>7. Chars(SubSeq(s, i, j - 1)) \in Formatters
  BY <1>5, FormattersAre
<1>8. user_chars(s, i, j) \in Seq(Formatters)
  BY <1>6, <1>7, ShortOnes
<1> QED  BY <1>5, <1>6, <1>8 DEF j

IsCompiled(s, h) ==
  h \in [1..(Len(s) + 2) -> Seq(Formatters)] /\ \A i \in 1..(Len(s) + 2) : h[i] = Compiled(s, h, i)

LEMMA CompiledExists ==
  ASSUME NEW s \in Texts
  PROVE  \E h : IsCompiled(s, h) /\ compile_pattern_(s) = h[1]
<1> DEFINE n == Len(s) + 2
           S == 1..n
           D == Seq(Formatters)
           E == [S -> D]
           rank == [i \in S |-> n - i]
           next == [f \in E |-> [i \in S |-> Compiled(s, f, i)]]
<1>1. Len(s) \in Nat /\ n \in Nat
  BY DEF Texts
<1>2. rank \in [S -> 0..n] /\ \A i \in S : rank[i] = n - i
  BY <1>1
<1>13. ASSUME NEW i \in S, i <= Len(s), s[i] # "%"
       PROVE  RunEnd(s, i) \in S /\ rank[RunEnd(s, i)] < rank[i] /\ user_chars(s, i, RunEnd(s, i)) \in D
  <2>1. i \in 1..Len(s)
    BY <1>1, <1>13
  <2>2. IsRunEnd(s, i, RunEnd(s, i)) /\ RunEnd(s, i) \in Nat
    BY <1>13, <2>1, RunEndIs
  <2>3. user_chars(s, i, RunEnd(s, i)) \in D
    BY <1>13, <2>1, PieceIsText
  <2>4. RunEnd(s, i) \in S /\ i < RunEnd(s, i)
    BY <1>1, <2>1, <2>2 DEF IsRunEnd
  <2>5. n - RunEnd(s, i) < n - i
    BY <1>1, <2>2, <2>4
  <2> HIDE DEF D, S, rank
  <2> QED  BY <1>2, <2>3, <2>4, <2>5
<1>14. ASSUME NEW i \in S, i <= Len(s), i # Len(s)
       PROVE  i + 2 \in S /\ rank[i + 2] < rank[i] /\ handle_flag_(s[i + 1]) \in D
  <2>1. i + 1 \in 1..Len(s) /\ i + 2 \in S /\ n - (i + 2) < n - i
    BY <1>1, <1>14
  <2>2. s[i + 1] \in Symbols
    BY <2>1 DEF Texts
  <2>3. handle_flag_(s[i + 1]) \in D
    BY <2>2, HandledPrints
  <2> HIDE DEF D, S, rank
  <2> QED  BY <1>2, <2>1, <2>3
<1>3. ASSUME NEW f \in E, NEW i \in S, i <= Len(s), s[i] # "%"
      PROVE  CharsThen(s, f, i) \in D
  <2>1. f[RunEnd(s, i)] \in D /\ user_chars(s, i, RunEnd(s, i)) \in D
    BY <1>3, <1>13
  <2> QED  BY <2>1, JoinHas DEF CharsThen
<1>4. ASSUME NEW f \in E, NEW i \in S, i <= Len(s), i # Len(s)
      PROVE  FlagThen(s, f, i) \in D
  <2>1. f[i + 2] \in D /\ handle_flag_(s[i + 1]) \in D
    BY <1>4, <1>14
  <2> QED  BY <2>1, JoinHas DEF FlagThen
<1>5. <<>> \in D
  OBVIOUS
<1>6. ASSUME NEW f \in E, NEW i \in S  PROVE Compiled(s, f, i) \in D
  <2>1. i > Len(s) \/ i <= Len(s)
    BY <1>1
  <2> HIDE DEF D, rank
  <2> QED  BY <1>3, <1>4, <1>5, <2>1, CompiledIs
<1>7. ASSUME NEW f, NEW g, NEW i \in S, \A k \in S : rank[k] < rank[i] => f[k] = g[k]
      PROVE  Compiled(s, f, i) = Compiled(s, g, i)
  <2>1. i > Len(s) \/ i <= Len(s)
    BY <1>1
  <2>2. ASSUME i <= Len(s), s[i] # "%"  PROVE CharsThen(s, f, i) = CharsThen(s, g, i)
    <3>1. f[RunEnd(s, i)] = g[RunEnd(s, i)]
      <4> HIDE DEF rank, S, E
      <4> QED  BY <1>13, <1>7, <2>2
    <3> QED  BY <3>1, Zenon DEF CharsThen
  <2>3. ASSUME i <= Len(s), i # Len(s)  PROVE FlagThen(s, f, i) = FlagThen(s, g, i)
    <3>1. f[i + 2] = g[i + 2]
      <4> HIDE DEF rank, S, E
      <4> QED  BY <1>14, <1>7, <2>3
    <3> QED  BY <3>1, Zenon DEF FlagThen
  <2>4. CASE i > Len(s)
    BY <2>4, CompiledIs
  <2>5. CASE i <= Len(s) /\ s[i] # "%"
    <3>1. Compiled(s, f, i) = CharsThen(s, f, i) /\ Compiled(s, g, i) = CharsThen(s, g, i)
      BY <2>5, CompiledIs
    <3> QED  BY <2>2, <2>5, <3>1
  <2>6. CASE i <= Len(s) /\ s[i] = "%" /\ i = Len(s)
    BY <2>6, CompiledIs
  <2>7. CASE i <= Len(s) /\ s[i] = "%" /\ i # Len(s)
    <3>1. Compiled(s, f, i) = FlagThen(s, f, i) /\ Compiled(s, g, i) = FlagThen(s, g, i)
      BY <2>7, CompiledIs
    <3> QED  BY <2>3, <2>7, <3>1
  <2> QED  BY <2>1, <2>4, <2>5, <2>6, <2>7, Zenon
<1>8. Lowers(S, D, rank, next)
  <2>1. next \in [E -> E]
    <3> HIDE DEF D, S
    <3> QED  BY <1>6
  <2>2. \A f \in E, i \in S : next[f][i] = Compiled(s, f, i)
    <3> HIDE DEF S, D
    <3> QED  OBVIOUS
  <2>3. ASSUME NEW f \in E, NEW g \in E, NEW i \in S, \A k \in S : rank[k] < rank[i] => f[k] = g[k]
        PROVE  next[f][i] = next[g][i]
    <3>1. Compiled(s, f, i) = Compiled(s, g, i)
      <4> HIDE DEF S, rank, E, next
      <4> QED  BY <1>7, <2>3, Zenon
    <3> HIDE DEF S, rank, E, next
    <3> QED  BY <2>2, <3>1, Zenon
  <2> HIDE DEF next, S, rank
  <2> QED  BY <2>1, <2>3 DEF Lowers
<1>9. PICK h \in E : h = next[h]
  <2> HIDE DEF S, D, rank, next
  <2> QED  BY <1>1, <1>2, <1>5, <1>8, RecursionDown DEF E
<1>10. h = [i \in S |-> Compiled(s, h, i)]
  <2> HIDE DEF S
  <2> QED  BY <1>9
<1> DEFINE g == CHOOSE f : f = [i \in S |-> Compiled(s, f, i)]
<1>11. g = [i \in S |-> Compiled(s, g, i)]
  <2> DEFINE IsIt(f) == f = [i \in S |-> Compiled(s, f, i)]
  <2>1. \E f : IsIt(f)
    BY <1>10
  <2> HIDE DEF IsIt
  <2>2. IsIt(CHOOSE f : IsIt(f))
    BY <2>1, Zenon
  <2> QED  BY <2>2, Zenon DEF IsIt
<1>12. compile_pattern_(s) = g[1]
  BY Zenon DEF compile_pattern_, Compiled, CharsThen, FlagThen, RunEnd
<1> HIDE DEF g
<1>15. \A i \in S : g[i] = Compiled(s, g, i) /\ h[i] = Compiled(s, h, i)
  <2> HIDE DEF S
  <2> QED  BY <1>10, <1>11, Zenon
<1> DEFINE T == {k \in Nat : \A i \in S : rank[i] <= k => g[i] = h[i]}
<1>16. ASSUME NEW i \in S, \A k \in S : rank[k] < rank[i] => g[k] = h[k]  PROVE g[i] = h[i]
  <2>1. Compiled(s, g, i) = Compiled(s, h, i)
    <3> HIDE DEF S, rank
    <3> QED  BY <1>7, <1>16, Zenon
  <2> QED  BY <1>15, <2>1, Zenon
<1> HIDE DEF S, D, E, next
<1>17. \A i \in S : rank[i] \in Nat /\ rank[i] <= n
  BY <1>1, <1>2
<1> HIDE DEF rank, n
<1>18. 0 \in T
  <2>1. \A i, k \in S : rank[i] <= 0 => ~(rank[k] < rank[i])
    BY <1>17
  <2> QED  BY <1>16, <2>1
<1>19. ASSUME NEW k \in Nat, k \in T  PROVE k + 1 \in T
  <2>1. \A i, j \in S : rank[i] <= k + 1 /\ rank[j] < rank[i] => rank[j] <= k
    BY <1>17
  <2> QED  BY <1>16, <1>19, <2>1
<1> HIDE DEF T
<1>20. Nat \subseteq T
  BY <1>18, <1>19, Induction
<1>21. \A i \in S : g[i] = h[i]
  BY <1>1, <1>17, <1>20 DEF T
<1>22. 1 \in S
  BY <1>1 DEF S, n
<1>23. IsCompiled(s, h)
  BY <1>9, <1>15 DEF IsCompiled, S, E, D, n
<1> QED  BY <1>12, <1>21, <1>22, <1>23

-------------------------------------------------------------------------------
(***************************************************************************)
(* What the pattern from i on prints.                                      *)
(***************************************************************************)
IsShown(s, msg, h) ==
  /\ h \in [1..(Len(s) + 2) -> Texts] /\ h[Len(s) + 1] = <<>> /\ h[Len(s) + 2] = <<>>
  /\ \A i \in 1..Len(s) :
       /\ s[i] # "%" => h[i] = <<s[i]>> \o h[i + 1]
       /\ s[i] = "%" /\ i = Len(s) => h[i] = <<>>
       /\ s[i] = "%" /\ i # Len(s) => h[i] = FlagOut(s[i + 1], msg) \o h[i + 2]

Shown(s, msg) == Printed(compile_pattern_(s), msg)

LEMMA OneThenRest ==
  ASSUME NEW s \in Texts, NEW i \in 1..Len(s), NEW n \in (i + 1)..Len(s)
  PROVE  SubSeq(s, i, n) = <<s[i]>> \o SubSeq(s, i + 1, n) /\ SubSeq(s, i + 1, n) \in Texts /\ <<s[i]>> \in Texts
<1> DEFINE a == <<s[i]>>
           b == SubSeq(s, i + 1, n)
           c == SubSeq(s, i, n)
<1>1. s \in Seq(Symbols) /\ Len(s) \in Nat /\ s[i] \in Symbols
  BY DEF Texts
<1>2. a \in Seq(Symbols) /\ Len(a) = 1 /\ a[1] = s[i]
  BY <1>1
<1>3. b \in Seq(Symbols) /\ Len(b) = n - i /\ \A k \in 1..(n - i) : b[k] = s[i + k]
  <2>1. i + 1 \in 1..Len(s) /\ n \in 1..Len(s)
    BY <1>1
  <2>2. b \in Seq(Symbols) /\ Len(b) = n - i
    BY <1>1, <2>1
  <2>3. \A k \in 1..(n - i) : b[k] = s[((i + 1) + k) - 1]
    BY <1>1, <2>1
  <2>4. \A k \in 1..(n - i) : ((i + 1) + k) - 1 = i + k
    BY <1>1
  <2> QED  BY <2>2, <2>3, <2>4
<1>4. c \in Seq(Symbols) /\ Len(c) = (n - i) + 1 /\ \A k \in 1..((n - i) + 1) : c[k] = s[(i + k) - 1]
  BY <1>1
<1> HIDE DEF a, b, c
<1>5. /\ a \o b \in Seq(Symbols) /\ Len(a \o b) = Len(a) + Len(b)
      /\ \A k \in 1..Len(a) : (a \o b)[k] = a[k]
      /\ \A k \in 1..Len(b) : (a \o b)[Len(a) + k] = b[k]
  <2>1. a \in Seq(Symbols) /\ b \in Seq(Symbols)
    BY <1>2, <1>3
  <2> QED  BY <2>1, JoinHas
<1>6. n - i \in Nat /\ Len(a \o b) = Len(c) /\ Len(c) = (n - i) + 1
  BY <1>1, <1>2, <1>3, <1>4, <1>5
<1>7. ASSUME NEW k \in 1..Len(c)  PROVE c[k] = (a \o b)[k]
  <2>1. CASE k = 1
    <3>1. c[1] = s[(i + 1) - 1] /\ (i + 1) - 1 = i
      BY <1>4, <1>6
    <3>2. (a \o b)[1] = a[1]
      BY <1>2, <1>5
    <3> QED  BY <1>2, <2>1, <3>1, <3>2
  <2>2. CASE k # 1
    <3>1. k - 1 \in 1..(n - i) /\ k - 1 \in 1..Len(b) /\ 1 + (k - 1) = k /\ i + (k - 1) = (i + k) - 1
      BY <1>3, <1>6, <2>2
    <3>2. (a \o b)[Len(a) + (k - 1)] = b[k - 1]
      BY <1>5, <3>1
    <3>3. b[k - 1] = s[i + (k - 1)]
      BY <1>3, <3>1
    <3>4. c[k] = s[(i + k) - 1]
      BY <1>4, <1>6
    <3> QED  BY <1>2, <3>1, <3>2, <3>3, <3>4
  <2> QED  BY <2>1, <2>2
<1>8. c = a \o b
  BY <1>4, <1>5, <1>6, <1>7, SameSeq
<1> QED  BY <1>2, <1>3, <1>8 DEF a, b, c, Texts

LEMMA ShownExists ==
  ASSUME NEW s \in Texts, NEW msg \in Messages
  PROVE  /\ compile_pattern_(s) \in Seq(Formatters) /\ Shown(s, msg) \in Texts
         /\ \E h : IsShown(s, msg, h) /\ Shown(s, msg) = h[1]
<1> DEFINE n == Len(s)
<1>1. n \in Nat
  BY DEF Texts
<1>2. PICK g : IsCompiled(s, g) /\ compile_pattern_(s) = g[1]
  BY CompiledExists
<1>3. \A i \in 1..(n + 2) : g[i] \in Seq(Formatters) /\ g[i] = Compiled(s, g, i)
  BY <1>2 DEF IsCompiled
<1> DEFINE h == [i \in 1..(n + 2) |-> Printed(g[i], msg)]
<1>4. \A i \in 1..(n + 2) : h[i] = Printed(g[i], msg) /\ h[i] \in Texts
  BY <1>3, PrintedIs
<1>5. h \in [1..(n + 2) -> Texts]
  BY <1>4
<1> HIDE DEF h, n
<1>6. ASSUME NEW i \in 1..(n + 2), g[i] = <<>>  PROVE h[i] = <<>>
  BY <1>4, <1>6, NonePrinted, Zenon
<1>7. ASSUME NEW i \in 1..n, s[i] # "%"
      PROVE  h[i] = SubSeq(s, i, RunEnd(s, i) - 1) \o h[RunEnd(s, i)]
  <2> DEFINE j == RunEnd(s, i)
             c == Chars(SubSeq(s, i, j - 1))
  <2>1. i \in 1..Len(s) /\ i \in 1..(n + 2) /\ i <= Len(s)
    BY <1>1 DEF n
  <2>2. j \in 1..(n + 2)
    <3>1. IsRunEnd(s, i, j) /\ j \in Nat
      BY <1>7, <2>1, RunEndIs
    <3> HIDE DEF j
    <3> QED  BY <1>1, <2>1, <3>1 DEF IsRunEnd, n
  <2>3. user_chars(s, i, j) = <<c>> /\ c \in Formatters
    <3>1. user_chars(s, i, j) = <<c>> /\ SubSeq(s, i, j - 1) \in Texts
      BY <1>7, <2>1, PieceIsText
    <3> QED  BY <3>1, FormattersAre
  <2>4. Compiled(s, g, i) = CharsThen(s, g, i)
    BY <1>7, <2>1, CompiledIs DEF n
  <2>5. g[i] = <<c>> \o g[j]
    <3>1. g[i] = Compiled(s, g, i)
      BY <1>3, <2>1
    <3> QED  BY <2>3, <2>4, <3>1, Zenon DEF CharsThen
  <2>6. g[j] \in Seq(Formatters) /\ Printed(g[j], msg) = h[j]
    BY <1>3, <1>4, <2>2
  <2>7. Puts(c, msg) = SubSeq(s, i, j - 1)
    BY PutsAre
  <2> HIDE DEF c, j
  <2>8. Printed(<<c>>, msg) = Puts(c, msg) /\ <<c>> \in Seq(Formatters)
    BY <2>3, PrintedOne
  <2>9. Printed(<<c>> \o g[j], msg) = Printed(<<c>>, msg) \o Printed(g[j], msg)
    BY <2>6, <2>8, PrintedJoin
  <2>10. h[i] = Printed(g[i], msg)
    BY <1>4, <2>1
  <2>11. h[i] = SubSeq(s, i, j - 1) \o h[j]
    BY <2>5, <2>6, <2>7, <2>8, <2>9, <2>10, Zenon
  <2> QED  BY <2>11 DEF j
<1>8. ASSUME NEW i \in 1..n, s[i] # "%"  PROVE h[i] = <<s[i]>> \o h[i + 1]
  <2>1. i \in 1..Len(s) /\ i + 1 \in 1..(n + 2) /\ n = Len(s) /\ Len(s) \in Nat
    BY <1>1 DEF n
  <2>2. CASE i = Len(s) \/ s[i + 1] = "%"
    <3>1. RunEnd(s, i) = i + 1
      BY <1>8, <2>1, <2>2, RunEndsNext
    <3>2. h[i] = SubSeq(s, i, (i + 1) - 1) \o h[i + 1]
      BY <1>7, <1>8, <3>1
    <3>3. SubSeq(s, i, (i + 1) - 1) = <<s[i]>>
      <4>1. s \in Seq(Symbols) /\ (i + 1) - 1 = i /\ i \in 1..Len(s)
        BY <2>1 DEF Texts
      <4> DEFINE a == SubSeq(s, i, i)
                 b == <<s[i]>>
      <4>2. a \in Seq(Symbols) /\ Len(a) = 1 /\ a[1] = s[i]
        <5>1. a \in Seq(Symbols)
          BY <4>1
        <5>2. Len(a) = 1
          BY <4>1
        <5>3. a[1] = s[(i + 1) - 1]
          BY <4>1
        <5> QED  BY <4>1, <5>1, <5>2, <5>3
      <4>3. b \in Seq(Symbols) /\ Len(b) = 1 /\ b[1] = s[i]
        <5>1. s[i] \in Symbols
          BY <4>1
        <5> QED  BY <5>1
      <4> HIDE DEF a, b
      <4>4. \A k \in 1..1 : k = 1
        OBVIOUS
      <4>5. a = b
        BY <4>2, <4>3, <4>4, SameSeq
      <4> QED  BY <4>1, <4>5 DEF a, b
    <3> QED  BY <3>2, <3>3
  <2>3. CASE ~(i = Len(s) \/ s[i + 1] = "%")
    <3>1. i < Len(s) /\ s[i + 1] # "%" /\ i + 1 \in 1..n
      BY <2>1, <2>3
    <3> DEFINE j == RunEnd(s, i)
    <3>2. RunEnd(s, i + 1) = j
      BY <1>8, <2>1, <3>1, RunEndsNext
    <3>3. h[i] = SubSeq(s, i, j - 1) \o h[j]
      BY <1>7, <1>8
    <3>4. h[i + 1] = SubSeq(s, i + 1, j - 1) \o h[j]
      BY <1>7, <3>1, <3>2
    <3>5. j - 1 \in (i + 1)..Len(s) /\ j \in 1..(n + 2)
      <4>1. IsRunEnd(s, i + 1, j) /\ j \in Nat
        <5>1. i + 1 \in 1..Len(s) /\ s[i + 1] # "%"
          BY <2>1, <3>1
        <5>2. IsRunEnd(s, i + 1, RunEnd(s, i + 1)) /\ RunEnd(s, i + 1) \in Nat
          BY <5>1, RunEndIs
        <5> HIDE DEF j
        <5> QED  BY <3>2, <5>2
      <4> HIDE DEF j
      <4> QED  BY <2>1, <3>1, <4>1 DEF IsRunEnd
    <3> HIDE DEF j
    <3>6. /\ SubSeq(s, i, j - 1) = <<s[i]>> \o SubSeq(s, i + 1, j - 1) /\ SubSeq(s, i + 1, j - 1) \in Texts
          /\ <<s[i]>> \in Texts
      BY <2>1, <3>5, OneThenRest
    <3>7. h[j] \in Texts
      BY <1>4, <3>5
    <3>8. (<<s[i]>> \o SubSeq(s, i + 1, j - 1)) \o h[j] = <<s[i]>> \o (SubSeq(s, i + 1, j - 1) \o h[j])
      BY <3>6, <3>7, TextsJoin
    <3> QED  BY <3>3, <3>4, <3>6, <3>8, Zenon
  <2> QED  BY <2>2, <2>3
<1>9. ASSUME NEW i \in 1..n, s[i] = "%", i = n  PROVE h[i] = <<>>
  <2>1. i \in 1..(n + 2) /\ i <= Len(s) /\ i = Len(s) /\ i \in 1..(Len(s) + 2)
    BY <1>1, <1>9 DEF n
  <2>2. g[i] = <<>>
    BY <1>3, <1>9, <2>1, CompiledIs
  <2> QED  BY <1>6, <2>1, <2>2
<1>10. ASSUME NEW i \in 1..n, s[i] = "%", i # n  PROVE h[i] = FlagOut(s[i + 1], msg) \o h[i + 2]
  <2>1. /\ i \in 1..(n + 2) /\ i <= Len(s) /\ i # Len(s) /\ i \in 1..(Len(s) + 2)
        /\ i + 1 \in 1..Len(s) /\ i + 2 \in 1..(n + 2)
    BY <1>1, <1>10 DEF n
  <2>2. g[i] = handle_flag_(s[i + 1]) \o g[i + 2]
    <3>1. Compiled(s, g, i) = FlagThen(s, g, i)
      BY <1>10, <2>1, CompiledIs
    <3> QED  BY <1>3, <2>1, <3>1 DEF FlagThen
  <2>3. s[i + 1] \in Symbols
    BY <2>1 DEF Texts
  <2> DEFINE a == handle_flag_(s[i + 1])
             o == FlagOut(s[i + 1], msg)
  <2>4. a \in Seq(Formatters) /\ Printed(a, msg) = o
    BY <2>3, HandledPrints
  <2>5. g[i + 2] \in Seq(Formatters) /\ Printed(g[i + 2], msg) = h[i + 2] /\ h[i] = Printed(g[i], msg)
    BY <1>3, <1>4, <2>1
  <2> HIDE DEF a, o
  <2>6. Printed(a \o g[i + 2], msg) = Printed(a, msg) \o Printed(g[i + 2], msg)
    BY <2>4, <2>5, PrintedJoin
  <2>7. h[i] = o \o h[i + 2]
    BY <2>2, <2>4, <2>5, <2>6, Zenon DEF a
  <2> QED  BY <2>7 DEF o
<1>11. h[n + 1] = <<>> /\ h[n + 2] = <<>>
  <2>1. /\ n + 1 \in 1..(n + 2) /\ n + 2 \in 1..(n + 2) /\ n + 1 > Len(s) /\ n + 2 > Len(s)
        /\ n + 1 \in 1..(Len(s) + 2) /\ n + 2 \in 1..(Len(s) + 2)
    BY <1>1 DEF n
  <2>2. g[n + 1] = <<>> /\ g[n + 2] = <<>>
    BY <1>3, <2>1, CompiledIs
  <2> QED  BY <1>6, <2>1, <2>2
<1>12. IsShown(s, msg, h)
  BY <1>5, <1>8, <1>9, <1>10, <1>11 DEF IsShown, n
<1>13. compile_pattern_(s) \in Seq(Formatters) /\ Shown(s, msg) = h[1] /\ h[1] \in Texts
  <2>1. 1 \in 1..(n + 2)
    BY <1>1
  <2> QED  BY <1>2, <1>3, <1>4, <2>1 DEF Shown
<1> QED  BY <1>12, <1>13

-------------------------------------------------------------------------------
(* What a pattern prints from a place on depends on what is there only.    *)
LEMMA ShownBehind ==
  ASSUME NEW s \in Texts, NEW b \in Texts, NEW msg \in Messages, NEW h, NEW e, NEW m \in Nat,
         IsShown(s, msg, h), IsShown(b, msg, e),
         Len(s) = m + Len(b), \A k \in 1..Len(b) : s[m + k] = b[k]
  PROVE  \A k \in 1..(Len(b) + 2) : h[m + k] = e[k]
<1> DEFINE n == Len(b)
           S == {k \in Nat : h[m + k] = e[k]}
<1>1. n \in Nat /\ Len(b) = n /\ Len(s) = m + n
  BY DEF Texts
<1> HIDE DEF n
<1>2. ASSUME NEW k \in 1..(n + 2), \A j \in (k + 1)..(n + 2) : j \in S  PROVE k \in S
  <2>1. ASSUME k > n  PROVE h[m + k] = e[k]
    <3>1. k = n + 1 \/ k = n + 2
      BY <1>1, <2>1
    <3>2. m + (n + 1) = (m + n) + 1 /\ m + (n + 2) = (m + n) + 2
      BY <1>1
    <3>3. h[(m + n) + 1] = <<>> /\ h[(m + n) + 2] = <<>> /\ e[n + 1] = <<>> /\ e[n + 2] = <<>>
      BY <1>1 DEF IsShown
    <3> QED  BY <3>1, <3>2, <3>3
  <2>2. ASSUME k <= n  PROVE h[m + k] = e[k]
    <3>1. /\ k \in 1..Len(b) /\ m + k \in 1..Len(s) /\ (m + k) + 1 = m + (k + 1) /\ (m + k) + 2 = m + (k + 2)
          /\ k + 1 \in (k + 1)..(n + 2) /\ k + 2 \in (k + 1)..(n + 2) /\ (m + k = Len(s) <=> k = Len(b))
      BY <1>1, <2>2
    <3>2. s[m + k] = b[k]
      BY <3>1
    <3>3. h[m + (k + 1)] = e[k + 1] /\ h[m + (k + 2)] = e[k + 2]
      BY <1>2, <3>1
    <3> HIDE DEF S
    <3>4. CASE b[k] # "%"
      <4>1. h[m + k] = <<s[m + k]>> \o h[(m + k) + 1] /\ e[k] = <<b[k]>> \o e[k + 1]
        BY <3>1, <3>2, <3>4 DEF IsShown
      <4> QED  BY <3>1, <3>2, <3>3, <4>1, Zenon
    <3>5. CASE b[k] = "%" /\ k = Len(b)
      BY <3>1, <3>2, <3>5 DEF IsShown
    <3>6. CASE b[k] = "%" /\ k # Len(b)
      <4>1. h[m + k] = FlagOut(s[(m + k) + 1], msg) \o h[(m + k) + 2] /\ e[k] = FlagOut(b[k + 1], msg) \o e[k + 2]
        BY <3>1, <3>2, <3>6 DEF IsShown
      <4>2. s[m + (k + 1)] = b[k + 1]
        <5>1. k + 1 \in 1..Len(b)
          BY <1>1, <3>1, <3>6
        <5> QED  BY <5>1
      <4> QED  BY <3>1, <3>2, <3>3, <4>1, <4>2, Zenon
    <3> QED  BY <3>4, <3>5, <3>6
  <2> HIDE DEF S
  <2>3. h[m + k] = e[k] /\ k \in Nat
    BY <1>1, <2>1, <2>2
  <2> QED  BY <2>3 DEF S
<1> HIDE DEF S
<1>3. \A k \in 1..(n + 2) : k \in S
  <2>1. 1 \in Nat /\ n + 2 \in Nat
    BY <1>1
  <2> QED  BY <1>2, <2>1, Backwards
<1> QED  BY <1>1, <1>3 DEF S

(* A pattern prints what its parts print, but if it is cut inside a flag.  *)
LEMMA ShownJoin ==
  ASSUME NEW a \in Texts, NEW b \in Texts, NEW msg \in Messages, ~IsFlag(a \o b, Len(a) + 1)
  PROVE  a \o b \in Texts /\ Shown(a \o b, msg) = Shown(a, msg) \o Shown(b, msg)
<1> DEFINE s == a \o b
           m == Len(a)
<1>1. /\ s \in Texts /\ Len(s) = m + Len(b) /\ m \in Nat /\ Len(b) \in Nat
      /\ \A i \in 1..m : s[i] = a[i]
      /\ \A i \in 1..Len(b) : s[m + i] = b[i]
  <2>1. a \in Seq(Symbols) /\ b \in Seq(Symbols)
    BY DEF Texts
  <2>2. /\ s \in Seq(Symbols) /\ Len(s) = Len(a) + Len(b)
        /\ \A i \in 1..Len(a) : s[i] = a[i]
        /\ \A i \in 1..Len(b) : s[Len(a) + i] = b[i]
    BY <2>1, JoinHas
  <2>3. Len(a) \in Nat /\ Len(b) \in Nat
    BY <2>1
  <2> HIDE DEF s
  <2> QED  BY <2>2, <2>3 DEF Texts
<1>2. ~IsFlag(s, m + 1)
  OBVIOUS
<1> HIDE DEF s, m
<1>3. PICK h : IsShown(s, msg, h) /\ Shown(s, msg) = h[1]
  BY <1>1, ShownExists
<1>4. PICK d : IsShown(a, msg, d) /\ Shown(a, msg) = d[1]
  BY ShownExists
<1>5. PICK e : IsShown(b, msg, e) /\ Shown(b, msg) = e[1]
  BY ShownExists
<1>6. h[m + 1] = e[1]
  <2>1. \A k \in 1..(Len(b) + 2) : h[m + k] = e[k]
    BY <1>1, <1>3, <1>5, ShownBehind
  <2>2. 1 \in 1..(Len(b) + 2)
    BY <1>1
  <2> QED  BY <2>1, <2>2
<1> DEFINE x == e[1]
           S == {i \in Nat : ~IsFlag(s, i) => h[i] = d[i] \o x}
<1>7. x \in Texts
  <2>1. 1 \in 1..(Len(b) + 2)
    BY <1>1
  <2> QED  BY <1>5, <2>1 DEF IsShown
<1>8. Len(a) = m /\ Len(s) \in Nat
  BY <1>1 DEF m
<1> HIDE DEF x
<1>9. ASSUME NEW i \in 1..(m + 1), \A j \in (i + 1)..(m + 1) : j \in S  PROVE i \in S
  <2> SUFFICES ASSUME ~IsFlag(s, i)  PROVE h[i] = d[i] \o x
    BY <1>1
  <2>1. CASE i = m + 1
    <3>1. d[m + 1] = <<>>
      BY <1>4, <1>8 DEF IsShown
    <3>2. <<>> \o x = x
      BY <1>7, TextsJoin
    <3> QED  BY <1>6, <2>1, <3>1, <3>2 DEF x
  <2>2. CASE i # m + 1
    <3>1. i \in 1..m /\ i \in 1..Len(s) /\ i \in 1..Len(a) /\ i + 1 \in (i + 1)..(m + 1) /\ i + 1 \in 1..(m + 2)
      BY <1>1, <1>8, <2>2
    <3>2. s[i] = a[i] /\ s[i] \in Symbols
      <4>1. s[i] = a[i]
        BY <1>1, <3>1
      <4>2. s[i] \in Symbols
        BY <1>1, <3>1 DEF Texts
      <4> QED  BY <4>1, <4>2
    <3>3. IsFlag(s, i + 1) <=> s[i] = "%"
      <4>1. s \in Seq(Symbols)
        BY <1>1 DEF Texts
      <4> QED  BY <3>1, <4>1, FlagIs
    <3>4. CASE s[i] # "%"
      <4>1. h[i + 1] = d[i + 1] \o x
        BY <1>9, <3>1, <3>3, <3>4
      <4> HIDE DEF S
      <4>2. h[i] = <<s[i]>> \o h[i + 1]
        BY <1>3, <3>1, <3>4 DEF IsShown
      <4>3. d[i] = <<a[i]>> \o d[i + 1]
        BY <1>4, <3>1, <3>2, <3>4 DEF IsShown
      <4>4. d[i + 1] \in Texts /\ <<s[i]>> \in Texts
        BY <1>4, <1>8, <3>1, <3>2, OneIsText DEF IsShown
      <4>5. (<<s[i]>> \o d[i + 1]) \o x = <<s[i]>> \o (d[i + 1] \o x)
        BY <1>7, <4>4, TextsJoin
      <4> QED  BY <3>2, <4>1, <4>2, <4>3, <4>5, Zenon
    <3>5. CASE s[i] = "%"
      <4>1. i # m
        BY <1>2, <3>3, <3>5
      <4>2. /\ i + 1 \in 1..m /\ i + 1 \in 1..Len(s) /\ i + 2 \in (i + 1)..(m + 1) /\ (i + 1) + 1 = i + 2
            /\ i # Len(s) /\ i # Len(a) /\ i + 2 \in 1..(m + 2)
        BY <1>1, <1>8, <3>1, <4>1
      <4>3. ~IsFlag(s, i + 2)
        <5>1. s \in Seq(Symbols)
          BY <1>1 DEF Texts
        <5>2. IsFlag(s, (i + 1) + 1) <=> s[i + 1] = "%" /\ ~IsFlag(s, i + 1)
          BY <4>2, <5>1, FlagIs
        <5> QED  BY <3>3, <3>5, <4>2, <5>2
      <4>4. h[i + 2] = d[i + 2] \o x
        BY <1>9, <4>2, <4>3
      <4> HIDE DEF S
      <4>5. s[i + 1] = a[i + 1] /\ s[i + 1] \in Symbols
        <5>1. s[i + 1] = a[i + 1]
          BY <1>1, <4>2
        <5>2. s[i + 1] \in Symbols
          BY <1>1, <4>2 DEF Texts
        <5> QED  BY <5>1, <5>2
      <4> DEFINE o == FlagOut(s[i + 1], msg)
      <4>6. h[i] = o \o h[i + 2]
        BY <1>3, <3>1, <3>5, <4>2 DEF IsShown
      <4>7. d[i] = o \o d[i + 2]
        <5>1. d[i] = FlagOut(a[i + 1], msg) \o d[i + 2]
          BY <1>4, <3>1, <3>2, <3>5, <4>2 DEF IsShown
        <5> QED  BY <4>5, <5>1
      <4>8. o \in Texts
        BY <4>5, HandledPrints
      <4> HIDE DEF o
      <4>9. d[i + 2] \in Texts
        BY <1>4, <1>8, <4>2 DEF IsShown
      <4>10. (o \o d[i + 2]) \o x = o \o (d[i + 2] \o x)
        BY <1>7, <4>8, <4>9, TextsJoin
      <4> QED  BY <4>4, <4>6, <4>7, <4>10, Zenon
    <3> QED  BY <3>4, <3>5
  <2> QED  BY <2>1, <2>2
<1> HIDE DEF S
<1>10. \A i \in 1..(m + 1) : i \in S
  <2>1. 1 \in Nat /\ m + 1 \in Nat
    BY <1>1
  <2> QED  BY <1>9, <2>1, Backwards
<1>11. h[1] = d[1] \o x
  <2>1. 1 \in 1..(m + 1)
    BY <1>1
  <2> QED  BY <1>10, <2>1, FirstIsNoFlag DEF S
<1> QED  BY <1>1, <1>3, <1>4, <1>5, <1>11 DEF s, x

-------------------------------------------------------------------------------
(***************************************************************************)
(* The formatters after a message, whatever they were before it.           *)
(***************************************************************************)
Freshened(f, msg, tm) == IF f.kind = "full" THEN full_formatter(f, msg, tm) ELSE f

MadeAll(fs, msg) == [i \in 1..Len(fs) |-> Made(fs[i], msg)]

LEMMA SameSecond ==
  ASSUME NEW m \in Messages, NEW msg \in Messages, m.secs = msg.secs
  PROVE  m.tm = msg.tm
BY MessagesAssumption, SMT

Renewed(f, x, y) == [f EXCEPT !.cached_datetime_ = x, !.cache_timestamp_ = y]

LEMMA RenewedIs ==
  ASSUME NEW d, NEW t, NEW x, NEW y
  PROVE  Renewed(Full(d, t), x, y) = Full(x, y)
<1> DEFINE k == "full"
<1> HIDE DEF k
<1>1. [[kind |-> k, cached_datetime_ |-> d, cache_timestamp_ |-> t] EXCEPT !.cached_datetime_ = x]
        = [kind |-> k, cached_datetime_ |-> x, cache_timestamp_ |-> t]
  OBVIOUS
<1>2. [[kind |-> k, cached_datetime_ |-> x, cache_timestamp_ |-> t] EXCEPT !.cache_timestamp_ = y]
        = [kind |-> k, cached_datetime_ |-> x, cache_timestamp_ |-> y]
  OBVIOUS
<1>3. Renewed([kind |-> k, cached_datetime_ |-> d, cache_timestamp_ |-> t], x, y)
        = [[[kind |-> k, cached_datetime_ |-> d, cache_timestamp_ |-> t] EXCEPT !.cached_datetime_ = x]
             EXCEPT !.cache_timestamp_ = y]
  BY DEF Renewed
<1>4. Renewed([kind |-> k, cached_datetime_ |-> d, cache_timestamp_ |-> t], x, y)
        = [kind |-> k, cached_datetime_ |-> x, cache_timestamp_ |-> y]
  BY <1>1, <1>2, <1>3
<1> QED  BY <1>4 DEF Full, k

LEMMA FormatterRenewed ==
  ASSUME NEW f, NEW msg, NEW tm
  PROVE  full_formatter(f, msg, tm) =
           IF f.cache_timestamp_ # msg.secs \/ f.cached_datetime_ = <<>>
           THEN Renewed(f, Datetime(tm), msg.secs) ELSE f
BY DEF full_formatter, Renewed

LEMMA FullRenewed ==
  ASSUME NEW d, NEW t, NEW msg, NEW tm, t # msg.secs \/ d = <<>>
  PROVE  full_formatter(Full(d, t), msg, tm) = Full(Datetime(tm), msg.secs)
<1>1. Full(d, t).cache_timestamp_ = t /\ Full(d, t).cached_datetime_ = d
  BY DEF Full
<1>2. full_formatter(Full(d, t), msg, tm) = Renewed(Full(d, t), Datetime(tm), msg.secs)
  BY <1>1, FormatterRenewed, Zenon
<1>3. Renewed(Full(d, t), Datetime(tm), msg.secs) = Full(Datetime(tm), msg.secs)
  BY RenewedIs
<1> QED  BY <1>2, <1>3, Zenon

LEMMA FullKept ==
  ASSUME NEW d, NEW t, NEW msg, NEW tm, t = msg.secs, d # <<>>
  PROVE  full_formatter(Full(d, t), msg, tm) = Full(d, t)
<1>1. Full(d, t).cache_timestamp_ = t /\ Full(d, t).cached_datetime_ = d
  BY DEF Full
<1> QED  BY <1>1, Zenon DEF full_formatter

LEMMA FreshIs ==
  ASSUME NEW f \in Formatters, NEW g, NEW msg \in Messages, g = f \/ \E m \in Messages : g = Made(f, m)
  PROVE  Freshened(g, msg, msg.tm) = Made(f, msg)
<1>1. g.kind = f.kind
  BY MadeIs
<1>2. CASE f.kind # "full"
  <2>1. g = f /\ Made(f, msg) = f
    BY <1>2, MadeIs
  <2> QED  BY <1>2, <2>1 DEF Freshened
<1>3. CASE f.kind = "full"
  <2>1. f = Full(<<>>, 0)
    <3>1. f.kind # "chars" /\ f.kind # "flag" /\ f.kind # "color_start" /\ f.kind # "color_stop"
      BY <1>3
    <3> QED  BY <3>1, FormatterIs, Zenon
  <2>2. Freshened(g, msg, msg.tm) = full_formatter(g, msg, msg.tm) /\ Made(f, msg) = Full(Datetime(msg.tm), msg.secs)
    BY <1>1, <1>3, MadeIs DEF Freshened
  <2>3. CASE g = f
    <3>1. full_formatter(Full(<<>>, 0), msg, msg.tm) = Full(Datetime(msg.tm), msg.secs)
      <4> DEFINE d == <<>>
      <4>1. 0 # msg.secs \/ d = <<>>
        OBVIOUS
      <4> HIDE DEF d
      <4>2. full_formatter(Full(d, 0), msg, msg.tm) = Full(Datetime(msg.tm), msg.secs)
        BY <4>1, FullRenewed
      <4> QED  BY <4>2 DEF d
    <3> QED  BY <2>1, <2>2, <2>3, <3>1
  <2>4. CASE \E m \in Messages : g = Made(f, m)
    <3>1. PICK m \in Messages : g = Made(f, m)
      BY <2>4
    <3>2. g = Full(Datetime(m.tm), m.secs)
      BY <1>3, <3>1, MadeIs
    <3>3. CASE m.secs # msg.secs \/ Datetime(m.tm) = <<>>
      <4>1. full_formatter(Full(Datetime(m.tm), m.secs), msg, msg.tm) = Full(Datetime(msg.tm), msg.secs)
        BY <3>3, FullRenewed
      <4> QED  BY <2>2, <3>2, <4>1
    <3>4. CASE ~(m.secs # msg.secs \/ Datetime(m.tm) = <<>>)
      <4>1. full_formatter(Full(Datetime(m.tm), m.secs), msg, msg.tm) = Full(Datetime(m.tm), m.secs)
        BY <3>4, FullKept
      <4>2. m.tm = msg.tm
        BY <3>4, SameSecond
      <4> QED  BY <2>2, <3>2, <3>4, <4>1, <4>2, Zenon
    <3> QED  BY <3>3, <3>4
  <2> QED  BY <2>3, <2>4
<1> QED  BY <1>2, <1>3

-------------------------------------------------------------------------------
(* The line of a message is one.                                           *)
LEMMA LinedOnce ==
  ASSUME NEW fs, Len(fs) \in Nat, NEW msg, NEW k, NEW l, IsLined(fs, msg, k), IsLined(fs, msg, l)
  PROVE  k[Len(fs)] = l[Len(fs)]
<1> DEFINE n == Len(fs)
           T == {i \in Nat : i <= n => k[i] = l[i]}
<1>0. n \in Nat
  OBVIOUS
<1>1. /\ k = [i \in 0..n |-> IF i = 0 THEN NoLine ELSE PutIn(fs[i], msg, k[i - 1])]
      /\ l = [i \in 0..n |-> IF i = 0 THEN NoLine ELSE PutIn(fs[i], msg, l[i - 1])]
  BY DEF IsLined
<1> HIDE DEF n
<1>2. /\ k[0] = NoLine /\ l[0] = NoLine
      /\ \A i \in 1..n : k[i] = PutIn(fs[i], msg, k[i - 1]) /\ l[i] = PutIn(fs[i], msg, l[i - 1])
  <2>1. 0 \in 0..n /\ \A i \in 1..n : i \in 0..n /\ i # 0
    BY <1>0
  <2> QED  BY <1>1, <2>1, Zenon
<1>3. 0 \in T
  BY <1>2
<1>4. ASSUME NEW i \in Nat, i \in T  PROVE i + 1 \in T
  <2> SUFFICES ASSUME i + 1 <= n  PROVE k[i + 1] = l[i + 1]
    OBVIOUS
  <2>1. i + 1 \in 1..n /\ (i + 1) - 1 = i /\ i <= n
    BY <1>0
  <2>2. k[i] = l[i]
    BY <1>4, <2>1
  <2> HIDE DEF T
  <2>3. k[i + 1] = PutIn(fs[i + 1], msg, k[(i + 1) - 1]) /\ l[i + 1] = PutIn(fs[i + 1], msg, l[(i + 1) - 1])
    BY <1>2, <2>1
  <2> QED  BY <2>1, <2>2, <2>3, Zenon
<1> HIDE DEF T
<1>5. Nat \subseteq T
  BY <1>3, <1>4, Induction
<1> QED  BY <1>0, <1>5 DEF T, n

LEMMA LinedExists ==
  ASSUME NEW fs \in Seq(Formatters), NEW msg \in Messages
  PROVE  \E l : IsLined(fs, msg, l)
<1> DEFINE n == Len(fs)
           step == [e \in Nat \X Lines |-> IF e[1] \in 1..n THEN PutIn(fs[e[1]], msg, e[2]) ELSE NoLine]
<1>1. n \in Nat /\ \A i \in 1..n : fs[i] \in Formatters
  OBVIOUS
<1>2. NoLine \in Lines
  BY ALineExists
<1>3. ASSUME NEW i \in 1..n, NEW c \in Lines  PROVE PutIn(fs[i], msg, c) \in Lines
  BY <1>1, FormattedIs DEF PutsWell
<1>4. Steps(Lines, step)
  <2>1. ASSUME NEW e \in Nat \X Lines
        PROVE  (IF e[1] \in 1..n THEN PutIn(fs[e[1]], msg, e[2]) ELSE NoLine) \in Lines
    <3>1. e[2] \in Lines
      OBVIOUS
    <3> HIDE DEF n
    <3> QED  BY <1>2, <1>3, <3>1
  <2> QED  BY <2>1 DEF Steps
<1>5. \A i \in 1..n, c \in Lines : step[<<i, c>>] = PutIn(fs[i], msg, c)
  <2> SUFFICES ASSUME NEW i \in 1..n, NEW c \in Lines  PROVE step[<<i, c>>] = PutIn(fs[i], msg, c)
    OBVIOUS
  <2>1. <<i, c>> \in Nat \X Lines /\ <<i, c>>[1] = i /\ <<i, c>>[2] = c
    OBVIOUS
  <2> QED  BY <2>1
<1> HIDE DEF step
<1>6. PICK l \in [0..n -> Lines] : l[0] = NoLine /\ \A i \in 1..n : l[i] = step[<<i, l[i - 1]>>]
  <2>1. HasRecursion(Lines, 0, n, NoLine, step)
    BY <1>1, <1>2, <1>4, RecursionFrom
  <2>2. 0 <= n /\ 0 + 1 = 1
    BY <1>1
  <2> QED  BY <2>1, <2>2 DEF HasRecursion
<1>7. ASSUME NEW i \in 0..n  PROVE l[i] = IF i = 0 THEN NoLine ELSE PutIn(fs[i], msg, l[i - 1])
  <2>1. CASE i = 0
    BY <1>6, <2>1
  <2>2. CASE i # 0
    <3>1. i \in 1..n /\ i - 1 \in 0..n
      BY <1>1, <2>2
    <3> QED  BY <1>5, <1>6, <2>2, <3>1
  <2> QED  BY <2>1, <2>2
<1> HIDE DEF n
<1>8. l = [i \in 0..n |-> IF i = 0 THEN NoLine ELSE PutIn(fs[i], msg, l[i - 1])]
  BY <1>6, <1>7
<1> QED  BY <1>8 DEF IsLined, n

LineOf(fs, msg) == (CHOOSE l : IsLined(fs, msg, l))[Len(fs)]

LEMMA LineOfIs ==
  ASSUME NEW fs \in Seq(Formatters), NEW msg \in Messages
  PROVE  /\ LineOf(fs, msg) \in Lines /\ LineOf(fs, msg).dest = Printed(fs, msg)
         /\ \A l : IsLined(fs, msg, l) => l[Len(fs)] = LineOf(fs, msg)
<1> DEFINE k == CHOOSE l : IsLined(fs, msg, l)
<1>1. IsLined(fs, msg, k)
  BY LinedExists
<1>2. LineOf(fs, msg) = k[Len(fs)]
  BY DEF LineOf
<1> HIDE DEF k
<1>3. k[Len(fs)] \in Lines /\ k[Len(fs)].dest = Printed(fs, msg)
  BY <1>1, LinedIs
<1>4. ASSUME NEW l, IsLined(fs, msg, l)  PROVE l[Len(fs)] = k[Len(fs)]
  <2>1. Len(fs) \in Nat
    OBVIOUS
  <2> QED  BY <1>1, <1>4, <2>1, LinedOnce
<1> QED  BY <1>2, <1>3, <1>4

-------------------------------------------------------------------------------
(***************************************************************************)
(* A formatter with a pattern, when it is new and after a message.         *)
(***************************************************************************)
AfterOne(fs, m) == [formatters_ |-> MadeAll(fs, m), cached_tm_ |-> m.tm, last_log_secs_ |-> m.secs]

IsReached(pf, fs) ==
  \/ pf.formatters_ = fs /\ pf.last_log_secs_ = 0
  \/ \E m \in Messages : pf = AfterOne(fs, m)

TimeThen(pf, msg) == IF msg.secs # pf.last_log_secs_ THEN msg.tm ELSE pf.cached_tm_

AllFreshened(pf, msg, tm) == [i \in DOMAIN pf.formatters_ |-> Freshened(pf.formatters_[i], msg, tm)]

LinedBy(fresh, msg, tm) ==
  (CHOOSE l : l = [i \in 0..Len(fresh) |-> IF i = 0 THEN NoLine ELSE Formatted(fresh[i], msg, tm, l[i - 1])])[Len(fresh)]

LEMMA FormatIs ==
  ASSUME NEW pf, NEW msg
  PROVE  format(pf, msg, NoLine) =
           [pf |-> [formatters_ |-> AllFreshened(pf, msg, TimeThen(pf, msg)), cached_tm_ |-> TimeThen(pf, msg),
                    last_log_secs_ |-> msg.secs],
            line |-> LinedBy(AllFreshened(pf, msg, TimeThen(pf, msg)), msg, TimeThen(pf, msg))]
BY Zenon DEF format, AllFreshened, TimeThen, LinedBy, Freshened

LEMMA MadeAllIs ==
  ASSUME NEW fs \in Seq(Formatters), NEW m
  PROVE  /\ Len(MadeAll(fs, m)) = Len(fs) /\ DOMAIN MadeAll(fs, m) = 1..Len(fs)
         /\ \A i \in 1..Len(fs) : MadeAll(fs, m)[i] = Made(fs[i], m)
<1> DEFINE n == Len(fs)
           S == {Made(fs[i], m) : i \in 1..n}
           g(i) == Made(fs[i], m)
<1>1. n \in Nat
  OBVIOUS
<1>2. MadeAll(fs, m) = [i \in 1..n |-> g(i)]
  BY DEF MadeAll
<1>3. \A i \in 1..n : g(i) \in S
  OBVIOUS
<1> HIDE DEF n, S, g
<1>4. [i \in 1..n |-> g(i)] \in Seq(S)
  BY <1>1, <1>3
<1>5. DOMAIN [i \in 1..n |-> g(i)] = 1..n /\ Len([i \in 1..n |-> g(i)]) = n
  BY <1>1, <1>4
<1>6. \A i \in 1..n : [j \in 1..n |-> g(j)][i] = g(i)
  OBVIOUS
<1> QED  BY <1>2, <1>5, <1>6 DEF n, g

LEMMA AfterOneHas ==
  ASSUME NEW fs, NEW m
  PROVE  /\ AfterOne(fs, m).formatters_ = MadeAll(fs, m) /\ AfterOne(fs, m).cached_tm_ = m.tm
         /\ AfterOne(fs, m).last_log_secs_ = m.secs
BY DEF AfterOne

LEMMA TimeThenIs ==
  ASSUME NEW fs, NEW pf, IsReached(pf, fs), NEW msg \in Messages
  PROVE  TimeThen(pf, msg) = msg.tm
<1>1. CASE pf.last_log_secs_ = 0
  <2>1. msg.secs # 0
    BY MessageHas
  <2> QED  BY <1>1, <2>1 DEF TimeThen
<1>2. CASE \E m \in Messages : pf = AfterOne(fs, m)
  <2>1. PICK m \in Messages : pf = AfterOne(fs, m)
    BY <1>2
  <2>2. pf.cached_tm_ = m.tm /\ pf.last_log_secs_ = m.secs
    BY <2>1, AfterOneHas
  <2>3. m.secs = msg.secs => m.tm = msg.tm
    BY SameSecond
  <2> QED  BY <2>2, <2>3, Zenon DEF TimeThen
<1> QED  BY <1>1, <1>2 DEF IsReached

LEMMA AllFreshenedIs ==
  ASSUME NEW fs \in Seq(Formatters), NEW pf, IsReached(pf, fs), NEW msg \in Messages
  PROVE  AllFreshened(pf, msg, msg.tm) = MadeAll(fs, msg)
<1> DEFINE p == pf.formatters_
           n == Len(fs)
<1>1. n \in Nat /\ DOMAIN fs = 1..n /\ \A i \in 1..n : fs[i] \in Formatters
  OBVIOUS
<1>2. DOMAIN p = 1..n /\ \A i \in 1..n : p[i] = fs[i] \/ \E m \in Messages : p[i] = Made(fs[i], m)
  <2>1. CASE p = fs
    <3> HIDE DEF p, n
    <3> QED  BY <1>1, <2>1
  <2>2. CASE \E m \in Messages : pf = AfterOne(fs, m)
    <3>1. PICK m \in Messages : pf = AfterOne(fs, m)
      BY <2>2
    <3>2. p = MadeAll(fs, m)
      BY <3>1, AfterOneHas
    <3>3. DOMAIN MadeAll(fs, m) = 1..n /\ \A i \in 1..n : MadeAll(fs, m)[i] = Made(fs[i], m)
      BY MadeAllIs
    <3> HIDE DEF p, n
    <3> QED  BY <3>2, <3>3
  <2> QED  BY <2>1, <2>2 DEF IsReached
<1> HIDE DEF p, n
<1>3. \A i \in 1..n : Freshened(p[i], msg, msg.tm) = Made(fs[i], msg)
  BY <1>1, <1>2, FreshIs
<1>4. AllFreshened(pf, msg, msg.tm) = [i \in DOMAIN p |-> Freshened(p[i], msg, msg.tm)]
  BY DEF AllFreshened, p
<1>5. MadeAll(fs, msg) = [i \in 1..n |-> Made(fs[i], msg)]
  BY DEF MadeAll, n
<1> QED  BY <1>2, <1>3, <1>4, <1>5

LEMMA LinedByIs ==
  ASSUME NEW fs \in Seq(Formatters), NEW msg \in Messages
  PROVE  LinedBy(MadeAll(fs, msg), msg, msg.tm) = LineOf(fs, msg)
<1> DEFINE n == Len(fs)
           made == MadeAll(fs, msg)
           IsIt(l) == l = [i \in 0..Len(made) |-> IF i = 0 THEN NoLine ELSE Formatted(made[i], msg, msg.tm, l[i - 1])]
<1>1. n \in Nat /\ Len(made) = n /\ \A i \in 1..n : made[i] = Made(fs[i], msg)
  BY MadeAllIs
<1>2. ASSUME NEW l  PROVE IsIt(l) <=> IsLined(fs, msg, l)
  <2> HIDE DEF made
  <2> DEFINE a == [i \in 0..n |-> IF i = 0 THEN NoLine ELSE Formatted(made[i], msg, msg.tm, l[i - 1])]
             b == [i \in 0..n |-> IF i = 0 THEN NoLine ELSE PutIn(fs[i], msg, l[i - 1])]
  <2>1. ASSUME NEW i \in 0..n
        PROVE  (IF i = 0 THEN NoLine ELSE Formatted(made[i], msg, msg.tm, l[i - 1]))
                 = IF i = 0 THEN NoLine ELSE PutIn(fs[i], msg, l[i - 1])
    <3>1. CASE i = 0
      BY <3>1
    <3>2. CASE i # 0
      <4>1. i \in 1..n
        BY <1>1, <3>2
      <4>2. made[i] = Made(fs[i], msg)
        BY <1>1, <4>1
      <4> QED  BY <3>2, <4>2, Zenon DEF PutIn
    <3> QED  BY <3>1, <3>2
  <2>2. a = b
    <3> HIDE DEF n
    <3> QED  BY <2>1
  <2>3. IsIt(l) <=> l = a
    BY <1>1
  <2>4. IsLined(fs, msg, l) <=> l = b
    BY DEF IsLined
  <2> HIDE DEF a, b, IsIt
  <2> QED  BY <2>2, <2>3, <2>4
<1>3. \E l : IsLined(fs, msg, l)
  BY LinedExists
<1>4. LinedBy(made, msg, msg.tm) = (CHOOSE l : IsIt(l))[Len(made)]
  BY Zenon DEF LinedBy
<1> HIDE DEF IsIt
<1>5. IsIt(CHOOSE l : IsIt(l))
  BY <1>2, <1>3, Zenon
<1> DEFINE k == CHOOSE l : IsIt(l)
<1>6. IsLined(fs, msg, k)
  BY <1>2, <1>5, Zenon
<1> HIDE DEF k
<1>7. k[n] = LineOf(fs, msg)
  BY <1>6, LineOfIs
<1>8. LinedBy(made, msg, msg.tm) = k[n]
  BY <1>1, <1>4, Zenon DEF k
<1> QED  BY <1>7, <1>8

LEMMA FormatAfterwards ==
  ASSUME NEW fs \in Seq(Formatters), NEW pf, IsReached(pf, fs), NEW msg \in Messages
  PROVE  format(pf, msg, NoLine) = [pf |-> AfterOne(fs, msg), line |-> LineOf(fs, msg)]
<1>1. TimeThen(pf, msg) = msg.tm
  BY TimeThenIs
<1>2. AllFreshened(pf, msg, msg.tm) = MadeAll(fs, msg)
  BY AllFreshenedIs
<1>3. LinedBy(MadeAll(fs, msg), msg, msg.tm) = LineOf(fs, msg)
  BY LinedByIs
<1> QED  BY <1>1, <1>2, <1>3, FormatIs, Zenon DEF AfterOne

-------------------------------------------------------------------------------
(* The last of some lines is the line of the last message.                 *)
IsRun(pattern, msgs, r) ==
  r = [i \in 0..Len(msgs) |-> IF i = 0 THEN [pf |-> pattern_formatter(pattern), line |-> NoLine]
                              ELSE format(r[i - 1].pf, msgs[i], NoLine)]

LEMMA RunIs ==
  ASSUME NEW s \in Texts, NEW n \in Nat, NEW msgs \in [1..n -> Messages], NEW r, IsRun(s, msgs, r)
  PROVE  \A i \in 1..n : r[i] = [pf |-> AfterOne(compile_pattern_(s), msgs[i]),
                                 line |-> LineOf(compile_pattern_(s), msgs[i])]
<1> DEFINE fs == compile_pattern_(s)
           At_(i) == [pf |-> AfterOne(fs, msgs[i]), line |-> LineOf(fs, msgs[i])]
<1>1. fs \in Seq(Formatters) \/ n = 0
  <2>1. n # 0 => msgs[1] \in Messages
    OBVIOUS
  <2> QED  BY <2>1, ShownExists
<1>2. Len(msgs) = n
  OBVIOUS
<1>3. \A i \in 1..n : msgs[i] \in Messages
  OBVIOUS
<1>4. r[0].pf = pattern_formatter(s) /\ \A i \in 1..n : r[i] = format(r[i - 1].pf, msgs[i], NoLine)
  <2>1. 0 \in 0..n /\ \A i \in 1..n : i \in 0..n /\ i # 0
    OBVIOUS
  <2>2. r = [i \in 0..n |-> IF i = 0 THEN [pf |-> pattern_formatter(s), line |-> NoLine]
                            ELSE format(r[i - 1].pf, msgs[i], NoLine)]
    BY <1>2, Zenon DEF IsRun
  <2>3. r[0] = [pf |-> pattern_formatter(s), line |-> NoLine]
    BY <2>1, <2>2, Zenon
  <2>4. r[0].pf = pattern_formatter(s)
    BY <2>3
  <2>5. \A i \in 1..n : r[i] = format(r[i - 1].pf, msgs[i], NoLine)
    BY <2>1, <2>2, Zenon
  <2> QED  BY <2>4, <2>5
<1>5. \A i : At_(i).pf = AfterOne(fs, msgs[i])
  OBVIOUS
<1> HIDE DEF At_, fs
<1> DEFINE T == {i \in Nat : i + 1 <= n => r[i + 1] = At_(i + 1)}
<1>6. ASSUME NEW i \in 1..n, IsReached(r[i - 1].pf, fs)  PROVE r[i] = At_(i)
  <2>1. n # 0
    OBVIOUS
  <2>2. format(r[i - 1].pf, msgs[i], NoLine) = At_(i)
    BY <1>1, <1>3, <1>6, <2>1, FormatAfterwards DEF At_
  <2> QED  BY <1>4, <2>2
<1>7. 0 \in T
  <2> SUFFICES ASSUME 0 + 1 <= n  PROVE r[0 + 1] = At_(0 + 1)
    OBVIOUS
  <2>1. 1 \in 1..n /\ 1 - 1 = 0 /\ 0 + 1 = 1
    OBVIOUS
  <2>2. IsReached(r[0].pf, fs)
    <3>1. pattern_formatter(s).formatters_ = fs /\ pattern_formatter(s).last_log_secs_ = 0
      BY DEF pattern_formatter, fs
    <3> QED  BY <1>4, <3>1 DEF IsReached
  <2> HIDE DEF T
  <2> QED  BY <1>6, <2>1, <2>2
<1>8. ASSUME NEW i \in Nat, i \in T  PROVE i + 1 \in T
  <2> SUFFICES ASSUME (i + 1) + 1 <= n  PROVE r[(i + 1) + 1] = At_((i + 1) + 1)
    OBVIOUS
  <2>1. i + 1 \in 1..n /\ (i + 1) + 1 \in 1..n /\ ((i + 1) + 1) - 1 = i + 1 /\ i + 1 <= n
    OBVIOUS
  <2>2. r[i + 1].pf = AfterOne(fs, msgs[i + 1])
    BY <1>5, <1>8, <2>1
  <2> HIDE DEF T
  <2>3. IsReached(r[i + 1].pf, fs)
    BY <1>3, <2>1, <2>2 DEF IsReached
  <2> QED  BY <1>6, <2>1, <2>3
<1> HIDE DEF T
<1>9. Nat \subseteq T
  BY <1>7, <1>8, Induction
<1>10. ASSUME NEW i \in 1..n  PROVE r[i] = At_(i)
  <2>1. i - 1 \in Nat /\ (i - 1) + 1 = i /\ i <= n
    OBVIOUS
  <2> QED  BY <1>9, <2>1 DEF T
<1> QED  BY <1>10 DEF At_, fs

LEMMA LineAfterIs ==
  ASSUME NEW s \in Texts, NEW n \in Nat \ {0}, NEW msgs \in [1..n -> Messages]
  PROVE  LineAfter(s, msgs) = LineOf(compile_pattern_(s), msgs[n])
<1> DEFINE fs == compile_pattern_(s)
           begin == [pf |-> pattern_formatter(s), line |-> NoLine]
           at(i) == [pf |-> AfterOne(fs, msgs[i]), line |-> LineOf(fs, msgs[i])]
           r == [i \in 0..n |-> IF i = 0 THEN begin ELSE at(i)]
<1>1. n \in Nat /\ Len(msgs) = n /\ (\A i \in 1..n : msgs[i] \in Messages) /\ n \in 1..n
  OBVIOUS
<1>2. fs \in Seq(Formatters)
  BY <1>1, ShownExists
<1>3. begin.pf = pattern_formatter(s) /\ \A i : at(i).pf = AfterOne(fs, msgs[i]) /\ at(i).line = LineOf(fs, msgs[i])
  OBVIOUS
<1>4. IsReached(begin.pf, fs)
  <2>1. pattern_formatter(s).formatters_ = fs /\ pattern_formatter(s).last_log_secs_ = 0
    BY DEF pattern_formatter
  <2> HIDE DEF fs, begin
  <2> QED  BY <1>3, <2>1 DEF IsReached
<1>5. ASSUME NEW i \in 1..n  PROVE IsReached(at(i).pf, fs)
  <2> HIDE DEF at, fs
  <2> QED  BY <1>1, <1>3 DEF IsReached
<1>6. \A i \in 1..n : at(i) = [pf |-> AfterOne(fs, msgs[i]), line |-> LineOf(fs, msgs[i])]
  OBVIOUS
<1> HIDE DEF at, begin, fs
<1>7. ASSUME NEW i \in 1..n  PROVE at(i) = format(r[i - 1].pf, msgs[i], NoLine)
  <2>1. i - 1 \in 0..n
    OBVIOUS
  <2>2. IsReached(r[i - 1].pf, fs)
    <3>1. CASE i - 1 = 0
      <4>1. r[i - 1] = begin
        BY <2>1, <3>1
      <4> HIDE DEF r
      <4> QED  BY <1>4, <4>1
    <3>2. CASE i - 1 # 0
      <4>1. r[i - 1] = at(i - 1) /\ i - 1 \in 1..n
        BY <2>1, <3>2
      <4> HIDE DEF r
      <4> QED  BY <1>5, <4>1
    <3> QED  BY <3>1, <3>2
  <2> HIDE DEF r
  <2>3. format(r[i - 1].pf, msgs[i], NoLine) = [pf |-> AfterOne(fs, msgs[i]), line |-> LineOf(fs, msgs[i])]
    BY <1>1, <1>2, <2>2, FormatAfterwards
  <2> QED  BY <1>6, <2>3, Zenon
<1>8. IsRun(s, msgs, r)
  <2>1. \A i \in 0..n : (IF i = 0 THEN begin ELSE at(i)) = IF i = 0 THEN begin ELSE format(r[i - 1].pf, msgs[i], NoLine)
    <3>1. \A i \in 0..n : i # 0 => i \in 1..n
      OBVIOUS
    <3> HIDE DEF r
    <3> QED  BY <1>7, <3>1, Zenon
  <2>2. r = [i \in 0..n |-> IF i = 0 THEN begin ELSE format(r[i - 1].pf, msgs[i], NoLine)]
    <3> DEFINE x == [i \in 0..n |-> IF i = 0 THEN begin ELSE format(r[i - 1].pf, msgs[i], NoLine)]
               g(i) == format(r[i - 1].pf, msgs[i], NoLine)
    <3>1. \A i \in 0..n : (IF i = 0 THEN begin ELSE at(i)) = IF i = 0 THEN begin ELSE g(i)
      BY <2>1
    <3>2. x = [i \in 0..n |-> IF i = 0 THEN begin ELSE g(i)]
      OBVIOUS
    <3> HIDE DEF g, x
    <3>3. r = x
      BY <3>1, <3>2
    <3> QED  BY <3>3, Zenon DEF x
  <2> HIDE DEF r
  <2> QED  BY <1>1, <2>2, Zenon DEF IsRun, begin
<1> HIDE DEF r
<1> DEFINE q == CHOOSE f : IsRun(s, msgs, f)
<1>9. IsRun(s, msgs, q)
  BY <1>8, Zenon
<1>10. LineAfter(s, msgs) = q[Len(msgs)].line
  BY Zenon DEF LineAfter, IsRun
<1> HIDE DEF q
<1>11. q[n] = [pf |-> AfterOne(fs, msgs[n]), line |-> LineOf(fs, msgs[n])]
  BY <1>1, <1>9, RunIs DEF fs
<1>12. q[n] = at(n)
  BY <1>1, <1>6, <1>11, Zenon
<1>13. LineAfter(s, msgs) = LineOf(fs, msgs[n])
  BY <1>1, <1>3, <1>10, <1>12
<1> QED  BY <1>13 DEF fs

LEMMA LineOfOne ==
  ASSUME NEW s \in Texts, NEW msg \in Messages
  PROVE  /\ LineAfter(s, <<msg>>) = LineOf(compile_pattern_(s), msg)
         /\ LineAfter(s, <<msg>>) \in Lines /\ LineAfter(s, <<msg>>).dest = Shown(s, msg)
<1>1. <<msg>> \in [1..1 -> Messages] /\ <<msg>>[1] = msg
  OBVIOUS
<1> DEFINE msgs == <<msg>>
<1> HIDE DEF msgs
<1>2. msgs \in [1..1 -> Messages] /\ msgs[1] = msg /\ 1 \in Nat \ {0}
  BY <1>1 DEF msgs
<1>3. LineAfter(s, msgs) = LineOf(compile_pattern_(s), msgs[1])
  BY <1>2, LineAfterIs
<1>4. compile_pattern_(s) \in Seq(Formatters)
  BY ShownExists
<1>5. LineOf(compile_pattern_(s), msg) \in Lines /\ LineOf(compile_pattern_(s), msg).dest = Shown(s, msg)
  BY <1>4, LineOfIs DEF Shown
<1> QED  BY <1>2, <1>3, <1>5 DEF msgs

-------------------------------------------------------------------------------
(* A line is printed with the codes around a part of it.                   *)
LEMMA RemoveAtHas ==
  ASSUME NEW S, NEW s \in Seq(S), NEW p \in 1..Len(s)
  PROVE  /\ RemoveAt(s, p) \in Seq(S) /\ Len(RemoveAt(s, p)) = Len(s) - 1
         /\ \A k \in 1..(p - 1) : RemoveAt(s, p)[k] = s[k]
         /\ \A k \in p..(Len(s) - 1) : RemoveAt(s, p)[k] = s[k + 1]
<1> DEFINE a == SubSeq(s, 1, p - 1)
           b == SubSeq(s, p + 1, Len(s))
<1>1. Len(s) \in Nat
  OBVIOUS
<1>2. a \in Seq(S) /\ Len(a) = p - 1 /\ \A k \in 1..(p - 1) : a[k] = s[k]
  <2>1. p - 1 \in 0..Len(s)
    BY <1>1
  <2>2. \A k \in 1..(p - 1) : k \in 1..Len(s)
    BY <1>1
  <2> QED  BY <1>1, <2>1, <2>2
<1>3. b \in Seq(S) /\ Len(b) = Len(s) - p
  BY <1>1
<1>4. \A k \in 1..(Len(s) - p) : b[k] = s[p + k]
  <2>1. \A k \in 1..(Len(s) - p) : b[k] = s[((p + 1) + k) - 1]
    BY <1>1
  <2>2. \A k \in 1..(Len(s) - p) : ((p + 1) + k) - 1 = p + k
    BY <1>1
  <2> HIDE DEF b
  <2> QED  BY <2>1, <2>2
<1>5. RemoveAt(s, p) = a \o b
  BY DEF RemoveAt
<1> HIDE DEF a, b
<1>6. /\ a \o b \in Seq(S) /\ Len(a \o b) = Len(a) + Len(b)
      /\ \A k \in 1..Len(a) : (a \o b)[k] = a[k]
      /\ \A k \in 1..Len(b) : (a \o b)[Len(a) + k] = b[k]
  <2>1. a \in Seq(S) /\ b \in Seq(S)
    BY <1>2, <1>3
  <2> QED  BY <2>1, JoinHas
<1>7. ASSUME NEW k \in p..(Len(s) - 1)  PROVE (a \o b)[k] = s[k + 1]
  <2>1. (k - p) + 1 \in 1..Len(b) /\ (k - p) + 1 \in 1..(Len(s) - p) /\ Len(a) + ((k - p) + 1) = k
        /\ p + ((k - p) + 1) = k + 1
    BY <1>1, <1>2, <1>3
  <2> DEFINE m == (k - p) + 1
  <2>2. (a \o b)[Len(a) + m] = b[m] /\ b[m] = s[p + m]
    BY <1>4, <1>6, <2>1
  <2>3. Len(a) + m = k /\ p + m = k + 1
    BY <2>1
  <2> HIDE DEF m
  <2> QED  BY <2>2, <2>3
<1>8. Len(a) + Len(b) = Len(s) - 1
  BY <1>1, <1>2, <1>3
<1> QED  BY <1>2, <1>5, <1>6, <1>7, <1>8

LEMMA SubSeqHas ==
  ASSUME NEW S, NEW s \in Seq(S), NEW p \in Nat \ {0}, NEW q \in Nat, p <= q + 1, q <= Len(s)
  PROVE  /\ SubSeq(s, p, q) \in Seq(S) /\ Len(SubSeq(s, p, q)) = (q - p) + 1
         /\ \A k \in 1..((q - p) + 1) : SubSeq(s, p, q)[k] = s[(p + k) - 1]
<1>1. Len(s) \in Nat /\ \A k \in p..q : k \in 1..Len(s)
  OBVIOUS
<1>2. SubSeq(s, p, q) \in Seq(S)
  BY <1>1
<1>3. Len(SubSeq(s, p, q)) = (q - p) + 1
  BY <1>1
<1>4. \A k \in 1..((q - p) + 1) : SubSeq(s, p, q)[k] = s[(p + k) - 1]
  BY <1>1
<1> QED  BY <1>2, <1>3, <1>4

LEMMA SubSeqJoin ==
  ASSUME NEW S, NEW s \in Seq(S), NEW p \in Nat \ {0}, NEW q \in Nat, NEW r \in Nat,
         p <= q + 1, q <= r, r <= Len(s)
  PROVE  SubSeq(s, p, q) \o SubSeq(s, q + 1, r) = SubSeq(s, p, r)
<1> DEFINE a == SubSeq(s, p, q)
           b == SubSeq(s, q + 1, r)
           c == SubSeq(s, p, r)
<1>1. Len(s) \in Nat
  OBVIOUS
<1>2. a \in Seq(S) /\ Len(a) = (q - p) + 1 /\ \A k \in 1..((q - p) + 1) : a[k] = s[(p + k) - 1]
  <2>1. q <= Len(s)
    BY <1>1
  <2> QED  BY <2>1, SubSeqHas
<1>3. b \in Seq(S) /\ Len(b) = (r - (q + 1)) + 1 /\ \A k \in 1..((r - (q + 1)) + 1) : b[k] = s[((q + 1) + k) - 1]
  <2>1. q + 1 \in Nat \ {0} /\ q + 1 <= r + 1
    OBVIOUS
  <2> QED  BY <2>1, SubSeqHas
<1>4. c \in Seq(S) /\ Len(c) = (r - p) + 1 /\ \A k \in 1..((r - p) + 1) : c[k] = s[(p + k) - 1]
  <2>1. p <= r + 1
    OBVIOUS
  <2> QED  BY <2>1, SubSeqHas
<1> HIDE DEF a, b, c
<1>5. /\ a \o b \in Seq(S) /\ Len(a \o b) = Len(a) + Len(b)
      /\ \A k \in 1..Len(a) : (a \o b)[k] = a[k]
      /\ \A k \in 1..Len(b) : (a \o b)[Len(a) + k] = b[k]
  <2>1. a \in Seq(S) /\ b \in Seq(S)
    BY <1>2, <1>3
  <2> QED  BY <2>1, JoinHas
<1>6. Len(a \o b) = Len(c)
  BY <1>2, <1>3, <1>4, <1>5
<1>7. ASSUME NEW k \in 1..Len(c)  PROVE (a \o b)[k] = c[k]
  <2>0. k \in Nat /\ k \in 1..((r - p) + 1)
    BY <1>4
  <2>1. CASE k <= Len(a)
    <3>1. k \in 1..Len(a) /\ k \in 1..((q - p) + 1)
      BY <1>2, <2>0, <2>1
    <3>2. (a \o b)[k] = a[k] /\ a[k] = s[(p + k) - 1]
      BY <1>2, <1>5, <3>1
    <3> QED  BY <1>4, <2>0, <3>2
  <2>2. CASE k > Len(a)
    <3> DEFINE m == k - Len(a)
    <3>1. /\ m \in 1..Len(b) /\ m \in 1..((r - (q + 1)) + 1) /\ Len(a) + m = k
          /\ ((q + 1) + m) - 1 = (p + k) - 1
      BY <1>2, <1>3, <2>0, <2>2
    <3> HIDE DEF m
    <3>2. (a \o b)[Len(a) + m] = b[m] /\ b[m] = s[((q + 1) + m) - 1]
      BY <1>3, <1>5, <3>1
    <3>3. c[k] = s[(p + k) - 1]
      BY <1>4, <2>0
    <3> QED  BY <3>1, <3>2, <3>3
  <2>3. k <= Len(a) \/ k > Len(a)
    BY <1>2, <2>0
  <2> QED  BY <2>1, <2>2, <2>3
<1>8. a \o b = c
  <2>1. a \o b \in Seq(S) /\ Len(a \o b) = Len(c) /\ c \in Seq(S) /\ \A k \in 1..Len(a \o b) : (a \o b)[k] = c[k]
    BY <1>4, <1>5, <1>6, <1>7
  <2> QED  BY <2>1, SameSeq
<1> QED  BY <1>8 DEF a, b, c

LEMMA RemoveBetween ==
  ASSUME NEW S, NEW x \in Seq(S), NEW v \in S, NEW y \in Seq(S)
  PROVE  /\ (x \o <<v>>) \o y \in Seq(S) /\ Len((x \o <<v>>) \o y) = (Len(x) + 1) + Len(y)
         /\ ((x \o <<v>>) \o y)[Len(x) + 1] = v
         /\ \A k \in 1..Len(x) : ((x \o <<v>>) \o y)[k] = x[k]
         /\ RemoveAt((x \o <<v>>) \o y, Len(x) + 1) = x \o y
<1> DEFINE o == <<v>>
           z == (x \o o) \o y
           n == Len(x)
           m == Len(y)
<1>1. o \in Seq(S) /\ Len(o) = 1 /\ o[1] = v
  OBVIOUS
<1>2. n \in Nat /\ m \in Nat
  OBVIOUS
<1> HIDE DEF o, n, m
<1>3. /\ z \in Seq(S) /\ Len(z) = (n + 1) + m
      /\ \A k \in 1..n : z[k] = x[k]
      /\ z[n + 1] = v
      /\ \A k \in 1..m : z[(n + 1) + k] = y[k]
  <2>1. /\ z \in Seq(S) /\ Len(z) = Len(x) + Len(o) + Len(y)
        /\ \A i \in 1..Len(x) : z[i] = x[i]
        /\ \A i \in 1..Len(o) : z[Len(x) + i] = o[i]
        /\ \A i \in 1..Len(y) : z[Len(x) + Len(o) + i] = y[i]
    <3>1. o \in Seq(S)
      BY <1>1
    <3> QED  BY <3>1, AroundIs
  <2>2. 1 \in 1..1
    OBVIOUS
  <2> HIDE DEF z
  <2> QED  BY <1>1, <2>1, <2>2 DEF n, m
<1> HIDE DEF z
<1> DEFINE w == RemoveAt(z, n + 1)
<1>4. /\ w \in Seq(S) /\ Len(w) = Len(z) - 1
      /\ \A k \in 1..((n + 1) - 1) : w[k] = z[k]
      /\ \A k \in (n + 1)..(Len(z) - 1) : w[k] = z[k + 1]
  <2>1. n + 1 \in 1..Len(z) /\ z \in Seq(S)
    BY <1>2, <1>3
  <2> QED  BY <2>1, RemoveAtHas
<1>5. /\ x \o y \in Seq(S) /\ Len(x \o y) = n + m
      /\ \A k \in 1..n : (x \o y)[k] = x[k]
      /\ \A k \in 1..m : (x \o y)[n + k] = y[k]
  BY JoinHas DEF n, m
<1> HIDE DEF w
<1>6. Len(w) = n + m /\ (n + 1) - 1 = n /\ Len(z) - 1 = n + m
  BY <1>2, <1>3, <1>4
<1>7. ASSUME NEW k \in 1..Len(w)  PROVE w[k] = (x \o y)[k]
  <2>1. CASE k <= n
    <3>1. k \in 1..n
      BY <1>2, <1>6, <2>1
    <3> QED  BY <1>3, <1>4, <1>5, <1>6, <3>1
  <2>2. CASE k > n
    <3> DEFINE i == k - n
    <3>1. i \in 1..m /\ n + i = k /\ (n + 1) + i = k + 1 /\ k \in (n + 1)..(Len(z) - 1)
      BY <1>2, <1>6, <2>2
    <3> HIDE DEF i
    <3>2. w[k] = z[k + 1]
      BY <1>4, <3>1
    <3>3. z[(n + 1) + i] = y[i] /\ (x \o y)[n + i] = y[i]
      BY <1>3, <1>5, <3>1
    <3> QED  BY <3>1, <3>2, <3>3
  <2>3. k <= n \/ k > n
    BY <1>2, <1>6
  <2> QED  BY <2>1, <2>2, <2>3
<1>8. w = x \o y
  <2>1. w \in Seq(S) /\ x \o y \in Seq(S) /\ Len(w) = Len(x \o y)
    BY <1>4, <1>5, <1>6
  <2> QED  BY <1>7, <2>1, SameSeq
<1> QED  BY <1>3, <1>8 DEF w, z, o, n, m

HasCodes(l, d, a, b, u, v) ==
  l = SubSeq(d, 0 + 1, a) \o <<u>> \o SubSeq(d, a + 1, b) \o <<v>> \o SubSeq(d, b + 1, Len(d))

LEMMA CodesRemoved ==
  ASSUME NEW S, NEW d \in Seq(S), NEW a \in Nat, NEW b \in Nat, a < b, b <= Len(d), NEW u \in S, NEW v \in S, NEW l,
         HasCodes(l, d, a, b, u, v)
  PROVE  \E i, j \in DOMAIN l : i < j /\ l[i] = u /\ l[j] = v /\ RemoveAt(RemoveAt(l, j), i) = d
<1> DEFINE A == SubSeq(d, 1, a)
           B == SubSeq(d, a + 1, b)
           C == SubSeq(d, b + 1, Len(d))
           x == (A \o <<u>>) \o B
           j == Len(x) + 1
           i == a + 1
<1>1. Len(d) \in Nat
  OBVIOUS
<1>2. A \in Seq(S) /\ Len(A) = a
  <2>1. 1 \in Nat \ {0} /\ 1 <= a + 1 /\ a <= Len(d)
    BY <1>1
  <2>2. A \in Seq(S) /\ Len(A) = (a - 1) + 1
    BY <2>1, SubSeqHas
  <2> QED  BY <2>2
<1>3. B \in Seq(S) /\ Len(B) \in Nat
  <2>1. a + 1 \in Nat \ {0} /\ a + 1 <= b + 1
    BY <1>1
  <2>2. B \in Seq(S)
    BY <2>1, SubSeqHas
  <2> QED  BY <2>2
<1>4. C \in Seq(S)
  <2>1. b + 1 \in Nat \ {0} /\ b + 1 <= Len(d) + 1 /\ Len(d) <= Len(d)
    BY <1>1
  <2> QED  BY <1>1, <2>1, SubSeqHas
<1>5. A \o (B \o C) = d
  <2>1. B \o C = SubSeq(d, a + 1, Len(d))
    <3>1. a + 1 \in Nat \ {0} /\ a + 1 <= b + 1 /\ Len(d) <= Len(d)
      BY <1>1
    <3> QED  BY <1>1, <3>1, SubSeqJoin
  <2>2. A \o SubSeq(d, a + 1, Len(d)) = SubSeq(d, 1, Len(d))
    <3>1. 1 \in Nat \ {0} /\ 1 <= a + 1 /\ a <= Len(d) /\ Len(d) <= Len(d)
      BY <1>1
    <3> QED  BY <1>1, <3>1, SubSeqJoin
  <2>3. SubSeq(d, 1, Len(d)) = d
    BY FirstOnes
  <2> QED  BY <2>1, <2>2, <2>3
<1>6. l = (x \o <<v>>) \o C
  <2>1. 0 + 1 = 1
    OBVIOUS
  <2> QED  BY <2>1, Zenon DEF HasCodes
<1> HIDE DEF A, B, C
<1>7. /\ x \in Seq(S) /\ Len(x) = (Len(A) + 1) + Len(B) /\ x[Len(A) + 1] = u
  <2>1. A \in Seq(S) /\ B \in Seq(S)
    BY <1>2, <1>3
  <2> QED  BY <2>1, RemoveBetween
<1> HIDE DEF x
<1>8. /\ l \in Seq(S) /\ Len(l) = (Len(x) + 1) + Len(C) /\ l[Len(x) + 1] = v
      /\ \A k \in 1..Len(x) : l[k] = x[k]
      /\ RemoveAt(l, Len(x) + 1) = x \o C
  <2>1. x \in Seq(S) /\ C \in Seq(S)
    BY <1>4, <1>7
  <2>2. /\ (x \o <<v>>) \o C \in Seq(S) /\ Len((x \o <<v>>) \o C) = (Len(x) + 1) + Len(C)
        /\ ((x \o <<v>>) \o C)[Len(x) + 1] = v
        /\ \A k \in 1..Len(x) : ((x \o <<v>>) \o C)[k] = x[k]
        /\ RemoveAt((x \o <<v>>) \o C, Len(x) + 1) = x \o C
    BY <2>1, RemoveBetween
  <2> QED  BY <1>6, <2>2, Zenon
<1>9. x \o C = (A \o <<u>>) \o (B \o C)
  <2>1. A \o <<u>> \in Seq(S)
    <3>1. <<u>> \in Seq(S) /\ A \in Seq(S)
      BY <1>2
    <3> QED  BY <3>1, JoinHas
  <2> DEFINE y == A \o <<u>>
  <2>2. y \in Seq(S) /\ B \in Seq(S) /\ C \in Seq(S)
    BY <1>3, <1>4, <2>1
  <2>4. x = y \o B
    BY DEF x
  <2> HIDE DEF y
  <2>3. (y \o B) \o C = y \o (B \o C)
    BY <2>2, JoinAssociative
  <2>5. x \o C = y \o (B \o C)
    BY <2>3, <2>4
  <2> QED  BY <2>5 DEF y
<1>10. RemoveAt((A \o <<u>>) \o (B \o C), Len(A) + 1) = A \o (B \o C)
  <2>1. B \o C \in Seq(S)
    <3>1. B \in Seq(S) /\ C \in Seq(S)
      BY <1>3, <1>4
    <3> QED  BY <3>1, JoinHas
  <2>2. A \in Seq(S)
    BY <1>2
  <2> DEFINE y == B \o C
  <2>3. y \in Seq(S)
    BY <2>1
  <2> HIDE DEF y
  <2>4. RemoveAt((A \o <<u>>) \o y, Len(A) + 1) = A \o y
    BY <2>2, <2>3, RemoveBetween
  <2> QED  BY <2>4 DEF y
<1>11. /\ i \in 1..Len(x) /\ i \in 1..Len(l) /\ j \in 1..Len(l) /\ i < j
       /\ Len(A) + 1 = i
  <2>1. Len(C) \in Nat
    BY <1>4
  <2> QED  BY <1>2, <1>3, <1>7, <1>8, <2>1
<1>12. l[i] = u /\ l[j] = v
  <2>1. l[i] = x[i]
    BY <1>8, <1>11
  <2> QED  BY <1>7, <1>8, <1>11, <2>1
<1>13. RemoveAt(RemoveAt(l, j), i) = d
  BY <1>5, <1>8, <1>9, <1>10, <1>11
<1>14. DOMAIN l = 1..Len(l)
  BY <1>8
<1> HIDE DEF i, j
<1> QED  BY <1>11, <1>12, <1>13, <1>14, Zenon

(* What is printed of a line is the line.                                  *)
LEMMA LinesPrintedOnce ==
  ASSUME NEW line \in Lines
  PROVE  PrintedOnce(line)
<1> DEFINE d == line.dest
           a == line.color_range_start
           b == line.color_range_end
           u == "colour"
           v == "reset"
<1>1. d \in Seq(Symbols) /\ a \in Nat /\ b \in Nat /\ b <= Len(d)
  <2>1. line.dest \in Texts
    BY LineHas
  <2> QED  BY <2>1, LineHas DEF Texts
<1>2. u \in Symbols /\ v \in Symbols
  <2>1. u \in Signs /\ v \in Signs
    BY DEF Signs
  <2> HIDE DEF u, v
  <2> QED  BY <2>1, Zenon DEF Symbols
<1>3. CASE ~(b > a)
  <2>1. log(line) = line.dest
    BY <1>3, Zenon DEF log
  <2> QED  BY <2>1, Zenon DEF PrintedOnce
<1>4. CASE b > a
  <2>1. log(line) = SubSeq(d, 0 + 1, a) \o <<u>> \o SubSeq(d, a + 1, b) \o <<v>> \o SubSeq(d, b + 1, Len(d))
    BY <1>4, Zenon DEF log, print_range_
  <2>2. a < b
    BY <1>1, <1>4
  <2> DEFINE l == log(line)
  <2> HIDE DEF d, a, b, u, v, l
  <2>3. \E i, j \in DOMAIN l : i < j /\ l[i] = u /\ l[j] = v /\ RemoveAt(RemoveAt(l, j), i) = d
    <3>1. HasCodes(l, d, a, b, u, v)
      BY <2>1, Zenon DEF l, HasCodes
    <3> QED  BY <1>1, <1>2, <2>2, <3>1, CodesRemoved
  <2> QED  BY <2>3, Zenon DEF PrintedOnce, l, u, v, d
<1> QED  BY <1>3, <1>4

-------------------------------------------------------------------------------
(* text stays a sequence of strings.                                       *)
LEMMA LinesFollow ==
  ASSUME text \in Seq(STRING)
  PROVE  LinesAreOfTheirMessage
<1>1. text \in Texts
  BY StringsAreSymbols DEF Texts
<1>2. ASSUME NEW n \in 1..MaxHistory, NEW msgs \in [1..n -> Messages]
      PROVE  /\ LineAfter(text, msgs) = LineAfter(text, <<msgs[Len(msgs)]>>)
             /\ PrintedOnce(LineAfter(text, msgs))
  <2>1. Len(msgs) = n /\ msgs[n] \in Messages /\ n \in Nat \ {0}
    BY MaxHistoryAssumption
  <2>2. LineAfter(text, msgs) = LineOf(compile_pattern_(text), msgs[n])
    BY <1>1, <2>1, LineAfterIs
  <2>3. /\ LineAfter(text, <<msgs[n]>>) = LineOf(compile_pattern_(text), msgs[n])
        /\ LineAfter(text, <<msgs[n]>>) \in Lines
    BY <1>1, <2>1, LineOfOne
  <2>4. PrintedOnce(LineAfter(text, msgs))
    BY <2>2, <2>3, LinesPrintedOnce
  <2> QED  BY <2>1, <2>2, <2>3, <2>4
<1>3. \A msgs \in Histories : \E n \in 1..MaxHistory : msgs \in [1..n -> Messages]
  BY DEF Histories
<1> QED  BY <1>2, <1>3 DEF LinesAreOfTheirMessage

LEMMA PatternsJoin ==
  ASSUME text \in Seq(STRING)
  PROVE  PatternsAreConcatenated
<1> SUFFICES ASSUME NEW msg \in Messages, NEW i \in 2..Len(text), ~IsFlag(text, i)
             PROVE  LineAfter(text, <<msg>>).dest =
                      LineAfter(Before(text, i), <<msg>>).dest \o LineAfter(From(text, i), <<msg>>).dest
  BY DEF PatternsAreConcatenated
<1> DEFINE s == text
           a == SubSeq(s, 1, i - 1)
           b == SubSeq(s, i, Len(s))
<1>1. s \in Seq(Symbols) /\ s \in Texts /\ Len(s) \in Nat
  BY StringsAreSymbols DEF Texts
<1>2. a \in Seq(Symbols) /\ Len(a) = i - 1
  <2>1. 1 \in Nat \ {0} /\ i - 1 \in Nat /\ 1 <= (i - 1) + 1 /\ i - 1 <= Len(s)
    BY <1>1
  <2>2. a \in Seq(Symbols) /\ Len(a) = ((i - 1) - 1) + 1
    BY <1>1, <2>1, SubSeqHas
  <2> QED  BY <2>2
<1>3. b \in Seq(Symbols)
  <2>1. i \in Nat \ {0} /\ i <= Len(s) + 1 /\ Len(s) <= Len(s)
    BY <1>1
  <2> QED  BY <1>1, <2>1, SubSeqHas
<1>4. a \o b = s
  <2>1. 1 \in Nat \ {0} /\ i - 1 \in Nat /\ 1 <= (i - 1) + 1 /\ i - 1 <= Len(s) /\ Len(s) <= Len(s) /\ (i - 1) + 1 = i
    BY <1>1
  <2>2. a \o SubSeq(s, (i - 1) + 1, Len(s)) = SubSeq(s, 1, Len(s))
    BY <1>1, <2>1, SubSeqJoin
  <2>3. SubSeq(s, 1, Len(s)) = s
    BY <1>1, FirstOnes
  <2> QED  BY <2>1, <2>2, <2>3
<1>5. Before(text, i) = a /\ From(text, i) = b
  BY DEF Before, From
<1> HIDE DEF a, b, s
<1>6. a \in Texts /\ b \in Texts
  BY <1>2, <1>3 DEF Texts
<1>7. ~IsFlag(a \o b, Len(a) + 1)
  <2>1. Len(a) + 1 = i
    BY <1>2
  <2> QED  BY <1>4, <2>1 DEF s
<1>8. Shown(a \o b, msg) = Shown(a, msg) \o Shown(b, msg)
  BY <1>6, <1>7, ShownJoin
<1>9. /\ LineAfter(s, <<msg>>).dest = Shown(s, msg) /\ LineAfter(a, <<msg>>).dest = Shown(a, msg)
      /\ LineAfter(b, <<msg>>).dest = Shown(b, msg)
  BY <1>1, <1>6, LineOfOne
<1> QED  BY <1>4, <1>5, <1>8, <1>9, Zenon DEF s

-------------------------------------------------------------------------------
(***************************************************************************)
(* Patterns that are whole, with what they print.                          *)
(***************************************************************************)
IsWhole(x) == x \in Texts /\ ~IsFlag(x, Len(x) + 1)

Says(x, t, msg) == IsWhole(x) /\ t \in Texts /\ Shown(x, msg) = t

LEMMA WholeBefore ==
  ASSUME NEW a \in Texts, IsWhole(a), NEW b \in Texts
  PROVE  /\ a \o b \in Texts
         /\ \A k \in 1..(Len(b) + 1) : IsFlag(a \o b, Len(a) + k) <=> IsFlag(b, k)
<1> DEFINE s == a \o b
           m == Len(a)
           n == Len(b)
<1>1. a \in Seq(Symbols) /\ b \in Seq(Symbols) /\ m \in Nat /\ n \in Nat
  BY DEF Texts
<1>2. /\ s \in Seq(Symbols) /\ Len(s) = m + n
      /\ \A i \in 1..m : s[i] = a[i]
      /\ \A i \in 1..n : s[m + i] = b[i]
  BY <1>1, JoinHas
<1> HIDE DEF s
<1>3. IsFlag(s, m + 1) <=> IsFlag(b, 1)
  <2>1. m <= Len(s) /\ m <= Len(a)
    BY <1>1, <1>2
  <2>2. \A i \in 1..(m + 1) : IsFlag(s, i) <=> IsFlag(a, i)
    BY <1>1, <1>2, <2>1, SameFlags
  <2>3. m + 1 \in 1..(m + 1)
    BY <1>1
  <2> QED  BY <2>2, <2>3, FirstIsNoFlag DEF IsWhole
<1> HIDE DEF m, n
<1> DEFINE T == {k \in Nat : k <= n => (IsFlag(s, m + (k + 1)) <=> IsFlag(b, k + 1))}
<1>4. 0 \in T
  <2>1. 0 + 1 = 1
    OBVIOUS
  <2> QED  BY <1>3, <2>1
<1>5. ASSUME NEW k \in Nat, k \in T  PROVE k + 1 \in T
  <2>0. k + 1 \in Nat
    OBVIOUS
  <2> SUFFICES ASSUME k + 1 <= n  PROVE IsFlag(s, m + ((k + 1) + 1)) <=> IsFlag(b, (k + 1) + 1)
    BY <2>0, Zenon
  <2>1. /\ k + 1 \in 1..n /\ m + (k + 1) \in 1..Len(s) /\ m + ((k + 1) + 1) = (m + (k + 1)) + 1 /\ k <= n
        /\ k + 1 \in 1..Len(b)
    BY <1>1, <1>2 DEF n
  <2>2. IsFlag(s, m + (k + 1)) <=> IsFlag(b, k + 1)
    BY <1>5, <2>1
  <2>3. s[m + (k + 1)] = b[k + 1]
    BY <1>2, <2>1
  <2> HIDE DEF T
  <2>4. IsFlag(s, (m + (k + 1)) + 1) <=> s[m + (k + 1)] = "%" /\ ~IsFlag(s, m + (k + 1))
    BY <1>2, <2>1, FlagIs
  <2>5. IsFlag(b, (k + 1) + 1) <=> b[k + 1] = "%" /\ ~IsFlag(b, k + 1)
    BY <1>1, <2>1, FlagIs
  <2> QED  BY <2>1, <2>2, <2>3, <2>4, <2>5, Zenon
<1> HIDE DEF T
<1>6. Nat \subseteq T
  BY <1>4, <1>5, Induction
<1>7. ASSUME NEW k \in 1..(n + 1)  PROVE IsFlag(s, m + k) <=> IsFlag(b, k)
  <2>1. k - 1 \in Nat /\ (k - 1) + 1 = k /\ k - 1 <= n
    BY <1>1 DEF n
  <2> QED  BY <1>6, <2>1 DEF T
<1> QED  BY <1>2, <1>7 DEF s, m, n, Texts

LEMMA SaysJoin ==
  ASSUME NEW msg \in Messages, NEW a, NEW t, Says(a, t, msg), NEW b, NEW u, Says(b, u, msg)
  PROVE  Says(a \o b, t \o u, msg)
<1>1. a \in Texts /\ b \in Texts /\ t \in Texts /\ u \in Texts /\ IsWhole(a) /\ ~IsFlag(b, Len(b) + 1)
      /\ Shown(a, msg) = t /\ Shown(b, msg) = u
  BY DEF Says, IsWhole
<1>2. a \o b \in Texts /\ \A k \in 1..(Len(b) + 1) : IsFlag(a \o b, Len(a) + k) <=> IsFlag(b, k)
  BY <1>1, WholeBefore
<1>3. Len(a) \in Nat /\ Len(b) \in Nat /\ Len(a \o b) = Len(a) + Len(b)
  <2>1. a \in Seq(Symbols) /\ b \in Seq(Symbols)
    BY <1>1 DEF Texts
  <2> QED  BY <2>1, JoinHas
<1>4. ~IsFlag(a \o b, Len(a \o b) + 1)
  <2>1. Len(b) + 1 \in 1..(Len(b) + 1) /\ Len(a) + (Len(b) + 1) = Len(a \o b) + 1
    BY <1>3
  <2>2. ~IsFlag(a \o b, Len(a) + (Len(b) + 1))
    BY <1>1, <1>2, <2>1
  <2> QED  BY <2>1, <2>2
<1>5. ~IsFlag(a \o b, Len(a) + 1)
  BY <1>1, <1>2, <1>3, FirstIsNoFlag
<1>6. Shown(a \o b, msg) = t \o u
  BY <1>1, <1>5, ShownJoin
<1>7. t \o u \in Texts
  BY <1>1, TextsJoin
<1> QED  BY <1>2, <1>4, <1>6, <1>7 DEF Says, IsWhole

LEMMA NoneSays ==
  ASSUME NEW msg \in Messages
  PROVE  Says(<<>>, <<>>, msg)
<1>1. <<>> \in Texts /\ Len(<<>>) = 0
  BY TextsJoin
<1>2. PICK h : IsShown(<<>>, msg, h) /\ Shown(<<>>, msg) = h[1]
  BY <1>1, ShownExists
<1>3. h[0 + 1] = <<>> /\ 0 + 1 = 1
  BY <1>1, <1>2 DEF IsShown
<1>4. ~IsFlag(<<>>, 0 + 1)
  BY <1>3, FirstIsNoFlag
<1> QED  BY <1>1, <1>2, <1>3, <1>4 DEF Says, IsWhole

LEMMA OneSays ==
  ASSUME NEW msg \in Messages, NEW c \in Symbols, c # "%"
  PROVE  Says(<<c>>, <<c>>, msg)
<1> DEFINE s == <<c>>
<1>1. s \in Texts /\ s \in Seq(Symbols) /\ Len(s) = 1 /\ s[1] = c
  <2>1. s \in Seq(Symbols) /\ Len(s) = 1 /\ s[1] = c
    OBVIOUS
  <2> QED  BY <2>1 DEF Texts
<1> HIDE DEF s
<1>2. PICK h : IsShown(s, msg, h) /\ Shown(s, msg) = h[1]
  BY <1>1, ShownExists
<1>3. 1 \in 1..Len(s) /\ 1 + 1 = 2
  BY <1>1
<1>4. h[1] = <<c>> \o h[2] /\ h[2] = <<>>
  BY <1>1, <1>2, <1>3 DEF IsShown
<1>5. h[1] = s
  <2>1. <<c>> \o <<>> = <<c>>
    BY <1>1, TextsJoin DEF s
  <2> QED  BY <1>4, <2>1 DEF s
<1>6. ~IsFlag(s, 1 + 1)
  BY <1>1, <1>3, FlagIs
<1> QED  BY <1>1, <1>2, <1>5, <1>6 DEF Says, IsWhole, s

LEMMA FlagSays ==
  ASSUME NEW msg \in Messages, NEW c \in Symbols
  PROVE  Says(Percent(c), FlagOut(c, msg), msg)
<1> DEFINE p == "%"
           s == <<p, c>>
<1>0. p \in Symbols
  <2>1. p \in Signs
    BY DEF Signs
  <2> HIDE DEF p
  <2> QED  BY <2>1, Zenon DEF Symbols
<1> HIDE DEF p
<1>1. s \in Texts /\ s \in Seq(Symbols) /\ Len(s) = 2 /\ s[1] = p /\ s[2] = c
  <2>1. s \in Seq(Symbols) /\ Len(s) = 2 /\ s[1] = p /\ s[2] = c
    BY <1>0, ShortOnes
  <2> QED  BY <2>1 DEF Texts
<1> HIDE DEF s
<1>2. PICK h : IsShown(s, msg, h) /\ Shown(s, msg) = h[1]
  BY <1>1, ShownExists
<1>3. 1 \in 1..Len(s) /\ 2 \in 1..Len(s) /\ 1 # Len(s) /\ 1 + 1 = 2 /\ 1 + 2 = 3 /\ 2 + 1 = 3
  BY <1>1
<1>4. h[1] = FlagOut(c, msg) \o h[3] /\ h[3] = <<>>
  <2>1. h[Len(s) + 1] = <<>>
    BY <1>2 DEF IsShown
  <2>2. h[1] = FlagOut(s[1 + 1], msg) \o h[1 + 2]
    BY <1>1, <1>2, <1>3 DEF IsShown, p
  <2> QED  BY <1>1, <1>3, <2>1, <2>2
<1>5. FlagOut(c, msg) \in Texts
  BY HandledPrints
<1>6. h[1] = FlagOut(c, msg)
  BY <1>4, <1>5, TextsJoin
<1>7. ~IsFlag(s, 2 + 1)
  <2>1. IsFlag(s, 1 + 1) <=> s[1] = "%" /\ ~IsFlag(s, 1)
    BY <1>1, <1>3, FlagIs
  <2>2. IsFlag(s, 2 + 1) <=> s[2] = "%" /\ ~IsFlag(s, 2)
    BY <1>1, <1>3, FlagIs
  <2> QED  BY <1>1, <1>3, <2>1, <2>2, FirstIsNoFlag DEF p
<1> QED  BY <1>1, <1>2, <1>5, <1>6, <1>7 DEF Says, IsWhole, s, p, Percent

-------------------------------------------------------------------------------
(* What the patterns of the comments print.                                *)
LEMMA FlagsSay ==
  ASSUME NEW msg \in Messages, NEW c \in Flags
  PROVE  Says(Percent(c), Flag(c, msg, msg.tm), msg)
<1>1. c \in Symbols
  BY Zenon DEF Symbols
<1>2. FlagOut(c, msg) = Flag(c, msg, msg.tm)
  BY FlagOutIs
<1>3. Says(Percent(c), FlagOut(c, msg), msg)
  BY <1>1, FlagSays
<1> QED  BY <1>2, <1>3

LEMMA SignsSay ==
  ASSUME NEW msg \in Messages
  PROVE  /\ Says(<<"[">>, <<"[">>, msg) /\ Says(<<"-">>, <<"-">>, msg) /\ Says(<<" ">>, <<" ">>, msg)
         /\ Says(<<":">>, <<":">>, msg) /\ Says(<<".">>, <<".">>, msg) /\ Says(<<"/">>, <<"/">>, msg)
         /\ Says(<<"]">>, <<"]">>, msg) /\ Says(<<"]", " ">>, Closed, msg)
<1>1. \A c \in Signs : c # "%" => Says(<<c>>, <<c>>, msg)
  <2>1. \A c \in Signs : c \in Symbols
    BY Zenon DEF Symbols
  <2> QED  BY <2>1, OneSays
<1>2. Says(<<"[">>, <<"[">>, msg)
  <2>1. "[" \in Signs /\ "[" # "%"
    BY DEF Signs
  <2> QED  BY <1>1, <2>1, Zenon
<1>3. Says(<<"-">>, <<"-">>, msg)
  <2>1. "-" \in Signs /\ "-" # "%"
    BY DEF Signs
  <2> QED  BY <1>1, <2>1, Zenon
<1>4. Says(<<" ">>, <<" ">>, msg)
  <2>1. " " \in Signs /\ " " # "%"
    BY DEF Signs
  <2> QED  BY <1>1, <2>1, Zenon
<1>5. Says(<<":">>, <<":">>, msg)
  <2>1. ":" \in Signs /\ ":" # "%"
    BY DEF Signs
  <2> QED  BY <1>1, <2>1, Zenon
<1>6. Says(<<".">>, <<".">>, msg)
  <2>1. "." \in Signs /\ "." # "%"
    BY DEF Signs
  <2> QED  BY <1>1, <2>1, Zenon
<1>7. Says(<<"/">>, <<"/">>, msg)
  <2>1. "/" \in Signs /\ "/" # "%"
    BY DEF Signs
  <2> QED  BY <1>1, <2>1, Zenon
<1>8. Says(<<"]">>, <<"]">>, msg)
  <2>1. "]" \in Signs /\ "]" # "%"
    BY DEF Signs
  <2> QED  BY <1>1, <2>1, Zenon
<1>9. Says(<<"]">> \o <<" ">>, <<"]">> \o <<" ">>, msg)
  BY <1>4, <1>8, SaysJoin, Zenon
<1>10. Says(<<"]", " ">>, Closed, msg)
  BY <1>9, ClosedIs, Zenon DEF Closed
<1> QED  BY <1>2, <1>3, <1>4, <1>5, <1>6, <1>7, <1>8, <1>10, Zenon

LEMMA YearSays ==
  ASSUME NEW msg \in Messages
  PROVE  Says(Percent("Y"), append_int(msg.tm.year + 1900), msg)
<1>1. "Y" \in Flags
  BY DEF Flags
<1>2. Flag("Y", msg, msg.tm) = append_int(msg.tm.year + 1900)
  BY Flags3
<1>3. Says(Percent("Y"), Flag("Y", msg, msg.tm), msg)
  BY <1>1, FlagsSay, Zenon
<1> QED  BY <1>2, <1>3, SMT

LEMMA NumbersSay ==
  ASSUME NEW msg \in Messages
  PROVE  /\ Says(Percent("H"), pad2(msg.tm.hour), msg)
         /\ Says(Percent("M"), pad2(msg.tm.min), msg)
         /\ Says(Percent("S"), pad2(msg.tm.sec), msg)
         /\ Says(Percent("C"), pad2(msg.tm.year % 100), msg)
         /\ Says(Percent("m"), pad2(msg.tm.mon + 1), msg)
         /\ Says(Percent("d"), pad2(msg.tm.mday), msg)
         /\ Says(Percent("e"), pad3(millis(msg)), msg)
         /\ Says(Percent("n"), msg.name, msg)
         /\ Says(Percent("l"), <<msg.level>>, msg)
         /\ Says(Percent("v"), msg.raw, msg)
<1>1. Says(Percent("H"), pad2(msg.tm.hour), msg)
  <2>1. "H" \in Flags
    BY DEF Flags
  <2>2. Flag("H", msg, msg.tm) = pad2(msg.tm.hour)
    BY Flags4
  <2>3. Says(Percent("H"), Flag("H", msg, msg.tm), msg)
    BY <2>1, FlagsSay, Zenon
  <2> QED  BY <2>2, <2>3, Zenon
<1>2. Says(Percent("M"), pad2(msg.tm.min), msg)
  <2>1. "M" \in Flags
    BY DEF Flags
  <2>2. Flag("M", msg, msg.tm) = pad2(msg.tm.min)
    BY Flags4
  <2>3. Says(Percent("M"), Flag("M", msg, msg.tm), msg)
    BY <2>1, FlagsSay, Zenon
  <2> QED  BY <2>2, <2>3, Zenon
<1>3. Says(Percent("S"), pad2(msg.tm.sec), msg)
  <2>1. "S" \in Flags
    BY DEF Flags
  <2>2. Flag("S", msg, msg.tm) = pad2(msg.tm.sec)
    BY Flags5
  <2>3. Says(Percent("S"), Flag("S", msg, msg.tm), msg)
    BY <2>1, FlagsSay, Zenon
  <2> QED  BY <2>2, <2>3, Zenon
<1>4. Says(Percent("C"), pad2(msg.tm.year % 100), msg)
  <2>1. "C" \in Flags
    BY DEF Flags
  <2>2. Flag("C", msg, msg.tm) = pad2(msg.tm.year % 100)
    BY Flags3
  <2>3. Says(Percent("C"), Flag("C", msg, msg.tm), msg)
    BY <2>1, FlagsSay, Zenon
  <2> QED  BY <2>2, <2>3, Zenon
<1>5. Says(Percent("m"), pad2(msg.tm.mon + 1), msg)
  <2>1. "m" \in Flags
    BY DEF Flags
  <2>2. Flag("m", msg, msg.tm) = pad2(msg.tm.mon + 1)
    BY Flags4
  <2>3. Says(Percent("m"), Flag("m", msg, msg.tm), msg)
    BY <2>1, FlagsSay, Zenon
  <2> QED  BY <2>2, <2>3, Zenon
<1>6. Says(Percent("d"), pad2(msg.tm.mday), msg)
  <2>1. "d" \in Flags
    BY DEF Flags
  <2>2. Flag("d", msg, msg.tm) = pad2(msg.tm.mday)
    BY Flags4
  <2>3. Says(Percent("d"), Flag("d", msg, msg.tm), msg)
    BY <2>1, FlagsSay, Zenon
  <2> QED  BY <2>2, <2>3, Zenon
<1>7. Says(Percent("e"), pad3(millis(msg)), msg)
  <2>1. "e" \in Flags
    BY DEF Flags
  <2>2. Flag("e", msg, msg.tm) = pad3(millis(msg))
    BY Flags5
  <2>3. Says(Percent("e"), Flag("e", msg, msg.tm), msg)
    BY <2>1, FlagsSay, Zenon
  <2> QED  BY <2>2, <2>3, Zenon
<1>8. Says(Percent("n"), msg.name, msg)
  <2>1. "n" \in Flags
    BY DEF Flags
  <2>2. Flag("n", msg, msg.tm) = msg.name
    BY Flags1
  <2>3. Says(Percent("n"), Flag("n", msg, msg.tm), msg)
    BY <2>1, FlagsSay, Zenon
  <2> QED  BY <2>2, <2>3, Zenon
<1>9. Says(Percent("l"), <<msg.level>>, msg)
  <2>1. "l" \in Flags
    BY DEF Flags
  <2>2. Flag("l", msg, msg.tm) = <<msg.level>>
    BY Flags1
  <2>3. Says(Percent("l"), Flag("l", msg, msg.tm), msg)
    BY <2>1, FlagsSay, Zenon
  <2> QED  BY <2>2, <2>3, Zenon
<1>10. Says(Percent("v"), msg.raw, msg)
  <2>1. "v" \in Flags
    BY DEF Flags
  <2>2. Flag("v", msg, msg.tm) = msg.raw
    BY Flags1
  <2>3. Says(Percent("v"), Flag("v", msg, msg.tm), msg)
    BY <2>1, FlagsSay, Zenon
  <2> QED  BY <2>2, <2>3, Zenon
<1> QED  BY <1>1, <1>2, <1>3, <1>4, <1>5, <1>6, <1>7, <1>8, <1>9, <1>10, Zenon

LEMMA ClocksSay ==
  ASSUME NEW msg \in Messages
  PROVE  /\ Says(R_pattern, R_formatter(msg.tm), msg) /\ Says(T_pattern, T_formatter(msg.tm), msg)
         /\ Says(D_pattern, D_formatter(msg.tm), msg)
<1> DEFINE h == pad2(msg.tm.hour)
           m == pad2(msg.tm.min)
           s == pad2(msg.tm.sec)
           mo == pad2(msg.tm.mon + 1)
           d == pad2(msg.tm.mday)
           y == pad2(msg.tm.year % 100)
           c == <<":">>
           k == <<"/">>
           H == Percent("H")
           M == Percent("M")
           S == Percent("S")
           MO == Percent("m")
           D == Percent("d")
           Y == Percent("C")
<1>1. /\ Says(H, h, msg) /\ Says(M, m, msg) /\ Says(S, s, msg) /\ Says(MO, mo, msg) /\ Says(D, d, msg)
      /\ Says(Y, y, msg) /\ Says(c, c, msg) /\ Says(k, k, msg)
  <2>1. Says(H, h, msg)
    BY NumbersSay, Zenon
  <2>2. Says(M, m, msg)
    BY NumbersSay, Zenon
  <2>3. Says(S, s, msg)
    BY NumbersSay, Zenon
  <2>4. Says(MO, mo, msg)
    BY NumbersSay, Zenon
  <2>5. Says(D, d, msg)
    BY NumbersSay, Zenon
  <2>6. Says(Y, y, msg)
    BY NumbersSay, Zenon
  <2>7. Says(c, c, msg) /\ Says(k, k, msg)
    BY SignsSay
  <2> HIDE DEF h, m, s, mo, d, y, c, k, H, M, S, MO, D, Y
  <2> QED  BY <2>1, <2>2, <2>3, <2>4, <2>5, <2>6, <2>7, Zenon
<1>2. R_pattern = H \o c \o M /\ R_formatter(msg.tm) = h \o c \o m
  BY DEF R_pattern, R_formatter
<1>3. T_pattern = R_pattern \o c \o S /\ T_formatter(msg.tm) = R_formatter(msg.tm) \o c \o s
  BY DEF T_pattern, T_formatter
<1>4. D_pattern = MO \o k \o D \o k \o Y /\ D_formatter(msg.tm) = mo \o k \o d \o k \o y
  BY DEF D_pattern, D_formatter
<1> HIDE DEF h, m, s, mo, d, y, c, k, H, M, S, MO, D, Y
<1>5. Says(R_pattern, R_formatter(msg.tm), msg)
  <2>1. Says(H \o c, h \o c, msg)
    BY <1>1, SaysJoin
  <2>2. Says((H \o c) \o M, (h \o c) \o m, msg)
    BY <1>1, <2>1, SaysJoin
  <2> QED  BY <1>2, <2>2
<1>6. Says(T_pattern, T_formatter(msg.tm), msg)
  <2>1. Says(R_pattern \o c, R_formatter(msg.tm) \o c, msg)
    BY <1>1, <1>5, SaysJoin
  <2>2. Says((R_pattern \o c) \o S, (R_formatter(msg.tm) \o c) \o s, msg)
    BY <1>1, <2>1, SaysJoin
  <2> QED  BY <1>3, <2>2
<1>7. Says(D_pattern, D_formatter(msg.tm), msg)
  <2>1. Says(MO \o k, mo \o k, msg)
    BY <1>1, SaysJoin
  <2>2. Says((MO \o k) \o D, (mo \o k) \o d, msg)
    BY <1>1, <2>1, SaysJoin
  <2>3. Says(((MO \o k) \o D) \o k, ((mo \o k) \o d) \o k, msg)
    BY <1>1, <2>2, SaysJoin
  <2>4. Says((((MO \o k) \o D) \o k) \o Y, (((mo \o k) \o d) \o k) \o y, msg)
    BY <1>1, <2>3, SaysJoin
  <2> QED  BY <1>4, <2>4
<1> QED  BY <1>5, <1>6, <1>7

(* The whole line, piece by piece.                                         *)
LEMMA FullSays ==
  ASSUME NEW msg \in Messages, msg.name # <<>>
  PROVE  Says(FullPattern, Whole(msg), msg)
<1> DEFINE a1 == <<"[">>
           b1 == <<"[">>
           a2 == Percent("Y")
           b2 == append_int(msg.tm.year + 1900)
           a3 == <<"-">>
           b3 == <<"-">>
           a4 == Percent("m")
           b4 == pad2(msg.tm.mon + 1)
           a5 == Percent("d")
           b5 == pad2(msg.tm.mday)
           a6 == <<" ">>
           b6 == <<" ">>
           a7 == T_pattern
           b7 == T_formatter(msg.tm)
           a8 == <<".">>
           b8 == <<".">>
           a9 == Percent("e")
           b9 == pad3(millis(msg))
           a10 == <<"]", " ">>
           b10 == Closed
           a11 == Percent("n")
           b11 == msg.name
           a12 == Percent("l")
           b12 == <<msg.level>>
           a13 == Percent("v")
           b13 == msg.raw
           p1 == a1
           v1 == b1
           p2 == p1 \o a2
           v2 == v1 \o b2
           p3 == p2 \o a3
           v3 == v2 \o b3
           p4 == p3 \o a4
           v4 == v3 \o b4
           p5 == p4 \o a3
           v5 == v4 \o b3
           p6 == p5 \o a5
           v6 == v5 \o b5
           p7 == p6 \o a6
           v7 == v6 \o b6
           p8 == p7 \o a7
           v8 == v7 \o b7
           p9 == p8 \o a8
           v9 == v8 \o b8
           p10 == p9 \o a9
           v10 == v9 \o b9
           p11 == p10 \o a10
           v11 == v10 \o b10
           p12 == p11 \o a1
           v12 == v11 \o b1
           p13 == p12 \o a11
           v13 == v12 \o b11
           p14 == p13 \o a10
           v14 == v13 \o b10
           p15 == p14 \o a1
           v15 == v14 \o b1
           p16 == p15 \o a12
           v16 == v15 \o b12
           p17 == p16 \o a10
           v17 == v16 \o b10
           p18 == p17 \o a13
           v18 == v17 \o b13
<1>1. /\ Says(a1, b1, msg)
      /\ Says(a2, b2, msg)
      /\ Says(a3, b3, msg)
      /\ Says(a4, b4, msg)
      /\ Says(a5, b5, msg)
      /\ Says(a6, b6, msg)
      /\ Says(a7, b7, msg)
      /\ Says(a8, b8, msg)
      /\ Says(a9, b9, msg)
      /\ Says(a10, b10, msg)
      /\ Says(a11, b11, msg)
      /\ Says(a12, b12, msg)
      /\ Says(a13, b13, msg)
  <2>1. Says(a1, b1, msg)
    BY SignsSay
  <2>2. Says(a2, b2, msg)
    BY YearSays, SMT
  <2>3. Says(a3, b3, msg)
    BY SignsSay
  <2>4. Says(a4, b4, msg)
    BY NumbersSay, Zenon
  <2>5. Says(a5, b5, msg)
    BY NumbersSay, Zenon
  <2>6. Says(a6, b6, msg)
    BY SignsSay
  <2>7. Says(a7, b7, msg)
    BY ClocksSay
  <2>8. Says(a8, b8, msg)
    BY SignsSay
  <2>9. Says(a9, b9, msg)
    BY NumbersSay, Zenon
  <2>10. Says(a10, b10, msg)
    BY SignsSay
  <2>11. Says(a11, b11, msg)
    BY NumbersSay, Zenon
  <2>12. Says(a12, b12, msg)
    BY NumbersSay, Zenon
  <2>13. Says(a13, b13, msg)
    BY NumbersSay, Zenon
  <2> HIDE DEF a1, b1, a2, b2, a3, b3, a4, b4, a5, b5, a6, b6, a7, b7, a8, b8, a9, b9, a10, b10, a11, b11, a12, b12, a13, b13
  <2> QED  BY <2>1, <2>2, <2>3, <2>4, <2>5, <2>6, <2>7, <2>8, <2>9, <2>10, <2>11, <2>12, <2>13, Zenon
<1>2. FullPattern = p18
  BY Zenon DEF FullPattern
<1>3. v9 = Datetime(msg.tm)
  BY SMT DEF Datetime
<1> HIDE DEF a1, b1, a2, b2, a3, b3, a4, b4, a5, b5, a6, b6, a7, b7, a8, b8, a9, b9, a10, b10, a11, b11, a12, b12, a13, b13
<1>4. Says(p1, v1, msg)
  BY <1>1 DEF p1, v1
<1> HIDE DEF p1, v1, p2, v2, p3, v3, p4, v4, p5, v5, p6, v6, p7, v7, p8, v8, p9, v9, p10, v10, p11, v11, p12, v12, p13, v13, p14, v14, p15, v15, p16, v16, p17, v17, p18, v18
<1>5. Says(p2, v2, msg)
  BY <1>1, <1>4, SaysJoin DEF p2, v2
<1>6. Says(p3, v3, msg)
  BY <1>1, <1>5, SaysJoin DEF p3, v3
<1>7. Says(p4, v4, msg)
  BY <1>1, <1>6, SaysJoin DEF p4, v4
<1>8. Says(p5, v5, msg)
  BY <1>1, <1>7, SaysJoin DEF p5, v5
<1>9. Says(p6, v6, msg)
  BY <1>1, <1>8, SaysJoin DEF p6, v6
<1>10. Says(p7, v7, msg)
  BY <1>1, <1>9, SaysJoin DEF p7, v7
<1>11. Says(p8, v8, msg)
  BY <1>1, <1>10, SaysJoin DEF p8, v8
<1>12. Says(p9, v9, msg)
  BY <1>1, <1>11, SaysJoin DEF p9, v9
<1>13. Says(p10, v10, msg)
  BY <1>1, <1>12, SaysJoin DEF p10, v10
<1>14. Says(p11, v11, msg)
  BY <1>1, <1>13, SaysJoin DEF p11, v11
<1>15. Says(p12, v12, msg)
  BY <1>1, <1>14, SaysJoin DEF p12, v12
<1>16. Says(p13, v13, msg)
  BY <1>1, <1>15, SaysJoin DEF p13, v13
<1>17. Says(p14, v14, msg)
  BY <1>1, <1>16, SaysJoin DEF p14, v14
<1>18. Says(p15, v15, msg)
  BY <1>1, <1>17, SaysJoin DEF p15, v15
<1>19. Says(p16, v16, msg)
  BY <1>1, <1>18, SaysJoin DEF p16, v16
<1>20. Says(p17, v17, msg)
  BY <1>1, <1>19, SaysJoin DEF p17, v17
<1>21. Says(p18, v18, msg)
  BY <1>1, <1>20, SaysJoin DEF p18, v18
<1>22. v18 = Whole(msg)
  <2>1. /\ v11 \in Texts /\ v15 \in Texts /\ b1 \in Texts /\ b11 \in Texts /\ b10 \in Texts
        /\ b12 \in Texts
    BY <1>1, <1>14, <1>18 DEF Says
  <2>2. b1 \o b11 \in Texts /\ (b1 \o b11) \o b10 \in Texts
    BY <2>1, TextsJoin
  <2>3. v13 = v11 \o (b1 \o b11)
    BY <2>1, TextsJoin DEF v12, v13
  <2>4. v14 = v11 \o ((b1 \o b11) \o b10)
    BY <2>1, <2>2, <2>3, TextsJoin DEF v14
  <2>5. (b1 \o b11) \o b10 = Named(msg)
    BY Zenon DEF Named, b1, b11, b10
  <2>6. v15 = Heading(msg)
    BY <1>3, <2>4, <2>5, Zenon DEF Heading, v15, v11, v10, b1, b9, b10
  <2>7. b12 \o b10 = Leveled(msg)
    BY LeveledIs, Zenon DEF b12, b10
  <2>8. v17 = v15 \o (b12 \o b10)
    BY <2>1, TextsJoin DEF v16, v17
  <2> QED  BY <2>6, <2>7, <2>8, Zenon DEF v18, Whole, b13
<1> QED  BY <1>2, <1>21, <1>22, Zenon

-------------------------------------------------------------------------------
(* What a comment says that a flag is the same as prints what it prints.   *)
LEMMA MeaningIs ==
  ASSUME NEW c
  PROVE  /\ c = "+" => Meaning(c) = FullPattern
         /\ c = "R" => Meaning(c) = R_pattern
         /\ c = "T" \/ c = "X" => Meaning(c) = T_pattern
         /\ c = "D" \/ c = "x" => Meaning(c) = D_pattern
         /\ ~(c = "+" \/ c = "R" \/ c = "T" \/ c = "X" \/ c = "D" \/ c = "x") => Meaning(c) = Percent(c)
<1>1. c = "+" => Meaning(c) = FullPattern
  BY DEF Meaning
<1>2. c = "R" => Meaning(c) = R_pattern
  BY DEF Meaning
<1>3. c = "T" \/ c = "X" => Meaning(c) = T_pattern
  BY DEF Meaning
<1>4. c = "D" \/ c = "x" => Meaning(c) = D_pattern
  BY DEF Meaning
<1>5. ~(c = "+" \/ c = "R" \/ c = "T" \/ c = "X" \/ c = "D" \/ c = "x") => Meaning(c) = Percent(c)
  BY DEF Meaning
<1> QED  BY <1>1, <1>2, <1>3, <1>4, <1>5

LEMMA ClockFlags ==
  ASSUME NEW msg
  PROVE  /\ FlagOut("R", msg) = R_formatter(msg.tm)
         /\ FlagOut("T", msg) = T_formatter(msg.tm)
         /\ FlagOut("X", msg) = T_formatter(msg.tm)
         /\ FlagOut("D", msg) = D_formatter(msg.tm)
         /\ FlagOut("x", msg) = D_formatter(msg.tm)
<1>1. "R" \in Flags /\ "T" \in Flags /\ "X" \in Flags /\ "D" \in Flags /\ "x" \in Flags
  BY DEF Flags
<1>2. \A c \in Flags : FlagOut(c, msg) = Flag(c, msg, msg.tm)
  BY FlagOutIs
<1>3. FlagOut("R", msg) = R_formatter(msg.tm)
  BY <1>1, <1>2, Flags6, Zenon
<1>4. FlagOut("T", msg) = T_formatter(msg.tm)
  BY <1>1, <1>2, Flags6, Zenon
<1>5. FlagOut("X", msg) = T_formatter(msg.tm)
  BY <1>1, <1>2, Flags6, Zenon
<1>6. FlagOut("D", msg) = D_formatter(msg.tm)
  <2>1. Flag("D", msg, msg.tm) = D_formatter(msg.tm)
    BY Flags3
  <2> QED  BY <1>1, <1>2, <2>1, Zenon
<1>7. FlagOut("x", msg) = D_formatter(msg.tm)
  <2>1. Flag("x", msg, msg.tm) = D_formatter(msg.tm)
    BY Flags3
  <2> QED  BY <1>1, <1>2, <2>1, Zenon
<1> QED  BY <1>3, <1>4, <1>5, <1>6, <1>7, Zenon

LEMMA MeaningSays ==
  ASSUME NEW msg \in Messages, msg.name # <<>>, NEW c \in Symbols
  PROVE  Says(Meaning(c), FlagOut(c, msg), msg)
<1>1. CASE c = "+"
  <2>1. Meaning(c) = FullPattern
    BY <1>1, MeaningIs, Zenon
  <2>2. FlagOut(c, msg) = Whole(msg)
    BY <1>1, FlagOutIs, Zenon
  <2>3. Says(FullPattern, Whole(msg), msg)
    BY FullSays, Zenon
  <2> QED  BY <2>1, <2>2, <2>3, Zenon
<1>2. CASE c = "R"
  BY <1>2, MeaningIs, ClockFlags, ClocksSay, Zenon
<1>3. CASE c = "T" \/ c = "X"
  BY <1>3, MeaningIs, ClockFlags, ClocksSay, Zenon
<1>4. CASE c = "D" \/ c = "x"
  BY <1>4, MeaningIs, ClockFlags, ClocksSay, Zenon
<1>5. CASE ~(c = "+" \/ c = "R" \/ c = "T" \/ c = "X" \/ c = "D" \/ c = "x")
  <2>1. Meaning(c) = Percent(c)
    BY <1>5, MeaningIs, Zenon
  <2> QED  BY <2>1, FlagSays, Zenon
<1> QED  BY <1>1, <1>2, <1>3, <1>4, <1>5, Zenon

-------------------------------------------------------------------------------
(* Explained, from every place of the pattern on.                          *)
Piece(s, i) == IF IsFlag(s, i) THEN Meaning(s[i]) ELSE IF s[i] = "%" THEN <<>> ELSE <<s[i]>>

IsExplained(s, g) ==
  /\ g \in [1..(Len(s) + 1) -> Texts] /\ g[Len(s) + 1] = <<>>
  /\ \A i \in 1..Len(s) : g[i] = Piece(s, i) \o g[i + 1]

LEMMA MeaningIsText ==
  ASSUME NEW c \in Symbols, NEW msg \in Messages, msg.name # <<>>
  PROVE  Meaning(c) \in Texts
BY MeaningSays, Zenon DEF Says, IsWhole

Explains(s, f, i) == IF i > Len(s) THEN <<>> ELSE Piece(s, i) \o f[i + 1]

LEMMA PieceIsIn ==
  ASSUME NEW msg \in Messages, msg.name # <<>>, NEW s \in Texts, NEW i \in 1..Len(s)
  PROVE  Piece(s, i) \in Texts
<1>1. s[i] \in Symbols
  BY DEF Texts
<1>2. Meaning(s[i]) \in Texts /\ <<s[i]>> \in Texts /\ <<>> \in Texts
  BY <1>1, MeaningIsText, OneIsText, TextsJoin
<1> QED  BY <1>2, Zenon DEF Piece

LEMMA ExplainsAs ==
  ASSUME NEW s \in Texts, NEW f, NEW i \in 1..(Len(s) + 1)
  PROVE  (CASE i > Len(s) -> <<>>
            [] i <= Len(s) /\ IsFlag(s, i) -> Meaning(s[i]) \o f[i + 1]
            [] OTHER -> (IF s[i] = "%" THEN <<>> ELSE <<s[i]>>) \o f[i + 1]) = Explains(s, f, i)
<1>1. i \in Nat /\ Len(s) \in Nat
  BY DEF Texts
<1> DEFINE a == Meaning(s[i]) \o f[i + 1]
           b == (IF s[i] = "%" THEN <<>> ELSE <<s[i]>>) \o f[i + 1]
           F == IsFlag(s, i)
<1>2. ~F => Piece(s, i) \o f[i + 1] = b
  BY Zenon DEF Piece
<1>3. F => Piece(s, i) \o f[i + 1] = a
  BY Zenon DEF Piece
<1>4. i > Len(s) => Explains(s, f, i) = <<>>
  BY Zenon DEF Explains
<1>5. ~(i > Len(s)) => Explains(s, f, i) = Piece(s, i) \o f[i + 1]
  BY Zenon DEF Explains
<1> HIDE DEF a, b, F
<1>6. CASE i > Len(s)
  <2>1. (CASE i > Len(s) -> <<>> [] i <= Len(s) /\ F -> a [] OTHER -> b) = <<>>
    BY <1>1, <1>6
  <2> QED  BY <1>4, <1>6, <2>1, Zenon DEF a, b, F
<1>7. CASE ~(i > Len(s)) /\ F
  <2>1. (CASE i > Len(s) -> <<>> [] i <= Len(s) /\ F -> a [] OTHER -> b) = a
    BY <1>1, <1>7
  <2> QED  BY <1>3, <1>5, <1>7, <2>1, Zenon DEF a, b, F
<1>8. CASE ~(i > Len(s)) /\ ~F
  <2>1. (CASE i > Len(s) -> <<>> [] i <= Len(s) /\ F -> a [] OTHER -> b) = b
    BY <1>1, <1>8
  <2> QED  BY <1>2, <1>5, <1>8, <2>1, Zenon DEF a, b, F
<1> QED  BY <1>6, <1>7, <1>8, Zenon

LEMMA ExplainedExists ==
  ASSUME NEW msg \in Messages, msg.name # <<>>, NEW s \in Texts
  PROVE  \E h : IsExplained(s, h) /\ Explained(s) = h[1]
<1> DEFINE n == Len(s) + 1
           S == 1..n
           D == Texts
           E == [S -> D]
           rank == [i \in S |-> n - i]
           next == [f \in E |-> [i \in S |-> Explains(s, f, i)]]
<1>1. Len(s) \in Nat /\ n \in Nat
  BY DEF Texts
<1>2. rank \in [S -> 0..n] /\ \A i \in S : rank[i] = n - i
  BY <1>1
<1>3. ASSUME NEW i \in S, ~(i > Len(s))
      PROVE  i + 1 \in S /\ rank[i + 1] < rank[i] /\ Piece(s, i) \in D
  <2>1. i \in 1..Len(s) /\ i + 1 \in S /\ n - (i + 1) < n - i
    BY <1>1, <1>3
  <2>2. Piece(s, i) \in D
    BY <2>1, PieceIsIn
  <2> HIDE DEF D, S, rank
  <2> QED  BY <1>2, <2>1, <2>2
<1>4. <<>> \in D
  BY TextsJoin
<1>5. ASSUME NEW f \in E, NEW i \in S  PROVE Explains(s, f, i) \in D
  <2>1. CASE ~(i > Len(s))
    <3>1. f[i + 1] \in D /\ Piece(s, i) \in D
      BY <1>3, <2>1
    <3>2. Piece(s, i) \o f[i + 1] \in D
      BY <3>1, TextsJoin
    <3> QED  BY <2>1, <3>2, Zenon DEF Explains
  <2> QED  BY <1>4, <2>1, Zenon DEF Explains
<1>6. ASSUME NEW f, NEW g, NEW i \in S, \A k \in S : rank[k] < rank[i] => f[k] = g[k]
      PROVE  Explains(s, f, i) = Explains(s, g, i)
  <2>1. CASE ~(i > Len(s))
    <3>1. f[i + 1] = g[i + 1]
      <4> HIDE DEF rank, S, E
      <4> QED  BY <1>3, <1>6, <2>1
    <3> QED  BY <3>1, Zenon DEF Explains
  <2> QED  BY <2>1, Zenon DEF Explains
<1>7. Lowers(S, D, rank, next)
  <2>1. next \in [E -> E]
    <3> HIDE DEF D, S
    <3> QED  BY <1>5
  <2>2. \A f \in E, i \in S : next[f][i] = Explains(s, f, i)
    <3> HIDE DEF S, D
    <3> QED  OBVIOUS
  <2>3. ASSUME NEW f \in E, NEW g \in E, NEW i \in S, \A k \in S : rank[k] < rank[i] => f[k] = g[k]
        PROVE  next[f][i] = next[g][i]
    <3>1. Explains(s, f, i) = Explains(s, g, i)
      <4> HIDE DEF S, rank, E, next
      <4> QED  BY <1>6, <2>3, Zenon
    <3> HIDE DEF S, rank, E, next
    <3> QED  BY <2>2, <3>1, Zenon
  <2> HIDE DEF next, S, rank
  <2> QED  BY <2>1, <2>3 DEF Lowers
<1>8. PICK h \in E : h = next[h]
  <2> HIDE DEF S, D, rank, next
  <2> QED  BY <1>1, <1>2, <1>4, <1>7, RecursionDown DEF E
<1>9. h = [i \in S |-> Explains(s, h, i)]
  <2> HIDE DEF S
  <2> QED  BY <1>8
<1> DEFINE IsIt(f) == f = [i \in S |-> CASE i > Len(s) -> <<>>
                                      [] i <= Len(s) /\ IsFlag(s, i) -> Meaning(s[i]) \o f[i + 1]
                                      [] OTHER -> (IF s[i] = "%" THEN <<>> ELSE <<s[i]>>) \o f[i + 1]]
           g == CHOOSE f : IsIt(f)
<1>10. ASSUME NEW f  PROVE IsIt(f) <=> f = [i \in S |-> Explains(s, f, i)]
  <2> DEFINE e(i) == CASE i > Len(s) -> <<>>
                       [] i <= Len(s) /\ IsFlag(s, i) -> Meaning(s[i]) \o f[i + 1]
                       [] OTHER -> (IF s[i] = "%" THEN <<>> ELSE <<s[i]>>) \o f[i + 1]
  <2>1. \A i \in S : e(i) = Explains(s, f, i)
    BY ExplainsAs
  <2>2. IsIt(f) <=> f = [i \in S |-> e(i)]
    OBVIOUS
  <2> HIDE DEF e, IsIt, S
  <2>3. [i \in S |-> e(i)] = [i \in S |-> Explains(s, f, i)]
    BY <2>1
  <2> QED  BY <2>2, <2>3, Zenon
<1>11. Explained(s) = g[1]
  BY Zenon DEF Explained
<1>12. \E f : IsIt(f)
  <2> HIDE DEF IsIt, S
  <2> QED  BY <1>9, <1>10, Zenon
<1> HIDE DEF IsIt
<1>13. IsIt(g)
  BY <1>12, Zenon
<1> HIDE DEF g
<1>14. g = [i \in S |-> Explains(s, g, i)]
  BY <1>10, <1>13, Zenon
<1>15. \A i \in S : g[i] = Explains(s, g, i)
  <2> HIDE DEF S
  <2> QED  BY <1>14
<1>16. g[n] = <<>> /\ \A i \in 1..Len(s) : g[i] = Piece(s, i) \o g[i + 1]
  <2>1. n \in S /\ n > Len(s) /\ \A i \in 1..Len(s) : i \in S /\ ~(i > Len(s))
    BY <1>1
  <2> HIDE DEF S, n
  <2> QED  BY <1>15, <2>1, Zenon DEF Explains
<1> DEFINE T == {i \in Nat : g[i] \in Texts}
<1>17. ASSUME NEW i \in 1..n, \A j \in (i + 1)..n : j \in T  PROVE i \in T
  <2>1. CASE i = n
    BY <1>1, <1>4, <1>16, <2>1
  <2>2. CASE i # n
    <3>1. i \in 1..Len(s) /\ i + 1 \in (i + 1)..n
      BY <1>1, <2>2
    <3>2. g[i + 1] \in Texts /\ Piece(s, i) \in Texts
      BY <1>17, <3>1, PieceIsIn
    <3>3. Piece(s, i) \o g[i + 1] \in Texts
      BY <3>2, TextsJoin
    <3>4. g[i] = Piece(s, i) \o g[i + 1]
      BY <1>16, <3>1
    <3>5. g[i] \in Texts /\ i \in Nat
      BY <3>3, <3>4
    <3> QED  BY <3>5
  <2> QED  BY <2>1, <2>2
<1> HIDE DEF T
<1>18. \A i \in 1..n : i \in T
  <2>1. 1 \in Nat
    OBVIOUS
  <2> QED  BY <1>1, <1>17, <2>1, Backwards
<1>19. g \in [1..n -> Texts]
  <2>1. \A i \in S : g[i] \in Texts
    BY <1>18 DEF T
  <2>2. g = [i \in S |-> g[i]]
    <3> HIDE DEF S
    <3> QED  BY <1>14, <1>15
  <2> QED  BY <2>1, <2>2 DEF S
<1> QED  BY <1>11, <1>16, <1>19, Zenon DEF IsExplained

(* An explained pattern prints the same.                                   *)
LEMMA ExplainedShows ==
  ASSUME NEW msg \in Messages, msg.name # <<>>, NEW s \in Texts
  PROVE  Explained(s) \in Texts /\ Shown(Explained(s), msg) = Shown(s, msg)
<1>1. PICK g : IsExplained(s, g) /\ Explained(s) = g[1]
  BY ExplainedExists
<1>2. PICK h : IsShown(s, msg, h) /\ Shown(s, msg) = h[1]
  BY ShownExists
<1> DEFINE n == Len(s)
           T == {i \in Nat : ~IsFlag(s, i) => Says(g[i], h[i], msg)}
<1>3. s \in Seq(Symbols) /\ n \in Nat /\ Says(<<>>, <<>>, msg)
  BY NoneSays DEF Texts
<1>4. ASSUME NEW i \in 1..(n + 1), \A j \in (i + 1)..(n + 1) : j \in T  PROVE i \in T
  <2> SUFFICES ASSUME ~IsFlag(s, i)  PROVE Says(g[i], h[i], msg)
    BY <1>3
  <2>1. CASE i = n + 1
    <3>1. g[n + 1] = <<>> /\ h[n + 1] = <<>>
      BY <1>1, <1>2 DEF IsExplained, IsShown
    <3> QED  BY <1>3, <2>1, <3>1
  <2>2. CASE i # n + 1
    <3>1. i \in 1..n /\ i \in 1..Len(s) /\ i + 1 \in (i + 1)..(n + 1) /\ i + 1 \in 1..(n + 1)
      BY <1>3, <2>2
    <3>2. s[i] \in Symbols
      BY <3>1 DEF Texts
    <3>3. IsFlag(s, i + 1) <=> s[i] = "%"
      BY <1>3, <3>1, FlagIs
    <3>4. g[i] = Piece(s, i) \o g[i + 1]
      BY <1>1, <3>1 DEF IsExplained
    <3>5. CASE s[i] # "%"
      <4>1. Says(g[i + 1], h[i + 1], msg)
        BY <1>4, <3>1, <3>3, <3>5
      <4> HIDE DEF T
      <4>2. h[i] = <<s[i]>> \o h[i + 1]
        BY <1>2, <3>1, <3>5 DEF IsShown
      <4>3. Piece(s, i) = <<s[i]>>
        BY <3>5, Zenon DEF Piece
      <4>4. Says(<<s[i]>>, <<s[i]>>, msg)
        BY <3>2, <3>5, OneSays
      <4>5. Says(<<s[i]>> \o g[i + 1], <<s[i]>> \o h[i + 1], msg)
        BY <4>1, <4>4, SaysJoin, Zenon
      <4> QED  BY <3>4, <4>2, <4>3, <4>5, Zenon
    <3>6. CASE s[i] = "%"
      <4>1. g[i] = g[i + 1]
        <5>1. g[i + 1] \in Texts
          BY <1>1, <3>1 DEF IsExplained
        <5>2. Piece(s, i) = <<>>
          BY <3>6, Zenon DEF Piece
        <5> QED  BY <3>4, <5>1, <5>2, TextsJoin
      <4>2. CASE i = n
        <5>1. g[n + 1] = <<>>
          BY <1>1 DEF IsExplained
        <5>2. h[i] = <<>>
          BY <1>2, <3>1, <3>6, <4>2 DEF IsShown
        <5> QED  BY <1>3, <4>1, <4>2, <5>1, <5>2
      <4>3. CASE i # n
        <5>1. /\ i + 1 \in 1..n /\ i + 1 \in 1..Len(s) /\ i + 2 \in (i + 1)..(n + 1) /\ (i + 1) + 1 = i + 2
              /\ i # Len(s)
          BY <1>3, <3>1, <4>3
        <5>2. s[i + 1] \in Symbols /\ IsFlag(s, i + 1)
          <6>1. s[i + 1] \in Symbols
            BY <5>1 DEF Texts
          <6> QED  BY <3>3, <3>6, <6>1
        <5>3. ~IsFlag(s, i + 2)
          <6>1. IsFlag(s, (i + 1) + 1) <=> s[i + 1] = "%" /\ ~IsFlag(s, i + 1)
            BY <1>3, <5>1, FlagIs
          <6> QED  BY <5>1, <5>2, <6>1
        <5>4. Says(g[i + 2], h[i + 2], msg)
          BY <1>4, <5>1, <5>3
        <5> HIDE DEF T
        <5> DEFINE c == s[i + 1]
        <5>5. h[i] = FlagOut(c, msg) \o h[i + 2]
          BY <1>2, <3>1, <3>6, <5>1 DEF IsShown
        <5>6. g[i + 1] = Piece(s, i + 1) \o g[(i + 1) + 1]
          BY <1>1, <5>1 DEF IsExplained
        <5>7. Piece(s, i + 1) = Meaning(c)
          BY <5>2, Zenon DEF Piece
        <5>8. Says(Meaning(c), FlagOut(c, msg), msg)
          BY <5>2, MeaningSays
        <5>9. Says(Meaning(c) \o g[i + 2], FlagOut(c, msg) \o h[i + 2], msg)
          BY <5>4, <5>8, SaysJoin, Zenon
        <5>10. g[i] = Meaning(c) \o g[i + 2]
          BY <4>1, <5>1, <5>6, <5>7
        <5> QED  BY <5>5, <5>9, <5>10, Zenon
      <4> QED  BY <4>2, <4>3
    <3> QED  BY <3>5, <3>6
  <2> QED  BY <2>1, <2>2
<1> HIDE DEF T
<1>5. \A i \in 1..(n + 1) : i \in T
  <2>1. 1 \in Nat /\ n + 1 \in Nat
    BY <1>3
  <2> QED  BY <1>4, <2>1, Backwards
<1>6. Says(g[1], h[1], msg)
  <2>1. 1 \in 1..(n + 1)
    BY <1>3
  <2> QED  BY <1>5, <2>1, FirstIsNoFlag DEF T
<1> QED  BY <1>1, <1>2, <1>6, Zenon DEF Says, IsWhole

-------------------------------------------------------------------------------
(* A pattern of one flag shows what the flag does, and a number as it is.  *)
NumberFlags == {"m", "d", "H", "I", "M", "S", "e", "f", "F"}

LEMMA OneFlagShown ==
  ASSUME NEW msg \in Messages, NEW s \in Texts, Len(s) = 2, s[1] = "%"
  PROVE  Shown(s, msg) = FlagOut(s[2], msg)
<1>1. s[2] \in Symbols
  BY DEF Texts
<1>2. s = Percent(s[2])
  BY DEF Texts, Percent
<1> QED  BY <1>1, <1>2, FlagSays, Zenon DEF Says

LEMMA ShortNumberIs ==
  ASSUME NEW msg
  PROVE  /\ Number("m", msg) = <<msg.tm.mon + 1, 2>> /\ Number("d", msg) = <<msg.tm.mday, 2>>
         /\ Number("H", msg) = <<msg.tm.hour, 2>> /\ Number("M", msg) = <<msg.tm.min, 2>>
         /\ Number("S", msg) = <<msg.tm.sec, 2>>
<1>1. Number("m", msg) = <<msg.tm.mon + 1, 2>>
  BY DEF Number
<1>2. Number("d", msg) = <<msg.tm.mday, 2>>
  BY DEF Number
<1>3. Number("H", msg) = <<msg.tm.hour, 2>>
  BY DEF Number
<1>4. Number("M", msg) = <<msg.tm.min, 2>>
  BY DEF Number
<1>5. Number("S", msg) = <<msg.tm.sec, 2>>
  BY DEF Number
<1> QED  BY <1>1, <1>2, <1>3, <1>4, <1>5

LEMMA ReadsBack ==
  ASSUME NEW n, NEW w, NEW t, IsWritten(n, w, t)
  PROVE  <<Numeral(t, 10), Len(t)>> = <<n, w>>
BY DEF IsWritten

LEMMA NumbersShown ==
  ASSUME NEW msg \in Messages, NEW c \in NumberFlags
  PROVE  <<Numeral(FlagOut(c, msg), 10), Len(FlagOut(c, msg))>> = Number(c, msg)
<1> DEFINE tm == msg.tm
<1>1. /\ tm.mon + 1 \in Nat /\ tm.mday \in Nat /\ tm.hour \in Nat /\ tm.min \in Nat /\ tm.sec \in Nat
      /\ tm.mon + 1 < 100 /\ tm.mday < 100 /\ tm.hour < 100 /\ tm.min < 100 /\ tm.sec < 100
  <2>1. tm \in CalendarTimes
    BY MessageHas
  <2> HIDE DEF tm
  <2>2. tm.mon \in 0..11 /\ tm.mday \in 1..31 /\ tm.hour \in 0..23 /\ tm.min \in 0..59 /\ tm.sec \in 0..60
    BY <2>1, TimeHas
  <2> QED  BY <2>2
<1>2. \A f \in NumberFlags : FlagOut(f, msg) = Flag(f, msg, msg.tm)
  <2>1. \A f \in NumberFlags : f \in Flags
    BY DEF NumberFlags, Flags
  <2> QED  BY <2>1, FlagOutIs
<1> DEFINE Back(f) == <<Numeral(FlagOut(f, msg), 10), Len(FlagOut(f, msg))>> = Number(f, msg)
<1>3. Back("m")
  <2>1. "m" \in NumberFlags
    BY DEF NumberFlags
  <2>2. Flag("m", msg, msg.tm) = pad2(msg.tm.mon + 1)
    BY Flags4
  <2> DEFINE t == pad2(msg.tm.mon + 1)
             n == msg.tm.mon + 1
  <2>3. FlagOut("m", msg) = t
    BY <1>2, <2>1, <2>2, Zenon
  <2>4. IsWritten(n, 2, t)
    BY <1>1, Pad2Is
  <2>5. Number("m", msg) = <<n, 2>>
    BY ShortNumberIs, Zenon
  <2> HIDE DEF t, n
  <2>6. <<Numeral(t, 10), Len(t)>> = <<n, 2>>
    BY <2>4, ReadsBack
  <2> QED  BY <2>3, <2>5, <2>6, Zenon
<1>4. Back("d")
  <2>1. "d" \in NumberFlags
    BY DEF NumberFlags
  <2>2. Flag("d", msg, msg.tm) = pad2(msg.tm.mday)
    BY Flags4
  <2> DEFINE t == pad2(msg.tm.mday)
             n == msg.tm.mday
  <2>3. FlagOut("d", msg) = t
    BY <1>2, <2>1, <2>2, Zenon
  <2>4. IsWritten(n, 2, t)
    BY <1>1, Pad2Is
  <2>5. Number("d", msg) = <<n, 2>>
    BY ShortNumberIs, Zenon
  <2> HIDE DEF t, n
  <2>6. <<Numeral(t, 10), Len(t)>> = <<n, 2>>
    BY <2>4, ReadsBack
  <2> QED  BY <2>3, <2>5, <2>6, Zenon
<1>5. Back("H")
  <2>1. "H" \in NumberFlags
    BY DEF NumberFlags
  <2>2. Flag("H", msg, msg.tm) = pad2(msg.tm.hour)
    BY Flags4
  <2> DEFINE t == pad2(msg.tm.hour)
             n == msg.tm.hour
  <2>3. FlagOut("H", msg) = t
    BY <1>2, <2>1, <2>2, Zenon
  <2>4. IsWritten(n, 2, t)
    BY <1>1, Pad2Is
  <2>5. Number("H", msg) = <<n, 2>>
    BY ShortNumberIs, Zenon
  <2> HIDE DEF t, n
  <2>6. <<Numeral(t, 10), Len(t)>> = <<n, 2>>
    BY <2>4, ReadsBack
  <2> QED  BY <2>3, <2>5, <2>6, Zenon
<1>6. Back("M")
  <2>1. "M" \in NumberFlags
    BY DEF NumberFlags
  <2>2. Flag("M", msg, msg.tm) = pad2(msg.tm.min)
    BY Flags4
  <2> DEFINE t == pad2(msg.tm.min)
             n == msg.tm.min
  <2>3. FlagOut("M", msg) = t
    BY <1>2, <2>1, <2>2, Zenon
  <2>4. IsWritten(n, 2, t)
    BY <1>1, Pad2Is
  <2>5. Number("M", msg) = <<n, 2>>
    BY ShortNumberIs, Zenon
  <2> HIDE DEF t, n
  <2>6. <<Numeral(t, 10), Len(t)>> = <<n, 2>>
    BY <2>4, ReadsBack
  <2> QED  BY <2>3, <2>5, <2>6, Zenon
<1>7. Back("S")
  <2>1. "S" \in NumberFlags
    BY DEF NumberFlags
  <2>2. Flag("S", msg, msg.tm) = pad2(msg.tm.sec)
    BY Flags5
  <2> DEFINE t == pad2(msg.tm.sec)
             n == msg.tm.sec
  <2>3. FlagOut("S", msg) = t
    BY <1>2, <2>1, <2>2, Zenon
  <2>4. IsWritten(n, 2, t)
    BY <1>1, Pad2Is
  <2>5. Number("S", msg) = <<n, 2>>
    BY ShortNumberIs, Zenon
  <2> HIDE DEF t, n
  <2>6. <<Numeral(t, 10), Len(t)>> = <<n, 2>>
    BY <2>4, ReadsBack
  <2> QED  BY <2>3, <2>5, <2>6, Zenon
<1>8. Back("e")
  <2>1. "e" \in NumberFlags
    BY DEF NumberFlags
  <2>2. Flag("e", msg, msg.tm) = pad3(millis(msg))
    BY Flags5
  <2> DEFINE t == pad3(millis(msg))
             n == millis(msg)
  <2>3. FlagOut("e", msg) = t
    BY <1>2, <2>1, <2>2, Zenon
  <2>4. IsWritten(n, 3, t)
    BY FractionsOfMessage, Pad3Is, SMT
  <2>5. Number("e", msg) = <<n, 3>>
    BY SMT DEF Number, millis
  <2> HIDE DEF t, n
  <2>6. <<Numeral(t, 10), Len(t)>> = <<n, 3>>
    BY <2>4, ReadsBack
  <2> QED  BY <2>3, <2>5, <2>6, Zenon
<1>9. Back("f")
  <2>1. "f" \in NumberFlags
    BY DEF NumberFlags
  <2>2. Flag("f", msg, msg.tm) = pad6(micros(msg))
    BY Flags5
  <2> DEFINE t == pad6(micros(msg))
             n == micros(msg)
  <2>3. FlagOut("f", msg) = t
    BY <1>2, <2>1, <2>2, Zenon
  <2>4. IsWritten(n, 6, t)
    BY FractionsOfMessage, Pad6Is, SMT
  <2>5. Number("f", msg) = <<n, 6>>
    BY SMT DEF Number, micros
  <2> HIDE DEF t, n
  <2>6. <<Numeral(t, 10), Len(t)>> = <<n, 6>>
    BY <2>4, ReadsBack
  <2> QED  BY <2>3, <2>5, <2>6, Zenon
<1>10. Back("F")
  <2>1. "F" \in NumberFlags
    BY DEF NumberFlags
  <2>2. Flag("F", msg, msg.tm) = F_formatter(msg)
    BY Flags5
  <2> DEFINE t == F_formatter(msg)
             n == msg.nanos
  <2>3. FlagOut("F", msg) = t
    BY <1>2, <2>1, <2>2, Zenon
  <2>4. IsWritten(n, 9, t)
    BY FIs
  <2>5. Number("F", msg) = <<n, 9>>
    BY SMT DEF Number
  <2> HIDE DEF t, n
  <2>6. <<Numeral(t, 10), Len(t)>> = <<n, 9>>
    BY <2>4, ReadsBack
  <2> QED  BY <2>3, <2>5, <2>6, Zenon
<1>11. Back("I")
  <2>1. "I" \in NumberFlags
    BY DEF NumberFlags
  <2>2. Flag("I", msg, msg.tm) = pad2(to12h(msg.tm))
    BY Flags4
  <2> DEFINE h == msg.tm.hour
             n == to12h(msg.tm)
             t == pad2(n)
             shown == IF h = 0 THEN 0 ELSE ((h - 1) % 12) + 1
  <2>3. FlagOut("I", msg) = t
    BY <1>2, <2>1, <2>2, Zenon
  <2>4. n = IF h > 12 THEN h - 12 ELSE h
    BY DEF to12h
  <2>5. Number("I", msg) = <<shown, 2>>
    BY DEF Number
  <2>6. h \in 0..23
    <3>1. tm \in CalendarTimes
      BY MessageHas
    <3> HIDE DEF tm
    <3>2. tm.hour \in 0..23
      BY <3>1, TimeHas
    <3> QED  BY <3>2 DEF tm
  <2> HIDE DEF h, n
  <2>7. shown = n /\ n \in Nat /\ n < 100
    BY <2>4, <2>6, SMT
  <2> HIDE DEF shown
  <2>8. IsWritten(n, 2, t)
    BY <2>7, Pad2Is
  <2> HIDE DEF t
  <2>9. <<Numeral(t, 10), Len(t)>> = <<n, 2>>
    BY <2>8, ReadsBack
  <2> QED  BY <2>3, <2>5, <2>7, <2>9, Zenon
<1> HIDE DEF Back
<1>12. Back(c)
  BY <1>3, <1>4, <1>5, <1>6, <1>7, <1>8, <1>9, <1>10, <1>11, Zenon DEF NumberFlags
<1> QED  BY <1>12 DEF Back

LEMMA FlagsShow ==
  ASSUME text \in Seq(STRING)
  PROVE  FlagsAreAsCommented
<1>1. text \in Texts
  BY StringsAreSymbols DEF Texts
<1>2. ASSUME NEW msg \in Messages, msg.name # <<>>
      PROVE  LineAfter(text, <<msg>>).dest = LineAfter(Explained(text), <<msg>>).dest
  <2>1. Explained(text) \in Texts /\ Shown(Explained(text), msg) = Shown(text, msg)
    BY <1>1, <1>2, ExplainedShows
  <2>2. LineAfter(text, <<msg>>).dest = Shown(text, msg)
    BY <1>1, LineOfOne
  <2>3. LineAfter(Explained(text), <<msg>>).dest = Shown(Explained(text), msg)
    BY <2>1, LineOfOne
  <2> QED  BY <2>1, <2>2, <2>3
<1>3. ASSUME NEW msg \in Messages, Len(text) = 2, text[1] = "%", text[2] \in NumberFlags
      PROVE  <<Numeral(LineAfter(text, <<msg>>).dest, 10), Len(LineAfter(text, <<msg>>).dest)>>
               = Number(text[2], msg)
  <2>1. LineAfter(text, <<msg>>).dest = Shown(text, msg)
    BY <1>1, LineOfOne
  <2>2. Shown(text, msg) = FlagOut(text[2], msg)
    BY <1>1, <1>3, OneFlagShown
  <2>3. <<Numeral(FlagOut(text[2], msg), 10), Len(FlagOut(text[2], msg))>> = Number(text[2], msg)
    BY <1>3, NumbersShown
  <2> QED  BY <2>1, <2>2, <2>3, Zenon
<1> QED  BY <1>2, <1>3, Zenon DEF FlagsAreAsCommented, NumberFlags

-------------------------------------------------------------------------------
(***************************************************************************)
(* A line shows the message it is for, and what its pattern means: for     *)
(* every pattern, any messages, and any number of them before.             *)
(***************************************************************************)
THEOREM PatternsFollowed == Spec => []PatternIsFollowed
<1>1. TextsAreStrings => PatternIsFollowed
  BY LinesFollow, PatternsJoin, FlagsShow DEF PatternIsFollowed, TextsAreStrings
<1> QED  BY <1>1, StringsStay, PTL
===============================================================================
