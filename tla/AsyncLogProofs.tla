---------------------------- MODULE AsyncLogProofs ----------------------------
(***************************************************************************)
(* Proofs about the log, for every capacity of the queue, for any threads, *)
(* policies and number of workers, and for any sizes and number of files.  *)
(*                                                                         *)
(* The first part is about the sink: what its files hold, their sizes and  *)
(* their order.  The second is arithmetic: what the slots of the ring hold *)
(* before and after an insertion or a removal, wherever the ring wraps; so *)
(* the ring is a queue.  The third is about the end of the pool: when its  *)
(* workers have been joined, all that was posted has been taken.  The last *)
(* follows every message from its post into the files, for one worker.     *)
(***************************************************************************)
EXTENDS AsyncLog, SequenceLemmas

(* The sizes of the messages add up.                                       *)
Sized == [type : {"log"}, size : Nat, id : Int]

LEMMA SizeSteps ==
  ASSUME NEW s \in Seq(Sized)
  PROVE  \E total \in [0..Len(s) -> Nat] :
            /\ total[0] = 0 /\ SizeOf(s) = total[Len(s)]
            /\ \A i \in 1..Len(s) : total[i] = total[i - 1] + s[i].size
<1> DEFINE n == Len(s)
           g == [p \in Nat \X (1..n) |-> p[1] + s[p[2]].size]
           Is(f) == f = [t \in SUBSET DOMAIN s |->
                           IF t = {} THEN 0 ELSE f[t \ {Max(t)}] + s[Max(t)].size]
           iter == CHOOSE f : Is(f)
<1>1. n \in Nat /\ DOMAIN s = 1..n /\ \A i \in 1..n : s[i].size \in Nat
  <2>1. n \in Nat /\ DOMAIN s = 1..n /\ \A i \in 1..n : s[i] \in Sized
    OBVIOUS
  <2> QED  BY <2>1 DEF Sized
<1>2. g \in [Nat \X (1..n) -> Nat]
  BY <1>1
<1>3. SizeOf(s) = iter[1..n]
  BY <1>1 DEF SizeOf, FoldLeft, MapThenFoldSet
<1>4. PICK f \in [SUBSET (1..n) -> Nat] : Folds(n, 0, g, f)
  <2> HIDE DEF n, g
  <2> QED  BY <1>1, <1>2, FoldExists DEF HasFold
<1>5. Is(f)
  <2>1. ASSUME NEW t \in SUBSET (1..n), t # {}
        PROVE  g[<<f[t \ {Max(t)}], Max(t)>>] = f[t \ {Max(t)}] + s[Max(t)].size
    <3>1. Max(t) \in 1..n
      BY <1>1, <2>1, MaxIs
    <3> QED  BY <3>1
  <2> HIDE DEF n, g
  <2>2. f = [t \in SUBSET (1..n) |-> IF t = {} THEN 0 ELSE f[t \ {Max(t)}] + s[Max(t)].size]
    BY <1>4, <2>1 DEF Folds
  <2> QED  BY <1>1, <2>2
<1>6. Is(iter)
  <2> HIDE DEF Is
  <2> QED  BY <1>5
<1> HIDE DEF iter
<1> DEFINE total == [i \in 0..n |-> iter[1..i]]
<1>7. iter[{}] = 0
  BY <1>6
<1>8. ASSUME NEW i \in 1..n  PROVE iter[1..i] = iter[1..(i - 1)] + s[i].size
  <2>1. 1..i \in SUBSET (1..n) /\ i \in 1..i /\ 1..i # {} /\ (1..i) \ {i} = 1..(i - 1)
    BY <1>1
  <2>2. Max(1..i) \in 1..i /\ \A m \in 1..i : Max(1..i) >= m
    BY ONLY <1>1, <2>1, MaxIs
  <2>3. Max(1..i) = i
    BY <1>1, <2>1, <2>2
  <2> QED  BY <1>1, <1>6, <2>1, <2>3
<1> HIDE DEF Is, n, g
<1>9. ASSUME NEW k \in Nat  PROVE k <= n => iter[1..k] \in Nat
  <2> DEFINE T == {i \in Nat : i <= n => iter[1..i] \in Nat}
  <2>1. 0 \in T
    BY <1>7
  <2>2. ASSUME NEW i \in Nat, i \in T  PROVE i + 1 \in T
    <3> SUFFICES ASSUME i + 1 <= n  PROVE iter[1..(i + 1)] \in Nat
      OBVIOUS
    <3>1. i + 1 \in 1..n /\ (i + 1) - 1 = i /\ i <= n
      BY <1>1
    <3>2. iter[1..(i + 1)] = iter[1..i] + s[i + 1].size
      BY <1>8, <3>1
    <3> QED  BY <1>1, <2>2, <3>1, <3>2
  <2> HIDE DEF T
  <2>3. k \in T
    BY <2>1, <2>2, Induction
  <2> QED  BY <2>3 DEF T
<1>10. total \in [0..n -> Nat] /\ total[0] = 0 /\ total[n] = SizeOf(s)
  BY <1>1, <1>3, <1>7, <1>9
<1>11. \A i \in 1..n : total[i] = total[i - 1] + s[i].size
  BY <1>1, <1>8
<1> HIDE DEF total
<1> QED  BY <1>10, <1>11 DEF n

(* Of two sequences of which one begins with the other.                    *)
LEMMA SizeOfPrefix ==
  ASSUME NEW s \in Seq(Sized), NEW t \in Seq(Sized), Len(s) <= Len(t),
         \A i \in 1..Len(s) : s[i] = t[i]
  PROVE  /\ SizeOf(s) \in Nat /\ SizeOf(t) \in Nat /\ SizeOf(s) <= SizeOf(t)
         /\ Len(t) = Len(s) + 1 => SizeOf(t) = SizeOf(s) + t[Len(t)].size
         /\ Len(s) = 0 => SizeOf(s) = 0
<1>1. PICK a \in [0..Len(s) -> Nat] :
         /\ a[0] = 0 /\ SizeOf(s) = a[Len(s)]
         /\ \A i \in 1..Len(s) : a[i] = a[i - 1] + s[i].size
  BY SizeSteps
<1>2. PICK b \in [0..Len(t) -> Nat] :
         /\ b[0] = 0 /\ SizeOf(t) = b[Len(t)]
         /\ \A i \in 1..Len(t) : b[i] = b[i - 1] + t[i].size
  BY SizeSteps
<1>3. Len(s) \in Nat /\ Len(t) \in Nat
  OBVIOUS
<1>4. ASSUME NEW i \in 1..Len(t)  PROVE t[i].size \in Nat
  <2>1. t[i] \in Sized
    OBVIOUS
  <2> QED  BY <2>1 DEF Sized
<1> DEFINE m == Len(s)
           n == Len(t)
           T == {i \in Nat : i <= n => IF i <= m THEN a[i] = b[i] ELSE a[m] <= b[i]}
<1>5. 0 \in T
  BY <1>1, <1>2, <1>3
<1>6. ASSUME NEW i \in Nat, i \in T  PROVE i + 1 \in T
  <2> SUFFICES ASSUME i + 1 <= n
               PROVE  IF i + 1 <= m THEN a[i + 1] = b[i + 1] ELSE a[m] <= b[i + 1]
    OBVIOUS
  <2>1. i + 1 \in 1..n /\ i \in 0..n /\ i <= n /\ (i + 1) - 1 = i
    BY <1>3
  <2>2. b[i + 1] = b[i] + t[i + 1].size /\ t[i + 1].size \in Nat /\ b[i] \in Nat
    BY <1>2, <1>4, <2>1
  <2>3. CASE i + 1 <= m
    <3>1. i + 1 \in 1..m /\ i <= m
      BY <1>3, <2>3
    <3>2. a[i + 1] = a[i] + s[i + 1].size /\ s[i + 1] = t[i + 1] /\ a[i] = b[i]
      BY <1>1, <1>6, <2>1, <3>1
    <3> QED  BY <2>2, <2>3, <3>2
  <2>4. CASE ~ (i + 1 <= m)
    <3>1. a[m] <= b[i] /\ a[m] \in Nat
      <4>1. CASE i <= m
        <5>1. i = m /\ a[i] = b[i] /\ m \in 0..m
          BY <1>3, <1>6, <2>1, <2>4, <4>1
        <5> QED  BY <2>2, <5>1
      <4>2. CASE ~ (i <= m)
        BY <1>3, <1>6, <2>1, <4>2
      <4> QED  BY <4>1, <4>2
    <3> QED  BY <2>2, <2>4, <3>1
  <2> QED  BY <2>3, <2>4
<1> HIDE DEF T, m, n
<1>7. m \in T /\ n \in T
  BY <1>3, <1>5, <1>6, Induction DEF m, n
<1>8. a[m] = b[m] /\ a[m] <= b[n] /\ a[m] \in Nat /\ b[n] \in Nat
  <2>1. m \in 0..m /\ n \in 0..n /\ m <= n /\ m \in Nat /\ n \in Nat
    BY <1>3 DEF m, n
  <2>2. a[m] = b[m] /\ (IF n <= m THEN a[n] = b[n] ELSE a[m] <= b[n])
    BY <1>7, <2>1 DEF T
  <2>3. a[m] \in Nat /\ b[n] \in Nat
    BY <2>1 DEF m, n
  <2>4. CASE n <= m
    <3>1. n = m
      BY <2>1, <2>4
    <3> QED  BY <2>2, <2>3, <3>1
  <2> QED  BY <2>2, <2>3, <2>4
<1>9. ASSUME n = m + 1  PROVE b[n] = b[m] + t[n].size
  <2>1. n \in 1..n /\ n - 1 = m
    BY <1>3, <1>9 DEF m, n
  <2> QED  BY <1>2, <2>1 DEF n
<1> QED  BY <1>1, <1>2, <1>8, <1>9 DEF m, n

LEMMA SizeOfIs ==
  ASSUME NEW s \in Seq(Sized), NEW m \in Sized
  PROVE  /\ SizeOf(<<>>) = 0 /\ SizeOf(s) \in Nat
         /\ SizeOf(Append(s, m)) = SizeOf(s) + m.size
         /\ SizeOf(<<m>>) = m.size
<1>1. <<>> \in Seq(Sized) /\ <<m>> \in Seq(Sized) /\ Append(s, m) \in Seq(Sized)
  OBVIOUS
<1>2. /\ Len(<<>>) = 0 /\ Len(<<m>>) = 1 /\ <<m>>[1] = m
      /\ Len(Append(s, m)) = Len(s) + 1 /\ Append(s, m)[Len(s) + 1] = m
      /\ Len(s) \in Nat /\ \A i \in 1..Len(s) : Append(s, m)[i] = s[i]
  OBVIOUS
<1>3. SizeOf(<<>>) = 0 /\ SizeOf(<<m>>) = SizeOf(<<>>) + m.size
  <2> DEFINE e == <<>>
             o == <<m>>
  <2>1. e \in Seq(Sized) /\ o \in Seq(Sized) /\ Len(e) <= Len(o) /\ Len(o) = Len(e) + 1 /\ Len(e) = 0
        /\ \A i \in 1..Len(e) : e[i] = o[i]
    BY <1>1, <1>2
  <2>2. o[Len(o)] = m
    BY <1>2
  <2> HIDE DEF e, o
  <2>3. SizeOf(e) = 0 /\ SizeOf(o) = SizeOf(e) + m.size
    BY <2>1, <2>2, SizeOfPrefix
  <2> QED  BY <2>3 DEF e, o
<1>4. SizeOf(s) \in Nat /\ SizeOf(Append(s, m)) = SizeOf(s) + m.size
  <2> DEFINE p == Append(s, m)
  <2>1. p \in Seq(Sized) /\ Len(s) <= Len(p) /\ Len(p) = Len(s) + 1 /\ p[Len(p)] = m
        /\ \A i \in 1..Len(s) : s[i] = p[i]
    BY <1>1, <1>2
  <2> HIDE DEF p
  <2>2. SizeOf(s) \in Nat /\ SizeOf(p) = SizeOf(s) + m.size
    BY <2>1, SizeOfPrefix
  <2> QED  BY <2>2 DEF p
<1>5. m.size \in Nat
  BY DEF Sized
<1> QED  BY <1>3, <1>4, <1>5

-----------------------------------------------------------------------------
(* The files, and what RotationIsSafe needs.                               *)
Files == UNION {[D -> Seq(Message)] : D \in SUBSET (0..max_files_)}

SinkInv ==
  /\ file \in Files
  /\ unflushed \in Nat /\ fd_ \in BOOLEAN /\ current_size_ \in Nat /\ faults \in Nat
  /\ RotationIsSafe

LEMMA MessagesAreSized == Message \subseteq Sized /\ Seq(Message) \subseteq Seq(Sized)
<1>1. Message \subseteq Sized
  BY SinkAssumption, PoolAssumption DEF Message, Sized
<1> QED  BY <1>1

LEMMA NoSize == SizeOf(<<>>) = 0
<1> DEFINE m == [type |-> "log", size |-> 0, id |-> 0]
<1>1. m \in Sized /\ <<>> \in Seq(Sized)
  BY DEF Sized
<1> HIDE DEF m
<1> QED  BY <1>1, SizeOfIs

LEMMA FilesAre ==
  ASSUME NEW f \in Files
  PROVE  DOMAIN f \subseteq 0..max_files_ /\ f \in [DOMAIN f -> Seq(Message)]
         /\ \A i \in DOMAIN f : f[i] \in Seq(Message) /\ SizeOf(f[i]) \in Nat
<1>1. DOMAIN f \subseteq 0..max_files_ /\ f \in [DOMAIN f -> Seq(Message)]
  BY DEF Files
<1>2. \A i \in DOMAIN f : f[i] \in Seq(Message)
  BY <1>1
<1>3. \A s \in Seq(Message) : SizeOf(s) \in Nat
  <2> TAKE s \in Seq(Message)
  <2>1. s \in Seq(Sized)
    BY MessagesAreSized
  <2> DEFINE m == [type |-> "log", size |-> 0, id |-> 0]
  <2>2. m \in Sized
    BY DEF Sized
  <2> HIDE DEF m
  <2> QED  BY <2>1, <2>2, SizeOfIs
<1> QED  BY <1>1, <1>2, <1>3

LEMMA AreFiles ==
  ASSUME NEW f, NEW D \in SUBSET (0..max_files_), f \in [D -> Seq(Message)]
  PROVE  f \in Files /\ DOMAIN f = D
BY DEF Files

(* Where rotate_ has got the file with the number i from.                  *)
OldIndex(f, k, i) == IF i > k /\ i - 1 \in DOMAIN f THEN i - 1 ELSE i

LEMMA MovedIs ==
  ASSUME NEW f \in Files, NEW k \in 0..max_files_
  PROVE  /\ Moved(f, k) \in Files
         /\ \A i \in DOMAIN Moved(f, k) : OldIndex(f, k, i) \in DOMAIN f /\ Moved(f, k)[i] = f[OldIndex(f, k, i)]
         /\ \A i, j \in DOMAIN Moved(f, k) : i < j => OldIndex(f, k, i) < OldIndex(f, k, j)
<1> DEFINE targets == {i \in (k + 1)..max_files_ : i - 1 \in DOMAIN f}
           last == {i \in DOMAIN f : i = max_files_ /\ (i > k \/ i = 0)}
           D == {j \in DOMAIN f : j < k} \cup targets \cup last
<1>1. DOMAIN f \subseteq 0..max_files_ /\ \A i \in DOMAIN f : f[i] \in Seq(Message)
  BY FilesAre
<1>2. max_files_ \in Nat /\ k \in Int
  BY SinkAssumption
<1>3. Moved(f, k) = [i \in D |-> IF i \in targets THEN f[i - 1] ELSE f[i]]
  BY DEF Moved
<1>4. D \in SUBSET (0..max_files_)
  BY <1>1, <1>2
<1>5. ASSUME NEW i \in D
      PROVE  /\ OldIndex(f, k, i) \in DOMAIN f
             /\ OldIndex(f, k, i) = IF i \in targets THEN i - 1 ELSE i
  <2>1. i \in Int /\ i \in 0..max_files_
    BY <1>2, <1>4
  <2>2. CASE i \in targets
    BY <1>2, <2>1, <2>2 DEF OldIndex
  <2>3. CASE i \notin targets
    <3>1. i \in DOMAIN f /\ ~ (i > k /\ i - 1 \in DOMAIN f)
      BY <1>2, <2>1, <2>3
    <3> QED  BY <2>3, <3>1 DEF OldIndex
  <2> QED  BY <2>2, <2>3
<1>6. Moved(f, k) \in Files /\ DOMAIN Moved(f, k) = D
  <2>1. \A i \in D : Moved(f, k)[i] \in Seq(Message)
    BY <1>1, <1>3, <1>5
  <2>2. Moved(f, k) \in [D -> Seq(Message)]
    BY <1>3, <2>1
  <2> HIDE DEF D
  <2> QED  BY <1>4, <2>2, AreFiles
<1>7. \A i \in D : Moved(f, k)[i] = f[OldIndex(f, k, i)]
  BY <1>3, <1>5
<1>8. ASSUME NEW i \in D, NEW j \in D, i < j  PROVE OldIndex(f, k, i) < OldIndex(f, k, j)
  <2>1. i \in 0..max_files_ /\ j \in 0..max_files_ /\ i \in Int /\ j \in Int
    BY <1>2, <1>4
  <2>2. CASE i \in targets \/ j \notin targets
    BY <1>5, <1>8, <2>1, <2>2
  <2>3. CASE i \notin targets /\ j \in targets
    <3>1. i < k /\ j > k
      BY <1>2, <1>8, <2>1, <2>3
    <3> QED  BY <1>2, <1>5, <2>1, <2>3, <3>1
  <2> QED  BY <2>2, <2>3
<1> HIDE DEF D
<1> QED  BY <1>5, <1>6, <1>7, <1>8

(* The files with another file 0.                                          *)
LEMMA WithFirstIs ==
  ASSUME NEW f \in Files, NEW s \in Seq(Message)
  PROVE  /\ WithFirst(f, s) \in Files
         /\ DOMAIN WithFirst(f, s) = DOMAIN f \cup {0}
         /\ WithFirst(f, s)[0] = s
         /\ \A i \in DOMAIN f \ {0} : WithFirst(f, s)[i] = f[i]
         /\ FilesAreBounded(f) /\ (SizeOf(s) <= max_size_ \/ Len(s) = 1) => FilesAreBounded(WithFirst(f, s))
<1> DEFINE D == DOMAIN f \cup {0}
<1>1. DOMAIN f \subseteq 0..max_files_ /\ \A i \in DOMAIN f : f[i] \in Seq(Message)
  BY FilesAre
<1>2. D \in SUBSET (0..max_files_)
  BY <1>1, SinkAssumption
<1>3. WithFirst(f, s) \in [D -> Seq(Message)]
  BY <1>1 DEF WithFirst
<1>4. WithFirst(f, s) \in Files /\ DOMAIN WithFirst(f, s) = D
  BY <1>2, <1>3, AreFiles
<1>5. WithFirst(f, s)[0] = s /\ \A i \in DOMAIN f \ {0} : WithFirst(f, s)[i] = f[i]
  BY DEF WithFirst
<1>6. ASSUME FilesAreBounded(f), SizeOf(s) <= max_size_ \/ Len(s) = 1
      PROVE  FilesAreBounded(WithFirst(f, s))
  BY <1>4, <1>5, <1>6 DEF FilesAreBounded
<1> QED  BY <1>4, <1>5, <1>6

LEMMA MovedIsBounded ==
  ASSUME NEW f \in Files, FilesAreBounded(f), NEW k \in 0..max_files_
  PROVE  FilesAreBounded(Moved(f, k))
BY MovedIs DEF FilesAreBounded

-----------------------------------------------------------------------------
LEMMA WriteKeepsSink ==
  ASSUME SinkInv, NEW m \in Message, Write(m)
  PROVE  SinkInv'
<1>1. m.size \in Nat /\ m \in Sized /\ max_size_ \in Nat /\ max_files_ \in Nat
  BY MessagesAreSized, SinkAssumption DEF Sized
<1>2. <<m>> \in Seq(Message) /\ Len(<<m>>) = 1
  OBVIOUS
<1>3. \A s \in Seq(Message) : /\ Append(s, m) \in Seq(Message)
                              /\ SizeOf(s) \in Nat /\ SizeOf(Append(s, m)) = SizeOf(s) + m.size
                              /\ SizeOf(<<m>>) = m.size
  BY <1>1, MessagesAreSized, SizeOfIs
<1>4. CASE Fits(m.size)
  <2>1. /\ current_size_' = current_size_ + m.size /\ unflushed' = unflushed + 1
        /\ file' = [file EXCEPT ![0] = Append(@, m)] /\ fd_' = fd_ /\ faults' = faults
    BY <1>4 DEF Write
  <2>2. fd_ /\ 0 \in DOMAIN file /\ SizeOf(file[0]) <= current_size_
        /\ current_size_ + m.size <= max_size_
    BY <1>1, <1>4 DEF SinkInv, RotationIsSafe, NeverWritesToNull, Fits, Message
  <2>3. file[0] \in Seq(Message)
    BY <2>2, FilesAre DEF SinkInv
  <2>4. /\ file' = WithFirst(file, Append(file[0], m))
        /\ SizeOf(Append(file[0], m)) = SizeOf(file[0]) + m.size /\ SizeOf(file[0]) \in Nat
    BY <1>3, <2>1, <2>2, <2>3 DEF WithFirst
  <2>5. SizeOf(Append(file[0], m)) <= max_size_ /\ current_size_ \in Nat
        /\ SizeOf(Append(file[0], m)) <= current_size_'
    BY <1>1, <2>1, <2>2, <2>4 DEF SinkInv
  <2>6. /\ file' \in Files /\ 0 \in DOMAIN file' /\ file'[0] = Append(file[0], m)
        /\ FilesAreBounded(file')
    BY <1>3, <2>3, <2>4, <2>5, WithFirstIs DEF SinkInv, RotationIsSafe
  <2>7. SizeOf(file'[0]) <= current_size_' /\ unflushed' \in Nat /\ current_size_' \in Nat
    BY <1>1, <2>1, <2>5, <2>6 DEF SinkInv
  <2> QED  BY <2>1, <2>2, <2>6, <2>7 DEF SinkInv, RotationIsSafe, NeverWritesToNull, FilesAreBounded
<1>5. CASE ~ Fits(m.size)
  <2>1. /\ file' = WithFirst(Moved(file, 0), <<m>>) /\ fd_' = TRUE /\ current_size_' = m.size
        /\ unflushed' = 1 /\ faults' = faults
    BY <1>5 DEF Write, WithFirst
  <2>2. Moved(file, 0) \in Files /\ FilesAreBounded(Moved(file, 0))
    BY <1>1, MovedIs, MovedIsBounded DEF SinkInv, RotationIsSafe
  <2>3. /\ file' \in Files /\ 0 \in DOMAIN file' /\ file'[0] = <<m>> /\ FilesAreBounded(file')
    BY <1>2, <2>1, <2>2, WithFirstIs
  <2>4. SizeOf(file'[0]) <= current_size_'
    <3>1. SizeOf(<<m>>) = m.size
      <4>1. <<>> \in Seq(Message)
        OBVIOUS
      <4> QED  BY <1>3, <4>1
    <3> QED  BY <1>1, <2>1, <2>3, <3>1
  <2> QED  BY <1>1, <2>1, <2>3, <2>4 DEF SinkInv, RotationIsSafe, NeverWritesToNull, FilesAreBounded
<1> QED  BY <1>4, <1>5

(* The files without the last messages of file 0.                          *)
LEMMA CutIs ==
  ASSUME file \in Files, NEW n \in Nat
  PROVE  /\ Cut(n) \in Files /\ DOMAIN Cut(n) = DOMAIN file
         /\ \A i \in DOMAIN file \ {0} : Cut(n)[i] = file[i]
         /\ 0 \in DOMAIN file =>
              /\ Cut(n)[0] \in Seq(Message) /\ file[0] \in Seq(Message)
              /\ SizeOf(Cut(n)[0]) \in Nat /\ SizeOf(Cut(n)[0]) <= SizeOf(file[0])
              /\ \A i \in 1..Len(Cut(n)[0]) : i \in 1..Len(file[0]) /\ Cut(n)[0][i] = file[0][i]
         /\ FilesAreBounded(file) => FilesAreBounded(Cut(n))
<1> DEFINE c == Cut(n)
           s == SubSeq(file[0], 1, Len(file[0]) - n)
<1>1. DOMAIN file \in SUBSET (0..max_files_) /\ \A i \in DOMAIN file : file[i] \in Seq(Message)
  BY FilesAre
<1>2. /\ DOMAIN c = DOMAIN file /\ c = [i \in DOMAIN file |-> c[i]]
      /\ \A i \in DOMAIN file \ {0} : c[i] = file[i]
      /\ 0 \in DOMAIN file => c[0] = s
  BY DEF Cut
<1> HIDE DEF c
<1>3. ASSUME 0 \in DOMAIN file
      PROVE  /\ s \in Seq(Message) /\ file[0] \in Seq(Message) /\ Len(s) \in Nat /\ Len(file[0]) \in Nat
             /\ Len(s) <= Len(file[0]) /\ \A i \in 1..Len(s) : s[i] = file[0][i]
             /\ SizeOf(s) \in Nat /\ SizeOf(file[0]) \in Nat /\ SizeOf(s) <= SizeOf(file[0])
             /\ Len(s) = 0 => SizeOf(s) = 0
  <2> DEFINE t == file[0]
  <2>1. t \in Seq(Message) /\ Len(t) \in Nat
    BY <1>1, <1>3
  <2>2. s = SubSeq(t, 1, Len(t) - n)
    OBVIOUS
  <2> HIDE DEF s, t
  <2>3. Len(t) - n \in Int /\ Len(t) - n <= Len(t)
    BY <2>1
  <2>4. s \in Seq(Message) /\ Len(s) \in Nat /\ Len(s) <= Len(t) /\ \A i \in 1..Len(s) : s[i] = t[i]
    BY <2>1, <2>2, <2>3
  <2>5. /\ SizeOf(s) \in Nat /\ SizeOf(t) \in Nat /\ SizeOf(s) <= SizeOf(t)
        /\ Len(s) = 0 => SizeOf(s) = 0
    BY <2>1, <2>4, MessagesAreSized, SizeOfPrefix
  <2> QED  BY <2>1, <2>4, <2>5 DEF t
<1> HIDE DEF s
<1>4. \A i \in DOMAIN file : c[i] \in Seq(Message)
  BY <1>1, <1>2, <1>3
<1>5. c \in Files
  <2>1. c \in [DOMAIN file -> Seq(Message)]
    BY <1>2, <1>4
  <2> QED  BY <1>1, <2>1, AreFiles
<1>6. \A i \in 1..Len(s) : 0 \in DOMAIN file => i \in 1..Len(file[0])
  BY <1>3
<1>7. ASSUME FilesAreBounded(file), NEW i \in DOMAIN file
      PROVE  SizeOf(c[i]) <= max_size_ \/ Len(c[i]) = 1
  <2>1. CASE i # 0
    BY <1>2, <1>7, <2>1 DEF FilesAreBounded
  <2>2. CASE i = 0
    <3>1. SizeOf(file[0]) <= max_size_ \/ Len(file[0]) = 1
      BY <1>7, <2>2 DEF FilesAreBounded
    <3>2. max_size_ \in Nat
      BY SinkAssumption
    <3> QED  BY <1>2, <1>3, <1>7, <2>2, <3>1, <3>2
  <2> QED  BY <2>1, <2>2
<1>8. FilesAreBounded(file) => FilesAreBounded(c)
  BY <1>2, <1>7 DEF FilesAreBounded
<1> QED  BY <1>2, <1>3, <1>5, <1>6, <1>8 DEF c

(* What a call in which something fails leaves in the files: what was not  *)
(* dropped; that, rotated, with a new file 0; or that with the rotation    *)
(* given up at some file.                                                  *)
LEMMA FailOutcome ==
  ASSUME SinkInv, NEW m \in Message, FailToWrite(m)
  PROVE  \E n \in Nat :
           \/ /\ Fits(m.size) /\ file' = Cut(n)
              /\ current_size_' = current_size_ + m.size /\ fd_' = fd_
           \/ \E s \in {<<>>, <<m>>} :
                /\ file' = WithFirst(Moved(Cut(n), 0), s)
                /\ current_size_' = m.size /\ fd_' = TRUE
           \/ /\ \E k \in 0..max_files_ :
                    \/ file' = WithFirst(Moved(Cut(n), k), <<>>) /\ fd_' = TRUE
                    \/ file' = Moved(Cut(n), k) /\ fd_' = FALSE
              /\ ~ Fits(m.size) /\ current_size_' = current_size_ + m.size
<1>1. unflushed \in Nat /\ max_files_ \in Nat /\ 0 \in 0..max_files_
      /\ \A n \in 0..unflushed : n \in Nat
  BY SinkAssumption DEF SinkInv
<1>2. CASE fwrite_throws(m)
  BY <1>1, <1>2 DEF fwrite_throws, Reopen
<1>3. CASE fclose_fails(m)
  <2>1. PICK n \in 1..unflushed : file' = WithFirst(Moved(Cut(n), 0), <<m>>)
    BY <1>3 DEF fclose_fails
  <2>2. n \in Nat /\ current_size_' = m.size /\ fd_' = TRUE
    BY <1>1, <1>3 DEF fclose_fails
  <2>3. \E s \in {<<>>, <<m>>} :
          /\ file' = WithFirst(Moved(Cut(n), 0), s)
          /\ current_size_' = m.size /\ fd_' = TRUE
    BY <2>1, <2>2
  <2> QED  BY <2>2, <2>3
<1>4. CASE rotate_throws(m)
  <2>1. ~ Fits(m.size) /\ current_size_' = current_size_ + m.size
    BY <1>4 DEF rotate_throws, Throw
  <2>2. PICK n \in 0..unflushed :
          \/ FailToReopen(Moved(Cut(n), 0))
          \/ \E k \in {i \in 1..max_files_ : i - 1 \in DOMAIN file} :
                Reopen(Moved(Cut(n), k)) \/ FailToReopen(Moved(Cut(n), k))
    BY <1>4 DEF rotate_throws
  <2>3. PICK k \in 0..max_files_ : Reopen(Moved(Cut(n), k)) \/ FailToReopen(Moved(Cut(n), k))
    BY <1>1, <2>2
  <2>4. \/ file' = WithFirst(Moved(Cut(n), k), <<>>) /\ fd_' = TRUE
        \/ file' = Moved(Cut(n), k) /\ fd_' = FALSE
    BY <2>3 DEF Reopen, FailToReopen
  <2> QED  BY <1>1, <2>1, <2>4
<1> QED  BY <1>2, <1>3, <1>4 DEF FailToWrite

LEMMA FailCounts ==
  ASSUME SinkInv, NEW m \in Message, FailToWrite(m)
  PROVE  /\ unflushed' \in Nat /\ faults' \in Nat /\ faults' # 0
BY DEF FailToWrite, Fails, fwrite_throws, fclose_fails, rotate_throws, SinkInv

(* A call in which something fails leaves files that are bounded, and      *)
(* current_size_ is not less than what the first of them holds.            *)
LEMMA FailKeepsSink ==
  ASSUME SinkInv, NEW m \in Message, FailToWrite(m)
  PROVE  SinkInv'
<1>1. m.size \in Nat /\ m.size \in Sizes /\ max_size_ \in Nat /\ max_files_ \in Nat /\ 0 \in 0..max_files_
      /\ current_size_ \in Nat
  BY MessagesAreSized, SinkAssumption DEF Sized, SinkInv, Message
<1>2. PICK n \in Nat :
         \/ /\ Fits(m.size) /\ file' = Cut(n)
            /\ current_size_' = current_size_ + m.size /\ fd_' = fd_
         \/ \E s \in {<<>>, <<m>>} :
              /\ file' = WithFirst(Moved(Cut(n), 0), s)
              /\ current_size_' = m.size /\ fd_' = TRUE
         \/ /\ \E k \in 0..max_files_ :
                  \/ file' = WithFirst(Moved(Cut(n), k), <<>>) /\ fd_' = TRUE
                  \/ file' = Moved(Cut(n), k) /\ fd_' = FALSE
            /\ ~ Fits(m.size) /\ current_size_' = current_size_ + m.size
  BY FailOutcome
<1> DEFINE c == Cut(n)
<1>3. /\ c \in Files /\ FilesAreBounded(c) /\ DOMAIN c = DOMAIN file
      /\ 0 \in DOMAIN file => SizeOf(c[0]) \in Nat /\ SizeOf(c[0]) <= SizeOf(file[0]) /\ file[0] \in Seq(Message)
  BY CutIs DEF SinkInv, RotationIsSafe
<1> HIDE DEF c
<1>4. ASSUME NEW k \in 0..max_files_  PROVE Moved(c, k) \in Files /\ FilesAreBounded(Moved(c, k))
  <2>1. Moved(c, k) \in Files
    BY <1>3, MovedIs
  <2>2. FilesAreBounded(Moved(c, k))
    BY <1>3, MovedIsBounded
  <2> QED  BY <2>1, <2>2
<1>5. SUFFICES RotationIsSafe' /\ (file \in Files)' /\ fd_' \in BOOLEAN /\ current_size_' \in Nat
  BY FailCounts DEF SinkInv, Files
<1>6. CASE /\ Fits(m.size) /\ file' = c
           /\ current_size_' = current_size_ + m.size /\ fd_' = fd_
  <2>1. fd_ /\ 0 \in DOMAIN file /\ SizeOf(file[0]) <= current_size_
    BY <1>1, <1>6 DEF SinkInv, RotationIsSafe, NeverWritesToNull
  <2>2. SizeOf(file[0]) \in Nat
    BY <2>1, FilesAre DEF SinkInv
  <2>3. SizeOf(c[0]) <= current_size_'
    BY <1>1, <1>3, <1>6, <2>1, <2>2
  <2>4. fd_' \in BOOLEAN /\ current_size_' \in Nat
    BY <1>1, <1>6 DEF SinkInv
  <2>5. NeverWritesToNull'
    BY <1>3, <1>6, <2>1, <2>3 DEF NeverWritesToNull
  <2>6. FilesAreBounded(file)' /\ (file \in Files)'
    BY <1>3, <1>6 DEF FilesAreBounded, Files
  <2> QED  BY <2>4, <2>5, <2>6 DEF RotationIsSafe
<1>7. CASE \E s \in {<<>>, <<m>>} :
             /\ file' = WithFirst(Moved(c, 0), s)
             /\ current_size_' = m.size /\ fd_' = TRUE
  <2>1. PICK s \in {<<>>, <<m>>} :
             /\ file' = WithFirst(Moved(c, 0), s)
             /\ current_size_' = m.size /\ fd_' = TRUE
    BY <1>7
  <2>2. s \in Seq(Message) /\ SizeOf(s) <= m.size /\ (SizeOf(s) <= max_size_ \/ Len(s) = 1)
    <3>1. CASE s = <<>>
      <4>1. <<>> \in Seq(Message) /\ SizeOf(<<>>) = 0
        BY NoSize
      <4> QED  BY <1>1, <3>1, <4>1
    <3>2. CASE s = <<m>>
      <4>1. <<>> \in Seq(Sized) /\ m \in Sized /\ <<m>> \in Seq(Message) /\ Len(<<m>>) = 1
        BY MessagesAreSized
      <4>2. SizeOf(<<m>>) = m.size
        BY <4>1, SizeOfIs
      <4> QED  BY <1>1, <3>2, <4>1, <4>2
    <3> QED  BY <2>1, <3>1, <3>2
  <2> DEFINE g == Moved(c, 0)
  <2>3. g \in Files /\ FilesAreBounded(g) /\ file' = WithFirst(g, s)
    BY <1>1, <1>4, <2>1
  <2> HIDE DEF g
  <2>4. file' \in Files /\ 0 \in DOMAIN file' /\ file'[0] = s /\ FilesAreBounded(file')
    BY <2>2, <2>3, WithFirstIs
  <2> QED  BY <1>1, <2>1, <2>2, <2>4 DEF RotationIsSafe, NeverWritesToNull, FilesAreBounded, Files
<1>8. CASE /\ \E k \in 0..max_files_ :
                 \/ file' = WithFirst(Moved(c, k), <<>>) /\ fd_' = TRUE
                 \/ file' = Moved(c, k) /\ fd_' = FALSE
           /\ ~ Fits(m.size) /\ current_size_' = current_size_ + m.size
  <2>1. PICK k \in 0..max_files_ :
                 \/ file' = WithFirst(Moved(c, k), <<>>) /\ fd_' = TRUE
                 \/ file' = Moved(c, k) /\ fd_' = FALSE
    BY <1>8
  <2>2. current_size_' \in Nat /\ \A size \in Sizes : ~ (current_size_' + size <= max_size_)
    BY <1>1, <1>8, SinkAssumption DEF Fits
  <2> DEFINE g == Moved(c, k)
  <2>3. g \in Files /\ FilesAreBounded(g)
    BY <1>4
  <2> HIDE DEF g
  <2>4. CASE file' = WithFirst(g, <<>>) /\ fd_' = TRUE
    <3> DEFINE e == <<>>
    <3>1. e \in Seq(Message) /\ SizeOf(e) = 0 /\ SizeOf(e) <= max_size_ /\ file' = WithFirst(g, e)
      BY <1>1, <2>4, NoSize
    <3> HIDE DEF e
    <3>2. file' \in Files /\ 0 \in DOMAIN file' /\ file'[0] = e /\ FilesAreBounded(file')
      BY <2>3, <3>1, WithFirstIs
    <3> QED  BY <2>2, <2>4, <3>1, <3>2 DEF RotationIsSafe, NeverWritesToNull, FilesAreBounded, Files
  <2>5. CASE file' = g /\ fd_' = FALSE
    <3>1. NeverWritesToNull'
      BY <2>2, <2>5 DEF NeverWritesToNull, Fits
    <3>2. FilesAreBounded(file)' /\ (file \in Files)'
      BY <2>3, <2>5 DEF FilesAreBounded, Files
    <3>3. fd_' \in BOOLEAN
      BY <2>5
    <3> QED  BY <2>2, <3>1, <3>2, <3>3 DEF RotationIsSafe
  <2> QED  BY <2>1, <2>4, <2>5 DEF g
<1> QED  BY <1>2, <1>6, <1>7, <1>8 DEF c

(* fflush may fail as well.                                                *)
LEMMA FlushKeepsSink ==
  ASSUME SinkInv, flush_
  PROVE  SinkInv'
<1>1. /\ unflushed' = 0 /\ fd_' = fd_ /\ current_size_' = current_size_
      /\ \/ file' = file /\ faults' = faults
         \/ Fails /\ \E n \in 1..unflushed : file' = Cut(n)
  BY Zenon DEF flush_
<1>2. CASE file' = file /\ faults' = faults
  BY <1>1, <1>2 DEF SinkInv, Files, RotationIsSafe, NeverWritesToNull, Fits, FilesAreBounded
<1>3. CASE Fails /\ \E n \in 1..unflushed : file' = Cut(n)
  <2>a. PICK n \in 1..unflushed : file' = Cut(n)
    BY <1>3
  <2>1. n \in Nat /\ file' = Cut(n)
    BY <2>a DEF SinkInv
  <2> DEFINE c == Cut(n)
  <2>2. /\ c \in Files /\ FilesAreBounded(c) /\ DOMAIN c = DOMAIN file
        /\ 0 \in DOMAIN file => SizeOf(c[0]) \in Nat /\ SizeOf(c[0]) <= SizeOf(file[0])
    BY <2>1, CutIs DEF SinkInv, RotationIsSafe
  <2> HIDE DEF c
  <2>3. file' = c
    BY <2>1 DEF c
  <2>4. faults' \in Nat /\ current_size_ \in Nat /\ \A i \in DOMAIN file : SizeOf(file[i]) \in Nat
    BY <1>3, FilesAre DEF Fails, SinkInv
  <2>5. NeverWritesToNull'
    <3>1. ~ fd_' => \A size \in Sizes : ~ (current_size_' + size <= max_size_)
      BY <1>1 DEF SinkInv, RotationIsSafe, NeverWritesToNull, Fits
    <3>2. fd_' => 0 \in DOMAIN file' /\ SizeOf(file'[0]) <= current_size_'
      <4> SUFFICES ASSUME fd_'  PROVE 0 \in DOMAIN file' /\ SizeOf(file'[0]) <= current_size_'
        OBVIOUS
      <4>1. 0 \in DOMAIN file /\ SizeOf(file[0]) <= current_size_
        BY <1>1 DEF SinkInv, RotationIsSafe, NeverWritesToNull
      <4> QED  BY <1>1, <2>2, <2>3, <2>4, <4>1
    <3> QED  BY <3>1, <3>2 DEF NeverWritesToNull, Fits
  <2>6. FilesAreBounded(file)' /\ (file \in Files)'
    BY <2>2, <2>3 DEF FilesAreBounded, Files
  <2> QED  BY <1>1, <2>4, <2>5, <2>6 DEF SinkInv, RotationIsSafe
<1> QED  BY <1>1, <1>2, <1>3

(* Opening again what a crash has left.                                    *)
LEMMA CrashOutcome ==
  ASSUME SinkInv, CrashAndOpen
  PROVE  /\ \E n \in Nat : file' = WithFirst(Cut(n), IF 0 \in DOMAIN file THEN Cut(n)[0] ELSE <<>>)
         /\ fd_' = TRUE /\ unflushed' = 0 /\ faults' = faults + 1
         /\ \E size \in Int : current_size_' \in SizeOf(file'[0])..size
<1>1. PICK n \in 0..unflushed : Open(Cut(n))
  BY DEF CrashAndOpen
<1>2. n \in Nat /\ DOMAIN Cut(n) = DOMAIN file /\ current_size_ \in Int
  BY CutIs DEF SinkInv
<1>3. file' = WithFirst(Cut(n), IF 0 \in DOMAIN file THEN Cut(n)[0] ELSE <<>>)
  BY <1>1, <1>2 DEF Open
<1>4. \E size \in Int : current_size_' \in SizeOf(file'[0])..size
  BY <1>1, <1>2 DEF Open
<1> QED  BY <1>1, <1>2, <1>3, <1>4 DEF Open, CrashAndOpen, Fails

LEMMA CrashKeepsSink ==
  ASSUME SinkInv, CrashAndOpen
  PROVE  SinkInv'
<1>1. PICK n \in Nat : file' = WithFirst(Cut(n), IF 0 \in DOMAIN file THEN Cut(n)[0] ELSE <<>>)
  BY CrashOutcome
<1> DEFINE c == Cut(n)
           s == IF 0 \in DOMAIN file THEN c[0] ELSE <<>>
<1>2. c \in Files /\ FilesAreBounded(c) /\ DOMAIN c = DOMAIN file
  BY CutIs DEF SinkInv, RotationIsSafe
<1>3. s \in Seq(Message) /\ SizeOf(s) \in Nat /\ (SizeOf(s) <= max_size_ \/ Len(s) = 1)
  <2> HIDE DEF c
  <2>1. <<>> \in Seq(Message) /\ SizeOf(<<>>) = 0 /\ max_size_ \in Nat
    BY NoSize, SinkAssumption
  <2>2. CASE 0 \notin DOMAIN file
    <3>1. s = <<>>
      BY <2>2
    <3> QED  BY <2>1, <3>1
  <2>3. CASE 0 \in DOMAIN file
    <3>1. c[0] \in Seq(Message) /\ SizeOf(c[0]) \in Nat
      BY <1>2, <2>3, FilesAre
    <3> QED  BY <1>2, <2>3, <3>1 DEF FilesAreBounded
  <2> QED  BY <2>2, <2>3
<1>4. file' = WithFirst(c, s)
  BY <1>1
<1> HIDE DEF s, c
<1>5. file' \in Files /\ 0 \in DOMAIN file' /\ file'[0] = s /\ FilesAreBounded(file')
  BY <1>2, <1>3, <1>4, WithFirstIs
<1>6. /\ fd_' = TRUE /\ unflushed' = 0 /\ faults' = faults + 1
      /\ \E size \in Int : current_size_' \in SizeOf(file'[0])..size
  BY CrashOutcome
<1>7. current_size_' \in Nat /\ SizeOf(file'[0]) <= current_size_' /\ faults' \in Nat
  BY <1>3, <1>5, <1>6 DEF SinkInv
<1> QED  BY <1>5, <1>6, <1>7 DEF SinkInv, RotationIsSafe, NeverWritesToNull, FilesAreBounded

-----------------------------------------------------------------------------
(* What the files hold, from the oldest to file 0, and its order.          *)
Ids == [m \in Message |-> m.id]

InFiles(m, files) == \E k \in DOMAIN files : Occurs(m, files[k])

FilesInOrder(files) ==
  /\ \A k \in DOMAIN files : Increasing(Ids, files[k])
  /\ \A k, l \in DOMAIN files : k < l =>
       \A i \in 1..Len(files[k]), j \in 1..Len(files[l]) : Ids[files[l][j]] < Ids[files[k][i]]

LEMMA KeptAre ==
  ASSUME NEW f \in Files
  PROVE  /\ KeptIn(f) \in Seq(Message)
         /\ \A m : Occurs(m, KeptIn(f)) <=> InFiles(m, f)
         /\ Increasing(Ids, KeptIn(f)) <=> FilesInOrder(f)
<1> DEFINE n == max_files_ + 1
           piece(k) == IF n - k \in DOMAIN f THEN f[n - k] ELSE <<>>
           seqs == [k \in 1..n |-> piece(k)]
           kept == KeptIn(f)
<1>1. n \in Nat \ {0} /\ DOMAIN f \subseteq 0..(n - 1) /\ \A k \in DOMAIN f : f[k] \in Seq(Message)
  BY FilesAre, SinkAssumption
<1>2. kept = FlattenSeq(seqs)
  <2>1. KeptIn(f) = FlattenSeq([k \in 1..(max_files_ + 1) |->
          IF max_files_ + 1 - k \in DOMAIN f THEN f[max_files_ + 1 - k] ELSE <<>>])
    BY DEF KeptIn
  <2>2. seqs = [k \in 1..(max_files_ + 1) |->
          IF max_files_ + 1 - k \in DOMAIN f THEN f[max_files_ + 1 - k] ELSE <<>>]
    BY SinkAssumption
  <2> HIDE DEF seqs
  <2> QED  BY <2>1, <2>2
<1> HIDE DEF n
<1>3. \A k \in 1..n : piece(k) \in Seq(Message)
  BY <1>1
<1>4. seqs \in Seq(Seq(Message)) /\ Len(seqs) = n /\ \A k \in 1..n : seqs[k] = piece(k)
  <2> HIDE DEF piece
  <2> QED  BY <1>1, <1>3
<1>5. \A k \in DOMAIN f : n - k \in 1..n /\ seqs[n - k] = f[k]
  <2> TAKE k \in DOMAIN f
  <2>1. n - k \in 1..n /\ n - (n - k) = k
    BY <1>1
  <2> QED  BY <1>4, <2>1
<1>6. \A k \in 1..n : Len(seqs[k]) # 0 => n - k \in DOMAIN f /\ seqs[k] = f[n - k]
  BY <1>4
<1> HIDE DEF seqs, piece, kept
<1>7. PICK end \in [0..n -> Nat] :
        /\ end[0] = 0 /\ end[n] = Len(kept)
        /\ \A k \in 1..n : /\ end[k] = end[k - 1] + Len(seqs[k])
                           /\ \A i \in 1..Len(seqs[k]) : kept[end[k - 1] + i] = seqs[k][i]
        /\ \A k, l \in 0..n : k <= l => end[k] <= end[l]
        /\ \A p \in 1..Len(kept) : \E k \in 1..n : \E i \in 1..Len(seqs[k]) : p = end[k - 1] + i
  <2>1. Len(seqs) # 0
    BY <1>1, <1>4
  <2>2. \E end \in [0..Len(seqs) -> Nat] : PiecesEnd(seqs, FlattenSeq(seqs), end)
    BY <1>4, <2>1, FlattenIs
  <2>3. PICK end \in [0..n -> Nat] : PiecesEnd(seqs, kept, end)
    BY <1>2, <1>4, <2>2
  <2> QED  BY <1>4, <2>3 DEF PiecesEnd
<1>8. kept \in Seq(Message)
  <2>1. Len(seqs) # 0
    BY <1>1, <1>4
  <2> QED  BY <1>2, <1>4, <2>1, FlattenIs
<1>9. ASSUME NEW k \in 1..n, NEW i \in 1..Len(seqs[k])
      PROVE  /\ end[k - 1] + i \in 1..Len(kept) /\ end[k - 1] + i \in Int /\ end[k - 1] + i > end[k - 1]
             /\ end[k - 1] + i <= end[k] /\ kept[end[k - 1] + i] = seqs[k][i]
             /\ end[k - 1] \in Nat /\ end[k] \in Nat /\ i \in Nat
  <2>1. k - 1 \in 0..n /\ k \in 0..n /\ n \in 0..n /\ k <= n
    BY <1>1
  <2>2. end[k - 1] \in Nat /\ end[k] \in Nat /\ end[n] \in Nat /\ Len(seqs[k]) \in Nat
    <3>1. seqs[k] \in Seq(Message)
      BY <1>3, <1>4
    <3> QED  BY <2>1, <3>1
  <2>3. end[k] = end[k - 1] + Len(seqs[k]) /\ end[k] <= end[n] /\ kept[end[k - 1] + i] = seqs[k][i]
    BY <1>7, <2>1
  <2> DEFINE x == end[k - 1]
             y == end[k]
             z == Len(seqs[k])
  <2>4. x \in Nat /\ y \in Nat /\ z \in Nat /\ y = x + z /\ y <= Len(kept) /\ i \in 1..z /\ Len(kept) \in Nat
    BY <1>7, <2>2, <2>3
  <2> HIDE DEF x, y, z
  <2>5. x + i \in 1..Len(kept) /\ x + i \in Int /\ x + i > x /\ x + i <= y /\ i \in Nat
    BY <2>4
  <2> QED  BY <2>2, <2>3, <2>5 DEF x, y
<1>10. ASSUME NEW m  PROVE Occurs(m, kept) <=> InFiles(m, f)
  <2>1. ASSUME Occurs(m, kept)  PROVE InFiles(m, f)
    <3>1. PICK p \in 1..Len(kept) : kept[p] = m
      BY <2>1 DEF Occurs
    <3>2. PICK k \in 1..n : \E i \in 1..Len(seqs[k]) : p = end[k - 1] + i
      BY <1>7, <3>1
    <3>3. PICK i \in 1..Len(seqs[k]) : p = end[k - 1] + i
      BY <3>2
    <3>4. seqs[k][i] = m
      BY <1>9, <3>1, <3>3
    <3>5. Len(seqs[k]) # 0
      <4>1. Len(seqs[k]) \in Nat
        BY <1>3, <1>4
      <4> QED  BY <4>1
    <3>6. n - k \in DOMAIN f /\ seqs[k] = f[n - k]
      BY <1>6, <3>5
    <3> QED  BY <3>4, <3>6 DEF InFiles, Occurs
  <2>2. ASSUME InFiles(m, f)  PROVE Occurs(m, kept)
    <3>1. PICK k \in DOMAIN f : \E i \in 1..Len(f[k]) : f[k][i] = m
      BY <2>2 DEF InFiles, Occurs
    <3>2. PICK i \in 1..Len(seqs[n - k]) : seqs[n - k][i] = m
      BY <1>5, <3>1
    <3> QED  BY <1>5, <1>9, <3>2 DEF Occurs
  <2> QED  BY <2>1, <2>2
<1>11. ASSUME FilesInOrder(f)  PROVE Increasing(Ids, kept)
  <2> SUFFICES ASSUME NEW p \in 1..Len(kept), NEW q \in 1..Len(kept), p < q
               PROVE  Ids[kept[p]] < Ids[kept[q]]
    BY DEF Increasing
  <2>a. PICK k \in 1..n : \E i \in 1..Len(seqs[k]) : p = end[k - 1] + i
    BY <1>7
  <2>1. PICK i \in 1..Len(seqs[k]) : p = end[k - 1] + i
    BY <2>a
  <2>b. PICK l \in 1..n : \E j \in 1..Len(seqs[l]) : q = end[l - 1] + j
    BY <1>7
  <2>2. PICK j \in 1..Len(seqs[l]) : q = end[l - 1] + j
    BY <2>b
  <2>3. /\ kept[p] = seqs[k][i] /\ kept[q] = seqs[l][j]
        /\ n - k \in DOMAIN f /\ seqs[k] = f[n - k] /\ n - l \in DOMAIN f /\ seqs[l] = f[n - l]
    <3>1. Len(seqs[k]) # 0 /\ Len(seqs[l]) # 0
      <4>1. Len(seqs[k]) \in Nat /\ Len(seqs[l]) \in Nat
        BY <1>3, <1>4
      <4> QED  BY <4>1
    <3> QED  BY <1>6, <1>9, <2>1, <2>2, <3>1
  <2>4. k <= l
    <3> SUFFICES ASSUME l < k  PROVE FALSE
      BY <1>1
    <3>1. l <= k - 1 /\ l \in 0..n /\ k - 1 \in 0..n
      BY <1>1
    <3>2. end[l] <= end[k - 1]
      BY <1>7, <3>1
    <3>3. q <= end[l] /\ p > end[k - 1] /\ end[l] \in Nat /\ end[k - 1] \in Nat
      BY <1>9, <2>1, <2>2
    <3> QED  BY <3>2, <3>3
  <2>5. CASE k = l
    <3>1. i < j
      <4>1. end[k - 1] \in Nat /\ i \in Nat /\ j \in Nat
        BY <1>9, <2>5
      <4> QED  BY <2>1, <2>2, <2>5, <4>1
    <3>2. Increasing(Ids, f[n - k])
      BY <1>11, <2>3 DEF FilesInOrder
    <3> QED  BY <2>3, <2>5, <3>1, <3>2 DEF Increasing
  <2>6. CASE k < l
    <3>1. n - l < n - k
      BY <1>1, <2>6
    <3> QED  BY <1>11, <2>3, <3>1 DEF FilesInOrder
  <2> QED  BY <2>4, <2>5, <2>6
<1>12. ASSUME Increasing(Ids, kept)  PROVE FilesInOrder(f)
  <2>1. ASSUME NEW k \in DOMAIN f  PROVE Increasing(Ids, f[k])
    <3> DEFINE h == n - k
    <3>1. h \in 1..n /\ seqs[h] = f[k]
      BY <1>5
    <3> HIDE DEF h
    <3> SUFFICES ASSUME NEW i \in 1..Len(seqs[h]), NEW j \in 1..Len(seqs[h]), i < j
                 PROVE  Ids[seqs[h][i]] < Ids[seqs[h][j]]
      BY <3>1 DEF Increasing
    <3>2. end[h - 1] + i < end[h - 1] + j /\ end[h - 1] + i \in 1..Len(kept) /\ end[h - 1] + j \in 1..Len(kept)
      <4>1. end[h - 1] \in Nat /\ i \in Nat /\ j \in Nat
        BY <1>9, <3>1
      <4> QED  BY <1>9, <3>1, <4>1
    <3>3. kept[end[h - 1] + i] = seqs[h][i] /\ kept[end[h - 1] + j] = seqs[h][j]
      BY <1>9, <3>1
    <3> QED  BY <1>12, <3>2, <3>3 DEF Increasing
  <2>2. ASSUME NEW k \in DOMAIN f, NEW l \in DOMAIN f, k < l,
               NEW i \in 1..Len(f[k]), NEW j \in 1..Len(f[l])
        PROVE  Ids[f[l][j]] < Ids[f[k][i]]
    <3> DEFINE g == n - k
               h == n - l
    <3>1. g \in 1..n /\ seqs[g] = f[k] /\ h \in 1..n /\ seqs[h] = f[l]
      BY <1>5
    <3>2. h < g /\ h <= g - 1 /\ h \in 0..n /\ g - 1 \in 0..n
      BY <1>1, <2>2, <3>1
    <3> HIDE DEF g, h
    <3>3. end[h] <= end[g - 1]
      BY <1>7, <3>2
    <3>4. /\ end[h - 1] + j \in 1..Len(kept) /\ end[h - 1] + j <= end[h] /\ end[h - 1] + j \in Int
          /\ kept[end[h - 1] + j] = f[l][j] /\ end[h] \in Nat
      BY <1>9, <3>1
    <3>5. /\ end[g - 1] + i \in 1..Len(kept) /\ end[g - 1] + i > end[g - 1] /\ end[g - 1] + i \in Int
          /\ kept[end[g - 1] + i] = f[k][i] /\ end[g - 1] \in Nat
      BY <1>9, <3>1
    <3>6. end[h - 1] + j < end[g - 1] + i
      BY <3>3, <3>4, <3>5
    <3> QED  BY <1>12, <3>4, <3>5, <3>6 DEF Increasing
  <2> QED  BY <2>1, <2>2 DEF FilesInOrder
<1> QED  BY <1>8, <1>10, <1>11, <1>12 DEF kept

LEMMA BeforeIs ==
  /\ Before \in Files /\ DOMAIN Before \subseteq 0..max_files_ /\ 0 \in DOMAIN Before
  /\ KeptIn(Before) \in Seq(Message)
<1>1. DOMAIN Before \in SUBSET (0..max_files_) /\ Before \in [DOMAIN Before -> Seq(Message)]
      /\ 0 \in DOMAIN Before
  BY SinkAssumption, PoolAssumption
<1>2. Before \in Files
  BY <1>1, AreFiles
<1> QED  BY <1>1, <1>2, KeptAre

(* Files that are some of those before, in their order.                    *)
LEMMA FilesMove ==
  ASSUME NEW f, NEW f2, NEW from, FilesInOrder(f),
         \A i \in DOMAIN f2 : from[i] \in DOMAIN f /\ f2[i] = f[from[i]],
         \A i, j \in DOMAIN f2 : i < j => from[i] < from[j]
  PROVE  /\ FilesInOrder(f2)
         /\ \A m : InFiles(m, f2) => InFiles(m, f)
<1>1. FilesInOrder(f2)
  BY DEF FilesInOrder
<1>2. \A m : InFiles(m, f2) => InFiles(m, f)
  BY DEF InFiles
<1> QED  BY <1>1, <1>2

LEMMA MovedInOrder ==
  ASSUME NEW f \in Files, FilesInOrder(f), NEW k \in 0..max_files_
  PROVE  /\ Moved(f, k) \in Files /\ FilesInOrder(Moved(f, k))
         /\ \A m : InFiles(m, Moved(f, k)) => InFiles(m, f)
<1> DEFINE f2 == Moved(f, k)
           from == [i \in DOMAIN f2 |-> OldIndex(f, k, i)]
<1>1. /\ f2 \in Files
      /\ \A i \in DOMAIN f2 : OldIndex(f, k, i) \in DOMAIN f /\ f2[i] = f[OldIndex(f, k, i)]
      /\ \A i, j \in DOMAIN f2 : i < j => OldIndex(f, k, i) < OldIndex(f, k, j)
  BY MovedIs
<1>2. \A i \in DOMAIN f2 : from[i] = OldIndex(f, k, i)
  OBVIOUS
<1> HIDE DEF f2, from
<1>3. /\ \A i \in DOMAIN f2 : from[i] \in DOMAIN f /\ f2[i] = f[from[i]]
      /\ \A i, j \in DOMAIN f2 : i < j => from[i] < from[j]
  BY <1>1, <1>2
<1>4. FilesInOrder(f2) /\ \A m : InFiles(m, f2) => InFiles(m, f)
  BY <1>3, FilesMove
<1> QED  BY <1>1, <1>4 DEF f2

(* Another file 0, with no more than what was in it.                       *)
LEMMA FirstShrinks ==
  ASSUME NEW f \in Files, FilesInOrder(f), NEW s \in Seq(Message), Increasing(Ids, s),
         \A i \in 1..Len(s) : 0 \in DOMAIN f /\ Occurs(s[i], f[0])
  PROVE  /\ FilesInOrder(WithFirst(f, s))
         /\ \A m : InFiles(m, WithFirst(f, s)) => InFiles(m, f)
<1> DEFINE g == WithFirst(f, s)
<1>1. /\ DOMAIN g = DOMAIN f \cup {0} /\ g[0] = s /\ \A i \in DOMAIN f \ {0} : g[i] = f[i]
  BY WithFirstIs
<1>2. DOMAIN f \subseteq 0..max_files_ /\ max_files_ \in Nat
  BY FilesAre, SinkAssumption
<1> HIDE DEF g
<1>3. ASSUME NEW m, InFiles(m, g)  PROVE InFiles(m, f)
  BY <1>1, <1>3 DEF InFiles, Occurs
<1>4. \A k \in DOMAIN g : Increasing(Ids, g[k])
  BY <1>1 DEF FilesInOrder
<1>5. ASSUME NEW k \in DOMAIN g, NEW l \in DOMAIN g, k < l,
             NEW i \in 1..Len(g[k]), NEW j \in 1..Len(g[l])
      PROVE  Ids[g[l][j]] < Ids[g[k][i]]
  <2>1. l \in DOMAIN f /\ l # 0 /\ g[l] = f[l]
    BY <1>1, <1>2, <1>5
  <2>2. CASE k # 0
    BY <1>1, <1>5, <2>1, <2>2 DEF FilesInOrder
  <2>3. CASE k = 0
    <3>1. PICK h \in 1..Len(f[0]) : f[0][h] = s[i]
      BY <1>1, <2>3 DEF Occurs
    <3>2. 0 \in DOMAIN f
      BY <1>1, <2>3
    <3>3. Ids[f[l][j]] < Ids[f[0][h]]
      BY <1>5, <2>1, <2>3, <3>2 DEF FilesInOrder
    <3> QED  BY <1>1, <2>1, <2>3, <3>1, <3>3
  <2> QED  BY <2>2, <2>3
<1>6. FilesInOrder(g)
  BY <1>4, <1>5 DEF FilesInOrder
<1> QED  BY <1>3, <1>6 DEF g

LEMMA CutInOrder ==
  ASSUME file \in Files, FilesInOrder(file), NEW n \in Nat
  PROVE  Cut(n) \in Files /\ FilesInOrder(Cut(n)) /\ \A m : InFiles(m, Cut(n)) => InFiles(m, file)
<1> DEFINE c == Cut(n)
<1>1. /\ c \in Files /\ DOMAIN c = DOMAIN file
      /\ \A i \in DOMAIN file \ {0} : c[i] = file[i]
      /\ 0 \in DOMAIN file =>
           \A i \in 1..Len(c[0]) : i \in 1..Len(file[0]) /\ c[0][i] = file[0][i]
  BY CutIs
<1> HIDE DEF c
<1>2. \A k \in DOMAIN file : \A i \in 1..Len(c[k]) : i \in 1..Len(file[k]) /\ c[k][i] = file[k][i]
  BY <1>1
<1>3. \A k \in DOMAIN c : Increasing(Ids, c[k])
  BY <1>1, <1>2 DEF FilesInOrder, Increasing
<1>4. \A k, l \in DOMAIN c : k < l =>
        \A i \in 1..Len(c[k]), j \in 1..Len(c[l]) : Ids[c[l][j]] < Ids[c[k][i]]
  BY <1>1, <1>2 DEF FilesInOrder
<1>5. \A m : InFiles(m, c) => InFiles(m, file)
  BY <1>1, <1>2 DEF InFiles, Occurs
<1> QED  BY <1>1, <1>3, <1>4, <1>5 DEF FilesInOrder, c

(* A new file 0 with a message that is newer than all the others hold.     *)
LEMMA FirstIsNew ==
  ASSUME NEW f \in Files, FilesInOrder(f), NEW m \in Message,
         \A x \in Message : InFiles(x, f) => Ids[x] < Ids[m]
  PROVE  /\ FilesInOrder(WithFirst(f, <<m>>))
         /\ \A x : InFiles(x, WithFirst(f, <<m>>)) => x = m \/ InFiles(x, f)
         /\ \A x : 0 \notin DOMAIN f /\ InFiles(x, f) => InFiles(x, WithFirst(f, <<m>>))
         /\ InFiles(m, WithFirst(f, <<m>>))
<1> DEFINE s == <<m>>
           g == WithFirst(f, s)
<1>1. s \in Seq(Message) /\ Len(s) = 1 /\ s[1] = m
  OBVIOUS
<1>2. /\ DOMAIN g = DOMAIN f \cup {0} /\ g[0] = s /\ \A i \in DOMAIN f \ {0} : g[i] = f[i]
  BY <1>1, WithFirstIs
<1>3. /\ DOMAIN f \subseteq 0..max_files_ /\ max_files_ \in Nat
      /\ \A i \in DOMAIN f : f[i] \in Seq(Message)
  BY FilesAre, SinkAssumption
<1> HIDE DEF g, s
<1>4. ASSUME NEW x, InFiles(x, g)  PROVE x = m \/ InFiles(x, f)
  BY <1>1, <1>2, <1>4 DEF InFiles, Occurs
<1>5. ASSUME NEW x, 0 \notin DOMAIN f, InFiles(x, f)  PROVE InFiles(x, g)
  BY <1>2, <1>5 DEF InFiles
<1>6. InFiles(m, g)
  <2>1. 1 \in 1..Len(s) /\ 0 \in DOMAIN g
    BY <1>1, <1>2
  <2> QED  BY <1>1, <1>2, <2>1 DEF InFiles, Occurs
<1>7. \A k \in DOMAIN g : Increasing(Ids, g[k])
  <2>1. Increasing(Ids, s)
    BY <1>1 DEF Increasing
  <2> QED  BY <1>2, <2>1 DEF FilesInOrder
<1>8. ASSUME NEW k \in DOMAIN g, NEW l \in DOMAIN g, k < l,
             NEW i \in 1..Len(g[k]), NEW j \in 1..Len(g[l])
      PROVE  Ids[g[l][j]] < Ids[g[k][i]]
  <2>1. l \in DOMAIN f /\ l # 0 /\ g[l] = f[l]
    BY <1>2, <1>3, <1>8
  <2>2. CASE k # 0
    BY <1>2, <1>8, <2>1, <2>2 DEF FilesInOrder
  <2>3. CASE k = 0
    <3>1. g[k][i] = m
      BY <1>1, <1>2, <2>3
    <3>2. f[l][j] \in Message /\ InFiles(f[l][j], f)
      BY <1>3, <2>1 DEF InFiles, Occurs
    <3> QED  BY <2>1, <3>1, <3>2
  <2> QED  BY <2>2, <2>3
<1>9. FilesInOrder(g)
  BY <1>7, <1>8 DEF FilesInOrder
<1> QED  BY <1>4, <1>5, <1>6, <1>9 DEF g, s

(* A message at the end of file 0.                                         *)
LEMMA FirstGrows ==
  ASSUME NEW f \in Files, FilesInOrder(f), 0 \in DOMAIN f, NEW m \in Message,
         \A x \in Message : InFiles(x, f) => Ids[x] < Ids[m]
  PROVE  /\ FilesInOrder(WithFirst(f, Append(f[0], m)))
         /\ \A x : InFiles(x, WithFirst(f, Append(f[0], m))) <=> x = m \/ InFiles(x, f)
<1> DEFINE s == Append(f[0], m)
           g == WithFirst(f, s)
<1>1. /\ DOMAIN f \subseteq 0..max_files_ /\ max_files_ \in Nat
      /\ \A i \in DOMAIN f : f[i] \in Seq(Message)
  BY FilesAre, SinkAssumption
<1>2. /\ s \in Seq(Message) /\ Len(f[0]) \in Nat /\ Len(s) = Len(f[0]) + 1 /\ s[Len(f[0]) + 1] = m
      /\ \A i \in 1..Len(f[0]) : s[i] = f[0][i]
  <2>1. f[0] \in Seq(Message)
    BY <1>1
  <2> QED  BY <2>1
<1>3. /\ DOMAIN g = DOMAIN f /\ g[0] = s /\ \A i \in DOMAIN f \ {0} : g[i] = f[i]
  <2>1. /\ DOMAIN g = DOMAIN f \cup {0} /\ g[0] = s /\ \A i \in DOMAIN f \ {0} : g[i] = f[i]
    <3> HIDE DEF s
    <3> QED  BY <1>2, WithFirstIs
  <2> QED  BY <2>1
<1> HIDE DEF g, s
<1>4. \A i \in 1..Len(s) : i \in 1..Len(f[0]) \/ i = Len(f[0]) + 1
  BY <1>2
<1>5. ASSUME NEW x  PROVE InFiles(x, g) <=> x = m \/ InFiles(x, f)
  <2>1. Occurs(x, s) <=> x = m \/ Occurs(x, f[0])
    <3>1. Len(f[0]) + 1 \in 1..Len(s) /\ \A i \in 1..Len(f[0]) : i \in 1..Len(s)
      BY <1>2
    <3> QED  BY <1>2, <1>4, <3>1 DEF Occurs
  <2> QED  BY <1>3, <2>1 DEF InFiles
<1>6. Increasing(Ids, s)
  <2> SUFFICES ASSUME NEW i \in 1..Len(s), NEW j \in 1..Len(s), i < j
               PROVE  Ids[s[i]] < Ids[s[j]]
    BY DEF Increasing
  <2>1. i \in 1..Len(f[0])
    BY <1>2
  <2>2. CASE j \in 1..Len(f[0])
    BY <1>2, <2>1, <2>2 DEF FilesInOrder, Increasing
  <2>3. CASE j = Len(f[0]) + 1
    <3>1. s[i] \in Message /\ InFiles(s[i], f)
      BY <1>1, <1>2, <2>1 DEF InFiles, Occurs
    <3> QED  BY <1>2, <2>3, <3>1
  <2> QED  BY <1>4, <2>2, <2>3
<1>7. \A k \in DOMAIN g : Increasing(Ids, g[k])
  BY <1>3, <1>6 DEF FilesInOrder
<1>8. ASSUME NEW k \in DOMAIN g, NEW l \in DOMAIN g, k < l,
             NEW i \in 1..Len(g[k]), NEW j \in 1..Len(g[l])
      PROVE  Ids[g[l][j]] < Ids[g[k][i]]
  <2>1. l \in DOMAIN f /\ l # 0 /\ g[l] = f[l]
    BY <1>1, <1>3, <1>8
  <2>2. CASE k # 0
    BY <1>3, <1>8, <2>1, <2>2 DEF FilesInOrder
  <2>3. CASE k = 0
    <3>1. i \in 1..Len(s) /\ g[k][i] = s[i]
      BY <1>3, <2>3
    <3>2. CASE i \in 1..Len(f[0])
      BY <1>2, <1>3, <1>8, <2>1, <2>3, <3>1, <3>2 DEF FilesInOrder
    <3>3. CASE i = Len(f[0]) + 1
      <4>1. f[l][j] \in Message /\ InFiles(f[l][j], f)
        BY <1>1, <2>1 DEF InFiles, Occurs
      <4> QED  BY <1>2, <2>1, <3>1, <3>3, <4>1
    <3> QED  BY <1>4, <3>1, <3>2, <3>3
  <2> QED  BY <2>2, <2>3
<1>9. FilesInOrder(g)
  BY <1>7, <1>8 DEF FilesInOrder
<1> QED  BY <1>5, <1>9 DEF g, s

(* What a rotation loses is the oldest file, when there is one with the    *)
(* number max_files_, and all that remains is newer.                       *)
LEMMA RotationLoses ==
  ASSUME file \in Files, FilesInOrder(file), NEW m \in Message,
         \A x \in Message : InFiles(x, file) => Ids[x] < Ids[m],
         NEW x \in Message, InFiles(x, file), ~ InFiles(x, WithFirst(Moved(file, 0), <<m>>))
  PROVE  /\ max_files_ \in DOMAIN file
         /\ \A y \in Message : InFiles(y, WithFirst(Moved(file, 0), <<m>>)) => Ids[x] < Ids[y]
<1> DEFINE f2 == Moved(file, 0)
           g == WithFirst(f2, <<m>>)
           targets == {i \in 1..max_files_ : i - 1 \in DOMAIN file}
<1>1. /\ DOMAIN file \subseteq 0..max_files_ /\ max_files_ \in Nat
      /\ \A i \in DOMAIN file : file[i] \in Seq(Message)
  BY FilesAre, SinkAssumption
<1>2. /\ f2 \in Files
      /\ \A i \in DOMAIN f2 : OldIndex(file, 0, i) \in DOMAIN file /\ f2[i] = file[OldIndex(file, 0, i)]
  BY <1>1, MovedIs
<1>3. /\ DOMAIN g = DOMAIN f2 \cup {0} /\ \A i \in DOMAIN f2 \ {0} : g[i] = f2[i]
      /\ g[0] = <<m>>
  <2> DEFINE s == <<m>>
  <2>1. s \in Seq(Message)
    OBVIOUS
  <2> HIDE DEF s
  <2>2. /\ DOMAIN WithFirst(f2, s) = DOMAIN f2 \cup {0} /\ WithFirst(f2, s)[0] = s
        /\ \A i \in DOMAIN f2 \ {0} : WithFirst(f2, s)[i] = f2[i]
    BY <1>2, <2>1, WithFirstIs
  <2> QED  BY <2>2 DEF s
<1>4. /\ targets \subseteq DOMAIN f2
      /\ max_files_ \in DOMAIN file => max_files_ \in DOMAIN f2
  BY <1>1 DEF Moved
<1>5. DOMAIN f2 \subseteq 0..max_files_
  BY <1>2, FilesAre
<1> HIDE DEF g, f2
<1>6. PICK k \in DOMAIN file : Occurs(x, file[k])
  BY DEF InFiles
<1>7. k \in 0..max_files_ /\ k \in Int
  BY <1>1
<1>8. k = max_files_
  <2> SUFFICES ASSUME k # max_files_  PROVE FALSE
    OBVIOUS
  <2>1. k + 1 \in 1..max_files_ /\ (k + 1) - 1 = k /\ k + 1 # 0 /\ k + 1 > 0
    BY <1>1, <1>7
  <2>2. k + 1 \in DOMAIN f2 /\ OldIndex(file, 0, k + 1) = k
    BY <1>4, <2>1 DEF OldIndex
  <2>3. g[k + 1] = file[k] /\ k + 1 \in DOMAIN g
    BY <1>2, <1>3, <2>1, <2>2
  <2>4. InFiles(x, g)
    BY <1>6, <2>3 DEF InFiles
  <2> QED  BY <2>4 DEF g, f2
<1>9. ASSUME NEW y \in Message, InFiles(y, g)  PROVE Ids[x] < Ids[y]
  <2>1. PICK i \in DOMAIN g : Occurs(y, g[i])
    BY <1>9 DEF InFiles
  <2>2. CASE i = 0
    <3>1. y = m
      <4>1. Len(<<m>>) = 1 /\ <<m>>[1] = m
        OBVIOUS
      <4> QED  BY <1>3, <2>1, <2>2, <4>1 DEF Occurs
    <3> QED  BY <3>1
  <2>3. CASE i # 0
    <3>1. i \in DOMAIN f2 /\ g[i] = file[OldIndex(file, 0, i)] /\ OldIndex(file, 0, i) \in DOMAIN file
      BY <1>2, <1>3, <2>3
    <3>2. OldIndex(file, 0, i) # max_files_
      <4> SUFFICES ASSUME OldIndex(file, 0, i) = max_files_  PROVE FALSE
        OBVIOUS
      <4>1. i \in 1..max_files_ /\ i > 0
        BY <1>1, <1>5, <2>3, <3>1
      <4>2. i = max_files_ /\ i - 1 \notin DOMAIN file
        BY <1>1, <4>1 DEF OldIndex
      <4>3. InFiles(x, g)
        BY <1>6, <1>8, <2>1, <3>1, <4>2 DEF InFiles
      <4> QED  BY <4>3 DEF g, f2
    <3>3. OldIndex(file, 0, i) < k
      BY <1>1, <1>8, <3>1, <3>2
    <3>4. PICK h \in 1..Len(file[k]) : file[k][h] = x
      BY <1>6 DEF Occurs
    <3>5. PICK j \in 1..Len(file[OldIndex(file, 0, i)]) : file[OldIndex(file, 0, i)][j] = y
      BY <2>1, <3>1 DEF Occurs
    <3> QED  BY <3>1, <3>3, <3>4, <3>5 DEF FilesInOrder
  <2> QED  BY <2>2, <2>3
<1> QED  BY <1>8, <1>9 DEF g, f2

-----------------------------------------------------------------------------
Slots == 0..max_items

(* The i-th slot from h on, and how many there are from h up to t.         *)
Slot(h, i) == IF h + i <= max_items + 1 THEN h + i - 1 ELSE h + i - max_items - 2

Count(h, t) == IF t >= h THEN t - h ELSE t - h + max_items + 1

Item == PoolItem \cup {Nothing}

Rings == [Slots -> Item]

DifferAt(v, v2, s) == \A r \in Slots \ {s} : v2[r] = v[r]

ItemsOf(v, h, t) == [i \in 1..Count(h, t) |-> v[Slot(h, i)]]

LEMMA Modulo ==
  ASSUME NEW x \in Int, 0 <= x, x <= 2 * max_items + 1
  PROVE  x % max_items_ = IF x <= max_items THEN x ELSE x - max_items_
<1> DEFINE n == max_items_
<1>1. n \in Nat \ {0} /\ x \in Nat /\ n = max_items + 1 /\ max_items \in Nat
  BY PoolAssumption DEF max_items_
<1> HIDE DEF n
<1>2. CASE x < n
  BY <1>1, <1>2 DEF n
<1>3. CASE x >= n
  <2>1. x - n \in 0..(n - 1)
    BY <1>1, <1>3
  <2>2. (x - n) % n = x - n
    BY <1>1, <2>1
  <2>3. x % n = (x - n) % n
    BY <1>1, <2>1
  <2>4. x % n = x - n
    BY <2>2, <2>3
  <2> QED  BY <1>1, <1>3, <2>4 DEF n
<1> QED  BY <1>1, <1>2, <1>3

LEMMA AfterIs ==
  ASSUME NEW i \in Slots
  PROVE  /\ After(i) = IF i = max_items THEN 0 ELSE i + 1
         /\ After(i) \in Slots
<1>1. max_items \in Nat
  BY PoolAssumption
<1> DEFINE x == i + 1
<1>2. x \in Int /\ 0 <= x /\ x <= 2 * max_items + 1 /\ i \in 0..max_items
  BY <1>1 DEF Slots
<1> HIDE DEF x
<1>3. x % max_items_ = IF x <= max_items THEN x ELSE x - max_items_
  BY <1>2, Modulo
<1>4. After(i) = IF x <= max_items THEN x ELSE x - max_items_
  BY <1>3 DEF After, x
<1> QED  BY <1>1, <1>2, <1>4 DEF x, max_items_, Slots

LEMMA SlotIs ==
  ASSUME NEW h \in Slots, NEW t \in Slots, NEW i \in 1..Count(h, t)
  PROVE  /\ Count(h, t) \in 0..max_items
         /\ Slot(h, i) \in Slots
         /\ (h + i - 1) % max_items_ = Slot(h, i)
<1>1. max_items \in Nat
  BY PoolAssumption
<1>2. Count(h, t) \in 0..max_items
  BY <1>1 DEF Count, Slots
<1> DEFINE x == h + i - 1
<1>3. x \in Int /\ 0 <= x /\ x <= 2 * max_items + 1 /\ h \in 0..max_items /\ i \in Int
  BY <1>1, <1>2 DEF Slots
<1> HIDE DEF x
<1>4. x % max_items_ = IF x <= max_items THEN x ELSE x - max_items_
  BY <1>3, Modulo
<1>5. (IF x <= max_items THEN x ELSE x - max_items_) = Slot(h, i)
  BY <1>1, <1>3 DEF Slot, x, max_items_
<1>6. Slot(h, i) \in Slots
  BY <1>1, <1>2, <1>3 DEF Slot, Slots, x
<1> QED  BY <1>2, <1>4, <1>5, <1>6 DEF x

LEMMA CountIs ==
  ASSUME NEW h \in Slots, NEW t \in Slots
  PROVE  /\ Count(h, t) \in 0..max_items
         /\ (t - h + max_items_) % max_items_ = Count(h, t)
<1>1. max_items \in Nat
  BY PoolAssumption
<1> DEFINE x == t - h + max_items_
<1>2. x \in Int /\ 0 <= x /\ x <= 2 * max_items + 1 /\ h \in 0..max_items /\ t \in 0..max_items
  BY <1>1 DEF Slots, max_items_
<1> HIDE DEF x
<1>3. x % max_items_ = IF x <= max_items THEN x ELSE x - max_items_
  BY <1>2, Modulo
<1>4. (IF x <= max_items THEN x ELSE x - max_items_) = Count(h, t)
  BY <1>1, <1>2 DEF Count, x, max_items_
<1>5. Count(h, t) \in 0..max_items
  BY <1>1, <1>2 DEF Count
<1> QED  BY <1>3, <1>4, <1>5 DEF x

(* What the module calls Items, before a step and after it.                *)
LEMMA ItemsAre ==
  ASSUME head_ \in Slots, tail_ \in Slots
  PROVE  Items = ItemsOf(v_, head_, tail_)
<1>1. (tail_ - head_ + max_items_) % max_items_ = Count(head_, tail_)
  BY CountIs
<1>2. \A i \in 1..Count(head_, tail_) : (head_ + i - 1) % max_items_ = Slot(head_, i)
  BY SlotIs
<1> QED  BY <1>1, <1>2 DEF Items, ItemsOf

LEMMA ItemsWillBe ==
  ASSUME head_' \in Slots, tail_' \in Slots
  PROVE  Items' = ItemsOf(v_', head_', tail_')
<1>1. (tail_' - head_' + max_items_) % max_items_ = Count(head_', tail_')
  BY CountIs
<1>2. \A i \in 1..Count(head_', tail_') : (head_' + i - 1) % max_items_ = Slot(head_', i)
  BY SlotIs
<1> QED  BY <1>1, <1>2 DEF Items, ItemsOf, max_items_

LEMMA ItemsType ==
  ASSUME NEW v \in Rings, NEW h \in Slots, NEW t \in Slots
  PROVE  /\ ItemsOf(v, h, t) \in Seq(Item)
         /\ Len(ItemsOf(v, h, t)) = Count(h, t)
         /\ \A i \in 1..Count(h, t) : ItemsOf(v, h, t)[i] = v[Slot(h, i)]
<1>1. Count(h, t) \in Nat
  BY CountIs, PoolAssumption
<1>2. \A i \in 1..Count(h, t) : v[Slot(h, i)] \in Item
  BY SlotIs DEF Rings
<1> QED  BY <1>1, <1>2 DEF ItemsOf

(* The slots are counted from 0.                                           *)
LEMMA Around ==
  ASSUME NEW i \in Slots
  PROVE  /\ max_items \in Nat /\ max_items >= 1
         /\ i \in Int /\ 0 <= i /\ i <= max_items
         /\ i = max_items => After(i) = 0
         /\ i # max_items => After(i) = i + 1
<1>1. max_items \in Nat /\ max_items >= 1
  BY PoolAssumption
<1> QED  BY <1>1, AfterIs DEF Slots

(* An insertion with a slot spare.                                         *)
LEMMA PushOf ==
  ASSUME NEW v \in Rings, NEW v2 \in Rings, NEW h \in Slots, NEW t \in Slots,
         DifferAt(v, v2, t), After(t) # h
  PROVE  /\ Len(ItemsOf(v, h, t)) < max_items
         /\ ItemsOf(v2, h, After(t)) = Append(ItemsOf(v, h, t), v2[t])
<1> DEFINE c == Count(h, t)
           t2 == After(t)
<1>1. max_items \in Nat /\ max_items >= 1
  BY PoolAssumption
<1>2. c \in 0..max_items /\ t2 \in Slots
  BY CountIs, AfterIs
<1>3. Count(h, t2) = c + 1 /\ c < max_items
  <2>1. CASE t = max_items
    <3>1. t2 = 0 /\ h \in Int /\ h >= 1 /\ h <= max_items
      BY <2>1, Around
    <3> QED  BY <1>1, <2>1, <3>1 DEF Count
  <2>2. CASE t # max_items
    <3>1. /\ t2 = t + 1 /\ h \in Int /\ h >= 0 /\ h <= max_items /\ h # t + 1
          /\ t \in Int /\ 0 <= t /\ t < max_items
      BY <2>2, Around
    <3> QED  BY <1>1, <3>1 DEF Count
  <2> QED  BY <2>1, <2>2
<1>4. Slot(h, c + 1) = t
  BY <1>1 DEF Slot, Count, Slots
<1>5. \A i \in 1..c : Slot(h, i) \in Slots /\ Slot(h, i) # t
  BY <1>1 DEF Slot, Count, Slots
<1>6. ItemsOf(v, h, t) \in Seq(Item) /\ Len(ItemsOf(v, h, t)) = c
      /\ \A i \in 1..c : ItemsOf(v, h, t)[i] = v[Slot(h, i)]
  BY ItemsType
<1>7. \A i \in 1..(c + 1) : v2[Slot(h, i)] = IF i = c + 1 THEN v2[t] ELSE v[Slot(h, i)]
  BY <1>2, <1>4, <1>5 DEF DifferAt
<1> HIDE DEF c, t2
<1>8. ItemsOf(v2, h, t2) \in Seq(Item) /\ Len(ItemsOf(v2, h, t2)) = c + 1
      /\ \A i \in 1..(c + 1) : ItemsOf(v2, h, t2)[i] = v2[Slot(h, i)]
  <2>1. ItemsOf(v2, h, t2) \in Seq(Item) /\ Len(ItemsOf(v2, h, t2)) = Count(h, t2)
    BY <1>2, ItemsType
  <2>2. \A i \in 1..Count(h, t2) : ItemsOf(v2, h, t2)[i] = v2[Slot(h, i)]
    BY DEF ItemsOf
  <2> QED  BY <1>3, <2>1, <2>2
<1>9. \A i \in 1..(c + 1) : ItemsOf(v2, h, t2)[i] = Append(ItemsOf(v, h, t), v2[t])[i]
  BY <1>2, <1>6, <1>7, <1>8
<1>10. ItemsOf(v2, h, t2) = Append(ItemsOf(v, h, t), v2[t])
  BY <1>2, <1>6, <1>8, <1>9
<1> QED  BY <1>3, <1>6, <1>10 DEF t2

(* One with none: the oldest item is given up.                             *)
LEMMA OverrunOf ==
  ASSUME NEW v \in Rings, NEW v2 \in Rings, NEW h \in Slots, NEW t \in Slots,
         DifferAt(v, v2, t), After(t) = h
  PROVE  /\ Len(ItemsOf(v, h, t)) = max_items
         /\ ItemsOf(v2, After(h), h) = Append(Tail(ItemsOf(v, h, t)), v2[t])
<1> DEFINE h2 == After(h)
           m == max_items
<1>1. m \in Nat /\ m >= 1
  BY PoolAssumption
<1>2. After(t) \in Slots /\ h2 \in Slots
  BY AfterIs
<1>3. h \in Int /\ t \in Int /\ 0 <= h /\ h <= m /\ 0 <= t /\ t <= m
  BY Around
<1>4. (t = m /\ h = 0 /\ h2 = 1) \/ (t # m /\ h = t + 1 /\ h2 = (IF h = m THEN 0 ELSE h + 1))
  BY <1>1, Around
<1> HIDE DEF m, h2
<1>5. Count(h, t) = m /\ Count(h2, h) = m
  BY <1>1, <1>3, <1>4 DEF Count, m
<1>6. Slot(h2, m) = t
  BY <1>1, <1>3, <1>4 DEF Slot, m
<1>7. \A i \in 1..(m - 1) :
         Slot(h2, i) = Slot(h, i + 1) /\ Slot(h, i + 1) # t /\ Slot(h, i + 1) \in Slots
  BY <1>1, <1>3, <1>4 DEF Slot, Slots, m
<1>8. ItemsOf(v, h, t) \in Seq(Item) /\ Len(ItemsOf(v, h, t)) = m
      /\ \A i \in 1..m : ItemsOf(v, h, t)[i] = v[Slot(h, i)]
  BY <1>5, ItemsType
<1>9. \A i \in 1..m : v2[Slot(h2, i)] = IF i = m THEN v2[t] ELSE v[Slot(h, i + 1)]
  BY <1>1, <1>6, <1>7 DEF DifferAt
<1>10. ItemsOf(v2, h2, h) \in Seq(Item) /\ Len(ItemsOf(v2, h2, h)) = m
      /\ \A i \in 1..m : ItemsOf(v2, h2, h)[i] = v2[Slot(h2, i)]
  <2>1. ItemsOf(v2, h2, h) \in Seq(Item) /\ Len(ItemsOf(v2, h2, h)) = Count(h2, h)
    BY <1>2, ItemsType
  <2>2. \A i \in 1..Count(h2, h) : ItemsOf(v2, h2, h)[i] = v2[Slot(h2, i)]
    BY DEF ItemsOf
  <2> QED  BY <1>5, <2>1, <2>2
<1>11. Tail(ItemsOf(v, h, t)) \in Seq(Item) /\ Len(Tail(ItemsOf(v, h, t))) = m - 1
       /\ \A i \in 1..(m - 1) : Tail(ItemsOf(v, h, t))[i] = v[Slot(h, i + 1)]
  BY <1>1, <1>8
<1>12. ASSUME NEW i \in 1..m
       PROVE  ItemsOf(v2, h2, h)[i] = Append(Tail(ItemsOf(v, h, t)), v2[t])[i]
  <2>1. CASE i = m
    BY <1>1, <1>9, <1>10, <1>11, <2>1
  <2>2. CASE i # m
    <3>1. i \in 1..(m - 1)
      BY <1>1, <2>2
    <3>2. ItemsOf(v2, h2, h)[i] = v[Slot(h, i + 1)]
      BY <1>9, <1>10, <2>2
    <3>3. Append(Tail(ItemsOf(v, h, t)), v2[t])[i] = Tail(ItemsOf(v, h, t))[i]
      BY <1>1, <1>11, <3>1
    <3> QED  BY <1>11, <3>1, <3>2, <3>3
  <2> QED  BY <2>1, <2>2
<1>13. ItemsOf(v2, h2, h) = Append(Tail(ItemsOf(v, h, t)), v2[t])
  BY <1>1, <1>10, <1>11, <1>12
<1> QED  BY <1>8, <1>13 DEF m, h2

(* A removal.                                                              *)
LEMMA PopOf ==
  ASSUME NEW v \in Rings, NEW v2 \in Rings, NEW h \in Slots, NEW t \in Slots,
         DifferAt(v, v2, h), h # t
  PROVE  /\ ItemsOf(v, h, t) # <<>> /\ Head(ItemsOf(v, h, t)) = v[h]
         /\ ItemsOf(v2, After(h), t) = Tail(ItemsOf(v, h, t))
<1> DEFINE c == Count(h, t)
           h2 == After(h)
<1>1. max_items \in Nat /\ max_items >= 1
  BY PoolAssumption
<1>2. h2 \in Slots
  BY AfterIs
<1>3. /\ h \in Int /\ t \in Int /\ 0 <= h /\ h <= max_items /\ 0 <= t /\ t <= max_items
      /\ h2 = IF h = max_items THEN 0 ELSE h + 1
  BY Around
<1> HIDE DEF h2
<1>4. c \in 1..max_items /\ Count(h2, t) = c - 1
  BY <1>1, <1>3 DEF Count
<1>5. Slot(h, 1) = h
  BY <1>1, <1>3 DEF Slot
<1>6. \A i \in 1..(c - 1) :
         Slot(h2, i) = Slot(h, i + 1) /\ Slot(h, i + 1) # h /\ Slot(h, i + 1) \in Slots
  BY <1>1, <1>3, <1>4 DEF Slot, Slots
<1>7. ItemsOf(v, h, t) \in Seq(Item) /\ Len(ItemsOf(v, h, t)) = c
      /\ \A i \in 1..c : ItemsOf(v, h, t)[i] = v[Slot(h, i)]
  BY ItemsType
<1>8. \A i \in 1..(c - 1) : v2[Slot(h2, i)] = v[Slot(h, i + 1)]
  BY <1>6 DEF DifferAt
<1> HIDE DEF c
<1>9. ItemsOf(v2, h2, t) \in Seq(Item) /\ Len(ItemsOf(v2, h2, t)) = c - 1
      /\ \A i \in 1..(c - 1) : ItemsOf(v2, h2, t)[i] = v2[Slot(h2, i)]
  <2>1. ItemsOf(v2, h2, t) \in Seq(Item) /\ Len(ItemsOf(v2, h2, t)) = Count(h2, t)
    BY <1>2, ItemsType
  <2>2. \A i \in 1..Count(h2, t) : ItemsOf(v2, h2, t)[i] = v2[Slot(h2, i)]
    BY DEF ItemsOf
  <2> QED  BY <1>4, <2>1, <2>2
<1>10. Tail(ItemsOf(v, h, t)) \in Seq(Item) /\ Len(Tail(ItemsOf(v, h, t))) = c - 1
       /\ \A i \in 1..(c - 1) : Tail(ItemsOf(v, h, t))[i] = v[Slot(h, i + 1)]
  BY <1>4, <1>7
<1>11. ItemsOf(v2, h2, t) = Tail(ItemsOf(v, h, t))
  BY <1>4, <1>8, <1>9, <1>10
<1>12. ItemsOf(v, h, t) # <<>> /\ Head(ItemsOf(v, h, t)) = v[h]
  BY <1>4, <1>5, <1>7
<1> QED  BY <1>11, <1>12 DEF h2

-----------------------------------------------------------------------------
(* The invariant: types, free hands of waiting workers, and numbers left   *)
(* for what is being posted.                                               *)
Draft == [type : {"log"}, size : Sizes, id : {0}] \cup [type : {"flush"}, id : {0}]

Posting == {t \in Thread : pc[t] = "posting"}

RingInv ==
  /\ v_ \in Rings
  /\ head_ \in Slots /\ tail_ \in Slots
  /\ overrun_counter_ \in Nat

HandInv ==
  /\ hand \in [Worker -> PoolItem \cup {Nothing}]
  /\ worker \in [Worker -> {"none", "waiting", "notifying", "processing", "flushing", "done"}]
  /\ \A w \in Worker : worker[w] = "waiting" => hand[w] = Nothing

PostInv ==
  /\ pc \in [Thread -> {"idle", "posting", "returning", "destroying"}]
  /\ call \in [Thread -> Draft \cup {Nothing}]
  /\ \A t \in Posting : call[t] \in Draft
  /\ posted \in Seq(PoolItem)
  /\ Posting # {} => Len(posted) + Cardinality(Posting) <= MaxPosts

PoolInv == RingInv /\ HandInv /\ PostInv

(* A draft gets its number.                                                *)
LEMMA Numbered ==
  ASSUME NEW d \in Draft, NEW n \in 1..MaxPosts
  PROVE  [d EXCEPT !.id = n] \in PoolItem
<1>1. CASE d \in [type : {"log"}, size : Sizes, id : {0}]
  BY <1>1 DEF PoolItem, Message
<1>2. CASE d \in [type : {"flush"}, id : {0}]
  BY <1>2 DEF PoolItem, Message
<1> QED  BY <1>1, <1>2 DEF Draft

(* What push_back does to the queue.                                       *)
LEMMA PushStep ==
  ASSUME RingInv, NEW item \in PoolItem, push_back(item), UNCHANGED <<hand, faults>>
  PROVE  RingInv' /\ Queue!Next
<1>1. v_' = [v_ EXCEPT ![tail_] = item] /\ tail_' = After(tail_)
  BY DEF push_back
<1>2. Items = ItemsOf(v_, head_, tail_)
  BY ItemsAre DEF RingInv
<1>3. v_ \in Rings /\ head_ \in Slots /\ tail_ \in Slots /\ item \in Item
  BY DEF RingInv, Item
<1>4. After(tail_) \in Slots /\ After(head_) \in Slots
  BY <1>3, AfterIs
<1>5. v_' \in Rings /\ v_'[tail_] = item /\ DifferAt(v_, v_', tail_)
  BY <1>1, <1>3 DEF Rings, DifferAt
<1>6. CASE After(tail_) # head_
  <2>1. head_' = head_ /\ overrun_counter_' = overrun_counter_
    BY <1>1, <1>6 DEF push_back
  <2>2. RingInv'
    BY <1>1, <1>3, <1>4, <1>5, <2>1 DEF RingInv
  <2>3. Items' = ItemsOf(v_', head_', tail_')
    BY <2>2, ItemsWillBe DEF RingInv
  <2>4. Len(Items) < max_items /\ Items' = Append(Items, item)
    <3>1. /\ Len(ItemsOf(v_, head_, tail_)) < max_items
          /\ ItemsOf(v_', head_, After(tail_)) = Append(ItemsOf(v_, head_, tail_), v_'[tail_])
      BY <1>3, <1>6, <1>5, PushOf
    <3> QED  BY <1>1, <1>2, <1>5, <2>1, <2>3, <3>1
  <2>5. Queue!Push(item)
    BY <2>1, <2>4 DEF Queue!Push
  <2> QED  BY <2>2, <2>5 DEF Queue!Next
<1>7. CASE After(tail_) = head_
  <2>1. head_' = After(head_) /\ overrun_counter_' = overrun_counter_ + 1
    BY <1>1, <1>7 DEF push_back
  <2>2. RingInv'
    BY <1>1, <1>3, <1>4, <1>5, <2>1 DEF RingInv
  <2>3. Items' = ItemsOf(v_', head_', tail_')
    BY <2>2, ItemsWillBe DEF RingInv
  <2>4. Len(Items) = max_items /\ Items' = Append(Tail(Items), item)
    <3>1. /\ Len(ItemsOf(v_, head_, tail_)) = max_items
          /\ ItemsOf(v_', After(head_), head_) = Append(Tail(ItemsOf(v_, head_, tail_)), v_'[tail_])
      BY <1>3, <1>7, <1>5, OverrunOf
    <3> QED  BY <1>1, <1>2, <1>7, <1>5, <2>1, <2>3, <3>1
  <2>5. Queue!Overrun(item)
    BY <2>1, <2>4 DEF Queue!Overrun
  <2> QED  BY <2>2, <2>5 DEF Queue!Next
<1> QED  BY <1>6, <1>7

(* What dequeue_for does.                                                  *)
LEMMA PopStep ==
  ASSUME RingInv, HandInv, NEW w \in Worker, dequeue_for(w)
  PROVE  RingInv' /\ HandInv' /\ Queue!Next
<1>1. /\ head_ # tail_ /\ hand' = [hand EXCEPT ![w] = v_[head_]]
      /\ v_' = [v_ EXCEPT ![head_] = Nothing] /\ head_' = After(head_)
      /\ tail_' = tail_ /\ overrun_counter_' = overrun_counter_
      /\ worker[w] = "waiting" /\ worker' = [worker EXCEPT ![w] = "notifying"]
  BY DEF dequeue_for, pop_front, empty
<1>2. v_ \in Rings /\ head_ \in Slots /\ tail_ \in Slots /\ Nothing \in Item
  BY DEF RingInv, Item
<1>3. After(head_) \in Slots
  BY <1>2, AfterIs
<1>4. RingInv'
  BY <1>1, <1>2, <1>3 DEF RingInv, Rings
<1>5. HandInv'
  BY <1>1, <1>2 DEF HandInv, Rings, Item
<1>6. Items = ItemsOf(v_, head_, tail_) /\ Items' = ItemsOf(v_', head_', tail_')
  BY <1>2, <1>4, ItemsAre, ItemsWillBe DEF RingInv
<1>7. Items # <<>> /\ Head(Items) = v_[head_] /\ Items' = Tail(Items)
  <2>1. /\ ItemsOf(v_, head_, tail_) # <<>> /\ Head(ItemsOf(v_, head_, tail_)) = v_[head_]
        /\ ItemsOf(v_', After(head_), tail_) = Tail(ItemsOf(v_, head_, tail_))
    <3>1. v_' \in Rings /\ DifferAt(v_, v_', head_)
      BY <1>1, <1>2 DEF Rings, DifferAt
    <3>2. head_ # tail_ /\ v_ \in Rings /\ head_ \in Slots /\ tail_ \in Slots
      BY <1>1, <1>2
    <3> QED  BY <3>1, <3>2, PopOf
  <2> QED  BY <1>1, <1>6, <2>1
<1>8. hand[w] = Nothing
  BY <1>1 DEF HandInv
<1>9. faults' = faults
  BY DEF dequeue_for, sink
<1>10. Queue!Pop(w)
  BY <1>1, <1>7, <1>8, <1>9 DEF Queue!Pop
<1> QED  BY <1>4, <1>5, <1>10 DEF Queue!Next

(* A worker that has done what it took is Queue's Finish.                  *)
LEMMA FinishStep ==
  ASSUME RingInv, HandInv, NEW w \in Worker, UNCHANGED ring, hand' = [hand EXCEPT ![w] = Nothing],
         faults' \in {faults, faults + 1},
         NEW next \in {"waiting", "flushing", "done"}, worker' = [worker EXCEPT ![w] = next]
  PROVE  RingInv' /\ HandInv' /\ Queue!Next
<1>1. RingInv' /\ Items' = Items /\ overrun_counter_' = overrun_counter_
  BY DEF ring, RingInv, Items
<1>2. HandInv'
  BY DEF HandInv
<1>3. Queue!Finish(w)
  BY <1>1 DEF Queue!Finish
<1> QED  BY <1>1, <1>2, <1>3 DEF Queue!Next

-----------------------------------------------------------------------------
(* Fewer threads are posting than before, with as many posts or one more.  *)
LEMMA PostingIsFinite == IsFiniteSet(Posting) /\ Cardinality(Posting) \in Nat
<1>1. Posting \subseteq Thread /\ IsFiniteSet(Thread)
  BY PoolAssumption DEF Posting
<1> QED  BY <1>1, FS_Subset, FS_CardinalityType

LEMMA CallKeepsInv ==
  ASSUME PostInv, NEW t \in Thread, Call(t)
  PROVE  PostInv'
<1>1. /\ pc[t] = "idle" /\ Len(posted) + Cardinality(Posting) < MaxPosts
      /\ pc' = [pc EXCEPT ![t] = "posting"] /\ posted' = posted
      /\ \E item \in Draft : call' = [call EXCEPT ![t] = item]
  BY DEF Call, Posting, Draft
<1>2. Posting' = Posting \cup {t} /\ t \notin Posting
  BY <1>1 DEF Posting, PostInv
<1>3. Cardinality(Posting') = Cardinality(Posting) + 1
  BY <1>2, PostingIsFinite, FS_AddElement
<1>4. Len(posted) \in Nat /\ MaxPosts \in Nat
  BY PoolAssumption DEF PostInv
<1>5. Len(posted') + Cardinality(Posting') <= MaxPosts
  BY <1>1, <1>3, <1>4, PostingIsFinite
<1>6. /\ pc' \in [Thread -> {"idle", "posting", "returning", "destroying"}]
      /\ call' \in [Thread -> Draft \cup {Nothing}]
      /\ \A u \in Posting' : call'[u] \in Draft
  BY <1>1, <1>2 DEF PostInv, Posting
<1> QED  BY <1>1, <1>5, <1>6 DEF PostInv

LEMMA PostStep ==
  ASSUME RingInv, PostInv, NEW t \in Thread, post_async_msg_(t), UNCHANGED <<hand, faults>>
  PROVE  /\ RingInv' /\ PostInv'
         /\ Queue!Next \/ UNCHANGED ring
<1>1. pc[t] = "posting" /\ t \in Posting /\ call[t] \in Draft
  BY DEF post_async_msg_, Posting, PostInv
<1>2. CASE UNCHANGED <<ring, pc, call, left, posted>>
  BY <1>2 DEF ring, RingInv, PostInv, Posting
<1>3. ASSUME posted' = Append(posted, [call[t] EXCEPT !.id = Len(posted) + 1]),
             push_back([call[t] EXCEPT !.id = Len(posted) + 1]),
             call' = [call EXCEPT ![t] = Nothing], pc' = [pc EXCEPT ![t] = "returning"]
      PROVE  /\ RingInv' /\ PostInv'
             /\ Queue!Next \/ UNCHANGED ring
  <2> DEFINE item == [call[t] EXCEPT !.id = Len(posted) + 1]
  <2>1. Posting' = Posting \ {t}
    BY <1>3 DEF Posting, PostInv
  <2>2. Cardinality(Posting') = Cardinality(Posting) - 1
    BY <1>1, <2>1, PostingIsFinite, FS_RemoveElement
  <2>3. Cardinality(Posting) \in Nat /\ Len(posted) \in Nat /\ MaxPosts \in Nat
    BY PostingIsFinite, PoolAssumption DEF PostInv
  <2>4. Cardinality(Posting') \in Nat
    BY <2>1, PostingIsFinite, FS_RemoveElement, FS_CardinalityType
  <2>5. Len(posted) + 1 \in 1..MaxPosts /\ Len(posted) + 1 + Cardinality(Posting') <= MaxPosts
    BY <1>1, <2>2, <2>3, <2>4 DEF PostInv
  <2>6. item \in PoolItem
    BY <1>1, <2>5, Numbered
  <2>7. RingInv' /\ Queue!Next
    BY <1>3, <2>6, PushStep
  <2>8. posted' \in Seq(PoolItem) /\ Len(posted') = Len(posted) + 1
    BY <1>3, <2>6 DEF PostInv
  <2>9. /\ pc' \in [Thread -> {"idle", "posting", "returning", "destroying"}]
        /\ call' \in [Thread -> Draft \cup {Nothing}]
        /\ \A u \in Posting' : call'[u] \in Draft
    BY <1>3, <2>1 DEF PostInv, Posting
  <2>10. PostInv'
    BY <2>5, <2>8, <2>9 DEF PostInv
  <2> QED  BY <2>7, <2>10
<1> QED  BY <1>2, <1>3 DEF post_async_msg_, Wait

(* The other steps of a thread begin and end no post.                      *)
LEMMA PostStays ==
  ASSUME PostInv, NEW t \in Thread, pc[t] # "posting", UNCHANGED <<call, posted>>,
         NEW next \in {"idle", "destroying"}, pc' = [pc EXCEPT ![t] = next]
  PROVE  PostInv'
<1>1. Posting' = Posting
  BY DEF Posting, PostInv
<1> QED  BY <1>1 DEF PostInv

-----------------------------------------------------------------------------
LEMMA InitInv == Init => PoolInv /\ Queue!Init
<1> SUFFICES ASSUME Init  PROVE PoolInv /\ Queue!Init
  OBVIOUS
<1>1. 0 \in Slots
  BY PoolAssumption DEF Slots
<1>2. RingInv
  BY <1>1 DEF Init, RingInv, Rings, Item, EmptyRing, Slots
<1>3. HandInv
  BY DEF Init, HandInv, Started, NoHands
<1>4. PostInv
  <2>1. Posting = {}
    BY DEF Init, Posting, Unborn
  <2>2. posted \in Seq(PoolItem)
    <3>1. posted = KeptIn(Before)
      BY DEF Init, InitSink, Kept
    <3>2. Message \subseteq PoolItem
      BY DEF PoolItem
    <3>3. posted \in Seq(Message)
      BY <3>1, BeforeIs
    <3> QED  BY <3>2, <3>3
  <2> QED  BY <2>1, <2>2 DEF Init, PostInv, Unborn, NoCalls
<1>5. Items = <<>>
  <2>1. Items = ItemsOf(v_, head_, tail_) /\ Count(head_, tail_) = 0
    BY <1>1, ItemsAre DEF Init, Count
  <2> QED  BY <1>1, <1>2, <2>1, ItemsType DEF RingInv
<1>6. Queue!Init
  BY <1>5 DEF Init, InitSink, NoHands, Queue!Init
<1> QED  BY <1>2, <1>3, <1>4, <1>6 DEF PoolInv

LEMMA CrashStep ==
  ASSUME PoolInv, Crash
  PROVE  PoolInv' /\ Queue!Next
<1>1. 0 \in Slots
  BY PoolAssumption DEF Slots
<1>2. RingInv'
  BY <1>1 DEF Crash, RingInv, Rings, Item, EmptyRing, Slots
<1>3. HandInv'
  BY DEF Crash, HandInv, NoHands
<1>4. PostInv'
  <2>1. Posting' = {}
    BY DEF Crash, Posting, Unborn
  <2> QED  BY <2>1 DEF Crash, PoolInv, PostInv, Unborn, NoCalls
<1>5. Items' = <<>>
  <2>1. head_' = 0 /\ tail_' = 0
    BY DEF Crash
  <2>2. Items' = ItemsOf(v_', head_', tail_') /\ Count(head_', tail_') = 0
    BY <1>1, <2>1, ItemsWillBe DEF Count
  <2> QED  BY <2>2 DEF ItemsOf
<1>6. Queue!Restart
  BY <1>5 DEF Crash, CrashAndOpen, Fails, NoHands, Queue!Restart
<1> QED  BY <1>2, <1>3, <1>4, <1>6 DEF PoolInv, Queue!Next

LEMMA NextStep ==
  ASSUME PoolInv, [Next]_vars
  PROVE  PoolInv' /\ (Queue!Next \/ UNCHANGED <<Items, overrun_counter_, hand, faults>>)
<1>0. UNCHANGED ring => RingInv' /\ UNCHANGED <<Items, overrun_counter_>>
  BY DEF PoolInv, RingInv, ring, Items
<1>a. UNCHANGED workers => HandInv' /\ UNCHANGED hand
  BY DEF PoolInv, HandInv, workers
<1>b. UNCHANGED <<pc, call, posted>> => PostInv'
  BY DEF PoolInv, PostInv, Posting
<1>c. UNCHANGED sink => UNCHANGED faults
  BY DEF sink
<1>1. CASE UNCHANGED vars
  BY <1>1, <1>0, <1>a, <1>b, <1>c DEF vars, threads, PoolInv
<1>2. ASSUME NEW t \in Thread, post_async_msg_(t)
      PROVE  PoolInv' /\ (Queue!Next \/ UNCHANGED <<Items, overrun_counter_, hand, faults>>)
  BY <1>2, <1>0, <1>a, <1>c, PostStep DEF PoolInv, post_async_msg_
<1>3. ASSUME NEW t \in Thread, Return(t) \/ shutdown(t) \/ Join(t)
      PROVE  PoolInv' /\ UNCHANGED <<Items, overrun_counter_, hand, faults>>
  <2>1. UNCHANGED ring /\ UNCHANGED workers /\ UNCHANGED <<call, posted>> /\ pc[t] # "posting"
        /\ UNCHANGED faults
    BY <1>3, <1>c DEF Return, shutdown, Join
  <2>2. \E next \in {"idle", "destroying"} : pc' = [pc EXCEPT ![t] = next]
    BY <1>3 DEF Return, shutdown, Join, LetGo
  <2> QED  BY <1>0, <1>a, <2>1, <2>2, PostStays DEF PoolInv
<1>4. ASSUME NEW t \in Thread, PostTerminate(t)
      PROVE  PoolInv' /\ (Queue!Next \/ UNCHANGED <<Items, overrun_counter_, hand, faults>>)
  <2>1. UNCHANGED workers /\ UNCHANGED <<pc, call, posted>> /\ UNCHANGED faults
    BY <1>4, <1>c DEF PostTerminate, Wait
  <2>2. UNCHANGED ring \/ push_back([type |-> "terminate"])
    BY <1>4 DEF PostTerminate, Wait
  <2>3. [type |-> "terminate"] \in PoolItem
    BY DEF PoolItem, Message
  <2> QED  BY <1>0, <1>a, <1>b, <2>1, <2>2, <2>3, PushStep DEF PoolInv
<1>5. ASSUME NEW t \in Thread, Call(t)
      PROVE  PoolInv' /\ UNCHANGED <<Items, overrun_counter_, hand, faults>>
  BY <1>5, <1>0, <1>a, <1>c, CallKeepsInv DEF PoolInv, Call
<1>6. ASSUME NEW t \in Thread, SpuriousWakeup(t)
      PROVE  PoolInv' /\ UNCHANGED <<Items, overrun_counter_, hand, faults>>
  BY <1>6, <1>0, <1>a, <1>b, <1>c DEF PoolInv, SpuriousWakeup
<1>7. ASSUME NEW w \in Worker, dequeue_for(w)
      PROVE  PoolInv' /\ Queue!Next
  BY <1>7, <1>b, PopStep DEF PoolInv, dequeue_for, threads
<1>8. ASSUME NEW w \in Worker, notify_one(w)
      PROVE  PoolInv' /\ UNCHANGED <<Items, overrun_counter_, hand, faults>>
  <2>1. UNCHANGED ring /\ UNCHANGED <<pc, call, posted>> /\ UNCHANGED hand
        /\ worker' = [worker EXCEPT ![w] = "processing"] /\ UNCHANGED faults
    BY <1>8, <1>c DEF notify_one
  <2>2. HandInv'
    BY <2>1 DEF PoolInv, HandInv
  <2> QED  BY <1>0, <1>b, <2>1, <2>2 DEF PoolInv
<1>9. ASSUME NEW w \in Worker, backend_log_(w) \/ backend_flush_(w) \/ Terminated(w)
      PROVE  PoolInv' /\ Queue!Next
  <2>1. UNCHANGED ring /\ UNCHANGED <<pc, call, posted>> /\ hand' = [hand EXCEPT ![w] = Nothing]
    BY <1>9 DEF backend_log_, backend_flush_, Terminated, threads
  <2>2. \E next \in {"waiting", "flushing", "done"} : worker' = [worker EXCEPT ![w] = next]
    BY <1>9 DEF backend_log_, backend_flush_, Terminated
  <2>3. faults' \in {faults, faults + 1}
    BY <1>9, <1>c DEF backend_log_, backend_flush_, Terminated, Write, FailToWrite, Fails, flush_
  <2> QED  BY <1>b, <2>1, <2>2, <2>3, FinishStep DEF PoolInv
<1> QED
  BY <1>1, <1>2, <1>3, <1>4, <1>5, <1>6, <1>7, <1>8, <1>9, CrashStep
     DEF Next, ThreadStep, WorkerStep

(***************************************************************************)
(* The state of the pool keeps its type: a waiting worker has nothing in   *)
(* hand, and whoever posts has a message to post and a number for it.      *)
(***************************************************************************)
THEOREM TypeCorrect == Spec => []PoolInv
<1>1. Init => PoolInv
  BY InitInv
<1>2. PoolInv /\ [Next]_vars => PoolInv'
  BY NextStep
<1> QED  BY <1>1, <1>2, PTL DEF Spec

(***************************************************************************)
(* The ring is a queue for every capacity (IsAQueue): it gives up nothing  *)
(* but its oldest item, only when it is full, and counts what it gives up. *)
(***************************************************************************)
THEOREM Refinement == Spec => IsAQueue
<1>1. Init => Queue!Init
  BY InitInv
<1>2. PoolInv /\ [Next]_vars => [Queue!Next]_<<Items, overrun_counter_, hand, faults>>
  BY NextStep
<1> QED  BY <1>1, <1>2, TypeCorrect, PTL DEF Spec, IsAQueue, Queue!Spec

-----------------------------------------------------------------------------
(***************************************************************************)
(* The end of the pool.  As long as somebody holds it, no terminate item   *)
(* is anywhere.  After that the queue is what was posted before, if any is *)
(* left, and the terminate items behind it; and those in the queue, those  *)
(* workers have taken and those still to be posted are one per worker.     *)
(***************************************************************************)
Held == tp_ \/ Holders # {}

Destroying == {t \in Thread : pc[t] = "destroying"}

(* The workers that have taken a terminate item.                           *)
Taken ==
  {w \in Worker : \/ worker[w] = "done"
                  \/ worker[w] \in {"notifying", "processing"} /\ hand[w].type = "terminate"}

ToPost == IF Destroying = {} THEN 0 ELSE left

NoTerminate(items) == \A i \in 1..Len(items) : items[i].type # "terminate"

(* The first k items are of the time before, the others terminate items.   *)
SplitAt(items, k) ==
  /\ k \in 0..Len(items)
  /\ \A i \in 1..Len(items) : (items[i].type = "terminate") <=> (i > k)

Ending(items) ==
  \E k \in 0..Len(items) :
     /\ SplitAt(items, k)
     /\ Taken # {} => k = 0
     /\ Len(items) - k + Cardinality(Taken) + ToPost = Cardinality(threads_)

EndInv ==
  /\ threads_ # {} /\ left \in Nat
  /\ \A w \in Worker : worker[w] = "done" => hand[w] = Nothing
  /\ \A w \in Worker : worker[w] = "none" => hand[w] = Nothing
  /\ Destroying # {} => ~ Held
  /\ Held => Taken = {} /\ NoTerminate(Items)
  /\ ~ Held => Ending(Items)
  /\ ~ Held /\ Destroying = {} => \A w \in threads_ : worker[w] = "done"

LEMMA Workers ==
  /\ IsFiniteSet(Taken) /\ Cardinality(Taken) \in Nat
  /\ IsFiniteSet(threads_) /\ Cardinality(threads_) \in Nat
<1>1. MaxWorkers \in Nat /\ IsFiniteSet(Worker)
  <2>0. MaxWorkers \in 1..1000
    BY PoolAssumption
  <2>1. MaxWorkers \in Nat
    BY <2>0
  <2>2. 0 \in Int /\ 1 \in Int /\ MaxWorkers \in Int
    BY <2>1
  <2> QED  BY <2>1, <2>2, FS_Interval DEF Worker
<1> QED  BY <1>1, FS_Subset, FS_CardinalityType DEF Taken, threads_

LEMMA PushItems ==
  ASSUME RingInv, NEW item \in PoolItem, push_back(item)
  PROVE  /\ ~ full => Items' = Append(Items, item)
         /\ full => Items # <<>> /\ Items' = Append(Tail(Items), item)
         /\ Items \in Seq(Item)
<1>1. v_' = [v_ EXCEPT ![tail_] = item] /\ tail_' = After(tail_)
  BY DEF push_back
<1>2. v_ \in Rings /\ head_ \in Slots /\ tail_ \in Slots /\ item \in Item
  BY DEF RingInv, Item
<1>3. Items = ItemsOf(v_, head_, tail_) /\ Items \in Seq(Item) /\ max_items \in Nat \ {0}
  BY <1>2, ItemsAre, ItemsType, PoolAssumption
<1>4. After(tail_) \in Slots /\ After(head_) \in Slots
  BY <1>2, AfterIs
<1>5. v_' \in Rings /\ v_'[tail_] = item /\ DifferAt(v_, v_', tail_)
  BY <1>1, <1>2 DEF Rings, DifferAt
<1>6. CASE ~ full
  <2>1. head_' = head_ /\ After(tail_) # head_
    BY <1>1, <1>6 DEF push_back, full
  <2>2. Items' = ItemsOf(v_', head_', tail_')
    BY <1>1, <1>2, <1>4, <2>1, ItemsWillBe
  <2>3. ItemsOf(v_', head_, After(tail_)) = Append(ItemsOf(v_, head_, tail_), v_'[tail_])
    BY <1>2, <1>5, <2>1, PushOf
  <2> QED  BY <1>1, <1>3, <1>5, <1>6, <2>1, <2>2, <2>3
<1>7. CASE full
  <2>1. head_' = After(head_) /\ After(tail_) = head_
    BY <1>1, <1>7 DEF push_back, full
  <2>2. Items' = ItemsOf(v_', head_', tail_')
    BY <1>1, <1>2, <1>4, <2>1, ItemsWillBe
  <2>3. /\ Len(ItemsOf(v_, head_, tail_)) = max_items
        /\ ItemsOf(v_', After(head_), head_) = Append(Tail(ItemsOf(v_, head_, tail_)), v_'[tail_])
    BY <1>2, <1>5, <2>1, OverrunOf
  <2>4. Items # <<>>
    BY <1>3, <2>3
  <2> QED  BY <1>1, <1>3, <1>5, <1>7, <2>1, <2>2, <2>3, <2>4
<1> QED  BY <1>3, <1>6, <1>7

LEMMA PopItems ==
  ASSUME RingInv, NEW w \in Worker, dequeue_for(w)
  PROVE  /\ Items # <<>> /\ v_[head_] = Items[1] /\ Items' = Tail(Items)
         /\ Items \in Seq(Item)
<1>1. /\ head_ # tail_ /\ v_' = [v_ EXCEPT ![head_] = Nothing] /\ head_' = After(head_)
      /\ tail_' = tail_
  BY DEF dequeue_for, pop_front, empty
<1>2. v_ \in Rings /\ head_ \in Slots /\ tail_ \in Slots /\ Nothing \in Item
  BY DEF RingInv, Item
<1>3. After(head_) \in Slots
  BY <1>2, AfterIs
<1>4. v_' \in Rings /\ DifferAt(v_, v_', head_)
  BY <1>1, <1>2 DEF Rings, DifferAt
<1>5. Items = ItemsOf(v_, head_, tail_) /\ Items \in Seq(Item)
  BY <1>2, ItemsAre, ItemsType
<1>6. Items' = ItemsOf(v_', head_', tail_')
  BY <1>1, <1>2, <1>3, ItemsWillBe
<1>7. /\ ItemsOf(v_, head_, tail_) # <<>> /\ Head(ItemsOf(v_, head_, tail_)) = v_[head_]
      /\ ItemsOf(v_', After(head_), tail_) = Tail(ItemsOf(v_, head_, tail_))
  <2>1. head_ # tail_ /\ v_ \in Rings /\ head_ \in Slots /\ tail_ \in Slots
    BY <1>1, <1>2
  <2> QED  BY <1>4, <2>1, PopOf
<1>8. Items # <<>> /\ Head(Items) = v_[head_] /\ Items' = Tail(Items)
  BY <1>1, <1>5, <1>6, <1>7
<1>9. Head(Items) = Items[1]
  BY <1>5, <1>8
<1> QED  BY <1>5, <1>8, <1>9

(* Sequences of items.                                                     *)
LEMMA AppendSplit ==
  ASSUME NEW items \in Seq(Item), NEW k, SplitAt(items, k)
  PROVE  SplitAt(Append(items, [type |-> "terminate"]), k)
<1> DEFINE e == [type |-> "terminate"]
           p == Append(items, e)
<1>1. Len(items) \in Nat /\ Len(p) = Len(items) + 1 /\ p[Len(items) + 1] = e
      /\ \A i \in 1..Len(items) : p[i] = items[i]
  OBVIOUS
<1>2. e.type = "terminate"
  OBVIOUS
<1> HIDE DEF p, e
<1>3. \A i \in 1..Len(p) : i \in 1..Len(items) \/ i = Len(items) + 1
  BY <1>1
<1>4. k \in 0..Len(items) /\ k \in 0..Len(p) /\ Len(items) + 1 > k
  BY <1>1 DEF SplitAt
<1>5. \A i \in 1..Len(p) : (p[i].type = "terminate") <=> (i > k)
  BY <1>1, <1>2, <1>3, <1>4 DEF SplitAt
<1>6. SplitAt(p, k)
  BY <1>4, <1>5 DEF SplitAt
<1> QED  BY <1>6 DEF p, e

LEMMA TailSplit ==
  ASSUME NEW items \in Seq(Item), items # <<>>, NEW k, SplitAt(items, k)
  PROVE  /\ Len(items) \in Nat \ {0} /\ Len(Tail(items)) = Len(items) - 1 /\ k \in 0..Len(items)
         /\ k = 0 => items[1].type = "terminate" /\ SplitAt(Tail(items), 0)
         /\ k # 0 => items[1].type # "terminate" /\ SplitAt(Tail(items), k - 1)
<1> DEFINE p == Tail(items)
<1>1. /\ Len(items) \in Nat \ {0} /\ Len(p) = Len(items) - 1
      /\ \A i \in 1..Len(p) : p[i] = items[i + 1]
  OBVIOUS
<1> HIDE DEF p
<1>2. k \in 0..Len(items) /\ \A i \in 1..Len(items) : (items[i].type = "terminate") <=> (i > k)
  BY DEF SplitAt
<1>3. \A i \in 1..Len(p) : i + 1 \in 1..Len(items)
  BY <1>1
<1>4. 1 \in 1..Len(items)
  BY <1>1
<1>5. CASE k = 0
  BY <1>1, <1>2, <1>3, <1>4, <1>5 DEF SplitAt, p
<1>6. CASE k # 0
  <2>1. k - 1 \in 0..Len(p) /\ ~ (1 > k)
    BY <1>1, <1>2, <1>6
  <2>2. ASSUME NEW i \in 1..Len(p)  PROVE (p[i].type = "terminate") <=> (i > k - 1)
    <3>1. (items[i + 1].type = "terminate") <=> (i + 1 > k)
      BY <1>2, <1>3
    <3> QED  BY <1>1, <1>2, <3>1
  <2>3. SplitAt(p, k - 1)
    BY <2>1, <2>2 DEF SplitAt
  <2> QED  BY <1>1, <1>2, <1>4, <1>6, <2>1, <2>3 DEF p
<1> QED  BY <1>5, <1>6

LEMMA AppendNoTerminate ==
  ASSUME NEW items \in Seq(Item), NoTerminate(items), NEW item, item.type # "terminate"
  PROVE  NoTerminate(Append(items, item)) /\ (items # <<>> => NoTerminate(Tail(items)))
<1>1. Len(items) \in Nat /\ Len(Append(items, item)) = Len(items) + 1
      /\ Append(items, item)[Len(items) + 1] = item
      /\ \A i \in 1..Len(items) : Append(items, item)[i] = items[i]
  OBVIOUS
<1>2. \A i \in 1..(Len(items) + 1) : i \in 1..Len(items) \/ i = Len(items) + 1
  BY <1>1
<1>3. NoTerminate(Append(items, item))
  BY <1>1, <1>2 DEF NoTerminate
<1>4. ASSUME items # <<>>  PROVE NoTerminate(Tail(items))
  <2>1. Len(Tail(items)) = Len(items) - 1 /\ \A i \in 1..Len(Tail(items)) : Tail(items)[i] = items[i + 1]
    BY <1>4
  <2>2. \A i \in 1..Len(Tail(items)) : i + 1 \in 1..Len(items)
    BY <1>1, <2>1
  <2> QED  BY <2>1, <2>2 DEF NoTerminate
<1> QED  BY <1>3, <1>4

-----------------------------------------------------------------------------
(* Nothing happens to the queue, to the workers or to who holds the pool.  *)
LEMMA EndUnchanged ==
  ASSUME EndInv, UNCHANGED <<ring, workers>>, left' = left,
         Held' = Held, Destroying' = Destroying
  PROVE  EndInv'
<1>1. Items' = Items /\ Taken' = Taken /\ threads_' = threads_
      /\ worker' = worker /\ hand' = hand
  BY DEF Items, ring, workers, Taken, threads_
<1>2. ToPost' = ToPost
  BY DEF ToPost
<1>3. Ending(Items)' <=> Ending(Items)
  BY <1>1, <1>2 DEF Ending
<1> QED  BY <1>1, <1>3 DEF EndInv

(* A message is posted: somebody holds the pool.                           *)
LEMMA EndPost ==
  ASSUME RingInv, EndInv, Held, Held', NEW item \in PoolItem, item.type # "terminate",
         push_back(item), UNCHANGED workers, left' = left, Destroying' = Destroying
  PROVE  EndInv'
<1>1. Taken' = Taken /\ threads_' = threads_ /\ worker' = worker /\ hand' = hand
  BY DEF workers, Taken, threads_
<1>2. Taken = {} /\ NoTerminate(Items) /\ Destroying = {}
  BY DEF EndInv
<1>3. /\ Items' = Append(Items, item) \/ (Items # <<>> /\ Items' = Append(Tail(Items), item))
      /\ Items \in Seq(Item)
  BY PushItems
<1>4. NoTerminate(Items')
  <2>1. CASE Items' = Append(Items, item)
    BY <1>2, <1>3, <2>1, AppendNoTerminate
  <2>2. CASE Items # <<>> /\ Items' = Append(Tail(Items), item)
    <3>1. NoTerminate(Tail(Items)) /\ Tail(Items) \in Seq(Item)
      BY <1>2, <1>3, <2>2, AppendNoTerminate
    <3> QED  BY <2>2, <3>1, AppendNoTerminate
  <2> QED  BY <1>3, <2>1, <2>2
<1>5. NoTerminate(Items)'
  BY <1>4 DEF NoTerminate
<1> QED  BY <1>1, <1>2, <1>5 DEF EndInv

(* The last one lets go of the pool.                                       *)
LEMMA EndBegins ==
  ASSUME RingInv, EndInv, Held, ~ Held', Destroying' # {}, left' = Cardinality(threads_),
         UNCHANGED <<ring, workers>>
  PROVE  EndInv'
<1>1. Items' = Items /\ Taken' = Taken /\ threads_' = threads_
      /\ worker' = worker /\ hand' = hand
  BY DEF Items, ring, workers, Taken, threads_
<1>2. Taken = {} /\ NoTerminate(Items) /\ Items \in Seq(Item)
  BY ItemsAre, ItemsType DEF EndInv, RingInv
<1>3. Len(Items) \in Nat /\ Cardinality(threads_) \in Nat /\ Cardinality(Taken) = 0
  BY <1>2, Workers, FS_EmptySet
<1>4. SplitAt(Items, Len(Items))
  BY <1>2, <1>3 DEF SplitAt, NoTerminate
<1>5. ToPost' = Cardinality(threads_)
  BY DEF ToPost
<1>6. Ending(Items)'
  <2>1. Len(Items) - Len(Items) + Cardinality(Taken) + ToPost' = Cardinality(threads_)
    BY <1>3, <1>5
  <2>2. Len(Items) \in 0..Len(Items)
    BY <1>3
  <2> QED  BY <1>1, <1>2, <1>4, <2>1, <2>2 DEF Ending
<1> QED  BY <1>1, <1>3, <1>6 DEF EndInv

(* ~thread_pool posts a terminate item.                                    *)
LEMMA EndTerminate ==
  ASSUME RingInv, EndInv, Destroying # {}, left > 0, ~ full,
         push_back([type |-> "terminate"]), left' = left - 1,
         UNCHANGED workers, Held' = Held, Destroying' = Destroying
  PROVE  EndInv'
<1> DEFINE e == [type |-> "terminate"]
<1>1. Taken' = Taken /\ threads_' = threads_ /\ worker' = worker /\ hand' = hand
  BY DEF workers, Taken, threads_
<1>2. ~ Held /\ left \in Nat
  BY DEF EndInv
<1>3. PICK k \in 0..Len(Items) :
        /\ SplitAt(Items, k)
        /\ Taken # {} => k = 0
        /\ Len(Items) - k + Cardinality(Taken) + ToPost = Cardinality(threads_)
  BY <1>2 DEF EndInv, Ending
<1>4. e \in PoolItem
  BY DEF PoolItem, Message
<1>5. Items' = Append(Items, e) /\ Items \in Seq(Item)
  BY <1>4, PushItems
<1>6. ToPost = left /\ ToPost' = left - 1
  BY DEF ToPost
<1>7. Len(Items) \in Nat /\ Len(Items') = Len(Items) + 1 /\ Cardinality(Taken) \in Nat
  BY <1>5, Workers
<1>8. SplitAt(Items', k)
  BY <1>3, <1>5, AppendSplit
<1>9. Len(Items') - k + Cardinality(Taken) + ToPost' = Cardinality(threads_)
  BY <1>2, <1>3, <1>6, <1>7, Workers
<1>10. k \in 0..Len(Items')
  BY <1>3, <1>7
<1>11. Ending(Items)'
  BY <1>1, <1>3, <1>8, <1>9, <1>10 DEF Ending, SplitAt
<1>12. left' \in Nat
  BY <1>2
<1> QED  BY <1>1, <1>2, <1>11, <1>12 DEF EndInv

LEMMA EndJoin ==
  ASSUME EndInv, Destroying # {}, left = 0, \A w \in threads_ : worker[w] = "done",
         UNCHANGED <<ring, workers>>, left' = left, Held' = Held
  PROVE  EndInv'
<1>1. Items' = Items /\ Taken' = Taken /\ threads_' = threads_
      /\ worker' = worker /\ hand' = hand
  BY DEF Items, ring, workers, Taken, threads_
<1>2. ToPost = 0 /\ ToPost' = 0 /\ ~ Held
  BY DEF ToPost, EndInv
<1>3. Ending(Items)'
  BY <1>1, <1>2 DEF Ending, EndInv
<1> QED  BY <1>1, <1>2, <1>3 DEF EndInv

(* A worker takes an item.                                                 *)
LEMMA EndDequeue ==
  ASSUME RingInv, HandInv, EndInv, NEW w \in Worker, dequeue_for(w)
  PROVE  EndInv'
<1>1. /\ worker[w] = "waiting" /\ worker' = [worker EXCEPT ![w] = "notifying"]
      /\ hand' = [hand EXCEPT ![w] = v_[head_]]
      /\ UNCHANGED <<tp_, pc, left>>
  BY DEF dequeue_for, pop_front, threads
<1>2. /\ Held' = Held /\ Destroying' = Destroying /\ ToPost' = ToPost
  BY <1>1 DEF Held, Holders, Destroying, ToPost
<1>3. /\ threads_' = threads_ /\ w \in threads_ /\ w \notin Taken
      /\ \A u \in Worker : worker'[u] = "done" => u # w /\ worker[u] = "done"
      /\ \A u \in Worker : worker'[u] = "none" => u # w /\ worker[u] = "none"
      /\ \A u \in Worker \ {w} : worker'[u] = worker[u] /\ hand'[u] = hand[u]
      /\ worker'[w] = "notifying" /\ hand'[w] = v_[head_]
  BY <1>1 DEF threads_, Taken, HandInv
<1>4. /\ Items # <<>> /\ v_[head_] = Items[1] /\ Items' = Tail(Items) /\ Items \in Seq(Item)
  BY PopItems
<1>5. /\ Items[1].type = "terminate" => Taken' = Taken \cup {w}
      /\ Items[1].type # "terminate" => Taken' = Taken
  BY <1>3, <1>4 DEF Taken
<1>6. \A u \in Worker : worker'[u] \in {"done", "none"} => hand'[u] = Nothing
  BY <1>3 DEF EndInv
<1>7. CASE Held
  <2>1. Taken = {} /\ NoTerminate(Items)
    BY <1>7 DEF EndInv
  <2>2. 1 \in 1..Len(Items)
    BY <1>4
  <2>3. Taken' = {}
    BY <1>5, <2>1, <2>2 DEF NoTerminate
  <2>4. NoTerminate(Tail(Items))
    <3> DEFINE e == [type |-> "log"]
    <3>1. e.type # "terminate"
      OBVIOUS
    <3> HIDE DEF e
    <3> QED  BY <1>4, <2>1, <3>1, AppendNoTerminate
  <2>5. NoTerminate(Items)'
    BY <1>4, <2>4 DEF NoTerminate
  <2> QED  BY <1>1, <1>2, <1>3, <1>6, <1>7, <2>3, <2>5 DEF EndInv
<1>8. CASE ~ Held
  <2>1. PICK k \in 0..Len(Items) :
          /\ SplitAt(Items, k)
          /\ Taken # {} => k = 0
          /\ Len(Items) - k + Cardinality(Taken) + ToPost = Cardinality(threads_)
    BY <1>8 DEF EndInv, Ending
  <2>2. /\ Len(Items) \in Nat \ {0} /\ Len(Tail(Items)) = Len(Items) - 1 /\ k \in 0..Len(Items)
        /\ k = 0 => Items[1].type = "terminate" /\ SplitAt(Tail(Items), 0)
        /\ k # 0 => Items[1].type # "terminate" /\ SplitAt(Tail(Items), k - 1)
    BY <1>4, <2>1, TailSplit
  <2>3. ToPost \in Nat
    BY DEF ToPost, EndInv
  <2>4. Ending(Items)'
    <3>1. CASE k = 0
      <4>1. Taken' = Taken \cup {w}
        BY <1>5, <2>2, <3>1
      <4>2. Cardinality(Taken') = Cardinality(Taken) + 1
        BY <1>3, <4>1, Workers, FS_AddElement
      <4>3. Len(Items') - 0 + Cardinality(Taken') + ToPost' = Cardinality(threads_')
        BY <1>2, <1>3, <1>4, <2>1, <2>2, <2>3, <3>1, <4>2, Workers
      <4>4. 0 \in 0..Len(Items') /\ SplitAt(Items', 0)
        BY <1>4, <2>2, <3>1
      <4> QED  BY <4>3, <4>4 DEF Ending, SplitAt
    <3>2. CASE k # 0
      <4>1. Taken' = Taken /\ Taken = {}
        BY <1>5, <2>1, <2>2, <3>2
      <4>2. Len(Items') - (k - 1) + Cardinality(Taken) + ToPost = Cardinality(threads_)
        BY <1>4, <2>1, <2>2, <2>3, Workers
      <4>3. k - 1 \in 0..Len(Items') /\ SplitAt(Items', k - 1)
        BY <1>4, <2>2, <3>2
      <4> QED  BY <1>2, <1>3, <4>1, <4>2, <4>3 DEF Ending, SplitAt
    <3> QED  BY <3>1, <3>2
  <2>5. Destroying # {}
    BY <1>1, <1>3, <1>8 DEF EndInv
  <2> QED  BY <1>1, <1>2, <1>3, <1>6, <1>8, <2>4, <2>5 DEF EndInv
<1> QED  BY <1>7, <1>8

(* The other steps of a worker.                                            *)
LEMMA EndWorker ==
  ASSUME HandInv, EndInv, NEW w \in Worker, UNCHANGED <<ring, tp_, pc, left>>,
         worker[w] \in {"notifying", "processing", "flushing"},
         NEW next \in {"waiting", "processing", "flushing", "done"},
         worker' = [worker EXCEPT ![w] = next],
         hand' = hand \/ hand' = [hand EXCEPT ![w] = Nothing],
         next = "processing" => hand' = hand /\ worker[w] = "notifying",
         next = "done" => worker[w] = "processing" /\ hand[w].type = "terminate"
                          /\ hand' = [hand EXCEPT ![w] = Nothing],
         next \in {"waiting", "flushing"} =>
            worker[w] = "flushing" \/ (worker[w] = "processing" /\ hand[w].type # "terminate")
  PROVE  EndInv'
<1>1. Items' = Items
  BY DEF Items, ring
<1>2. /\ Held' = Held /\ Destroying' = Destroying /\ ToPost' = ToPost
  BY DEF Held, Holders, Destroying, ToPost
<1>3. /\ worker'[w] = next
      /\ \A u \in Worker \ {w} : worker'[u] = worker[u] /\ hand'[u] = hand[u]
      /\ hand' = [hand EXCEPT ![w] = Nothing] => hand'[w] = Nothing
  BY DEF HandInv
<1>4. threads_' = threads_ /\ w \in threads_
  BY <1>3 DEF threads_
<1>5. w \in Taken' <=> w \in Taken
  BY <1>3 DEF Taken
<1>6. Taken' = Taken
  BY <1>3, <1>5 DEF Taken
<1>7. \A u \in Worker : worker'[u] \in {"done", "none"} => hand'[u] = Nothing
  BY <1>3 DEF EndInv
<1>8. ~ Held => Destroying # {}
  BY <1>4 DEF EndInv
<1>9. Ending(Items)' <=> Ending(Items)
  BY <1>1, <1>2, <1>4, <1>6 DEF Ending
<1>10. NoTerminate(Items)' <=> NoTerminate(Items)
  BY <1>1 DEF NoTerminate
<1>11. left' = left
  OBVIOUS
<1> QED  BY <1>1, <1>2, <1>4, <1>6, <1>7, <1>8, <1>9, <1>10, <1>11 DEF EndInv

-----------------------------------------------------------------------------
LEMMA EmptyItems ==
  /\ RingInv /\ head_ = tail_ => Items = <<>>
  /\ head_' = 0 /\ tail_' = 0 => Items' = <<>>
<1>1. 0 \in Slots
  BY PoolAssumption DEF Slots
<1>2. ASSUME RingInv, head_ = tail_  PROVE Items = <<>>
  <2>1. Items = ItemsOf(v_, head_, tail_) /\ Count(head_, tail_) = 0
    BY <1>2, ItemsAre DEF RingInv, Count, Slots
  <2> QED  BY <2>1 DEF ItemsOf
<1>3. ASSUME head_' = 0, tail_' = 0  PROVE Items' = <<>>
  <2>1. Items' = ItemsOf(v_', head_', tail_') /\ Count(head_', tail_') = 0
    BY <1>1, <1>3, ItemsWillBe DEF Count
  <2> QED  BY <2>1 DEF ItemsOf
<1> QED  BY <1>2, <1>3

LEMMA EndInit == Init => EndInv
<1> SUFFICES ASSUME Init  PROVE EndInv
  OBVIOUS
<1>1. Items = <<>>
  BY InitInv, EmptyItems DEF Init, PoolInv
<1>2. PICK n \in Worker : worker = [w \in Worker |-> IF w <= n THEN "waiting" ELSE "none"]
  BY DEF Init, Started
<1>3. n \in threads_
  BY <1>2, PoolAssumption DEF threads_, Worker
<1>4. Taken = {} /\ \A w \in Worker : hand[w] = Nothing
  BY <1>2 DEF Taken, Init, NoHands
<1>5. Held /\ Destroying = {}
  BY DEF Held, Destroying, Init, Unborn
<1>6. NoTerminate(Items)
  BY <1>1 DEF NoTerminate
<1>7. left \in Nat
  BY DEF Init
<1> QED  BY <1>3, <1>4, <1>5, <1>6, <1>7 DEF EndInv

LEMMA EndCrash ==
  ASSUME EndInv, Crash
  PROVE  EndInv'
<1>1. Items' = <<>>
  BY EmptyItems DEF Crash
<1>2. worker' = [w \in Worker |-> IF w \in threads_ THEN "waiting" ELSE "none"]
  BY DEF Crash
<1>3. threads_' # {}
  <2>1. PICK w \in Worker : w \in threads_
    BY DEF EndInv, threads_
  <2> QED  BY <1>2, <2>1 DEF threads_
<1>4. Taken' = {} /\ \A w \in Worker : hand'[w] = Nothing
  BY <1>2 DEF Taken, Crash, NoHands
<1>5. Held' /\ Destroying' = {}
  BY DEF Held, Destroying, Crash, Unborn
<1>6. NoTerminate(Items)'
  BY <1>1 DEF NoTerminate
<1>7. left' \in Nat
  BY DEF Crash
<1> QED  BY <1>3, <1>4, <1>5, <1>6, <1>7 DEF EndInv

(* What a thread that waits changes nothing of.                            *)
LEMMA EndStays ==
  ASSUME EndInv, UNCHANGED <<ring, workers, tp_, pc, left>>
  PROVE  EndInv'
<1>1. Held' = Held /\ Destroying' = Destroying
  BY DEF Held, Holders, Destroying
<1> QED  BY <1>1, EndUnchanged

(* What a thread posts is a message or a flush, with a number of its own.  *)
LEMMA PostedItem ==
  ASSUME PostInv, NEW t \in Posting
  PROVE  /\ [call[t] EXCEPT !.id = Len(posted) + 1] \in PoolItem
         /\ [call[t] EXCEPT !.id = Len(posted) + 1].type # "terminate"
<1>1. Cardinality(Posting) >= 1
  BY PostingIsFinite, FS_EmptySet
<1>2. Len(posted) \in Nat /\ MaxPosts \in Nat
  BY PoolAssumption DEF PostInv
<1>3. Len(posted) + 1 \in 1..MaxPosts
  BY <1>1, <1>2, PostingIsFinite DEF PostInv
<1>4. call[t] \in Draft
  BY DEF PostInv
<1>5. [call[t] EXCEPT !.id = Len(posted) + 1].type # "terminate"
  BY <1>4 DEF Draft
<1> QED  BY <1>3, <1>4, <1>5, Numbered

LEMMA EndThread ==
  ASSUME PoolInv, EndInv, NEW t \in Thread, ThreadStep(t) \/ Call(t) \/ shutdown(t)
  PROVE  EndInv'
<1>1. pc \in [Thread -> {"idle", "posting", "returning", "destroying"}]
  BY DEF PoolInv, PostInv
<1>2. ASSUME post_async_msg_(t)  PROVE EndInv'
  <2>1. pc[t] = "posting" /\ UNCHANGED <<tp_, workers>>
    BY <1>2 DEF post_async_msg_
  <2>2. CASE Wait(t, overflow_policy[t])
    BY <2>1, <2>2, EndStays DEF Wait
  <2>3. CASE ~ Wait(t, overflow_policy[t])
    <3> DEFINE item == [call[t] EXCEPT !.id = Len(posted) + 1]
    <3>1. push_back(item) /\ pc' = [pc EXCEPT ![t] = "returning"] /\ left' = left
      BY <1>2, <2>3 DEF post_async_msg_
    <3>2. item \in PoolItem /\ item.type # "terminate"
      BY <2>1, PostedItem DEF Posting, PoolInv
    <3> HIDE DEF item
    <3>3. Held /\ Held' /\ Destroying' = Destroying
      BY <1>1, <2>1, <3>1 DEF Held, Holders, Destroying
    <3> QED  BY <2>1, <3>1, <3>2, <3>3, EndPost DEF PoolInv
  <2> QED  BY <2>2, <2>3
<1>3. ASSUME Return(t) \/ shutdown(t)  PROVE EndInv'
  <2>1. UNCHANGED <<ring, workers>> /\ Held /\ pc[t] \in {"idle", "returning"}
    BY <1>3 DEF Return, shutdown, Held, Holders
  <2>2. /\ Return(t) => tp_' = tp_ /\ LetGo(t, tp_ \/ Holders # {t}) /\ t \in Holders
        /\ shutdown(t) => tp_' = FALSE /\ LetGo(t, Holders # {}) /\ t \notin Holders
    BY <1>3 DEF Return, shutdown, Holders
  <2>3. Holders' = Holders \ {t}
    BY <1>1, <1>3, <2>2 DEF LetGo, Holders
  <2>4. CASE pc' = [pc EXCEPT ![t] = "idle"] /\ left' = left
    <3>1. Destroying' = Destroying
      BY <1>1, <2>1, <2>4 DEF Destroying
    <3>2. pc'[t] # "destroying"
      BY <1>1, <2>4
    <3>3. Held'
      BY <1>1, <1>3, <2>2, <2>3, <3>2 DEF LetGo, Held
    <3> QED  BY <2>1, <2>4, <3>1, <3>3, EndUnchanged
  <2>5. CASE pc' = [pc EXCEPT ![t] = "destroying"] /\ left' = Cardinality(threads_)
    <3>1. t \in Destroying'
      BY <1>1, <2>5 DEF Destroying
    <3>2. pc'[t] # "idle"
      BY <1>1, <2>5
    <3>3. ~ Held'
      BY <1>1, <1>3, <2>2, <2>3, <3>2 DEF LetGo, Held
    <3> QED  BY <2>1, <2>5, <3>1, <3>3, EndBegins DEF PoolInv
  <2> QED  BY <1>3, <2>2, <2>4, <2>5 DEF LetGo
<1>4. ASSUME PostTerminate(t)  PROVE EndInv'
  <2>1. pc[t] = "destroying" /\ left > 0 /\ UNCHANGED <<tp_, workers>> /\ pc' = pc
    BY <1>4 DEF PostTerminate, Wait
  <2>2. Held' = Held /\ Destroying' = Destroying /\ Destroying # {}
    BY <2>1 DEF Held, Holders, Destroying
  <2>3. CASE Wait(t, "block")
    BY <2>1, <2>3, EndStays DEF Wait
  <2>4. CASE ~ Wait(t, "block")
    <3>1. ~ full /\ push_back([type |-> "terminate"]) /\ left' = left - 1
      BY <1>4, <2>4 DEF PostTerminate, MustWait
    <3> QED  BY <2>1, <2>2, <3>1, EndTerminate DEF PoolInv
  <2> QED  BY <2>3, <2>4
<1>5. ASSUME Join(t)  PROVE EndInv'
  <2>1. /\ pc[t] = "destroying" /\ left = 0 /\ left' = left
        /\ \A w \in threads_ : worker[w] = "done"
        /\ UNCHANGED <<ring, workers, tp_>> /\ pc' = [pc EXCEPT ![t] = "idle"]
    BY <1>5 DEF Join
  <2>2. Destroying # {}
    BY <2>1 DEF Destroying
  <2>3. Held' = Held
    BY <1>1, <2>1 DEF Held, Holders
  <2> QED  BY <2>1, <2>2, <2>3, EndJoin
<1>6. ASSUME Call(t)  PROVE EndInv'
  <2>1. /\ pc[t] = "idle" /\ Held /\ pc' = [pc EXCEPT ![t] = "posting"]
        /\ UNCHANGED <<ring, workers>> /\ left' = left
    BY <1>6 DEF Call, Held
  <2>2. Held' /\ Destroying' = Destroying
    BY <1>1, <2>1 DEF Held, Holders, Destroying
  <2> QED  BY <2>1, <2>2, EndUnchanged
<1> QED  BY <1>2, <1>3, <1>4, <1>5, <1>6 DEF ThreadStep

LEMMA EndOfWorker ==
  ASSUME PoolInv, EndInv, NEW w \in Worker, WorkerStep(w)
  PROVE  EndInv'
<1>1. RingInv /\ HandInv
  BY DEF PoolInv
<1>2. CASE dequeue_for(w)
  BY <1>1, <1>2, EndDequeue
<1>3. CASE notify_one(w)
  <2>1. /\ UNCHANGED <<ring, tp_, pc, left>> /\ worker[w] = "notifying" /\ hand' = hand
        /\ worker' = [worker EXCEPT ![w] = "processing"]
    BY <1>3 DEF notify_one
  <2> QED  BY <1>1, <2>1, EndWorker
<1>4. CASE backend_log_(w)
  <2>1. /\ UNCHANGED <<ring, tp_, pc, left>> /\ worker[w] = "processing"
        /\ hand[w].type # "terminate" /\ hand' = [hand EXCEPT ![w] = Nothing]
    BY <1>4 DEF backend_log_, threads
  <2>2. PICK next \in {"waiting", "flushing"} : worker' = [worker EXCEPT ![w] = next]
    BY <1>4 DEF backend_log_
  <2> QED  BY <1>1, <2>1, <2>2, EndWorker
<1>5. CASE backend_flush_(w)
  <2>1. /\ UNCHANGED <<ring, tp_, pc, left>> /\ hand' = [hand EXCEPT ![w] = Nothing]
        /\ worker[w] = "flushing" \/ (worker[w] = "processing" /\ hand[w].type # "terminate")
        /\ worker' = [worker EXCEPT ![w] = "waiting"]
    BY <1>5 DEF backend_flush_, threads
  <2> QED  BY <1>1, <2>1, EndWorker
<1>6. CASE Terminated(w)
  <2>1. /\ UNCHANGED <<ring, tp_, pc, left>> /\ worker[w] = "processing"
        /\ hand[w].type = "terminate" /\ hand' = [hand EXCEPT ![w] = Nothing]
        /\ worker' = [worker EXCEPT ![w] = "done"]
    BY <1>6 DEF Terminated, threads
  <2> QED  BY <1>1, <2>1, EndWorker
<1> QED  BY <1>2, <1>3, <1>4, <1>5, <1>6 DEF WorkerStep

LEMMA EndStep == PoolInv /\ EndInv /\ [Next]_vars => EndInv'
<1> SUFFICES ASSUME PoolInv, EndInv, [Next]_vars  PROVE EndInv'
  OBVIOUS
<1>1. CASE UNCHANGED vars
  BY <1>1, EndStays DEF vars, threads
<1>2. ASSUME NEW t \in Thread, SpuriousWakeup(t)  PROVE EndInv'
  BY <1>2, EndStays DEF SpuriousWakeup
<1> QED  BY <1>1, <1>2, EndThread, EndOfWorker, EndCrash DEF Next

(* When the workers are joined, one terminate item each is all there is.   *)
LEMMA NothingLeft ==
  ASSUME PoolInv, EndInv
  PROVE  NothingIsLeftBehind
<1> SUFFICES ASSUME ~ tp_, Holders = {}, \A t \in Thread : pc[t] # "destroying"
             PROVE  empty /\ \A w \in Worker : hand[w] = Nothing
  BY DEF NothingIsLeftBehind
<1>1. ~ Held /\ Destroying = {} /\ ToPost = 0
  BY DEF Held, Destroying, ToPost
<1>2. \A w \in threads_ : worker[w] = "done"
  BY <1>1 DEF EndInv
<1>3. Taken = threads_ /\ \A w \in Worker : hand[w] = Nothing
  BY <1>2 DEF Taken, threads_, EndInv
<1>4. PICK k \in 0..Len(Items) :
        /\ Taken # {} => k = 0
        /\ Len(Items) - k + Cardinality(Taken) + ToPost = Cardinality(threads_)
  BY <1>1 DEF EndInv, Ending
<1>5. /\ head_ \in Slots /\ tail_ \in Slots /\ v_ \in Rings
      /\ Items = ItemsOf(v_, head_, tail_)
  BY ItemsAre DEF PoolInv, RingInv
<1>6. Len(Items) = Count(head_, tail_) /\ Count(head_, tail_) \in Nat
  BY <1>5, ItemsType, CountIs, PoolAssumption
<1>7. k = 0
  BY <1>3, <1>4 DEF EndInv
<1>8. Count(head_, tail_) = 0
  BY <1>1, <1>3, <1>4, <1>6, <1>7, Workers
<1>9. head_ = tail_
  BY <1>5, <1>8, PoolAssumption DEF Count, Slots
<1> QED  BY <1>3, <1>9 DEF empty

(***************************************************************************)
(* Whoever shuts logging down, and however many are inside a call or find  *)
(* the queue full, once ~thread_pool has joined the workers there is       *)
(* nothing left in the queue or in their hands (thread_pool.h:130).        *)
(***************************************************************************)
THEOREM LeftBehindCorrect == Spec => []NothingIsLeftBehind
<1>1. Init => EndInv
  BY EndInit
<1>2. PoolInv /\ EndInv /\ [Next]_vars => EndInv'
  BY EndStep
<1>3. PoolInv /\ EndInv => NothingIsLeftBehind
  BY NothingLeft
<1> QED  BY <1>1, <1>2, <1>3, TypeCorrect, PTL DEF Spec

-----------------------------------------------------------------------------
(***************************************************************************)
(* The workers, and with them the sink: a worker that is about to write    *)
(* has a message in hand.                                                  *)
(***************************************************************************)

(* Whoever is at work has an item in hand, and nobody else has.            *)
AtWork == {w \in Worker : worker[w] \in {"notifying", "processing"}}

WorkInv ==
  /\ Items \in Seq(PoolItem)
  /\ \A w \in Worker : IF w \in AtWork THEN hand[w] \in PoolItem ELSE hand[w] = Nothing

LEMMA WorkUnchanged ==
  ASSUME WorkInv, UNCHANGED <<ring, hand>>, AtWork' = AtWork
  PROVE  WorkInv'
<1>1. Items' = Items
  BY DEF ring, Items
<1> QED  BY <1>1 DEF WorkInv

LEMMA WorkPush ==
  ASSUME RingInv, WorkInv, NEW item \in PoolItem, push_back(item), UNCHANGED workers
  PROVE  WorkInv'
<1>1. Items' = Append(Items, item) \/ (Items # <<>> /\ Items' = Append(Tail(Items), item))
  BY PushItems
<1>2. Items' \in Seq(PoolItem)
  BY <1>1 DEF WorkInv
<1>3. hand' = hand /\ AtWork' = AtWork
  BY DEF workers, AtWork
<1> QED  BY <1>2, <1>3 DEF WorkInv

LEMMA WorkPop ==
  ASSUME RingInv, HandInv, WorkInv, NEW w \in Worker, dequeue_for(w)
  PROVE  WorkInv'
<1>1. Items # <<>> /\ v_[head_] = Items[1] /\ Items' = Tail(Items)
  BY PopItems
<1>2. Items \in Seq(PoolItem)
  BY DEF WorkInv
<1>3. Items' \in Seq(PoolItem) /\ v_[head_] \in PoolItem
  BY <1>1, <1>2
<1>4. /\ hand' = [hand EXCEPT ![w] = v_[head_]] /\ worker' = [worker EXCEPT ![w] = "notifying"]
  BY DEF dequeue_for, pop_front
<1>5. /\ hand'[w] = v_[head_] /\ AtWork' = AtWork \cup {w}
      /\ \A u \in Worker \ {w} : hand'[u] = hand[u]
  BY <1>4 DEF HandInv, AtWork
<1>6. \A u \in Worker : IF u \in AtWork' THEN hand'[u] \in PoolItem ELSE hand'[u] = Nothing
  BY <1>3, <1>5 DEF WorkInv
<1> QED  BY <1>3, <1>6 DEF WorkInv

LEMMA WorkFinish ==
  ASSUME RingInv, HandInv, WorkInv, NEW w \in Worker, UNCHANGED ring, hand' = [hand EXCEPT ![w] = Nothing],
         NEW next \in {"waiting", "flushing", "done"}, worker' = [worker EXCEPT ![w] = next]
  PROVE  WorkInv'
<1>1. Items' = Items
  BY DEF ring, Items
<1>2. /\ hand'[w] = Nothing /\ AtWork' = AtWork \ {w}
      /\ \A u \in Worker \ {w} : hand'[u] = hand[u]
  BY DEF HandInv, AtWork
<1> QED  BY <1>1, <1>2 DEF WorkInv

LEMMA WorkEmpty ==
  ASSUME Items' = <<>>, hand' = NoHands, AtWork' = {}
  PROVE  WorkInv'
<1>1. <<>> \in Seq(PoolItem)
  OBVIOUS
<1>2. \A w \in Worker : hand'[w] = Nothing /\ w \notin AtWork'
  BY DEF NoHands
<1> QED  BY <1>1, <1>2 DEF WorkInv

LEMMA NoItems ==
  /\ head_ = 0 /\ tail_ = 0 => Items = <<>>
  /\ head_' = 0 /\ tail_' = 0 => Items' = <<>>
<1>1. 0 \in Slots /\ Count(0, 0) = 0
  BY PoolAssumption DEF Slots, Count
<1>2. ASSUME head_ = 0, tail_ = 0  PROVE Items = <<>>
  <2>1. Items = ItemsOf(v_, 0, 0)
    BY <1>1, <1>2, ItemsAre
  <2> QED  BY <1>1, <2>1 DEF ItemsOf
<1>3. ASSUME head_' = 0, tail_' = 0  PROVE Items' = <<>>
  <2>1. Items' = ItemsOf(v_', 0, 0)
    BY <1>1, <1>3, ItemsWillBe
  <2> QED  BY <1>1, <2>1 DEF ItemsOf
<1> QED  BY <1>2, <1>3

LEMMA WorkStep ==
  ASSUME PoolInv, WorkInv, [Next]_vars
  PROVE  WorkInv'
<1>0. RingInv /\ HandInv
  BY DEF PoolInv
<1>1. CASE UNCHANGED <<ring, workers>>
  BY <1>1, WorkUnchanged DEF workers, AtWork
<1>2. CASE \E item \in PoolItem : push_back(item) /\ UNCHANGED workers
  BY <1>0, <1>2, WorkPush
<1>3. ASSUME NEW t \in Thread, post_async_msg_(t)  PROVE WorkInv'
  <2>1. CASE UNCHANGED ring
    BY <1>1, <1>3, <2>1 DEF post_async_msg_
  <2>2. CASE push_back([call[t] EXCEPT !.id = Len(posted) + 1])
    <3>1. [call[t] EXCEPT !.id = Len(posted) + 1] \in PoolItem
      <4>1. t \in Posting
        BY <1>3 DEF post_async_msg_, Posting
      <4> QED  BY <4>1, PostedItem DEF PoolInv
    <3> QED  BY <1>2, <1>3, <2>2, <3>1 DEF post_async_msg_
  <2> QED  BY <1>3, <2>1, <2>2 DEF post_async_msg_, Wait
<1>4. ASSUME NEW t \in Thread, PostTerminate(t)  PROVE WorkInv'
  <2>1. UNCHANGED ring \/ push_back([type |-> "terminate"])
    BY <1>4 DEF PostTerminate, Wait
  <2>2. [type |-> "terminate"] \in PoolItem
    BY DEF PoolItem
  <2> QED  BY <1>1, <1>2, <1>4, <2>1, <2>2 DEF PostTerminate
<1>5. ASSUME NEW t \in Thread, Return(t) \/ shutdown(t) \/ Join(t) \/ Call(t) \/ SpuriousWakeup(t)
      PROVE  WorkInv'
  BY <1>1, <1>5 DEF Return, shutdown, Join, Call, SpuriousWakeup
<1>6. ASSUME NEW w \in Worker, dequeue_for(w)  PROVE WorkInv'
  BY <1>0, <1>6, WorkPop
<1>7. ASSUME NEW w \in Worker, notify_one(w)  PROVE WorkInv'
  <2>1. UNCHANGED <<ring, hand>> /\ worker[w] = "notifying" /\ worker' = [worker EXCEPT ![w] = "processing"]
    BY <1>7 DEF notify_one
  <2>2. AtWork' = AtWork
    BY <1>0, <2>1 DEF AtWork, HandInv
  <2> QED  BY <2>1, <2>2, WorkUnchanged
<1>8. ASSUME NEW w \in Worker, backend_log_(w) \/ backend_flush_(w) \/ Terminated(w)  PROVE WorkInv'
  <2>1. UNCHANGED ring /\ hand' = [hand EXCEPT ![w] = Nothing]
    BY <1>8 DEF backend_log_, backend_flush_, Terminated
  <2>2. \E next \in {"waiting", "flushing", "done"} : worker' = [worker EXCEPT ![w] = next]
    BY <1>8 DEF backend_log_, backend_flush_, Terminated
  <2> QED  BY <1>0, <2>1, <2>2, WorkFinish
<1>9. ASSUME Crash  PROVE WorkInv'
  <2>1. Items' = <<>> /\ hand' = NoHands
    BY <1>9, NoItems DEF Crash
  <2>2. AtWork' = {}
    BY <1>9 DEF Crash, AtWork
  <2> QED  BY <2>1, <2>2, WorkEmpty
<1>10. CASE UNCHANGED vars
  BY <1>1, <1>10 DEF vars
<1> QED
  BY <1>3, <1>4, <1>5, <1>6, <1>7, <1>8, <1>9, <1>10 DEF Next, ThreadStep, WorkerStep

LEMMA WorkInit == Init => WorkInv
<1> SUFFICES ASSUME Init  PROVE WorkInv
  OBVIOUS
<1>1. Items = <<>> /\ hand = NoHands /\ worker \in Started
  BY NoItems DEF Init
<1>2. AtWork = {}
  BY <1>1 DEF Started, AtWork
<1>3. <<>> \in Seq(PoolItem)
  OBVIOUS
<1>4. \A w \in Worker : hand[w] = Nothing
  BY <1>1 DEF NoHands
<1> QED  BY <1>1, <1>2, <1>3, <1>4 DEF WorkInv

-----------------------------------------------------------------------------
(* The sink changes only where a worker writes, flushes, or in a crash.    *)
LEMMA SinkStep ==
  ASSUME PoolInv, WorkInv, SinkInv, [Next]_vars
  PROVE  SinkInv'
<1>1. CASE UNCHANGED sink
  BY <1>1 DEF sink, SinkInv, Files, RotationIsSafe, NeverWritesToNull, Fits, FilesAreBounded
<1>2. ASSUME NEW w \in Worker, backend_log_(w)  PROVE SinkInv'
  <2>1. hand[w] \in Message
    <3>1. worker[w] = "processing" /\ hand[w].type = "log"
      BY <1>2 DEF backend_log_
    <3>2. hand[w] \in PoolItem
      BY <3>1 DEF WorkInv, AtWork
    <3> QED  BY <3>1, <3>2 DEF PoolItem
  <2>2. Write(hand[w]) \/ FailToWrite(hand[w])
    BY <1>2 DEF backend_log_
  <2> QED  BY <2>1, <2>2, WriteKeepsSink, FailKeepsSink
<1>3. ASSUME NEW w \in Worker, backend_flush_(w)  PROVE SinkInv'
  BY <1>3, FlushKeepsSink DEF backend_flush_
<1>4. ASSUME Crash  PROVE SinkInv'
  BY <1>4, CrashKeepsSink DEF Crash
<1>5. ASSUME NEW t \in Thread, ThreadStep(t) \/ Call(t) \/ shutdown(t) \/ SpuriousWakeup(t)
      PROVE  UNCHANGED sink
  BY <1>5 DEF ThreadStep, post_async_msg_, Return, PostTerminate, Join, Call, shutdown, SpuriousWakeup
<1>6. ASSUME NEW w \in Worker, dequeue_for(w) \/ notify_one(w) \/ Terminated(w)
      PROVE  UNCHANGED sink
  BY <1>6 DEF dequeue_for, notify_one, Terminated
<1>7. CASE UNCHANGED vars
  BY <1>1, <1>7 DEF vars
<1> QED
  BY <1>1, <1>2, <1>3, <1>4, <1>5, <1>6, <1>7 DEF Next, WorkerStep

LEMMA SinkInit == Init => SinkInv
<1> SUFFICES ASSUME Init  PROVE SinkInv
  OBVIOUS
<1>1. /\ file = Before /\ unflushed = 0 /\ fd_ = TRUE /\ current_size_ = SizeOf(Before[0]) /\ faults = 0
  BY DEF Init, InitSink
<1>2. Before \in Files /\ 0 \in DOMAIN Before
  BY BeforeIs
<1>3. SizeOf(Before[0]) \in Nat
  BY <1>2, FilesAre
<1>4. NeverWritesToNull
  BY <1>1, <1>2, <1>3 DEF NeverWritesToNull
<1>5. FilesAreBounded(file)
  BY <1>1, BeforeAssumption
<1>6. fd_ \in BOOLEAN
  BY <1>1
<1> QED  BY <1>1, <1>2, <1>3, <1>4, <1>5, <1>6 DEF SinkInv, RotationIsSafe

(***************************************************************************)
(* A failed rotation never lets anything be written to no file, and no     *)
(* file outgrows max_size_ (RotationIsSafe), for every size and number of  *)
(* files and whatever an earlier process has left within the same limits.  *)
(***************************************************************************)
THEOREM RotationCorrect == Spec => []RotationIsSafe
<1>1. Init => WorkInv /\ SinkInv
  BY WorkInit, SinkInit
<1>2. PoolInv /\ WorkInv /\ SinkInv /\ [Next]_vars => WorkInv' /\ SinkInv'
  BY WorkStep, SinkStep
<1>3. SinkInv => RotationIsSafe
  BY DEF SinkInv
<1> QED  BY <1>1, <1>2, <1>3, TypeCorrect, PTL DEF Spec

-----------------------------------------------------------------------------
(***************************************************************************)
(* What becomes of a message, where there is one worker.  What it has in   *)
(* hand and the ring behind it are a line.  Every message in the files     *)
(* and in the line is one that was posted; the files are in the order of   *)
(* the posts, the line is too, and all of the line is newer than what the  *)
(* files hold.  As long as nothing is overrun and nothing fails, whatever  *)
(* is in neither is older than all that is, and has been deleted with a    *)
(* file that had the number max_files_.                                    *)
(***************************************************************************)

(* A line: what the worker has in hand, and what is in the ring behind it. *)
Waits(m, line) == \E i \in DOMAIN line : line[i] = m

There(m, line, files) == InFiles(m, files) \/ Waits(m, line)

WasPosted(m, posts) == Ids[m] \in 1..Len(posts) /\ posts[Ids[m]] = m

FilesHold(files, posts) ==
  /\ FilesInOrder(files)
  /\ \A m \in Message : InFiles(m, files) => WasPosted(m, posts)

LineHolds(line, files, posts) ==
  /\ \A i \in DOMAIN line : line[i] \in Message => WasPosted(line[i], posts)
  /\ \A i \in DOMAIN line, m \in Message :
       line[i] \in Message /\ InFiles(m, files) => Ids[m] < Ids[line[i]]
  /\ \A i, j \in DOMAIN line : i < j /\ line[i] \in Message /\ line[j] \in Message =>
       Ids[line[i]] < Ids[line[j]]

(* All messages from some point on are somewhere.                          *)
NoneMissing(line, files, posts) ==
  \A n \in 1..Len(posts) : posts[n] \in Message =>
    \/ There(posts[n], line, files)
    \/ max_files_ \in DOMAIN files /\ \A m \in Message : There(m, line, files) => n < Ids[m]

LEMMA IdsAre == Ids \in [Message -> Nat] /\ \A m \in Message : Ids[m] = m.id /\ Ids[m] \in 1..MaxPosts
BY PoolAssumption DEF Ids, Message

LEMMA SameThere ==
  ASSUME NEW line, NEW files, NEW line2, NEW files2, NEW posts,
         \A m \in Message : There(m, line, files) <=> There(m, line2, files2),
         max_files_ \in DOMAIN files => max_files_ \in DOMAIN files2,
         NoneMissing(line, files, posts)
  PROVE  NoneMissing(line2, files2, posts)
BY DEF NoneMissing

(* Messages of the line keep their order, wherever each has been before.   *)
LEMMA LineMoves ==
  ASSUME NEW line, NEW line2, NEW files, NEW posts, NEW e, LineHolds(line, files, posts),
         \A i \in DOMAIN line2 : line2[i] \in Message => e[i] \in DOMAIN line /\ line2[i] = line[e[i]],
         \A i, j \in DOMAIN line2 : i < j => e[i] < e[j]
  PROVE  /\ LineHolds(line2, files, posts)
         /\ \A m \in Message : Waits(m, line2) => Waits(m, line)
<1>1. \A i \in DOMAIN line2 : line2[i] \in Message => WasPosted(line2[i], posts)
  BY DEF LineHolds
<1>2. \A i \in DOMAIN line2, m \in Message :
        line2[i] \in Message /\ InFiles(m, files) => Ids[m] < Ids[line2[i]]
  BY DEF LineHolds
<1>3. \A i, j \in DOMAIN line2 : i < j /\ line2[i] \in Message /\ line2[j] \in Message =>
        Ids[line2[i]] < Ids[line2[j]]
  BY DEF LineHolds
<1>4. \A m \in Message : Waits(m, line2) => Waits(m, line)
  BY DEF Waits
<1> QED  BY <1>1, <1>2, <1>3, <1>4 DEF LineHolds

(* Where the files hold no more than before, nothing changes for the line. *)
LEMMA LineStays ==
  ASSUME NEW line, NEW files, NEW files2, NEW posts, LineHolds(line, files, posts),
         \A m \in Message : InFiles(m, files2) => InFiles(m, files)
  PROVE  LineHolds(line, files2, posts)
BY DEF LineHolds

(* An item has been put behind the line, and one in it given up, perhaps.  *)
PushedBehind(line, line2, item) ==
  \E k, e :
    /\ k \in Int
    /\ DOMAIN line2 = 0..(k + 1) /\ k + 1 \in Nat /\ line2[k + 1] = item
    /\ \A i \in 0..k : e[i] \in DOMAIN line /\ line2[i] = line[e[i]]
    /\ \A i, j \in 0..k : i < j => e[i] < e[j]

LEMMA OtherKeepsOrder ==
  ASSUME NEW posts, NEW item, item \notin Message, NEW files, NEW line, NEW line2,
         PushedBehind(line, line2, item), LineHolds(line, files, posts)
  PROVE  /\ LineHolds(line2, files, posts)
         /\ \A m \in Message : Waits(m, line2) => Waits(m, line)
<1>1. PICK k, e :
        /\ k \in Int
        /\ DOMAIN line2 = 0..(k + 1) /\ k + 1 \in Nat /\ line2[k + 1] = item
        /\ \A i \in 0..k : e[i] \in DOMAIN line /\ line2[i] = line[e[i]]
        /\ \A i, j \in 0..k : i < j => e[i] < e[j]
  BY DEF PushedBehind
<1>2. \A i \in 0..(k + 1) : i \in 0..k \/ i = k + 1
  BY <1>1
<1>3. \A i \in DOMAIN line2 : line2[i] \in Message => i \in 0..k /\ line2[i] = line[e[i]] /\ e[i] \in DOMAIN line
  BY <1>1, <1>2
<1>4. LineHolds(line2, files, posts)
  BY <1>1, <1>3 DEF LineHolds
<1>5. \A m \in Message : Waits(m, line2) => Waits(m, line)
  BY <1>3 DEF Waits
<1> QED  BY <1>4, <1>5

(* A post.                                                                 *)
LEMMA PostKeepsOrder ==
  ASSUME NEW posts \in Seq(PoolItem), NEW item, NEW posts2 \in Seq(PoolItem), posts2 = Append(posts, item),
         item \in Message => Ids[item] = Len(posts) + 1,
         NEW files, NEW line, NEW line2, PushedBehind(line, line2, item),
         FilesHold(files, posts), LineHolds(line, files, posts)
  PROVE  /\ FilesHold(files, posts2) /\ LineHolds(line2, files, posts2)
         /\ NoneMissing(line, files, posts) /\ (\A m : Waits(m, line) => Waits(m, line2)) =>
              NoneMissing(line2, files, posts2)
<1>a. PICK k, e :
        /\ k \in Int
        /\ DOMAIN line2 = 0..(k + 1) /\ k + 1 \in Nat /\ line2[k + 1] = item
        /\ \A i \in 0..k : e[i] \in DOMAIN line /\ line2[i] = line[e[i]]
        /\ \A i, j \in 0..k : i < j => e[i] < e[j]
  BY DEF PushedBehind
<1>1. /\ Len(posts) \in Nat /\ Len(posts2) = Len(posts) + 1 /\ posts2[Len(posts) + 1] = item
      /\ \A n \in 1..Len(posts) : posts2[n] = posts[n]
  <2>1. Len(posts2) \in Nat
    OBVIOUS
  <2> QED  BY <2>1
<1>2. \A m \in Message : WasPosted(m, posts) => WasPosted(m, posts2) /\ Ids[m] <= Len(posts)
  BY <1>1, IdsAre DEF WasPosted
<1>3. item \in Message => WasPosted(item, posts2)
  BY <1>1 DEF WasPosted
<1>4. FilesHold(files, posts2)
  BY <1>2 DEF FilesHold
<1>5. \A i \in 0..(k + 1) : i \in 0..k \/ i = k + 1
  BY <1>a
<1>6. ASSUME NEW i \in 0..(k + 1), line2[i] \in Message  PROVE WasPosted(line2[i], posts2)
  BY <1>a, <1>2, <1>3, <1>5, <1>6 DEF LineHolds
<1>7. ASSUME NEW i \in 0..(k + 1), line2[i] \in Message, NEW m \in Message, InFiles(m, files)
      PROVE  Ids[m] < Ids[line2[i]]
  <2>1. CASE i \in 0..k
    BY <1>a, <1>7, <2>1 DEF LineHolds
  <2>2. CASE i = k + 1
    <3>1. Ids[m] <= Len(posts) /\ Ids[m] \in Nat
      BY <1>2, <1>7, IdsAre DEF FilesHold
    <3> QED  BY <1>a, <1>1, <1>7, <2>2, <3>1
  <2> QED  BY <1>5, <2>1, <2>2
<1>8. ASSUME NEW i \in 0..(k + 1), NEW j \in 0..(k + 1), i < j,
             line2[i] \in Message, line2[j] \in Message
      PROVE  Ids[line2[i]] < Ids[line2[j]]
  <2>1. i \in 0..k
    BY <1>a, <1>8
  <2>2. CASE j \in 0..k
    BY <1>a, <1>8, <2>1, <2>2 DEF LineHolds
  <2>3. CASE j = k + 1
    <3>1. WasPosted(line2[i], posts)
      BY <1>a, <1>8, <2>1 DEF LineHolds
    <3>2. Ids[line2[i]] <= Len(posts) /\ Ids[line2[i]] \in Nat
      BY <1>2, <1>8, <3>1, IdsAre
    <3> QED  BY <1>a, <1>1, <1>8, <2>3, <3>2
  <2> QED  BY <1>5, <2>2, <2>3
<1>9. LineHolds(line2, files, posts2)
  BY <1>a, <1>6, <1>7, <1>8 DEF LineHolds
<1>10. ASSUME NoneMissing(line, files, posts), \A m : Waits(m, line) => Waits(m, line2)
       PROVE  NoneMissing(line2, files, posts2)
  <2> SUFFICES ASSUME NEW n \in 1..Len(posts2), posts2[n] \in Message, ~ There(posts2[n], line2, files)
               PROVE  max_files_ \in DOMAIN files
                      /\ \A m \in Message : There(m, line2, files) => n < Ids[m]
    BY DEF NoneMissing
  <2>1. n # Len(posts) + 1
    <3>1. Waits(item, line2)
      <4>1. k + 1 \in DOMAIN line2
        BY <1>a
      <4> QED  BY <1>a, <4>1 DEF Waits
    <3> QED  BY <1>1, <3>1 DEF There
  <2>2. n \in 1..Len(posts) /\ posts2[n] = posts[n]
    BY <1>1, <2>1
  <2>3. ~ There(posts[n], line, files)
    BY <1>10, <2>2 DEF There
  <2>4. max_files_ \in DOMAIN files /\ \A m \in Message : There(m, line, files) => n < Ids[m]
    BY <1>10, <2>2, <2>3 DEF NoneMissing
  <2>5. ASSUME NEW m \in Message, There(m, line2, files)  PROVE n < Ids[m]
    <3>1. CASE InFiles(m, files)
      BY <2>4, <3>1 DEF There
    <3>2. CASE Waits(m, line2)
      <4>1. PICK i \in 0..(k + 1) : line2[i] = m
        BY <1>a, <3>2 DEF Waits
      <4>2. CASE i \in 0..k
        <5>1. Waits(m, line)
          BY <1>a, <4>1, <4>2 DEF Waits
        <5> QED  BY <2>4, <5>1 DEF There
      <4>3. CASE i = k + 1
        <5>1. Ids[m] = Len(posts) + 1
          BY <1>a, <4>1, <4>3
        <5> QED  BY <1>1, <2>2, <5>1
      <4> QED  BY <1>5, <4>2, <4>3
    <3> QED  BY <2>5, <3>1, <3>2 DEF There
  <2> QED  BY <2>4, <2>5
<1> QED  BY <1>4, <1>9, <1>10

(* What worker w has in hand, and what is in the ring behind it.           *)
Line(w) == [i \in 0..Len(Items) |-> IF i = 0 THEN hand[w] ELSE Items[i]]

OrderOf(w) ==
  /\ FilesHold(file, posted) /\ LineHolds(Line(w), file, posted)
  /\ overrun_counter_ = 0 /\ faults = 0 => NoneMissing(Line(w), file, posted)

PostsNumbered == \A i \in 1..Len(posted) : posted[i] \in Message => Ids[posted[i]] = i

OrderInv ==
  /\ PostsNumbered
  /\ \A w \in Worker : threads_ = {w} => OrderOf(w)

LEMMA LineIs ==
  ASSUME WorkInv, NEW w
  PROVE  /\ Len(Items) \in Nat /\ DOMAIN Line(w) = 0..Len(Items)
         /\ Line(w)[0] = hand[w] /\ \A i \in 1..Len(Items) : Line(w)[i] = Items[i]
<1>1. Len(Items) \in Nat
  BY DEF WorkInv
<1> QED  BY <1>1 DEF Line

LEMMA LineWillBe ==
  ASSUME WorkInv', NEW w
  PROVE  /\ Len(Items') \in Nat /\ DOMAIN Line(w)' = 0..Len(Items')
         /\ Line(w)'[0] = hand'[w] /\ \A i \in 1..Len(Items') : Line(w)'[i] = Items'[i]
<1>1. Len(Items') \in Nat
  BY DEF WorkInv
<1> QED  BY <1>1 DEF Line

(* Neither what is posted nor who works changes.                           *)
LEMMA OrderUnchanged ==
  ASSUME OrderInv, UNCHANGED <<ring, hand, posted, file, faults>>, threads_' = threads_
  PROVE  OrderInv'
<1>1. Items' = Items /\ overrun_counter_' = overrun_counter_
  BY DEF ring, Items
<1>2. \A w : Line(w)' = Line(w)
  BY <1>1 DEF Line
<1>3. \A w : OrderOf(w) => OrderOf(w)'
  BY <1>1, <1>2 DEF OrderOf
<1> QED  BY <1>3 DEF OrderInv, PostsNumbered

(* The line when an item is put behind it.                                 *)
LEMMA LinePush ==
  ASSUME RingInv, WorkInv, WorkInv', NEW item \in PoolItem, push_back(item), hand' = hand, NEW w
  PROVE  /\ PushedBehind(Line(w), Line(w)', item)
         /\ ~ full => \A m : Waits(m, Line(w)) => Waits(m, Line(w)')
<1> DEFINE n == Len(Items)
           line == Line(w)
           line2 == Line(w)'
<1>1. /\ n \in Nat /\ DOMAIN line = 0..n /\ line[0] = hand[w] /\ \A i \in 1..n : line[i] = Items[i]
  BY LineIs
<1>2. /\ DOMAIN line2 = 0..Len(Items') /\ line2[0] = hand[w] /\ \A i \in 1..Len(Items') : line2[i] = Items'[i]
  BY LineWillBe
<1>3. Items \in Seq(PoolItem)
  BY DEF WorkInv
<1> HIDE DEF n, line, line2
<1>4. CASE ~ full
  <2>1. Items' = Append(Items, item)
    BY <1>4, PushItems
  <2>2. /\ Len(Items') = n + 1 /\ Items'[n + 1] = item /\ \A i \in 1..n : Items'[i] = Items[i]
    BY <1>3, <2>1 DEF n
  <2> DEFINE e == [i \in 0..n |-> i]
  <2>3. DOMAIN line2 = 0..(n + 1) /\ line2[n + 1] = item /\ \A i \in 0..n : line2[i] = line[i]
    <3>1. \A i \in 0..n : i = 0 \/ i \in 1..n
      BY <1>1
    <3>2. n + 1 \in 1..(n + 1) /\ \A i \in 1..n : i \in 1..(n + 1)
      BY <1>1
    <3> QED  BY <1>1, <1>2, <2>2, <3>1, <3>2
  <2>4. \A i \in 0..n : e[i] \in DOMAIN line /\ line2[i] = line[e[i]]
    BY <1>1, <2>3
  <2>5. \A i, j \in 0..n : i < j => e[i] < e[j]
    OBVIOUS
  <2>6. \A m : Waits(m, line) => Waits(m, line2)
    <3>1. DOMAIN line \subseteq DOMAIN line2
      BY <1>1, <2>3
    <3> QED  BY <1>1, <2>3, <3>1 DEF Waits
  <2>7. n \in Int /\ n + 1 \in Nat
    BY <1>1
  <2> HIDE DEF e
  <2>8. PushedBehind(line, line2, item)
    BY <2>3, <2>4, <2>5, <2>7 DEF PushedBehind
  <2> QED  BY <2>6, <2>8 DEF line, line2
<1>5. CASE full
  <2>1. Items # <<>> /\ Items' = Append(Tail(Items), item)
    BY <1>5, PushItems
  <2>2. /\ n - 1 \in Nat /\ Len(Items') = n /\ Items'[n] = item
        /\ \A i \in 1..(n - 1) : Items'[i] = Items[i + 1]
    <3>1. n - 1 \in Nat
      BY <1>3, <2>1 DEF n
    <3>2. Tail(Items) \in Seq(PoolItem) /\ Len(Tail(Items)) = n - 1
          /\ \A i \in 1..(n - 1) : Tail(Items)[i] = Items[i + 1]
      BY <1>3, <2>1 DEF n
    <3> DEFINE t == Tail(Items)
    <3>3. t \in Seq(PoolItem) /\ Len(t) = n - 1 /\ Items' = Append(t, item)
      BY <2>1, <3>2
    <3> HIDE DEF t
    <3>4. Len(Append(t, item)) = n /\ Append(t, item)[n] = item
          /\ \A i \in 1..(n - 1) : Append(t, item)[i] = t[i]
      <4>1. Len(t) + 1 = n
        BY <1>1, <3>1, <3>3
      <4>2. Len(Append(t, item)) = Len(t) + 1 /\ Append(t, item)[Len(t) + 1] = item
            /\ \A i \in 1..Len(t) : Append(t, item)[i] = t[i]
        BY <3>3
      <4> QED  BY <3>3, <4>1, <4>2
    <3> QED  BY <3>1, <3>2, <3>3, <3>4 DEF t
  <2> DEFINE k == n - 1
             e == [i \in 0..k |-> IF i = 0 THEN 0 ELSE i + 1]
  <2>3. DOMAIN line2 = 0..(k + 1) /\ line2[k + 1] = item /\ k \in Int /\ k + 1 \in Nat
    <3>1. n \in 1..n /\ k + 1 = n
      BY <1>1, <2>2
    <3> QED  BY <1>1, <1>2, <2>2, <3>1
  <2>4. ASSUME NEW i \in 0..k  PROVE e[i] \in DOMAIN line /\ line2[i] = line[e[i]]
    <3>1. CASE i = 0
      BY <1>1, <1>2, <3>1
    <3>2. CASE i # 0
      <4>1. i \in 1..(n - 1) /\ i + 1 \in 1..n /\ i \in 1..n /\ e[i] = i + 1
        BY <1>1, <3>2
      <4>2. line2[i] = Items[i + 1] /\ line[i + 1] = Items[i + 1]
        BY <1>1, <1>2, <2>2, <4>1
      <4> QED  BY <1>1, <4>1, <4>2
    <3> QED  BY <3>1, <3>2
  <2>5. \A i, j \in 0..k : i < j => e[i] < e[j]
    OBVIOUS
  <2> HIDE DEF e, k
  <2>6. PushedBehind(line, line2, item)
    BY <2>3, <2>4, <2>5 DEF PushedBehind
  <2> QED  BY <1>5, <2>6 DEF line, line2
<1> QED  BY <1>4, <1>5

LEMMA OverrunPush ==
  ASSUME RingInv, NEW item, push_back(item)
  PROVE  IF full THEN overrun_counter_' # 0 ELSE overrun_counter_' = overrun_counter_
BY DEF push_back, full, RingInv

(* A message or a flush is posted.                                         *)
LEMMA OrderPost ==
  ASSUME PoolInv, PoolInv', WorkInv, WorkInv', OrderInv, NEW item \in PoolItem, push_back(item),
         item \in Message => Ids[item] = Len(posted) + 1, posted' = Append(posted, item),
         UNCHANGED <<workers, file, faults>>
  PROVE  OrderInv'
<1>1. RingInv /\ posted \in Seq(PoolItem) /\ posted' \in Seq(PoolItem)
  BY DEF PoolInv, PostInv
<1>2. hand' = hand /\ threads_' = threads_
  BY DEF workers, threads_
<1>3. PostsNumbered'
  <2>1. /\ Len(posted) \in Nat /\ Len(posted') = Len(posted) + 1 /\ posted'[Len(posted) + 1] = item
        /\ \A i \in 1..Len(posted) : posted'[i] = posted[i]
    BY <1>1
  <2>2. \A i \in 1..Len(posted') : i \in 1..Len(posted) \/ i = Len(posted) + 1
    BY <2>1
  <2> QED  BY <2>1, <2>2 DEF OrderInv, PostsNumbered
<1>4. ASSUME NEW w \in Worker, OrderOf(w)  PROVE OrderOf(w)'
  <2> DEFINE line == Line(w)
             line2 == Line(w)'
             posts2 == posted'
  <2>1. FilesHold(file, posted) /\ LineHolds(line, file, posted)
    BY <1>4 DEF OrderOf
  <2>2. /\ PushedBehind(line, line2, item)
        /\ ~ full => \A m : Waits(m, line) => Waits(m, line2)
    BY <1>1, <1>2, LinePush
  <2>3. posts2 \in Seq(PoolItem) /\ posts2 = Append(posted, item)
    BY <1>1
  <2> HIDE DEF line, line2, posts2
  <2>4. /\ FilesHold(file, posts2) /\ LineHolds(line2, file, posts2)
        /\ NoneMissing(line, file, posted) /\ ~ full => NoneMissing(line2, file, posts2)
    BY <1>1, <2>1, <2>2, <2>3, PostKeepsOrder
  <2>5. overrun_counter_' = 0 => ~ full /\ overrun_counter_ = 0
    BY <1>1, OverrunPush
  <2>6. overrun_counter_' = 0 /\ faults = 0 => NoneMissing(line, file, posted) /\ ~ full
    BY <1>4, <2>5 DEF OrderOf, line
  <2> QED  BY <2>4, <2>6 DEF OrderOf, line2, posts2
<1> QED  BY <1>2, <1>3, <1>4 DEF OrderInv

(* A terminate item is posted.                                             *)
LEMMA OrderTerminate ==
  ASSUME PoolInv, WorkInv, WorkInv', OrderInv, NEW item \in PoolItem \ Message, push_back(item), ~ full,
         UNCHANGED <<workers, file, faults, posted>>
  PROVE  OrderInv'
<1>1. RingInv
  BY DEF PoolInv
<1>2. hand' = hand /\ threads_' = threads_ /\ overrun_counter_' = overrun_counter_
  BY <1>1, OverrunPush DEF workers, threads_
<1>3. ASSUME NEW w \in Worker, OrderOf(w)  PROVE OrderOf(w)'
  <2> DEFINE line == Line(w)
             line2 == Line(w)'
  <2>1. FilesHold(file, posted) /\ LineHolds(line, file, posted)
    BY <1>3 DEF OrderOf
  <2>2. /\ PushedBehind(line, line2, item)
        /\ \A m : Waits(m, line) => Waits(m, line2)
    BY <1>1, <1>2, LinePush
  <2>3. overrun_counter_ = 0 /\ faults = 0 => NoneMissing(line, file, posted)
    BY <1>3 DEF OrderOf
  <2> HIDE DEF line, line2
  <2>4. LineHolds(line2, file, posted) /\ \A m \in Message : Waits(m, line2) => Waits(m, line)
    BY <2>1, <2>2, OtherKeepsOrder
  <2>5. \A m \in Message : There(m, line, file) <=> There(m, line2, file)
    BY <2>2, <2>4 DEF There
  <2>6. overrun_counter_ = 0 /\ faults = 0 => NoneMissing(line2, file, posted)
    BY <2>3, <2>5, SameThere
  <2> QED  BY <1>2, <2>1, <2>4, <2>6 DEF OrderOf, line2
<1> QED  BY <1>2, <1>3 DEF OrderInv, PostsNumbered

(* The worker takes an item: the whole line moves up.                      *)
LEMMA OrderDequeue ==
  ASSUME PoolInv, WorkInv, WorkInv', OrderInv, NEW w \in Worker, dequeue_for(w)
  PROVE  OrderInv'
<1>1. /\ hand' = [hand EXCEPT ![w] = v_[head_]] /\ worker[w] = "waiting"
      /\ worker' = [worker EXCEPT ![w] = "notifying"]
      /\ UNCHANGED <<posted, file, faults, overrun_counter_>>
  BY DEF dequeue_for, pop_front, sink
<1>2. Items # <<>> /\ v_[head_] = Items[1] /\ Items' = Tail(Items) /\ Items \in Seq(PoolItem)
  BY PopItems DEF PoolInv, WorkInv
<1>3. threads_' = threads_ /\ w \in threads_ /\ hand'[w] = Items[1] /\ hand[w] = Nothing
  BY <1>1, <1>2 DEF PoolInv, HandInv, threads_
<1>4. ASSUME threads_ = {w}, OrderOf(w)  PROVE OrderOf(w)'
  <2> DEFINE line == Line(w)
             line2 == Line(w)'
             n == Len(Items)
             e == [i \in 0..(n - 1) |-> i + 1]
  <2>1. FilesHold(file, posted) /\ LineHolds(line, file, posted)
    BY <1>4 DEF OrderOf
  <2>2. overrun_counter_ = 0 /\ faults = 0 => NoneMissing(line, file, posted)
    BY <1>4 DEF OrderOf
  <2>3. /\ n \in Nat /\ n # 0 /\ Len(Items') = n - 1 /\ \A i \in 1..(n - 1) : Items'[i] = Items[i + 1]
    BY <1>2
  <2>4. /\ DOMAIN line = 0..n /\ line[0] = Nothing /\ \A i \in 1..n : line[i] = Items[i]
    BY <1>3, LineIs
  <2>5. /\ DOMAIN line2 = 0..(n - 1) /\ line2[0] = Items[1]
        /\ \A i \in 1..(n - 1) : line2[i] = Items[i + 1]
    <3>1. /\ DOMAIN line2 = 0..Len(Items') /\ line2[0] = hand'[w]
          /\ \A i \in 1..Len(Items') : line2[i] = Items'[i]
      BY LineWillBe
    <3> HIDE DEF line2, n
    <3> QED  BY <1>3, <2>3, <3>1
  <2> HIDE DEF line, line2, n
  <2>6. ASSUME NEW i \in 0..(n - 1)  PROVE e[i] \in DOMAIN line /\ line2[i] = line[e[i]]
    <3>1. e[i] = i + 1 /\ i + 1 \in 1..n /\ i + 1 \in 0..n /\ (i = 0 \/ i \in 1..(n - 1))
      BY <2>3
    <3> QED  BY <2>4, <2>5, <3>1
  <2>7. \A i, j \in DOMAIN line2 : i < j => e[i] < e[j]
    BY <2>5
  <2>8. ASSUME NEW m \in Message, Waits(m, line)  PROVE Waits(m, line2)
    <3>1. PICK i \in 0..n : line[i] = m
      BY <2>4, <2>8 DEF Waits
    <3>2. i # 0
      <4>1. Nothing \notin Message
        BY PoolAssumption DEF PoolItem
      <4> QED  BY <2>4, <3>1, <4>1
    <3>3. i - 1 \in 0..(n - 1) /\ e[i - 1] = i
      BY <2>3, <3>2
    <3> QED  BY <2>5, <2>6, <3>1, <3>3 DEF Waits
  <2> HIDE DEF e
  <2>a. \A i \in DOMAIN line2 : line2[i] \in Message => e[i] \in DOMAIN line /\ line2[i] = line[e[i]]
    BY <2>5, <2>6
  <2>9. LineHolds(line2, file, posted) /\ \A m \in Message : Waits(m, line2) => Waits(m, line)
    BY <2>1, <2>7, <2>a, LineMoves
  <2>10. \A m \in Message : There(m, line, file) <=> There(m, line2, file)
    BY <2>8, <2>9 DEF There
  <2>11. overrun_counter_ = 0 /\ faults = 0 => NoneMissing(line2, file, posted)
    BY <2>2, <2>10, SameThere
  <2> QED  BY <1>1, <2>1, <2>9, <2>11 DEF OrderOf, line2
<1>5. \A u \in Worker : threads_' = {u} => u = w
  BY <1>3
<1> QED  BY <1>1, <1>3, <1>4, <1>5 DEF OrderInv, PostsNumbered

(* The worker has nothing in hand any more.                                *)
LEMMA LineFinish ==
  ASSUME PoolInv, WorkInv, WorkInv', NEW w \in Worker, UNCHANGED ring,
         hand' = [hand EXCEPT ![w] = Nothing]
  PROVE  /\ DOMAIN Line(w)' = DOMAIN Line(w) /\ 0 \in DOMAIN Line(w) /\ DOMAIN Line(w) \subseteq Nat
         /\ Line(w)'[0] = Nothing /\ Line(w)[0] = hand[w]
         /\ \A i \in DOMAIN Line(w) \ {0} : Line(w)'[i] = Line(w)[i]
<1>1. Items' = Items
  BY DEF ring, Items
<1>2. hand'[w] = Nothing
  BY DEF PoolInv, HandInv
<1>3. /\ Len(Items) \in Nat /\ DOMAIN Line(w) = 0..Len(Items)
      /\ Line(w)[0] = hand[w] /\ \A i \in 1..Len(Items) : Line(w)[i] = Items[i]
  BY LineIs
<1>4. /\ DOMAIN Line(w)' = 0..Len(Items) /\ Line(w)'[0] = Nothing
      /\ \A i \in 1..Len(Items) : Line(w)'[i] = Items[i]
  BY <1>1, <1>2, LineWillBe
<1>5. \A i \in 0..Len(Items) : i # 0 => i \in 1..Len(Items)
  BY <1>3
<1> QED  BY <1>3, <1>4, <1>5

(* ... and the files hold no more than before, besides what it had.        *)
LEMMA LineWritten ==
  ASSUME NEW line, NEW line2, NEW files, NEW files2, NEW posts,
         DOMAIN line2 = DOMAIN line, 0 \in DOMAIN line, DOMAIN line \subseteq Nat,
         line2[0] = Nothing, \A i \in DOMAIN line \ {0} : line2[i] = line[i],
         LineHolds(line, files, posts),
         \A m \in Message : InFiles(m, files2) => InFiles(m, files) \/ m = line[0]
  PROVE  LineHolds(line2, files2, posts)
<1>1. Nothing \notin Message
  BY PoolAssumption DEF PoolItem
<1>2. \A i \in DOMAIN line2 : line2[i] \in Message => i # 0 /\ 0 < i /\ line2[i] = line[i]
  BY <1>1
<1> QED  BY <1>2 DEF LineHolds

(* A worker is done with what it had in hand.                              *)
Finish(w) ==
  /\ UNCHANGED ring /\ hand' = [hand EXCEPT ![w] = Nothing]
  /\ threads_' = threads_ /\ posted' = posted /\ threads_ = {w}

LEMMA OrderFinish ==
  ASSUME PoolInv, WorkInv, WorkInv', NEW w \in Worker, OrderOf(w), Finish(w),
         UNCHANGED <<file, faults>>, hand[w] \notin Message
  PROVE  OrderOf(w)'
<1> DEFINE line == Line(w)
           line2 == Line(w)'
<1>1. /\ DOMAIN line2 = DOMAIN line /\ 0 \in DOMAIN line /\ DOMAIN line \subseteq Nat
      /\ line2[0] = Nothing /\ line[0] = hand[w]
      /\ \A i \in DOMAIN line \ {0} : line2[i] = line[i]
  BY LineFinish DEF Finish
<1>2. FilesHold(file, posted) /\ LineHolds(line, file, posted)
  BY DEF OrderOf
<1>3. overrun_counter_ = 0 /\ faults = 0 => NoneMissing(line, file, posted)
  BY DEF OrderOf
<1>4. UNCHANGED <<overrun_counter_, posted>>
  BY DEF Finish, ring
<1> HIDE DEF line, line2
<1>5. LineHolds(line2, file, posted)
  BY <1>1, <1>2, LineWritten
<1>6. Nothing \notin Message
  BY PoolAssumption DEF PoolItem
<1>7. \A m \in Message : There(m, line, file) <=> There(m, line2, file)
  BY <1>1, <1>6 DEF There, Waits
<1>8. overrun_counter_ = 0 /\ faults = 0 => NoneMissing(line2, file, posted)
  BY <1>3, <1>7, SameThere
<1> QED  BY <1>2, <1>4, <1>5, <1>8 DEF OrderOf, line2

LEMMA OrderWrite ==
  ASSUME PoolInv, WorkInv, WorkInv', SinkInv, PostsNumbered, NEW w \in Worker, OrderOf(w), Finish(w),
         hand[w] \in Message, Write(hand[w])
  PROVE  OrderOf(w)'
<1> DEFINE line == Line(w)
           line2 == Line(w)'
           m == hand[w]
           f == file
           f2 == file'
<1>1. /\ DOMAIN line2 = DOMAIN line /\ 0 \in DOMAIN line /\ DOMAIN line \subseteq Nat
      /\ line2[0] = Nothing /\ line[0] = m
      /\ \A i \in DOMAIN line \ {0} : line2[i] = line[i]
  BY LineFinish DEF Finish
<1>2. FilesHold(f, posted) /\ LineHolds(line, f, posted)
  BY DEF OrderOf
<1>3. overrun_counter_ = 0 /\ faults = 0 => NoneMissing(line, f, posted)
  BY DEF OrderOf
<1>4. UNCHANGED <<overrun_counter_, posted, faults>>
  BY DEF Finish, ring, Write
<1>5. /\ f \in Files /\ FilesInOrder(f) /\ m \in Message
      /\ \A x \in Message : InFiles(x, f) => Ids[x] < Ids[m]
      /\ WasPosted(m, posted)
  BY <1>1, <1>2 DEF SinkInv, FilesHold, LineHolds
<1>6. m.size \in Sizes
  BY <1>5 DEF Message
<1>7. Nothing \notin Message
  BY PoolAssumption DEF PoolItem
<1>8. /\ FilesInOrder(f2)
      /\ \A x \in Message : InFiles(x, f2) => InFiles(x, f) \/ x = m
      /\ InFiles(m, f2) /\ (max_files_ \in DOMAIN f => max_files_ \in DOMAIN f2)
      /\ \/ \A x \in Message : InFiles(x, f) => InFiles(x, f2)
         \/ /\ max_files_ \in DOMAIN f
            /\ \A x \in Message : InFiles(x, f) /\ ~ InFiles(x, f2) =>
                 \A y \in Message : InFiles(y, f2) => Ids[x] < Ids[y]
  <2>1. CASE Fits(m.size)
    <3>1. fd_ /\ 0 \in DOMAIN f /\ f2 = [f EXCEPT ![0] = Append(f[0], m)]
      BY <1>6, <2>1 DEF Write, SinkInv, RotationIsSafe, NeverWritesToNull
    <3>2. f2 = WithFirst(f, Append(f[0], m)) /\ DOMAIN f2 = DOMAIN f
      BY <3>1 DEF WithFirst
    <3> HIDE DEF f, f2, m
    <3>3. FilesInOrder(f2) /\ \A x : InFiles(x, f2) <=> x = m \/ InFiles(x, f)
      <4>1. /\ FilesInOrder(WithFirst(f, Append(f[0], m)))
            /\ \A x : InFiles(x, WithFirst(f, Append(f[0], m))) <=> x = m \/ InFiles(x, f)
        BY <1>5, <3>1, FirstGrows
      <4> QED  BY <3>2, <4>1
    <3> QED  BY <3>2, <3>3
  <2>2. CASE ~ Fits(m.size)
    <3>1. f2 = WithFirst(Moved(f, 0), <<m>>)
      BY <2>2 DEF Write, WithFirst
    <3>2. 0 \in 0..max_files_ /\ max_files_ \in Nat
      BY SinkAssumption
    <3>3. /\ Moved(f, 0) \in Files /\ FilesInOrder(Moved(f, 0))
          /\ \A x : InFiles(x, Moved(f, 0)) => InFiles(x, f)
      BY <1>5, <3>2, MovedInOrder
    <3>4. max_files_ \in DOMAIN f => max_files_ \in DOMAIN f2
      <4>1. max_files_ \in DOMAIN f => max_files_ \in DOMAIN Moved(f, 0)
        BY <3>2 DEF Moved
      <4> QED  BY <3>1, <4>1 DEF WithFirst
    <3> DEFINE g == Moved(f, 0)
    <3>a. g \in Files /\ FilesInOrder(g) /\ \A x \in Message : InFiles(x, g) => Ids[x] < Ids[m]
      BY <1>5, <3>3
    <3>5. /\ FilesInOrder(f2) /\ InFiles(m, f2)
          /\ \A x : InFiles(x, f2) => x = m \/ InFiles(x, f)
      <4> HIDE DEF g, f2, m, f
      <4>1. FilesInOrder(WithFirst(g, <<m>>)) /\ InFiles(m, WithFirst(g, <<m>>))
            /\ \A x : InFiles(x, WithFirst(g, <<m>>)) => x = m \/ InFiles(x, g)
        BY <1>5, <3>a, FirstIsNew
      <4> QED  BY <3>1, <3>3, <4>1 DEF g
    <3>6. ASSUME NEW x \in Message, InFiles(x, f), ~ InFiles(x, f2)
          PROVE  max_files_ \in DOMAIN f /\ \A y \in Message : InFiles(y, f2) => Ids[x] < Ids[y]
      <4> HIDE DEF m
      <4> QED  BY <1>5, <3>1, <3>6, RotationLoses
    <3> HIDE DEF f, f2, m
    <3> QED  BY <3>4, <3>5, <3>6
  <2> QED  BY <2>1, <2>2
<1> HIDE DEF line, line2, f, f2, m
<1>9. FilesHold(f2, posted)
  BY <1>2, <1>5, <1>8 DEF FilesHold
<1>10. LineHolds(line2, f2, posted)
  BY <1>1, <1>2, <1>8, LineWritten
<1>11. ASSUME NoneMissing(line, f, posted)  PROVE NoneMissing(line2, f2, posted)
  <2>1. \A y \in Message : There(y, line2, f2) => There(y, line, f)
    <3>1. \A y \in Message : Waits(y, line2) => Waits(y, line)
      BY <1>1, <1>7 DEF Waits
    <3>2. Waits(m, line)
      BY <1>1 DEF Waits
    <3> QED  BY <1>8, <3>1, <3>2 DEF There
  <2>2. \A y \in Message : There(y, line, f) =>
          There(y, line2, f2) \/ (InFiles(y, f) /\ ~ InFiles(y, f2))
    <3>1. \A y \in Message : Waits(y, line) => Waits(y, line2) \/ y = m
      BY <1>1 DEF Waits
    <3> QED  BY <1>8, <3>1 DEF There
  <2>3. CASE \A x \in Message : InFiles(x, f) => InFiles(x, f2)
    <3>1. \A y \in Message : There(y, line, f) <=> There(y, line2, f2)
      BY <2>1, <2>2, <2>3
    <3> QED  BY <1>8, <1>11, <3>1, SameThere
  <2>4. CASE /\ max_files_ \in DOMAIN f
             /\ \A x \in Message : InFiles(x, f) /\ ~ InFiles(x, f2) =>
                  \A y \in Message : InFiles(y, f2) => Ids[x] < Ids[y]
    <3> SUFFICES ASSUME NEW n \in 1..Len(posted), posted[n] \in Message, ~ There(posted[n], line2, f2),
                        NEW y \in Message, There(y, line2, f2)
                 PROVE  n < Ids[y]
      BY <1>8, <2>4 DEF NoneMissing
    <3>1. CASE ~ There(posted[n], line, f)
      BY <1>11, <2>1, <3>1 DEF NoneMissing
    <3>2. CASE There(posted[n], line, f)
      <4>1. InFiles(posted[n], f) /\ ~ InFiles(posted[n], f2)
        BY <2>2, <3>2
      <4>2. Ids[posted[n]] < Ids[y]
        <5>1. CASE InFiles(y, f2)
          BY <2>4, <4>1, <5>1
        <5>2. CASE Waits(y, line2)
          <6>1. Waits(y, line)
            BY <1>1, <1>7, <5>2 DEF Waits
          <6> QED  BY <1>2, <4>1, <6>1 DEF LineHolds, Waits
        <5> QED  BY <5>1, <5>2 DEF There
      <4>3. Ids[posted[n]] = n
        BY DEF PostsNumbered
      <4> QED  BY <4>2, <4>3
    <3> QED  BY <3>1, <3>2
  <2> QED  BY <1>8, <2>3, <2>4
<1> QED  BY <1>3, <1>4, <1>9, <1>10, <1>11 DEF OrderOf, line, line2, f, f2

(* What something that fails does to the order of the files: nothing.      *)
LEMMA FailInOrder ==
  ASSUME SinkInv, NEW m \in Message, FailToWrite(m), FilesInOrder(file),
         \A x \in Message : InFiles(x, file) => Ids[x] < Ids[m]
  PROVE  FilesInOrder(file') /\ \A x : InFiles(x, file') => x = m \/ InFiles(x, file)
<1> DEFINE f2 == file'
<1>1. PICK n \in Nat :
         \/ f2 = Cut(n)
         \/ \E s \in {<<>>, <<m>>} : f2 = WithFirst(Moved(Cut(n), 0), s)
         \/ \E k \in 0..max_files_ :
              f2 = WithFirst(Moved(Cut(n), k), <<>>) \/ f2 = Moved(Cut(n), k)
  BY FailOutcome
<1> DEFINE c == Cut(n)
<1>2. c \in Files /\ FilesInOrder(c) /\ \A x : InFiles(x, c) => InFiles(x, file)
  BY CutInOrder DEF SinkInv
<1> HIDE DEF c
<1>3. \A k \in 0..max_files_ : /\ Moved(c, k) \in Files /\ FilesInOrder(Moved(c, k))
                               /\ \A x : InFiles(x, Moved(c, k)) => InFiles(x, file)
  BY <1>2, MovedInOrder
<1>4. 0 \in 0..max_files_
  BY SinkAssumption
<1>5. ASSUME NEW k \in 0..max_files_, f2 = WithFirst(Moved(c, k), <<>>)
      PROVE  FilesInOrder(f2) /\ \A x : InFiles(x, f2) => InFiles(x, file)
  <2> DEFINE s == <<>>
             g == Moved(c, k)
  <2>1. s \in Seq(Message) /\ Len(s) = 0 /\ f2 = WithFirst(g, s)
    BY <1>5
  <2>2. g \in Files /\ FilesInOrder(g) /\ \A x : InFiles(x, g) => InFiles(x, file)
    BY <1>3
  <2> HIDE DEF s, g, f2
  <2>3. Increasing(Ids, s) /\ \A i \in 1..Len(s) : 0 \in DOMAIN g /\ Occurs(s[i], g[0])
    BY <2>1 DEF Increasing
  <2>4. FilesInOrder(WithFirst(g, s)) /\ \A x : InFiles(x, WithFirst(g, s)) => InFiles(x, g)
    BY <2>1, <2>2, <2>3, FirstShrinks
  <2> QED  BY <2>1, <2>2, <2>4
<1>6. ASSUME f2 = WithFirst(Moved(c, 0), <<m>>)
      PROVE  FilesInOrder(f2) /\ \A x : InFiles(x, f2) => x = m \/ InFiles(x, file)
  <2> DEFINE g == Moved(c, 0)
  <2>1. g \in Files /\ FilesInOrder(g) /\ \A x : InFiles(x, g) => InFiles(x, file)
    BY <1>3, <1>4
  <2>2. f2 = WithFirst(g, <<m>>)
    BY <1>6
  <2> HIDE DEF g, f2
  <2>3. /\ FilesInOrder(WithFirst(g, <<m>>))
        /\ \A x : InFiles(x, WithFirst(g, <<m>>)) => x = m \/ InFiles(x, g)
    BY <2>1, FirstIsNew
  <2> QED  BY <2>1, <2>2, <2>3
<1> HIDE DEF f2
<1>7. \/ f2 = c
      \/ f2 = WithFirst(Moved(c, 0), <<m>>)
      \/ \E k \in 0..max_files_ : f2 = WithFirst(Moved(c, k), <<>>) \/ f2 = Moved(c, k)
  BY <1>1, <1>4 DEF c
<1>8. FilesInOrder(f2) /\ \A x : InFiles(x, f2) => x = m \/ InFiles(x, file)
  BY <1>2, <1>3, <1>5, <1>6, <1>7
<1> QED  BY <1>8 DEF f2

(* The worker is done with what it had in hand, the files hold no more     *)
(* than before and perhaps that, and something has failed.                 *)
LEMMA OrderFaulty ==
  ASSUME PoolInv, WorkInv, WorkInv', NEW w \in Worker, OrderOf(w), Finish(w), faults' # 0,
         FilesInOrder(file'), \A x \in Message : InFiles(x, file') => InFiles(x, file) \/ x = hand[w]
  PROVE  OrderOf(w)'
<1> DEFINE line == Line(w)
           line2 == Line(w)'
           f2 == file'
<1>1. /\ DOMAIN line2 = DOMAIN line /\ 0 \in DOMAIN line /\ DOMAIN line \subseteq Nat
      /\ line2[0] = Nothing /\ line[0] = hand[w]
      /\ \A i \in DOMAIN line \ {0} : line2[i] = line[i]
  BY LineFinish DEF Finish
<1>2. FilesHold(file, posted) /\ LineHolds(line, file, posted)
  BY DEF OrderOf
<1>3. posted' = posted
  BY DEF Finish
<1>4. /\ FilesInOrder(f2)
      /\ \A x \in Message : InFiles(x, f2) => InFiles(x, file) \/ x = hand[w]
  OBVIOUS
<1> HIDE DEF line, line2, f2
<1>5. hand[w] \in Message => WasPosted(hand[w], posted)
  BY <1>1, <1>2 DEF LineHolds
<1>6. FilesHold(f2, posted)
  BY <1>2, <1>4, <1>5 DEF FilesHold
<1>7. LineHolds(line2, f2, posted)
  BY <1>1, <1>2, <1>4, LineWritten
<1> QED  BY <1>3, <1>6, <1>7 DEF OrderOf, line2, f2

LEMMA OrderFail ==
  ASSUME PoolInv, WorkInv, WorkInv', SinkInv, NEW w \in Worker, OrderOf(w), Finish(w),
         hand[w] \in Message, FailToWrite(hand[w])
  PROVE  OrderOf(w)'
<1> DEFINE line == Line(w)
           m == hand[w]
<1>1. 0 \in DOMAIN line /\ line[0] = m
  BY LineFinish DEF Finish
<1>2. FilesHold(file, posted) /\ LineHolds(line, file, posted)
  BY DEF OrderOf
<1>3. FilesInOrder(file) /\ m \in Message /\ FailToWrite(m)
      /\ \A x \in Message : InFiles(x, file) => Ids[x] < Ids[m]
  BY <1>1, <1>2 DEF FilesHold, LineHolds
<1> HIDE DEF m, line
<1>4. /\ FilesInOrder(file') /\ \A x : InFiles(x, file') => x = m \/ InFiles(x, file)
      /\ faults' # 0
  BY <1>3, FailInOrder, FailCounts
<1> QED  BY <1>4, OrderFaulty DEF m

(* So does a flush that fails.                                             *)
LEMMA OrderFlush ==
  ASSUME PoolInv, WorkInv, WorkInv', SinkInv, NEW w \in Worker, OrderOf(w), Finish(w),
         hand[w] \notin Message, flush_
  PROVE  OrderOf(w)'
<1>1. CASE UNCHANGED <<file, faults>>
  BY <1>1, OrderFinish
<1>2. CASE Fails /\ \E n \in 1..unflushed : file' = Cut(n)
  <2>1. PICK n \in Nat : file' = Cut(n)
    BY <1>2 DEF SinkInv
  <2>2. faults' # 0
    BY <1>2 DEF Fails, SinkInv
  <2>3. FilesInOrder(file)
    BY DEF OrderOf, FilesHold
  <2> DEFINE c == Cut(n)
  <2>4. FilesInOrder(c) /\ \A x : InFiles(x, c) => InFiles(x, file)
    BY <2>3, CutInOrder DEF SinkInv
  <2>5. file' = c
    BY <2>1
  <2> HIDE DEF c
  <2>6. FilesInOrder(file') /\ \A x : InFiles(x, file') => InFiles(x, file)
    BY <2>4, <2>5
  <2> QED  BY <2>2, <2>6, OrderFaulty
<1> QED  BY <1>1, <1>2 DEF flush_

(* A crash leaves nothing but the files, of which the newest may be        *)
(* shorter than before.                                                    *)
LEMMA CrashShrinks ==
  ASSUME SinkInv, FilesInOrder(file), CrashAndOpen
  PROVE  FilesInOrder(file') /\ \A m : InFiles(m, file') => InFiles(m, file)
<1>1. PICK n \in Nat : file' = WithFirst(Cut(n), IF 0 \in DOMAIN file THEN Cut(n)[0] ELSE <<>>)
  BY CrashOutcome
<1> DEFINE c == Cut(n)
           s == IF 0 \in DOMAIN file THEN c[0] ELSE <<>>
           g == file'
<1>2. c \in Files /\ FilesInOrder(c) /\ \A m : InFiles(m, c) => InFiles(m, file)
  BY CutInOrder DEF SinkInv
<1>a. DOMAIN c = DOMAIN file
  BY CutIs DEF SinkInv
<1>3. g = WithFirst(c, s)
  BY <1>1
<1>4. CASE 0 \in DOMAIN file
  <2> HIDE DEF c, g
  <2>1. s = c[0] /\ s \in Seq(Message) /\ Increasing(Ids, s)
    BY <1>2, <1>a, <1>4, FilesAre DEF FilesInOrder
  <2>2. \A i \in 1..Len(s) : 0 \in DOMAIN c /\ Occurs(s[i], c[0])
    BY <1>a, <1>4, <2>1 DEF Occurs
  <2> HIDE DEF s
  <2>3. FilesInOrder(WithFirst(c, s)) /\ \A m : InFiles(m, WithFirst(c, s)) => InFiles(m, c)
    BY <1>2, <2>1, <2>2, FirstShrinks
  <2> QED  BY <1>2, <1>3, <2>3 DEF g
<1>5. CASE 0 \notin DOMAIN file
  <2> HIDE DEF c, g
  <2>1. s \in Seq(Message) /\ Len(s) = 0
    <3>1. s = <<>>
      BY <1>5
    <3>2. <<>> \in Seq(Message) /\ Len(<<>>) = 0
      OBVIOUS
    <3> HIDE DEF s
    <3> QED  BY <3>1, <3>2
  <2> HIDE DEF s
  <2>2. Increasing(Ids, s) /\ \A i \in 1..Len(s) : 0 \in DOMAIN c /\ Occurs(s[i], c[0])
    BY <2>1 DEF Increasing
  <2>3. FilesInOrder(WithFirst(c, s)) /\ \A m : InFiles(m, WithFirst(c, s)) => InFiles(m, c)
    BY <1>2, <2>1, <2>2, FirstShrinks
  <2> QED  BY <1>2, <1>3, <2>3 DEF g
<1> QED  BY <1>4, <1>5

(* A line with nothing in it.                                              *)
LEMMA LineEmpty ==
  ASSUME NEW line, NEW files, NEW posts, \A i \in DOMAIN line : line[i] = Nothing
  PROVE  LineHolds(line, files, posts) /\ \A m \in Message : ~ Waits(m, line)
<1>1. Nothing \notin Message
  BY PoolAssumption DEF PoolItem
<1> QED  BY <1>1 DEF LineHolds, Waits

LEMMA OrderCrash ==
  ASSUME WorkInv', SinkInv, OrderInv, Crash
  PROVE  OrderInv'
<1>1. /\ CrashAndOpen /\ posted' = posted /\ Items' = <<>> /\ hand' = NoHands
      /\ threads_' = threads_
  BY NoItems DEF Crash, threads_
<1>2. faults' # 0
  BY <1>1 DEF CrashAndOpen, Fails, SinkInv
<1>3. PostsNumbered'
  BY <1>1 DEF OrderInv, PostsNumbered
<1>4. ASSUME NEW w \in Worker, OrderOf(w)  PROVE OrderOf(w)'
  <2> DEFINE line2 == Line(w)'
             f2 == file'
  <2>1. FilesHold(file, posted)
    BY <1>4 DEF OrderOf
  <2>2. FilesInOrder(f2) /\ \A m : InFiles(m, f2) => InFiles(m, file)
    BY <1>1, <2>1, CrashShrinks DEF FilesHold
  <2>3. FilesHold(f2, posted)
    <3> HIDE DEF f2
    <3> QED  BY <2>1, <2>2 DEF FilesHold
  <2>4. \A i \in DOMAIN line2 : line2[i] = Nothing
    <3>1. /\ DOMAIN line2 = 0..Len(Items') /\ line2[0] = hand'[w]
      BY LineWillBe
    <3>2. Len(Items') = 0 /\ hand'[w] = Nothing
      <4>1. Len(<<>>) = 0
        OBVIOUS
      <4> QED  BY <1>1, <4>1 DEF NoHands
    <3> HIDE DEF line2
    <3> QED  BY <3>1, <3>2
  <2>5. LineHolds(line2, f2, posted)
    <3> HIDE DEF line2, f2
    <3> QED  BY <2>4, LineEmpty
  <2> HIDE DEF line2, f2
  <2> QED  BY <1>1, <1>2, <2>3, <2>5 DEF OrderOf, line2, f2
<1> QED  BY <1>1, <1>3, <1>4 DEF OrderInv

LEMMA OrderInit == Init => OrderInv
<1> SUFFICES ASSUME Init  PROVE OrderInv
  OBVIOUS
<1>1. file = Before /\ posted = KeptIn(Before) /\ hand = NoHands /\ Items = <<>>
  BY NoItems DEF Init, InitSink, Kept
<1>2. /\ Before \in Files /\ KeptIn(Before) \in Seq(Message)
      /\ \A i \in DOMAIN KeptIn(Before) : KeptIn(Before)[i].id = i
  BY BeforeIs, PoolAssumption
<1>3. posted \in Seq(Message) /\ \A i \in 1..Len(posted) : posted[i] \in Message /\ Ids[posted[i]] = i
  <2>1. DOMAIN posted = 1..Len(posted) /\ \A i \in 1..Len(posted) : posted[i] \in Message
    BY <1>1, <1>2
  <2> QED  BY <1>1, <1>2, <2>1, IdsAre
<1>4. Increasing(Ids, posted)
  <2>1. \A i, j \in 1..Len(posted) : i < j => Ids[posted[i]] < Ids[posted[j]]
    BY <1>3
  <2> QED  BY <2>1 DEF Increasing
<1>5. FilesInOrder(file) /\ \A m : Occurs(m, posted) <=> InFiles(m, file)
  BY <1>1, <1>2, <1>4, KeptAre
<1>6. FilesHold(file, posted)
  <2> SUFFICES ASSUME NEW m \in Message, InFiles(m, file)  PROVE WasPosted(m, posted)
    BY <1>5 DEF FilesHold
  <2>1. PICK i \in 1..Len(posted) : posted[i] = m
    BY <1>5 DEF Occurs
  <2> QED  BY <1>3, <2>1 DEF WasPosted
<1>7. PostsNumbered
  BY <1>3 DEF PostsNumbered
<1>8. ASSUME NEW w \in Worker  PROVE OrderOf(w)
  <2>1. \A i \in DOMAIN Line(w) : Line(w)[i] = Nothing
    <3>1. DOMAIN Line(w) = 0..Len(Items) /\ Line(w)[0] = hand[w]
      BY DEF Line
    <3>2. Len(Items) = 0 /\ hand[w] = Nothing
      <4>1. Len(<<>>) = 0
        OBVIOUS
      <4> QED  BY <1>1, <4>1 DEF NoHands
    <3> QED  BY <3>1, <3>2
  <2>2. LineHolds(Line(w), file, posted)
    BY <2>1, LineEmpty
  <2>3. NoneMissing(Line(w), file, posted)
    <3> SUFFICES ASSUME NEW n \in 1..Len(posted)  PROVE There(posted[n], Line(w), file)
      BY DEF NoneMissing
    <3> QED  BY <1>5 DEF There, Occurs
  <2> QED  BY <1>6, <2>2, <2>3 DEF OrderOf
<1> QED  BY <1>7, <1>8 DEF OrderInv

(* What a worker does to the item in its hand.                             *)
LEMMA OrderWorker ==
  ASSUME PoolInv, WorkInv, WorkInv', SinkInv, OrderInv, NEW w \in Worker,
         backend_log_(w) \/ backend_flush_(w) \/ Terminated(w)
  PROVE  OrderInv'
<1>1. /\ UNCHANGED <<ring, posted>> /\ hand' = [hand EXCEPT ![w] = Nothing]
      /\ worker[w] \in {"processing", "flushing"}
      /\ \E next \in {"waiting", "flushing", "done"} : worker' = [worker EXCEPT ![w] = next]
  BY DEF backend_log_, backend_flush_, Terminated
<1>2. threads_' = threads_ /\ w \in threads_
  BY <1>1 DEF PoolInv, HandInv, threads_
<1>3. PostsNumbered /\ PostsNumbered'
  BY <1>1 DEF OrderInv, PostsNumbered
<1>4. ASSUME threads_ = {w}, OrderOf(w)  PROVE OrderOf(w)'
  <2>1. Finish(w)
    BY <1>1, <1>2, <1>4 DEF Finish
  <2>2. hand[w] \in Message <=> hand[w] \in PoolItem /\ hand[w].type = "log"
    BY DEF PoolItem, Message
  <2>3. CASE backend_log_(w)
    <3>1. /\ worker[w] = "processing" /\ hand[w].type = "log"
          /\ Write(hand[w]) \/ FailToWrite(hand[w])
      BY <2>3 DEF backend_log_
    <3>2. hand[w] \in PoolItem
      BY <3>1 DEF WorkInv, AtWork
    <3> QED  BY <1>3, <1>4, <2>1, <2>2, <3>1, <3>2, OrderWrite, OrderFail
  <2>4. CASE backend_flush_(w) \/ Terminated(w)
    <3>1. flush_ \/ UNCHANGED <<file, faults>>
      BY <2>4 DEF backend_flush_, Terminated, sink
    <3>2. hand[w] \notin Message
      <4>1. CASE worker[w] = "flushing"
        <5>1. hand[w] = Nothing
          BY <4>1 DEF WorkInv, AtWork
        <5> QED  BY <5>1, PoolAssumption DEF PoolItem
      <4>2. CASE worker[w] # "flushing"
        <5>1. hand[w].type # "log"
          BY <2>4, <4>2 DEF backend_flush_, Terminated
        <5> QED  BY <2>2, <5>1
      <4> QED  BY <4>1, <4>2
    <3> QED  BY <1>4, <2>1, <3>1, <3>2, OrderFinish, OrderFlush
  <2> QED  BY <2>3, <2>4
<1>5. \A u \in Worker : threads_' = {u} => u = w
  BY <1>2
<1> QED  BY <1>2, <1>3, <1>4, <1>5 DEF OrderInv

LEMMA OrderStep ==
  ASSUME PoolInv, PoolInv', WorkInv, WorkInv', SinkInv, OrderInv, [Next]_vars
  PROVE  OrderInv'
<1>0. HandInv /\ PostInv
  BY DEF PoolInv
<1>1. CASE UNCHANGED <<ring, workers, posted, file, faults>>
  BY <1>1, OrderUnchanged DEF workers, threads_
<1>2. ASSUME NEW t \in Thread, post_async_msg_(t)  PROVE OrderInv'
  <2>1. UNCHANGED <<workers, file, faults>>
    BY <1>2 DEF post_async_msg_, sink
  <2>2. CASE UNCHANGED <<ring, posted>>
    BY <1>1, <2>1, <2>2
  <2> DEFINE item == [call[t] EXCEPT !.id = Len(posted) + 1]
  <2>3. CASE push_back(item) /\ posted' = Append(posted, item)
    <3>1. t \in Posting
      BY <1>2 DEF post_async_msg_, Posting
    <3>2. item \in PoolItem
      BY <1>0, <3>1, PostedItem
    <3>3. item \in Message => Ids[item] = Len(posted) + 1
      <4>1. call[t] \in Draft
        BY <1>0, <3>1 DEF PostInv
      <4>2. item.id = Len(posted) + 1
        BY <4>1 DEF Draft
      <4> HIDE DEF item
      <4> QED  BY <4>2, IdsAre
    <3> HIDE DEF item
    <3> QED  BY <2>1, <2>3, <3>2, <3>3, OrderPost
  <2> QED  BY <1>2, <2>2, <2>3 DEF post_async_msg_, Wait
<1>3. ASSUME NEW t \in Thread, PostTerminate(t)  PROVE OrderInv'
  <2>1. UNCHANGED <<workers, file, faults, posted>>
    BY <1>3 DEF PostTerminate, Wait, sink
  <2>2. UNCHANGED ring \/ (push_back([type |-> "terminate"]) /\ ~ full)
    BY <1>3 DEF PostTerminate, Wait, MustWait
  <2>3. [type |-> "terminate"] \in PoolItem \ Message
    BY DEF PoolItem, Message
  <2> QED  BY <1>1, <2>1, <2>2, <2>3, OrderTerminate
<1>4. ASSUME NEW t \in Thread, Return(t) \/ shutdown(t) \/ Join(t) \/ Call(t) \/ SpuriousWakeup(t)
      PROVE  OrderInv'
  BY <1>1, <1>4 DEF Return, shutdown, Join, Call, SpuriousWakeup, sink
<1>5. ASSUME NEW w \in Worker, dequeue_for(w)  PROVE OrderInv'
  BY <1>5, OrderDequeue
<1>6. ASSUME NEW w \in Worker, notify_one(w)  PROVE OrderInv'
  <2>1. /\ UNCHANGED <<ring, hand, posted, file, faults>> /\ worker[w] = "notifying"
        /\ worker' = [worker EXCEPT ![w] = "processing"]
    BY <1>6 DEF notify_one, sink
  <2>2. threads_' = threads_
    BY <1>0, <2>1 DEF threads_, HandInv
  <2> QED  BY <2>1, <2>2, OrderUnchanged
<1>7. ASSUME NEW w \in Worker, backend_log_(w) \/ backend_flush_(w) \/ Terminated(w)  PROVE OrderInv'
  BY <1>7, OrderWorker
<1>8. ASSUME Crash  PROVE OrderInv'
  BY <1>8, OrderCrash
<1>9. CASE UNCHANGED vars
  BY <1>1, <1>9 DEF vars, sink
<1> QED
  BY <1>2, <1>3, <1>4, <1>5, <1>6, <1>7, <1>8, <1>9 DEF Next, ThreadStep, WorkerStep

-----------------------------------------------------------------------------
(* From the messages there are to the sequence of them.                    *)

LEMMA LogIs == \A item \in PoolItem : item \in Message <=> item.type = "log"
BY DEF PoolItem, Message

(* Logs, item by item.                                                     *)
LEMMA LogSteps ==
  ASSUME NEW s \in Seq(PoolItem)
  PROVE  \E logs \in [0..Len(s) -> Seq(Message)] :
            /\ logs[0] = <<>> /\ Logs(s) = logs[Len(s)]
            /\ \A i \in 1..Len(s) :
                 logs[i] = IF s[i] \in Message THEN Append(logs[i - 1], s[i]) ELSE logs[i - 1]
<1> DEFINE n == Len(s)
           R == Seq(Message)
           Add(p, item) == IF item.type = "log" THEN Append(p, item) ELSE p
           g == [p \in R \X (1..n) |-> Add(p[1], s[p[2]])]
           Is(f) == f = [t \in SUBSET DOMAIN s |->
                           IF t = {} THEN <<>> ELSE Add(f[t \ {Max(t)}], s[Max(t)])]
           iter == CHOOSE f : Is(f)
<1>1. n \in Nat /\ DOMAIN s = 1..n /\ \A i \in 1..n : s[i] \in PoolItem
  OBVIOUS
<1>a. \A p \in R, item \in PoolItem : /\ Add(p, item) \in R
                                     /\ Add(p, item) = IF item \in Message THEN Append(p, item) ELSE p
  <2>1. \A p \in R, item \in Message : Append(p, item) \in R
    OBVIOUS
  <2> HIDE DEF R
  <2> QED  BY <2>1, LogIs
<1>2. g \in [R \X (1..n) -> R] /\ <<>> \in R
  <2>1. <<>> \in R
    OBVIOUS
  <2> HIDE DEF R, Add, n
  <2> QED  BY <1>1, <1>a, <2>1
<1>3. Logs(s) = iter[1..n]
  BY <1>1 DEF Logs, FoldLeft, MapThenFoldSet
<1>4. PICK f \in [SUBSET (1..n) -> R] : Folds(n, <<>>, g, f)
  <2> HIDE DEF n, g, R
  <2> QED  BY <1>1, <1>2, FoldExists DEF HasFold
<1>5. Is(f)
  <2>1. ASSUME NEW t \in SUBSET (1..n), t # {}
        PROVE  g[<<f[t \ {Max(t)}], Max(t)>>] = Add(f[t \ {Max(t)}], s[Max(t)])
    <3>1. Max(t) \in 1..n
      BY <1>1, <2>1, MaxIs
    <3> HIDE DEF Add, R
    <3> QED  BY <3>1
  <2> HIDE DEF n, g, Add, R
  <2>2. f = [t \in SUBSET (1..n) |-> IF t = {} THEN <<>> ELSE Add(f[t \ {Max(t)}], s[Max(t)])]
    BY <1>4, <2>1 DEF Folds
  <2> QED  BY <1>1, <2>2
<1>6. Is(iter)
  <2> HIDE DEF Is
  <2> QED  BY <1>5
<1> HIDE DEF iter
<1> DEFINE logs == [i \in 0..n |-> iter[1..i]]
<1>7. iter[{}] = <<>>
  <2> HIDE DEF Add
  <2> QED  BY <1>6
<1>8. ASSUME NEW i \in 1..n  PROVE iter[1..i] = Add(iter[1..(i - 1)], s[i])
  <2>1. 1..i \in SUBSET (1..n) /\ i \in 1..i /\ 1..i # {} /\ (1..i) \ {i} = 1..(i - 1)
    <3>1. n \in Nat
      BY <1>1
    <3> HIDE DEF n
    <3>2. i \in Int /\ 1 <= i /\ i <= n
      BY <3>1
    <3>3. \A j \in 1..i : j \in 1..n
      BY <3>1, <3>2
    <3>4. \A j \in Int : j \in (1..i) \ {i} <=> j \in 1..(i - 1)
      BY <3>2
    <3>5. (1..i) \ {i} = 1..(i - 1)
      BY <3>4
    <3> QED  BY <3>2, <3>3, <3>5
  <2>2. Max(1..i) \in 1..i /\ \A m \in 1..i : Max(1..i) >= m
    BY ONLY <1>1, <2>1, MaxIs
  <2>3. Max(1..i) = i
    BY <1>1, <2>1, <2>2
  <2> HIDE DEF Add
  <2> QED  BY <1>1, <1>6, <2>1, <2>3
<1> HIDE DEF Is, n, g, Add, R
<1>9. ASSUME NEW k \in Nat  PROVE k <= n => iter[1..k] \in R
  <2> DEFINE T == {i \in Nat : i <= n => iter[1..i] \in R}
  <2>1. 0 \in T
    BY <1>2, <1>7
  <2>2. ASSUME NEW i \in Nat, i \in T  PROVE i + 1 \in T
    <3> SUFFICES ASSUME i + 1 <= n  PROVE iter[1..(i + 1)] \in R
      OBVIOUS
    <3>1. i + 1 \in 1..n /\ (i + 1) - 1 = i /\ i <= n
      BY <1>1
    <3>2. iter[1..(i + 1)] = Add(iter[1..i], s[i + 1])
      BY <1>8, <3>1
    <3> QED  BY <1>1, <1>a, <2>2, <3>1, <3>2
  <2> HIDE DEF T
  <2>3. k \in T
    BY <2>1, <2>2, Induction
  <2> QED  BY <2>3 DEF T
<1>10. logs \in [0..n -> R] /\ logs[0] = <<>> /\ logs[n] = Logs(s)
  BY <1>1, <1>3, <1>7, <1>9
<1>11. \A i \in 1..n : logs[i] = IF s[i] \in Message THEN Append(logs[i - 1], s[i]) ELSE logs[i - 1]
  <2> TAKE i \in 1..n
  <2>1. i - 1 \in 0..n /\ i \in 0..n /\ i - 1 \in Nat /\ i - 1 <= n
    BY <1>1
  <2>2. logs[i] = Add(logs[i - 1], s[i]) /\ logs[i - 1] \in R
    BY <1>8, <1>10, <2>1
  <2> HIDE DEF logs
  <2> QED  BY <1>1, <1>a, <2>2
<1> HIDE DEF logs
<1> QED  BY <1>10, <1>11 DEF n, R

LEMMA LogsAre ==
  ASSUME NEW s \in Seq(PoolItem)
  PROVE  /\ Logs(s) \in Seq(Message)
         /\ \A m : Occurs(m, Logs(s)) <=> m \in Message /\ Occurs(m, s)
         /\ (\A i, j \in 1..Len(s) : i < j /\ s[i] \in Message /\ s[j] \in Message => Ids[s[i]] < Ids[s[j]])
              => Increasing(Ids, Logs(s))
<1>1. PICK logs \in [0..Len(s) -> Seq(Message)] :
        /\ logs[0] = <<>> /\ Logs(s) = logs[Len(s)]
        /\ \A i \in 1..Len(s) :
             logs[i] = IF s[i] \in Message THEN Append(logs[i - 1], s[i]) ELSE logs[i - 1]
  BY LogSteps
<1> DEFINE n == Len(s)
           Upwards == \A i, j \in 1..n : i < j /\ s[i] \in Message /\ s[j] \in Message => Ids[s[i]] < Ids[s[j]]
           Holds(k) == /\ \A m : Occurs(m, logs[k]) <=> m \in Message /\ \E i \in 1..k : s[i] = m
                       /\ Upwards => Increasing(Ids, logs[k])
           T == {k \in Nat : k <= n => Holds(k)}
<1>2. n \in Nat /\ DOMAIN s = 1..n
  OBVIOUS
<1> HIDE DEF n
<1>3. 0 \in T
  <2>1. Len(logs[0]) = 0
    BY <1>1
  <2> QED  BY <2>1 DEF Occurs, Increasing
<1>4. ASSUME NEW k \in Nat, k \in T  PROVE k + 1 \in T
  <2> SUFFICES ASSUME k + 1 <= n  PROVE Holds(k + 1)
    OBVIOUS
  <2> DEFINE a == logs[k]
             b == logs[k + 1]
             x == s[k + 1]
  <2>1. /\ k \in 0..n /\ k + 1 \in 0..n /\ k + 1 \in 1..n /\ (k + 1) - 1 = k /\ k <= n
        /\ \A i \in 1..k : i \in 1..n /\ i < k + 1
    BY <1>2
  <2>2. Holds(k)
    BY <1>4, <2>1
  <2>3. a \in Seq(Message) /\ b \in Seq(Message) /\ b = IF x \in Message THEN Append(a, x) ELSE a
    BY <1>1, <2>1 DEF n
  <2>4. \A i \in 1..(k + 1) : i \in 1..k \/ i = k + 1
    OBVIOUS
  <2>5. (\A m : Occurs(m, a) <=> m \in Message /\ \E i \in 1..k : s[i] = m)
        /\ (Upwards => Increasing(Ids, a))
    BY <2>2
  <2> SUFFICES /\ \A m : Occurs(m, b) <=> m \in Message /\ \E i \in 1..(k + 1) : s[i] = m
               /\ Upwards => Increasing(Ids, b)
    OBVIOUS
  <2>6. CASE x \notin Message
    <3>1. b = a
      BY <2>3, <2>6
    <3> HIDE DEF a, b, Upwards
    <3>2. \A m \in Message : (\E i \in 1..(k + 1) : s[i] = m) <=> \E i \in 1..k : s[i] = m
      BY <2>4, <2>6, <2>1
    <3> QED  BY <2>5, <3>1, <3>2
  <2>7. CASE x \in Message
    <3>1. /\ Len(a) \in Nat /\ Len(b) = Len(a) + 1 /\ b[Len(a) + 1] = x
          /\ \A i \in 1..Len(a) : b[i] = a[i]
      <4>1. b = Append(a, x)
        BY <2>3, <2>7
      <4> HIDE DEF a, b, x
      <4> QED  BY <2>3, <2>7, <4>1
    <3> HIDE DEF a, b
    <3>2. /\ \A i \in 1..Len(b) : i \in 1..Len(a) \/ i = Len(a) + 1
          /\ \A i \in 1..Len(a) : i \in 1..Len(b)
          /\ Len(a) + 1 \in 1..Len(b)
      BY <3>1
    <3>3. ASSUME NEW m  PROVE Occurs(m, b) <=> m \in Message /\ \E i \in 1..(k + 1) : s[i] = m
      <4>1. Occurs(m, b) <=> m = x \/ Occurs(m, a)
        BY <3>1, <3>2 DEF Occurs
      <4>2. (\E i \in 1..(k + 1) : s[i] = m) <=> m = x \/ \E i \in 1..k : s[i] = m
        BY <2>4
      <4> QED  BY <2>5, <2>7, <4>1, <4>2
    <3>4. ASSUME Upwards  PROVE Increasing(Ids, b)
      <4> SUFFICES ASSUME NEW i \in 1..Len(b), NEW j \in 1..Len(b), i < j
                   PROVE  Ids[b[i]] < Ids[b[j]]
        BY DEF Increasing
      <4>1. i \in 1..Len(a)
        BY <3>1
      <4>2. CASE j \in 1..Len(a)
        BY <2>5, <3>1, <3>4, <4>1, <4>2 DEF Increasing
      <4>3. CASE j = Len(a) + 1
        <5>1. Occurs(a[i], a)
          BY <4>1 DEF Occurs
        <5>2. PICK h \in 1..k : s[h] = a[i]
          BY <2>5, <5>1
        <5>3. a[i] \in Message
          BY <2>3, <4>1
        <5>4. Ids[s[h]] < Ids[s[k + 1]]
          BY <2>1, <2>7, <3>4, <5>2, <5>3
        <5> QED  BY <3>1, <4>1, <4>3, <5>2, <5>4
      <4> QED  BY <3>2, <4>2, <4>3
    <3> QED  BY <3>3, <3>4
  <2> QED  BY <2>6, <2>7
<1> HIDE DEF T
<1>5. n \in T
  BY <1>2, <1>3, <1>4, Induction
<1>6. Holds(n)
  BY <1>2, <1>5 DEF T
<1>7. Logs(s) = logs[n] /\ logs[n] \in Seq(Message)
  BY <1>1, <1>2 DEF n
<1> QED  BY <1>6, <1>7 DEF n, Occurs

(* Where there is one worker, its line is what is in hand, and the ring.   *)
LEMMA Behind ==
  ASSUME WorkInv, NEW w \in Worker, threads_ = {w}
  PROVE  /\ InHand \o Items \in Seq(PoolItem)
         /\ \A m \in PoolItem : Occurs(m, InHand \o Items) <=> Waits(m, Line(w))
         /\ LineHolds(Line(w), file, posted) =>
              \A i, j \in 1..Len(InHand \o Items) :
                 /\ i < j
                 /\ (InHand \o Items)[i] \in Message /\ (InHand \o Items)[j] \in Message
                 => Ids[(InHand \o Items)[i]] < Ids[(InHand \o Items)[j]]
<1> DEFINE line == Line(w)
           s == InHand \o Items
           n == Len(Items)
           d == Len(InHand)
<1>1. /\ n \in Nat /\ DOMAIN line = 0..n /\ line[0] = hand[w] /\ (\A i \in 1..n : line[i] = Items[i])
      /\ Items \in Seq(PoolItem)
  BY LineIs DEF WorkInv
<1>2. Nothing \notin PoolItem
  BY PoolAssumption
<1>3. {hand[u] : u \in threads_} = {hand[w]}
  OBVIOUS
<1>4. /\ InHand \in Seq(PoolItem)
      /\ \/ hand[w] = Nothing /\ Len(InHand) = 0
         \/ hand[w] \in PoolItem /\ Len(InHand) = 1 /\ InHand[1] = hand[w]
  <2>1. CASE hand[w] = Nothing
    <3>1. {hand[u] : u \in threads_} \ {Nothing} = {}
      BY <1>3, <2>1
    <3>2. InHand = <<>>
      BY <3>1, SetToSeqIs DEF InHand
    <3>3. <<>> \in Seq(PoolItem) /\ Len(<<>>) = 0
      OBVIOUS
    <3> QED  BY <2>1, <3>2, <3>3
  <2>2. CASE hand[w] # Nothing
    <3>1. {hand[u] : u \in threads_} \ {Nothing} = {hand[w]}
      BY <1>3, <2>2
    <3>2. InHand = <<hand[w]>>
      BY <3>1, SetToSeqIs DEF InHand
    <3>3. hand[w] \in PoolItem
      BY <2>2 DEF WorkInv
    <3>4. <<hand[w]>> \in Seq(PoolItem) /\ Len(<<hand[w]>>) = 1 /\ <<hand[w]>>[1] = hand[w]
      BY <3>3
    <3> QED  BY <3>2, <3>3, <3>4
  <2> QED  BY <2>1, <2>2
<1>5. /\ s \in Seq(PoolItem) /\ Len(s) = d + n
      /\ (\A i \in 1..d : s[i] = InHand[i]) /\ (\A i \in 1..n : s[d + i] = Items[i])
  BY <1>1, <1>4, ConcatIs
<1> HIDE DEF line, s, n
<1>6. d \in {0, 1}
  BY <1>4
<1>7. ASSUME NEW i \in 1..Len(s)  PROVE i - d \in DOMAIN line /\ s[i] = line[i - d]
  <2>1. CASE i \in 1..d
    <3>1. i = 1 /\ d = 1 /\ i - d = 0 /\ s[i] = hand[w]
      BY <1>4, <1>5, <1>6, <2>1
    <3> QED  BY <1>1, <3>1
  <2>2. CASE i \notin 1..d
    <3>1. i - d \in 1..n /\ d + (i - d) = i
      BY <1>1, <1>5, <1>6, <2>2
    <3>2. s[i] = Items[i - d]
      BY <1>5, <3>1
    <3> QED  BY <1>1, <3>1, <3>2
  <2> QED  BY <2>1, <2>2
<1>8. ASSUME NEW m \in PoolItem  PROVE Occurs(m, s) <=> Waits(m, line)
  <2>1. ASSUME Occurs(m, s)  PROVE Waits(m, line)
    BY <1>7, <2>1 DEF Occurs, Waits
  <2>2. ASSUME Waits(m, line)  PROVE Occurs(m, s)
    <3>1. PICK i \in 0..n : line[i] = m
      BY <1>1, <2>2 DEF Waits
    <3>2. CASE i = 0
      <4>1. d = 1 /\ InHand[1] = m /\ 1 \in 1..Len(s)
        BY <1>1, <1>2, <1>4, <1>5, <3>1, <3>2
      <4> QED  BY <1>5, <4>1 DEF Occurs
    <3>3. CASE i # 0
      <4>1. i \in 1..n /\ d + i \in 1..Len(s)
        BY <1>1, <1>5, <1>6, <3>3
      <4> QED  BY <1>1, <1>5, <3>1, <4>1 DEF Occurs
    <3> QED  BY <3>2, <3>3
  <2> QED  BY <2>1, <2>2
<1>9. ASSUME LineHolds(line, file, posted), NEW i \in 1..Len(s), NEW j \in 1..Len(s), i < j,
             s[i] \in Message, s[j] \in Message
      PROVE  Ids[s[i]] < Ids[s[j]]
  <2>1. i - d < j - d
    BY <1>6, <1>9
  <2> QED  BY <1>7, <1>9, <2>1 DEF LineHolds
<1> QED  BY <1>5, <1>8, <1>9 DEF line, s

LEMMA AllAccounted ==
  ASSUME PoolInv, WorkInv, SinkInv, OrderInv
  PROVE  NothingIsLost
<1> SUFFICES ASSUME Cardinality(threads_) = 1
             PROVE  /\ \A i, j \in DOMAIN Accounted : i < j => Accounted[i].id < Accounted[j].id
                    /\ overrun_counter_ = 0 /\ faults = 0 =>
                         /\ IsSuffix(Accounted, Logs(posted))
                         /\ Accounted = Logs(posted) \/ max_files_ \in DOMAIN file
  BY DEF NothingIsLost
<1>1. \E u : threads_ = {u}
  BY Workers, FS_Singleton
<1>2. PICK w \in Worker : threads_ = {w}
  BY <1>1 DEF threads_
<1> DEFINE a == Accounted
           b == Logs(posted)
           line == Line(w)
           s == InHand \o Items
<1>3. FilesHold(file, posted) /\ LineHolds(line, file, posted) /\ PostsNumbered
  BY <1>2 DEF OrderInv, OrderOf
<1>4. overrun_counter_ = 0 /\ faults = 0 => NoneMissing(line, file, posted)
  BY <1>2 DEF OrderInv, OrderOf
<1>5. /\ Kept \in Seq(Message) /\ Increasing(Ids, Kept) /\ \A m : Occurs(m, Kept) <=> InFiles(m, file)
  BY <1>3, KeptAre DEF Kept, SinkInv, FilesHold
<1>6. /\ s \in Seq(PoolItem) /\ \A m \in PoolItem : Occurs(m, s) <=> Waits(m, line)
      /\ \A i, j \in 1..Len(s) : i < j /\ s[i] \in Message /\ s[j] \in Message => Ids[s[i]] < Ids[s[j]]
  BY <1>2, <1>3, Behind
<1>7. Message \subseteq PoolItem
  BY DEF PoolItem
<1> DEFINE logs == Logs(s)
<1>8. logs \in Seq(Message) /\ Increasing(Ids, logs) /\ \A m \in Message : Occurs(m, logs) <=> Waits(m, line)
  <2> HIDE DEF s, line
  <2> QED  BY <1>6, <1>7, LogsAre
<1>9. \A m \in Message : Occurs(m, Kept) => InFiles(m, file)
  BY <1>5
<1>a. a = Kept \o logs
  BY DEF Accounted
<1> HIDE DEF logs, s, line, a
<1>10. \A x \in Message, y \in Message : Occurs(x, Kept) /\ Occurs(y, logs) => Ids[x] < Ids[y]
  BY <1>3, <1>5, <1>8 DEF LineHolds, Waits
<1>11. /\ a \in Seq(Message) /\ Increasing(Ids, a)
       /\ \A m \in Message : Occurs(m, a) <=> There(m, line, file)
  <2>1. /\ Kept \o logs \in Seq(Message) /\ Increasing(Ids, Kept \o logs)
        /\ \A m : Occurs(m, Kept \o logs) <=> Occurs(m, Kept) \/ Occurs(m, logs)
    BY <1>5, <1>8, <1>10, ConcatIs
  <2> QED  BY <1>5, <1>8, <1>a, <2>1 DEF There
<1>12. posted \in Seq(PoolItem) /\ DOMAIN posted = 1..Len(posted)
  BY DEF PoolInv, PostInv
<1>13. /\ b \in Seq(Message) /\ Increasing(Ids, b)
       /\ \A m : Occurs(m, b) <=> m \in Message /\ Occurs(m, posted)
  <2>1. \A i, j \in 1..Len(posted) :
          i < j /\ posted[i] \in Message /\ posted[j] \in Message => Ids[posted[i]] < Ids[posted[j]]
    BY <1>3 DEF PostsNumbered
  <2> QED  BY <1>12, <2>1, LogsAre
<1> HIDE DEF b
<1>14. /\ \A i \in 1..Len(a) : a[i] \in Message /\ Occurs(a[i], a)
       /\ \A i \in 1..Len(b) : b[i] \in Message /\ Occurs(b[i], b)
  BY <1>11, <1>13 DEF Occurs
<1>15. \A i \in 1..Len(a) : Occurs(a[i], b)
  <2> TAKE i \in 1..Len(a)
  <2>1. a[i] \in Message /\ There(a[i], line, file)
    BY <1>11, <1>14
  <2>2. WasPosted(a[i], posted)
    BY <1>3, <2>1 DEF There, FilesHold, LineHolds, Waits
  <2>3. Occurs(a[i], posted)
    BY <2>2 DEF WasPosted, Occurs
  <2> QED  BY <1>13, <2>1, <2>3
<1>16. \A j \in 1..Len(b) : \E n \in 1..Len(posted) : b[j] = posted[n] /\ Ids[b[j]] = n
  <2> TAKE j \in 1..Len(b)
  <2>1. Occurs(b[j], posted) /\ b[j] \in Message
    BY <1>13, <1>14
  <2>2. PICK n \in 1..Len(posted) : posted[n] = b[j]
    BY <2>1 DEF Occurs
  <2> QED  BY <1>3, <2>1, <2>2 DEF PostsNumbered
<1>17. Ids \in [Message -> Int]
  BY IdsAre
<1>18. ASSUME overrun_counter_ = 0, faults = 0
       PROVE  IsSuffix(a, b) /\ (a = b \/ max_files_ \in DOMAIN file)
  <2>1. NoneMissing(line, file, posted)
    BY <1>4, <1>18
  <2>2. ASSUME NEW i \in 1..Len(a), NEW j \in 1..Len(b), Ids[a[i]] < Ids[b[j]]  PROVE Occurs(b[j], a)
    <3>1. PICK n \in 1..Len(posted) : b[j] = posted[n] /\ Ids[b[j]] = n
      BY <1>16
    <3>2. a[i] \in Message /\ There(a[i], line, file) /\ Ids[a[i]] \in Int
      BY <1>11, <1>14, <1>17
    <3>3. ~ (n < Ids[a[i]])
      BY <2>2, <3>1, <3>2
    <3>4. There(b[j], line, file)
      BY <1>14, <2>1, <3>1, <3>2, <3>3 DEF NoneMissing
    <3> QED  BY <1>11, <1>14, <3>4
  <2>3. max_files_ \notin DOMAIN file => \A j \in 1..Len(b) : Occurs(b[j], a)
    BY <1>11, <1>14, <1>16, <2>1 DEF NoneMissing
  <2>4. IsSuffix(a, b) /\ ((\A j \in 1..Len(b) : Occurs(b[j], a)) => a = b)
    BY <1>11, <1>13, <1>15, <1>17, <2>2, SuffixIs
  <2> QED  BY <2>3, <2>4
<1>19. \A i, j \in DOMAIN a : i < j => a[i].id < a[j].id
  <2>1. DOMAIN a = 1..Len(a)
    BY <1>11
  <2>2. \A i, j \in 1..Len(a) : i < j => Ids[a[i]] < Ids[a[j]]
    BY <1>11 DEF Increasing
  <2> QED  BY <1>14, <2>1, <2>2, IdsAre
<1> QED  BY <1>18, <1>19 DEF a, b

(***************************************************************************)
(* With one worker the log is complete and in order (NothingIsLost), for   *)
(* every queue, every policy, every number and size of files: what is left *)
(* is the end of what was posted, unless the queue was overrun, a rotation *)
(* or a write, flush or close of a file failed or the process crashed; and *)
(* even then it is in order.                                               *)
(***************************************************************************)
THEOREM NothingLost == Spec => []NothingIsLost
<1>1. Init => WorkInv /\ SinkInv /\ OrderInv
  BY WorkInit, SinkInit, OrderInit
<1>2. /\ PoolInv /\ PoolInv' /\ WorkInv /\ SinkInv /\ OrderInv /\ [Next]_vars
      => WorkInv' /\ SinkInv' /\ OrderInv'
  BY WorkStep, SinkStep, OrderStep
<1>3. PoolInv /\ WorkInv /\ SinkInv /\ OrderInv => NothingIsLost
  BY AllAccounted
<1> QED  BY <1>1, <1>2, <1>3, TypeCorrect, PTL DEF Spec
=============================================================================
