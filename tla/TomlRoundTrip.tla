----------------------------- MODULE TomlRoundTrip -----------------------------
(***************************************************************************)
(* What is written for a document that cpptoml.h has parsed, read as TOML  *)
(* has it.                                                                 *)
(***************************************************************************)
EXTENDS TomlDocument, TomlWriter

(* Keys are of any characters, but one token of what is written.           *)
ASSUME TokenAssumption ==
  /\ IsFiniteSet(Part)
  /\ Part \cap {"[", "]", ".", "=", ",", "\n"} = {}

(***************************************************************************)
(* The entries of a document, and what they are.  A step of a path is a    *)
(* key with the number of the element of the array the key has, or 0 for   *)
(* the key itself; an array in an array has the empty key, which says      *)
(* nothing there.                                                          *)
(***************************************************************************)
Entry(path, is) == [path |-> path, is |-> is]

Element(path, i) == Append(Front(path), <<Last(path)[1], i>>)

Held(is, path, i) == IF is = "array" THEN Append(Element(path, i), <<Empty, 0>>) ELSE Element(path, i)

EntriesOf(deeper, b, path) ==
  {Entry(path, IF heap[b].is = "static" THEN "table_array" ELSE heap[b].is)} \cup
  (UNION {deeper[<<heap[b].map_[key], Append(path, <<key, 0>>)>>] : key \in {k \in Part : ~Free(b, k)}}) \cup
  (UNION {deeper[<<heap[b].array_[i], Held(heap[heap[b].array_[i]].is, path, i)>>] :
            i \in 1..Len(heap[b].array_)})

(* Of an object that has objects below it to the depth n - 1 at most.      *)
EntriesTo[n \in Nat] ==
  [of \in Nat \X Seq(Part \X Nat) |->
     IF n = 0 THEN {} ELSE EntriesOf(EntriesTo[n - 1], of[1], of[2])]

Entries(b, path) == EntriesTo[Len(heap)][<<b, path>>]

-------------------------------------------------------------------------------
(* A reference reader, of lines: r.at is the table of the last header,     *)
(* r.entries what was read, FALSE in r.ok that a line was malformed.       *)
Lines(tokens) ==
  FoldLeft(LAMBDA lines, token : IF token = "\n" THEN Append(lines, <<>>)
                                 ELSE Append(Front(lines), Append(Last(lines), token)),
           <<<<>>>>, tokens)

Size(r, path) == Cardinality({i \in 1..MaxObjects : Entry(Element(path, i), "table") \in r.entries})

(* Where the keys of a header lead: through the last tables of arrays.     *)
Inside(r, path) ==
  IF Entry(path, "table_array") \in r.entries THEN Element(path, Size(r, path)) ELSE path

Named(r, keys) == FoldLeft(LAMBDA path, key : Append(Inside(r, path), <<key, 0>>), <<>>, keys)

Keys(line, from, to) == [i \in 1..((to - from) \div 2 + 1) |-> line[from + 2 * (i - 1)]]

IsName(line, from, to) ==
  /\ from <= to /\ (to - from) % 2 = 0
  /\ \A i \in from..to : IF (i - from) % 2 = 0 THEN line[i] \in Part \ {Empty} ELSE line[i] = "."

Paths(r) == {e.path : e \in r.entries}

ReadTable(r, path) ==
  [r EXCEPT !.entries = @ \cup {Entry(path, "table")}, !.at = path, !.ok = @ /\ path \notin Paths(r)]

ReadElement(r, path) ==
  LET element == Element(path, Size(r, path) + 1)
  IN  [r EXCEPT !.entries = @ \cup {Entry(path, "table_array"), Entry(element, "table")},
                !.at = element,
                !.ok = @ /\ (path \in Paths(r) => Entry(path, "table_array") \in r.entries)]

ReadPair(r, path, is, size) ==
  [r EXCEPT !.entries = @ \cup {Entry(path, is)} \cup {Entry(Element(path, i), "value") : i \in 1..size},
            !.ok = @ /\ path \notin Paths(r)]

(* The tokens of an array of scalars.                                      *)
ArrayOf(size) ==
  <<"[">> \o [i \in 1..(IF size = 0 THEN 0 ELSE 2 * size - 1) |-> IF i % 2 = 1 THEN "value" ELSE ","] \o <<"]">>

After(line, i) == SubSeq(line, i + 1, Len(line))

(* Any other array: its tokens, how many arrays are open behind the k-th, and    *)
(* the path of the value or array that the k-th begins.                    *)
MayFollow ==
  ({"[", ","} \X {"[", "value"}) \cup ({"value", "]"} \X {",", "]"}) \cup {<<"[", "]">>}

Depth(tokens, k) ==
  Cardinality({i \in 1..k : tokens[i] = "["}) - Cardinality({i \in 1..k : tokens[i] = "]"})

IsNested(tokens) ==
  /\ Len(tokens) >= 2
  /\ \A i \in 1..(Len(tokens) - 1) :
        <<tokens[i], tokens[i + 1]>> \in MayFollow /\ Depth(tokens, i) >= 1
  /\ Depth(tokens, Len(tokens)) = 0
  /\ \A size \in 0..MaxObjects : tokens # ArrayOf(size)

Number(tokens, k, level) ==
  Cardinality({i \in 1..k : /\ tokens[i] = "," /\ Depth(tokens, i) = level
                            /\ \A j \in i..k : Depth(tokens, j) >= level}) + 1

PathOf(path, tokens, k) ==
  LET depth == Depth(tokens, k)
  IN  Front(path) \o
      [level \in 1..depth |-> <<IF level = 1 THEN Last(path)[1] ELSE Empty,
                               IF level = depth /\ tokens[k] = "[" THEN 0
                               ELSE Number(tokens, k, level)>>]

ReadArray(r, path, tokens) ==
  [r EXCEPT !.entries = @ \cup {Entry(PathOf(path, tokens, k), IF tokens[k] = "[" THEN "array" ELSE "value") :
                                    k \in {i \in 1..Len(tokens) : tokens[i] \in {"[", "value"}}},
            !.ok = @ /\ path \notin Paths(r)]

ReadLine(r, line) ==
  LET n == Len(line)
      named(from, to) == Named(r, Keys(line, from, to))
  IN  CASE line = <<>> -> r
        [] n >= 5 /\ SubSeq(line, 1, 2) = <<"[", "[">> /\ SubSeq(line, n - 1, n) = <<"]", "]">>
             /\ IsName(line, 3, n - 2) -> ReadElement(r, named(3, n - 2))
        [] n >= 3 /\ line[1] = "[" /\ line[n] = "]" /\ IsName(line, 2, n - 1) ->
             ReadTable(r, named(2, n - 1))
        [] n >= 3 /\ line[1] \in Part \ {Empty} /\ line[2] = "=" /\ After(line, 2) = <<"value">> ->
             ReadPair(r, Append(r.at, <<line[1], 0>>), "value", 0)
        [] n >= 3 /\ line[1] \in Part \ {Empty} /\ line[2] = "="
             /\ \E size \in 0..MaxObjects : After(line, 2) = ArrayOf(size) ->
             ReadPair(r, Append(r.at, <<line[1], 0>>), "array", (n - 3) \div 2)
        [] n >= 3 /\ line[1] \in Part \ {Empty} /\ line[2] = "=" /\ IsNested(After(line, 2)) ->
             ReadArray(r, Append(r.at, <<line[1], 0>>), After(line, 2))
        [] OTHER -> [r EXCEPT !.ok = FALSE]

ReadAsToml(tokens) ==
  FoldLeft(ReadLine, [entries |-> {Entry(<<>>, "table")}, at |-> <<>>, ok |-> TRUE], Lines(tokens))

-------------------------------------------------------------------------------
HasEmptyKey == \E t \in 1..Len(heap) : ~Free(t, Empty)

ElementsAre(is) ==
  \A a \in 1..Len(heap) :
     heap[a].is = "array" => \A i \in 1..Len(heap[a].array_) : heap[heap[a].array_[i]].is \in is

HasTablesInArray == ~ElementsAre({"value", "array"})
HasArrayInArray == ~ElementsAre({"value"})

(***************************************************************************)
(* A document is written as lines that TOML reads as the same document, in *)
(* whatever order its maps have their keys; but an empty key is written    *)
(* without the quotes it was read with, and inline tables in an array in   *)
(* an array with the header of an array of tables, inside the brackets of  *)
(* the array (cpptoml.h:3379).  Neither is TOML.  (An array that goes on   *)
(* in the next line is not known to the reader.  Where a header could be   *)
(* taken for an element, as [[1]] for a key 1, the line of the first item  *)
(* of the table follows, which is none.)                                   *)
(***************************************************************************)
WrittenAsParsed ==
  \A order \in SetToSeqs(Part) :
     LET read == ReadAsToml(Written(heap, order))
     IN  mode = "done" =>
           IF HasEmptyKey \/ HasTablesInArray THEN ~read.ok
           ELSE read.ok /\ read.entries = Entries(Root, <<>>)
===============================================================================
