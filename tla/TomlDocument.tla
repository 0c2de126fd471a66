----------------------------- MODULE TomlDocument -----------------------------
(***************************************************************************)
(* The parser of configuration files (include/cpptoml.h, which             *)
(* parse_config calls): how the lines of a document build the tree of      *)
(* tables it stands for.  The text is the environment's: what the parser   *)
(* reads next, a part of a key or the beginning or the end of a value, is  *)
(* any that the grammar allows there, or else an exception.                *)
(***************************************************************************)
EXTENDS Integers, Sequences

CONSTANTS
  Part,        \* the parts keys are made of
  Empty,       \* the quoted empty key, which headers refuse
  MaxObjects,  \* bound: objects a document may be made of
  MaxDepth     \* bound: pairs, inline tables and arrays begun and not ended

ASSUME DocumentAssumption ==
  /\ Empty \in Part
  /\ MaxObjects \in Nat \ {0}
  /\ MaxDepth \in Nat

VARIABLES
  heap,        \* the objects, in the order they were made; 1 is the root
  curr_table,  \* parse's local variable: the table of the last header
  walk,        \* curr_table in the innermost parse_key_value
  inserted,    \* parse_single_table's local variable
  mode,        \* what the parser reads next
  stack        \* the pairs, inline tables and arrays that are not complete

vars == <<heap, curr_table, walk, inserted, mode, stack>>

Root == 1
Null == 0

(* "value" is a scalar, "array" an array of scalars or of arrays,          *)
(* "static" a table_array written inline.                                  *)
Kind == {"table", "table_array", "static", "value", "array"}

Object(is, array_) == [is |-> is, map_ |-> [key \in Part |-> Null], array_ |-> array_]

Make(is) == Append(heap, Object(is, <<>>))
Fresh == Len(heap) + 1

Free_if_no_value(t, key) ==
  IF heap[t].map_[key] = Null THEN TRUE ELSE heap[heap[t].map_[key]].is # "value"

(* ~table->contains(key).                                                  *)
Free(t, key) == heap[t].map_[key] = Null

insert(objects, t, key, v) == [objects EXCEPT ![t].map_[key] = v]
push_back(objects, a, v) == [objects EXCEPT ![a].array_ = Append(@, v)]

Back(a) == heap[a].array_[Len(heap[a].array_)]

(* Where the key of a header leads to; Null, for an exception, at a value. *)
Step(b) ==
  CASE heap[b].is = "table" -> b
    [] heap[b].is \in {"table_array", "static"} -> Back(b)
    [] OTHER -> Null

Init ==
  /\ heap = <<Object("table", <<>>)>>
  /\ curr_table = Root /\ walk = Root
  /\ inserted = FALSE /\ mode = "line" /\ stack = <<>>

throw_parse_exception ==
  /\ mode' = "thrown"
  /\ UNCHANGED <<heap, curr_table, walk, inserted, stack>>

(* "[" and "[[" at the beginning of a line.                                *)
parse_table ==
  /\ mode = "line"
  /\ curr_table' = Root /\ inserted' = FALSE
  /\ mode' \in {"table", "table array"}
  /\ UNCHANGED <<heap, walk, stack>>

(***************************************************************************)
(* A part of the header of a table.  Behind the last one, a header that    *)
(* has made no table is refused if the table has any value, or nothing.    *)
(***************************************************************************)
Redefines(t) ==
  \/ \A key \in Part : Free(t, key)
  \/ \E key \in Part : ~Free(t, key) /\ heap[heap[t].map_[key]].is = "value"

EnterTable(part) ==
  IF Free(curr_table, part)
  THEN /\ Fresh <= MaxObjects
       /\ heap' = insert(Make("table"), curr_table, part, Fresh)
       /\ curr_table' = Fresh
       /\ inserted' = TRUE
  ELSE /\ Step(heap[curr_table].map_[part]) # Null
       /\ curr_table' = Step(heap[curr_table].map_[part])
       /\ UNCHANGED <<heap, inserted>>

parse_single_table(part, last) ==
  /\ mode = "table"
  /\ part # Empty
  /\ EnterTable(part)
  /\ mode' = IF ~last THEN "table"
             ELSE IF ~inserted' /\ Redefines(curr_table') THEN "thrown" ELSE "line"
  /\ UNCHANGED <<walk, stack>>

(* A part of the header of a table array.  The last one adds a table to    *)
(* the array, which it makes if there is none.                             *)
TableArray_bare(part) ==
  insert(Make("table_array"), curr_table, part, Fresh)

TableArray(part) ==
  insert(Append(Append(heap, Object("table_array", <<Fresh + 1>>)), Object("table", <<>>)),
         curr_table, part, Fresh)

LastOfArray(part) ==
  IF Free(curr_table, part)
  THEN /\ Fresh + 1 <= MaxObjects
       /\ heap' = TableArray(part)
       /\ curr_table' = Fresh + 1
  ELSE /\ heap[heap[curr_table].map_[part]].is = "table_array"
       /\ Fresh <= MaxObjects
       /\ heap' = push_back(Make("table"), heap[curr_table].map_[part], Fresh)
       /\ curr_table' = Fresh

parse_table_array(part, last) ==
  /\ mode = "table array"
  /\ part # Empty
  /\ IF last THEN LastOfArray(part) /\ UNCHANGED inserted ELSE EnterTable(part)
  /\ mode' = IF last THEN "line" ELSE "table array"
  /\ UNCHANGED <<walk, stack>>

(***************************************************************************)
(* A pair, at the beginning of a line or in an inline table.  The table it *)
(* starts from is parse_key_value's argument; the parts of a dotted key    *)
(* lead through tables only, and leave parse's curr_table alone.           *)
(***************************************************************************)
BeginPair ==
  /\ mode = "line"
  /\ walk' = curr_table
  /\ mode' = "key"
  /\ UNCHANGED <<heap, curr_table, inserted, stack>>

parse_key_value(part) ==
  /\ mode = "key"
  /\ IF Free(walk, part)
     THEN /\ Fresh <= MaxObjects
          /\ heap' = insert(Make("table"), walk, part, Fresh)
          /\ walk' = Fresh
     ELSE /\ heap[heap[walk].map_[part]].is = "table"
          /\ walk' = heap[walk].map_[part]
          /\ UNCHANGED heap
  /\ UNCHANGED <<curr_table, inserted, mode, stack>>

Pair_in_curr_table(t, key) == [is |-> "pair", in |-> curr_table, key |-> key]

Pair(t, key) == [is |-> "pair", in |-> t, key |-> key]

LastOfKey(part) ==
  /\ mode = "key"
  /\ Free(walk, part)
  /\ Len(stack) < MaxDepth
  /\ stack' = Append(stack, Pair(walk, part))
  /\ mode' = "value"
  /\ UNCHANGED <<heap, curr_table, walk, inserted>>

(* A value is complete: the pair that waits for it is inserted, or the     *)
(* array being read takes it in.                                           *)
Return(objects, waiting, v) ==
  LET top == waiting[Len(waiting)]
  IN  IF top.is = "pair"
      THEN /\ heap' = insert(objects, top.in, top.key, v)
           /\ stack' = SubSeq(waiting, 1, Len(waiting) - 1)
           /\ mode' = IF Len(waiting) = 1 THEN "line" ELSE "more"
      ELSE /\ heap' = push_back(objects, top.in, v)
           /\ stack' = waiting
           /\ mode' = "more"

Array(size) ==
  heap \o <<Object("array", [i \in 1..size |-> Fresh + i])>> \o [i \in 1..size |-> Object("value", <<>>)]

parse_value ==
  /\ mode = "value"
  /\ Fresh <= MaxObjects
  /\ Return(Make("value"), stack, Fresh)
  /\ UNCHANGED <<curr_table, walk, inserted>>

(* parse_array reads a value, and an element of an array of arrays.        *)
ArrayIsNext == mode \in {"value", "array"}

parse_value_array ==
  /\ ArrayIsNext
  /\ Fresh <= MaxObjects
  /\ \E size \in 0..(MaxObjects - Fresh) : Return(Array(size), stack, Fresh)
  /\ UNCHANGED <<curr_table, walk, inserted>>

(***************************************************************************)
(* Inline tables, and arrays of inline tables or of arrays.  They are      *)
(* built apart and handed over when they are complete, the elements of an  *)
(* array one by one.  An array of arrays takes any array, also one of      *)
(* inline tables.                                                          *)
(***************************************************************************)
BeginTable(objects, waiting) ==
  /\ Len(objects) < MaxObjects
  /\ Len(waiting) < MaxDepth
  /\ heap' = Append(objects, Object("table", <<>>))
  /\ stack' = Append(waiting, [is |-> "table", in |-> Len(objects) + 1, key |-> Empty])
  /\ walk' = Len(objects) + 1
  /\ mode' = "key"
  /\ UNCHANGED <<curr_table, inserted>>

parse_inline_table == mode = "value" /\ BeginTable(heap, stack)

parse_object_array ==
  /\ ArrayIsNext
  /\ BeginTable(Make("static"), Append(stack, [is |-> "array", in |-> Fresh, key |-> Empty]))

parse_array_of_arrays ==
  /\ ArrayIsNext
  /\ Fresh <= MaxObjects
  /\ Len(stack) < MaxDepth
  /\ heap' = Make("array")
  /\ stack' = Append(stack, [is |-> "arrays", in |-> Fresh, key |-> Empty])
  /\ mode' = "array"
  /\ UNCHANGED <<curr_table, walk, inserted>>

Top == stack[Len(stack)]

NextPair ==
  /\ mode = "more"
  /\ Top.is = "table"
  /\ walk' = Top.in
  /\ mode' = "key"
  /\ UNCHANGED <<heap, curr_table, inserted, stack>>

NextElement ==
  /\ mode = "more"
  /\ Top.is = "array"
  /\ BeginTable(heap, stack)

NextArray ==
  /\ mode = "more"
  /\ Top.is = "arrays"
  /\ mode' = "array"
  /\ UNCHANGED <<heap, curr_table, walk, inserted, stack>>

EndOfValue ==
  /\ mode = "more"
  /\ Return(heap, SubSeq(stack, 1, Len(stack) - 1), Top.in)
  /\ UNCHANGED <<curr_table, walk, inserted>>

EndOfFile ==
  /\ mode = "line"
  /\ mode' = "done"
  /\ UNCHANGED <<heap, curr_table, walk, inserted, stack>>

(* What else can be read: every error ends the parse.                      *)
Malformed == mode \notin {"thrown", "done"} /\ throw_parse_exception

parse ==
  \/ parse_table \/ BeginPair \/ EndOfFile \/ Malformed
  \/ \E part \in Part, last \in BOOLEAN :
        parse_single_table(part, last) \/ parse_table_array(part, last)
  \/ \E part \in Part : parse_key_value(part) \/ LastOfKey(part)
  \/ parse_value \/ parse_value_array \/ parse_array_of_arrays
  \/ parse_inline_table \/ parse_object_array
  \/ NextPair \/ NextElement \/ NextArray \/ EndOfValue

Spec == Init /\ [][parse]_vars

-------------------------------------------------------------------------------
Building == {stack[i].in : i \in {j \in 1..Len(stack) : stack[j].is # "pair"}}

(* Where object v is held.                                                 *)
InMap(v) == {at \in (1..Len(heap)) \X Part : heap[at[1]].map_[at[2]] = v}
InArray(v) == {at \in (1..Len(heap)) \X (1..MaxObjects) :
                  at[2] <= Len(heap[at[1]].array_) /\ heap[at[1]].array_[at[2]] = v}

Frame == [is : {"pair", "table", "array", "arrays"}, in : 1..Len(heap), key : Part]

TypeOK ==
  /\ heap \in Seq([is : Kind, map_ : [Part -> 0..Len(heap)], array_ : Seq(1..Len(heap))])
  /\ Root \in 1..Len(heap)
  /\ curr_table \in 1..Len(heap) /\ heap[curr_table].is = "table"
  /\ walk \in 1..Len(heap) /\ heap[walk].is = "table"
  /\ inserted \in BOOLEAN
  /\ mode \in {"line", "table", "table array", "key", "value", "array", "more", "done", "thrown"}
  /\ stack \in Seq(Frame)

(***************************************************************************)
(* The document is a tree: every object but the root is held once, by an   *)
(* object made before it, unless it is still being read, when nobody holds *)
(* it.  A table that lost its holder would be freed while curr_table       *)
(* points to it or to something below it.                                  *)
(***************************************************************************)
IsATree ==
  \A v \in 2..Len(heap) :
     IF v \in Building
     THEN InMap(v) = {} /\ InArray(v) = {}
     ELSE \E t \in 1..(v - 1) :
             \/ InArray(v) = {} /\ \E key \in Part : InMap(v) = {<<t, key>>}
             \/ InMap(v) = {} /\ \E i \in 1..MaxObjects : InArray(v) = {<<t, i>>}

(***************************************************************************)
(* A header goes on in the last table of an array (cpptoml.h:1978), which  *)
(* must have one: an array is found only when it has a table, and holds    *)
(* tables only.                                                            *)
(***************************************************************************)
ArraysHaveATable ==
  \A t \in 1..Len(heap), key \in Part :
     LET b == heap[t].map_[key]
     IN  b # Null /\ heap[b].is \in {"table_array", "static"} =>
           /\ heap[b].array_ # <<>>
           /\ \A i \in 1..Len(heap[b].array_) : heap[heap[b].array_[i]].is = "table"

(***************************************************************************)
(* A document only grows: table::insert replaces what a key had, but what  *)
(* was read is never replaced, and the arrays keep their elements in the   *)
(* order they were read in.                                                *)
(***************************************************************************)
NothingIsReplaced ==
  [][\A t \in 1..Len(heap) :
        /\ t \in 1..Len(heap') /\ heap'[t].is = heap[t].is
        /\ \A key \in Part : heap[t].map_[key] # Null => heap'[t].map_[key] = heap[t].map_[key]
        /\ \A i \in 1..Len(heap[t].array_) :
              i <= Len(heap'[t].array_) /\ heap'[t].array_[i] = heap[t].array_[i]]_vars
===============================================================================
