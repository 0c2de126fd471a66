------------------------------- MODULE TomlWriter ------------------------------
(***************************************************************************)
(* The tree part of cpptoml.h's toml_writer: the lines a document is       *)
(* written in.  A document is a sequence of objects, as in TomlDocument;   *)
(* what is written is a sequence of tokens, of which "\n" ends a line.     *)
(* TomlOutput has the scalars, here the token "value"; blanks are left     *)
(* out.                                                                    *)
(***************************************************************************)
EXTENDS Integers, SequencesExt

(* A writer: what it has written, its path_ and has_naked_endline_.        *)
Writer == [out |-> <<>>, path |-> <<>>, naked |-> FALSE]

Tokens(keys) == keys \cup {"[", "]", ".", "=", ",", "\n", "value"}

Writers(keys) == [out : Seq(Tokens(keys)), path : Seq(keys), naked : BOOLEAN]

write(w, tokens) == [w EXCEPT !.out = @ \o tokens, !.naked = FALSE]

endline(w) == IF w.naked THEN w ELSE [w EXCEPT !.out = Append(@, "\n"), !.naked = TRUE]

Enter(w, key) == [w EXCEPT !.path = Append(@, key)]
Leave(w) == [w EXCEPT !.path = Front(@)]

(* A key is written as it is if no character of it has to be quoted, and   *)
(* so is a key of no characters.                                           *)
write_table_header(w, in_array) ==
  LET bracket(b) == IF in_array THEN <<b, b>> ELSE <<b>>
      name == FlattenSeq([i \in 1..Len(w.path) |-> IF i = 1 THEN <<w.path[1]>> ELSE <<".", w.path[i]>>])
  IN  IF w.path = <<>> THEN w
      ELSE endline(write(w, bracket("[") \o name \o bracket("]")))

is_table_or_tables(objects, b) == objects[b].is \in {"table", "table_array", "static"}

write_table_item_header(objects, w, b) ==
  IF is_table_or_tables(objects, b) THEN w ELSE write(w, <<Last(w.path), "=">>)

(* An item of a table; the first of a group needs no line of its own if it *)
(* stands behind a header.  What is in the item is visited with deeper.    *)
Item(deeper, objects, w, t, key, first) ==
  LET b == objects[t].map_[key]
      entered == Enter(w, key)
      begun == IF first THEN entered ELSE endline(entered)
  IN  Leave(deeper[<<write_table_item_header(objects, begun, b), b, FALSE>>])

Items(deeper, objects, w, t, keys, none_before) ==
  FoldLeft(LAMBDA v, i : Item(deeper, objects, v, t, keys[i], none_before /\ i = 1),
           w, [i \in 1..Len(keys) |-> i])

Those(order, set) ==
  FoldLeft(LAMBDA those, key : IF key \in set THEN Append(those, key) ELSE those, <<>>, order)

(* The scalars and arrays of a table have to be written before the tables: *)
(* behind the header of another table they would be that table's.          *)
visit_table_in_order(deeper, objects, order, w, t, in_array) ==
  endline(Items(deeper, objects, write_table_header(w, in_array), t,
                Those(order, {key \in ToSet(order) : objects[t].map_[key] # 0}), TRUE))

visit_table(deeper, objects, order, w, t, in_array) ==
  LET items == {key \in ToSet(order) : objects[t].map_[key] # 0}
      tables == {key \in items : is_table_or_tables(objects, objects[t].map_[key])}
      values == Those(order, items \ tables)
      headed == write_table_header(w, in_array)
  IN  endline(Items(deeper, objects, Items(deeper, objects, headed, t, values, TRUE),
                    t, Those(order, tables), values = <<>>))

visit_array(deeper, objects, w, a) ==
  LET elements == objects[a].array_
      Visit(v, i) == deeper[<<IF i = 1 THEN v ELSE write(v, <<",">>), elements[i], TRUE>>]
  IN  write(FoldLeft(Visit, write(w, <<"[">>), [i \in 1..Len(elements) |-> i]), <<"]">>)

visit_table_array(deeper, objects, w, a) ==
  LET elements == objects[a].array_
      Visit(v, i) == deeper[<<IF i = 1 THEN v ELSE endline(v), elements[i], TRUE>>]
  IN  endline(FoldLeft(Visit, w, [i \in 1..Len(elements) |-> i]))

visit(deeper, objects, order, w, b, in_array) ==
  CASE objects[b].is = "value" -> write(w, <<"value">>)
    [] objects[b].is = "table" -> visit_table(deeper, objects, order, w, b, in_array)
    [] objects[b].is = "array" -> visit_array(deeper, objects, w, b)
    [] objects[b].is \in {"table_array", "static"} -> visit_table_array(deeper, objects, w, b)

(* Of an object that has objects below it to the depth n - 1 at most.      *)
Visits(objects, order) ==
  LET to[n \in Nat] ==
        [of \in Writers(ToSet(order)) \X Nat \X BOOLEAN |->
           IF n = 0 THEN of[1] ELSE visit(to[n - 1], objects, order, of[1], of[2], of[3])]
  IN  to

accept(objects, order, w, b, in_array) == Visits(objects, order)[Len(objects)][<<w, b, in_array>>]

(* operator<<, of the table that is object 1.  A table goes through its    *)
(* keys in the order of the buckets of its map, which is any.              *)
Written(objects, order) == accept(objects, order, Writer, 1, FALSE).out
===============================================================================
