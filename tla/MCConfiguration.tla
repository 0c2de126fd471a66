---------------------------- MODULE MCConfiguration ----------------------------
(***************************************************************************)
(* Elements to begin with: a few loose ones of every kind, some of them in *)
(* a table and in arrays, and the file of a node with one peer.            *)
(***************************************************************************)
EXTENDS Configuration

MCKey ==
  {<<"a">>, <<"a", ".", "a">>, <<"peers">>, <<"peer-host">>, <<"peer-port">>, <<"my-addr">>} \cup Setting

Loose ==
  LET table_ == Object("table", "none", 0)
      array__ == Object("array", "none", 0)
  IN  <<[table_ EXCEPT !.map_[<<"a">>] = 2], table_, [array__ EXCEPT !.array_ = <<5>>], array__,
        Object("value", "int", -6), Object("value", "int", 13), Object("value", "double", 9),
        Object("value", "string", 0), Object("static", "none", 0),
        [array__ EXCEPT !.array_ = <<9, 4>>]>>

File ==
  LET table_ == Object("table", "none", 0)
  IN  <<[table_ EXCEPT !.map_[<<"peers">>] = 2, !.map_[<<"my-addr">>] = 4, !.map_[<<"my-port">>] = 5],
        [Object("static", "none", 0) EXCEPT !.array_ = <<3>>],
        [table_ EXCEPT !.map_[<<"peer-host">>] = 4, !.map_[<<"peer-port">>] = 5],
        Object("value", "string", 1), Object("value", "int", 3), Object("value", "int", 13),
        table_, Object("table_array", "none", 0)>>

MCInputs ==
  {[heap |-> Loose, keys |-> {<<"a">>, <<"a", ".", "a">>}, calls |-> 3],
   [heap |-> File, keys |-> {<<"peers">>, <<"peer-host">>, <<"peer-port">>, <<"my-port">>, <<"my-addr">>},
    calls |-> 2]}

(* Of three significant bits: beyond 8 every second number only.           *)
MCDouble == -8..8 \cup {10, 12, 14, 16}

(* 20 is an unsigned number that is no int64_t.                            *)
MCMade == {[type |-> "int", number |-> 20], [type |-> "int", number |-> 9],
           [type |-> "double", number |-> 11], [type |-> "bool", number |-> 1]}
================================================================================
