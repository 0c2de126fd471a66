------------------------------- MODULE TomlTree --------------------------------
(***************************************************************************)
(* The elements of a document as cpptoml.h gives them to a program: the    *)
(* calls that make and change tables, arrays and values, the calls that    *)
(* look a value up and convert it, and how util.cpp's parse_config uses    *)
(* them.  The program keeps a pointer to every element it has made.        *)
(***************************************************************************)
EXTENDS Integers, SequencesExt

CONSTANTS
  Key,         \* the keys of tables: sequences of names and dots
  Inputs,      \* [heap, keys, calls]: elements made, keys used, calls a program makes then
  Made,        \* [type, number]: what make_value is called with
  IntMax,      \* the greatest int (its width stands for 32 bits)
  Int64Max,    \* the greatest int64_t
  Double,      \* the whole numbers that are doubles
  MaxObjects   \* bound: elements

VARIABLES
  heap,   \* the elements, in the order they were made
  keys,   \* bound: the keys the program puts values at
  calls   \* bound: how many calls are left

vars == <<heap, keys, calls>>

Null == 0
ValueType == {"string", "int", "double", "bool"}

Element ==
  [is : {"value", "array", "table", "table_array", "static"}, type : ValueType \cup {"none"},
   data : Int, map_ : [Key -> Nat], array_ : Seq(Nat)]

Object(is, type, data) ==
  [is |-> is, type |-> type, data |-> data, map_ |-> [key \in Key |-> Null], array_ |-> <<>>]

Distance(m, n) == IF m < n THEN n - m ELSE m - n
Nearest(n) == {d \in Double : \A e \in Double : Distance(d, n) <= Distance(e, n)}

(* Of two doubles that are equally near the even one, of which the         *)
(* distance to the next double is half a divisor.                          *)
ToDouble(n) ==
  LET low == Min(Nearest(n))
      high == Max(Nearest(n))
  IN  IF low = high \/ low % (2 * (high - low)) = 0 THEN low ELSE high

-------------------------------------------------------------------------------
(***************************************************************************)
(* Looking up and converting, in the elements h.  An option is the set of  *)
(* what it holds.                                                          *)
(***************************************************************************)
as_type(h, T, b) ==
  CASE h[b].type = T -> {h[b].data}
    [] T = "double" /\ h[b].type = "int" -> {ToDouble(h[b].data)}
    [] OTHER -> {}

contains(h, t, key) == h[t].map_[key] # Null

(* Null for nullptr.                                                       *)
get_kind(h, t, key, kinds) ==
  IF contains(h, t, key) /\ h[h[t].map_[key]].is \in kinds THEN h[t].map_[key] ELSE Null

get_table(h, t, key) == get_kind(h, t, key, {"table"})
get_array(h, t, key) == get_kind(h, t, key, {"array"})
get_table_array_of_headers(h, t, key) == get_kind(h, t, key, {"table_array"})
get_table_array(h, t, key) == get_kind(h, t, key, {"table_array", "static"})

split(value, separator) ==
  FoldLeft(LAMBDA parts, c : IF c = separator THEN Append(parts, <<>>)
                             ELSE Append(Front(parts), Append(Last(parts), c)),
           <<<<>>>>, value)

(* Null for std::out_of_range, and false.                                  *)
resolve_qualified(h, t, key) ==
  LET parts == split(key, ".")
      cur_table == FoldLeft(LAMBDA u, part : IF u = Null THEN Null ELSE get_table(h, u, part),
                            t, Front(parts))
  IN  IF cur_table = Null THEN Null ELSE h[cur_table].map_[Last(parts)]

get_qualified_kind(h, t, key, kinds) ==
  LET b == resolve_qualified(h, t, key)
  IN  IF b # Null /\ h[b].is \in kinds THEN b ELSE Null

get_array_qualified(h, t, key) == get_qualified_kind(h, t, key, {"array"})

(* get_impl of an element, which may throw.                                *)
Got(option) == [thrown |-> FALSE, option |-> option]
Thrown == [thrown |-> TRUE, option |-> {}]

Lowest(T) == CASE T = "int" -> -IntMax - 1 [] T = "int64" -> -Int64Max - 1 [] OTHER -> 0
Highest(T) ==
  CASE T = "int" -> IntMax [] T = "unsigned" -> 2 * IntMax + 1
    [] T = "int64" -> Int64Max [] T = "uint64" -> 2 * Int64Max + 1

Integral == {"int", "unsigned", "int64", "uint64"}

(* static_cast<uint64_t>                                                   *)
Unsigned(n) == n % (2 * Int64Max + 2)

get_impl_of_magnitude(h, T, b) ==
  LET v == as_type(h, IF T \in Integral THEN "int" ELSE T, b)
  IN  IF T \in Integral /\ \E n \in v : Unsigned(n) > Highest(T) THEN Thrown ELSE Got(v)

get_impl(h, T, b) ==
  LET v == as_type(h, IF T \in Integral THEN "int" ELSE T, b)
      Beyond(n) == n < Lowest(T) \/ n > Highest(T)
  IN  IF T \in Integral /\ \E n \in v : Beyond(n) THEN Thrown ELSE Got(v)

get_as(h, T, t, key) == IF contains(h, t, key) THEN get_impl(h, T, h[t].map_[key]) ELSE Got({})

get_qualified_as(h, T, t, key) ==
  LET b == resolve_qualified(h, t, key) IN IF b = Null THEN Got({}) ELSE get_impl(h, T, b)

(* The elements of an array as values, those that are none as {}.          *)
array_of(h, T, a) == [i \in DOMAIN h[a].array_ |-> as_type(h, T, h[a].array_[i])]

nested_array(h, a) ==
  [i \in DOMAIN h[a].array_ |-> IF h[h[a].array_[i]].is = "array" THEN h[a].array_[i] ELSE Null]

get_array_of(h, T, a) ==
  IF \E i \in DOMAIN h[a].array_ : array_of(h, T, a)[i] = {} THEN {}
  ELSE {[i \in DOMAIN h[a].array_ |-> CHOOSE n \in array_of(h, T, a)[i] : TRUE]}

get_array_of_array(h, a) ==
  IF \E i \in DOMAIN h[a].array_ : nested_array(h, a)[i] = Null THEN {} ELSE {nested_array(h, a)}

(* The same of the array at a key, which may be none.                      *)
table_get_array_of(h, T, t, key) ==
  LET a == get_array(h, t, key) IN IF a = Null THEN {} ELSE get_array_of(h, T, a)

table_get_array_of_array(h, t, key) ==
  LET a == get_array(h, t, key) IN IF a = Null THEN {} ELSE get_array_of_array(h, a)

table_get_qualified_array_of(h, T, t, key) ==
  LET a == get_array_qualified(h, t, key) IN IF a = Null THEN {} ELSE get_array_of(h, T, a)

table_get_qualified_array_of_array(h, t, key) ==
  LET a == get_array_qualified(h, t, key) IN IF a = Null THEN {} ELSE get_array_of_array(h, a)

(* The first of these types that an element can be had as is the one that  *)
(* a visitor is given.                                                     *)
accept_order == <<"string", "int", "double", "bool">>

value_accept(h, b) ==
  accept_order[Min({i \in DOMAIN accept_order : as_type(h, accept_order[i], b) # {}})]

-------------------------------------------------------------------------------
(***************************************************************************)
(* clone, of an element and everything below it: the elements then, and    *)
(* the copy.                                                               *)
(***************************************************************************)
Copied(h, b) == [heap |-> Append(h, b), it |-> Len(h) + 1]

clone_of_pointers(h, b) == Copied(h, h[b])

(* The elements of s one after the other, deeper ones with deeper.         *)
CloneAll(deeper, h, s) ==
  FoldLeft(LAMBDA r, b : LET copy == deeper[<<r.heap, b>>]
                         IN  [heap |-> copy.heap, its |-> Append(r.its, copy.it)],
           [heap |-> h, its |-> <<>>], s)

CloneOne(deeper, h, b) ==
  LET present == SetToSeq({key \in Key : contains(h, b, key)})
      elements == CloneAll(deeper, h, h[b].array_)
      items == CloneAll(deeper, elements.heap, [i \in DOMAIN present |-> h[b].map_[present[i]]])
      ItemOf(key) == items.its[CHOOSE i \in DOMAIN present : present[i] = key]
  IN  Copied(items.heap,
             [h[b] EXCEPT !.array_ = elements.its,
                          !.map_ = [key \in Key |-> IF contains(h, b, key) THEN ItemOf(key) ELSE Null]])

(* Of an element that has elements below it to the depth n at most.        *)
CloneTo[n \in Nat] ==
  [of \in Seq(Element) \X Nat |->
     IF n = 0 THEN Copied(of[1], of[1][of[2]]) ELSE CloneOne(CloneTo[n - 1], of[1], of[2])]

clone(h, b) == CloneTo[Len(h)][<<h, b>>]

Children(h, b) == ToSet(h[b].array_) \cup {h[b].map_[key] : key \in {k \in Key : contains(h, b, k)}}

(* No element is further below another than there are elements.            *)
Below(h, b) ==
  LET within[n \in Nat] ==
        IF n = 0 THEN {b}
        ELSE LET nearer == within[n - 1] IN nearer \cup UNION {Children(h, c) : c \in nearer}
  IN  within[Len(h)]

(* No element is below itself from b on, where clone and a visitor go from *)
(* an element to those in it and would not return.                         *)
IsTree(h, b) == \A c \in Below(h, b) : \A d \in Children(h, c) : c \notin Below(h, d)

(* The parser also makes arrays in which some of the arrays are arrays of  *)
(* tables, as for x = [[1], [{a = 1}]].                                    *)
HoldsTables(h, a) ==
  /\ \A b \in ToSet(h[a].array_) : h[b].is \in {"array", "static"}
  /\ \E b \in ToSet(h[a].array_) : h[b].is = "static"

(* An array can be had whole, as one of a type or of arrays.               *)
ReadsWhole(h, a) ==
  get_array_of_array(h, a) # {} \/ \E T \in ValueType : get_array_of(h, T, a) # {}

(* What the parser makes.                                                  *)
WellFormed(h) ==
  /\ h \in Seq(Element)
  /\ \A b \in DOMAIN h :
        /\ Children(h, b) \subseteq DOMAIN h
        /\ h[b].is = "value" <=> h[b].type \in ValueType
        /\ h[b].is = "array" => HoldsTables(h, b) \/ ReadsWhole(h, b)

ASSUME TreeAssumption ==
  /\ IntMax \in Nat /\ Int64Max \in Nat /\ 0 < IntMax /\ IntMax < Int64Max
  /\ Double \subseteq Int /\ (-IntMax - 1)..IntMax \subseteq Double
  /\ MaxObjects \in Nat
  /\ Key \subseteq Seq(STRING) /\ IsFiniteSet(Key)
  /\ \A input \in Inputs : WellFormed(input.heap) /\ input.keys \subseteq Key
  /\ \A made \in Made : made.type \in ValueType /\ made.number \in Int

-------------------------------------------------------------------------------
(***************************************************************************)
(* The calls.  Nothing keeps a program from putting an element below       *)
(* itself.  A call that throws changes nothing.                            *)
(***************************************************************************)
Init == \E input \in Inputs : heap = input.heap /\ keys = input.keys /\ calls = input.calls

Make(is, type, data) ==
  /\ Len(heap) < MaxObjects
  /\ heap' = Append(heap, Object(is, type, data))

(* Of an unsigned number, too, which may be beyond int64_t.                *)
make_value(type, number) ==
  /\ type = "int" => number <= Int64Max
  /\ Make("value", type, IF type = "double" THEN ToDouble(number) ELSE number)

make_array == Make("array", "none", 0)
make_table == Make("table", "none", 0)
make_table_array == \E is_inline \in BOOLEAN : Make(IF is_inline THEN "static" ELSE "table_array", "none", 0)

insert(t, key, b) ==
  /\ heap[t].is = "table"
  /\ heap' = [heap EXCEPT ![t].map_[key] = b]

erase(t, key) ==
  /\ heap[t].is = "table"
  /\ heap' = [heap EXCEPT ![t].map_[key] = Null]

(* What array's push_back and insert ask of a value or an array b.         *)
TakesElement_of_any_number(a, b) ==
  LET front == heap[a].array_[1]
  IN  IF heap[a].array_ = <<>> THEN heap[b].is \in {"value", "array"} ELSE heap[front].is = heap[b].is

TakesElement(a, b) ==
  LET front == heap[a].array_[1]
  IN  CASE heap[a].array_ = <<>> -> heap[b].is \in {"value", "array"}
        [] heap[a].array_ # <<>> /\ heap[b].is = "value" -> as_type(heap, heap[b].type, front) # {}
        [] OTHER -> heap[b].is = "array" /\ heap[front].is = "array"

Takes(a, b) ==
  CASE heap[a].is = "array" -> TakesElement(a, b)
    [] heap[a].is \in {"table_array", "static"} -> heap[b].is = "table"
    [] OTHER -> FALSE

push_back(a, b) == Takes(a, b) /\ heap' = [heap EXCEPT ![a].array_ = Append(@, b)]

insert_at(a, position, b) ==
  /\ position \in DOMAIN heap[a].array_
  /\ Takes(a, b)
  /\ heap' = [heap EXCEPT ![a].array_ = InsertAt(@, position, b)]

erase_at(a, position) ==
  /\ position \in DOMAIN heap[a].array_
  /\ heap' = [heap EXCEPT ![a].array_ = RemoveAt(@, position)]

clear(a) ==
  /\ heap[a].array_ # <<>>
  /\ heap' = [heap EXCEPT ![a].array_ = <<>>]

(* clone returns.                                                          *)
Clone(b) ==
  /\ IsTree(heap, b)
  /\ heap' = clone(heap, b).heap
  /\ Len(heap') <= MaxObjects

Call ==
  \/ \E made \in Made : make_value(made.type, made.number)
  \/ make_array \/ make_table \/ make_table_array
  \/ \E t, b \in DOMAIN heap, key \in keys : insert(t, key, b)
  \/ \E t \in DOMAIN heap, key \in keys : erase(t, key)
  \/ \E a, b \in DOMAIN heap : push_back(a, b)
  \/ \E a, b \in DOMAIN heap, position \in 1..MaxObjects : insert_at(a, position, b)
  \/ \E a \in DOMAIN heap, position \in 1..MaxObjects : erase_at(a, position)
  \/ \E a \in DOMAIN heap : clear(a)
  \/ \E b \in DOMAIN heap : Clone(b)

Next == calls > 0 /\ calls' = calls - 1 /\ Call /\ UNCHANGED keys

Spec == Init /\ [][Next]_vars

-------------------------------------------------------------------------------
Tables == {t \in DOMAIN heap : heap[t].is = "table"}

Dotless == {key \in keys : "." \notin ToSet(key)}

(***************************************************************************)
(* "Arrays must be homogenous." (cpptoml.h:904): what is pushed or         *)
(* inserted is compared with the first element only, and an int may be had *)
(* as a double, so that ints and doubles may meet.  Still every array can  *)
(* be had whole, as an array of one type or of arrays, from the array or   *)
(* from the tables it is in; but for those in which the parser has put     *)
(* arrays of tables, which no call adds to an array and which              *)
(* nested_array gives as nullptr.                                          *)
(***************************************************************************)
ArraysReadWhole ==
  /\ \A a \in DOMAIN heap :
        heap[a].is = "array" => HoldsTables(heap, a) \/ ReadsWhole(heap, a)
  /\ \A t \in Tables, key \in keys :
        get_array(heap, t, key) # Null =>
          \/ HoldsTables(heap, get_array(heap, t, key))
          \/ table_get_array_of_array(heap, t, key) # {}
          \/ \E T \in ValueType : table_get_array_of(heap, T, t, key) # {}
  /\ \A t \in Tables, name, last \in Dotless :
        LET key == name \o <<".">> \o last
        IN  get_array_qualified(heap, t, key) # Null =>
              \/ HoldsTables(heap, get_array_qualified(heap, t, key))
              \/ table_get_qualified_array_of_array(heap, t, key) # {}
              \/ \E T \in ValueType : table_get_qualified_array_of(heap, T, t, key) # {}

(* The same element, but for which ones are in it.                         *)
SameBut(o, p) ==
  /\ o.is = p.is /\ o.type = p.type /\ o.data = p.data
  /\ DOMAIN o.array_ = DOMAIN p.array_
  /\ \A key \in Key : o.map_[key] = Null <=> p.map_[key] = Null

Alike(h, b, c) ==
  LET alike[n \in Nat] ==
        [of \in (DOMAIN h) \X (DOMAIN h) |->
           LET o == h[of[1]]
               p == h[of[2]] IN
             /\ SameBut(o, p)
             /\ n > 0 =>
                  /\ \A i \in DOMAIN o.array_ : alike[n - 1][<<o.array_[i], p.array_[i]>>]
                  /\ \A key \in Key : o.map_[key] # Null => alike[n - 1][<<o.map_[key], p.map_[key]>>]]
  IN  alike[Len(h)][<<b, c>>]

(***************************************************************************)
(* A copy is made of elements of its own, has the shape of the original,   *)
(* and leaves what there was as it is, however the elements outside of the *)
(* copied tree are linked.                                                 *)
(***************************************************************************)
ClonesAreApart ==
  \A b \in {c \in DOMAIN heap : IsTree(heap, c)} :
     LET copy == clone(heap, b)
     IN  /\ SubSeq(copy.heap, 1, Len(heap)) = heap
         /\ Alike(copy.heap, b, copy.it)
         /\ Below(copy.heap, copy.it) \cap DOMAIN heap = {}

(***************************************************************************)
(* An integer that is looked up is the one that is stored, or an exception *)
(* if the type asked for has no such number; as a double it is the nearest *)
(* one, itself if there is one.  The key is one of a table, or names a     *)
(* table in it and, behind a dot, one of that table's.  A visitor is given *)
(* a value as what it is.                                                  *)
(***************************************************************************)
Exact(T, got, b) ==
  IF b = Null THEN got = Got({})
  ELSE IF heap[b].type # "int" THEN ~got.thrown
  ELSE LET n == heap[b].data
       IN  CASE T = "double" ->
                  got.option # {} /\ got.option \subseteq Nearest(n)
             [] T # "double" /\ n \in Lowest(T)..Highest(T) -> got = Got({n})
             [] OTHER -> got.thrown

LookupsAreExact ==
  /\ \A t \in Tables, T \in Integral \cup {"double"} :
        /\ \A key \in keys : Exact(T, get_as(heap, T, t, key), heap[t].map_[key])
        /\ \A name, key \in Dotless :
              LET u == heap[t].map_[name]
              IN  Exact(T, get_qualified_as(heap, T, t, name \o <<".">> \o key),
                        IF u \in Tables THEN heap[u].map_[key] ELSE Null)
  /\ \A b \in DOMAIN heap : heap[b].is = "value" => value_accept(heap, b) = heap[b].type
===============================================================================
