-------------------------- MODULE TomlDocumentProofs --------------------------
(***************************************************************************)
(* Proofs about the parser of configuration files, for every document over *)
(* any set of keys, of any number of objects, nested to any depth.         *)
(*                                                                         *)
(* The heap changes in three ways: objects are made, an object is inserted *)
(* at a key that has none, and an object is pushed onto an array.  The     *)
(* first part says what each does to a heap, as lemmas about any heap h;   *)
(* the second follows the parser's stack, the third who holds an object.   *)
(* The fourth is about toml_writer, on every tree that the parser makes:   *)
(* what its lines are, what a reader of TOML makes of each, and of all.    *)
(***************************************************************************)
EXTENDS TomlRoundTrip, SequenceLemmas, SequenceTheorems

Obj == [is : Kind, map_ : [Part -> Nat], array_ : Seq(Nat)]

(* A heap: what an object holds was made later, arrays in the order of     *)
(* their elements; an array of tables holds tables, and one that can be    *)
(* found holds one.                                                        *)
Shaped(h) == h \in Seq(Obj) /\ Len(h) \in 1..MaxObjects

MapsGoUp(h) ==
  \A t \in 1..Len(h) : \A key \in Part :
     h[t].map_[key] # 0 => h[t].map_[key] \in (t + 1)..Len(h)

ArraysGoUp(h) ==
  \A t \in 1..Len(h) : \A i \in 1..Len(h[t].array_) : h[t].array_[i] \in (t + i)..Len(h)

ElementsAreTables(h) ==
  \A t \in 1..Len(h) :
     h[t].is \in {"table_array", "static"} =>
        \A i \in 1..Len(h[t].array_) : h[h[t].array_[i]].is = "table"

FoundArraysAreFilled(h) ==
  /\ \A t \in 1..Len(h) : h[t].is = "table_array" => h[t].array_ # <<>>
  /\ \A t \in 1..Len(h) : \A key \in Part :
        h[t].map_[key] # 0 /\ h[h[t].map_[key]].is = "static" => h[h[t].map_[key]].array_ # <<>>

HeapInv(h) ==
  Shaped(h) /\ MapsGoUp(h) /\ ArraysGoUp(h) /\ ElementsAreTables(h) /\ FoundArraysAreFilled(h)

(* h2 has what h has, in the same places.                                  *)
Grows(h, h2) ==
  \A t \in 1..Len(h) :
     /\ t \in 1..Len(h2) /\ h2[t].is = h[t].is
     /\ \A key \in Part : h[t].map_[key] # 0 => h2[t].map_[key] = h[t].map_[key]
     /\ \A i \in 1..Len(h[t].array_) :
           i <= Len(h2[t].array_) /\ h2[t].array_[i] = h[t].array_[i]

LEMMA ShapedFacts ==
  ASSUME NEW h, Shaped(h)
  PROVE  /\ Len(h) \in Nat
         /\ \A t \in 1..Len(h) : /\ h[t] \in Obj /\ h[t].is \in Kind
                                 /\ h[t].array_ \in Seq(Nat) /\ Len(h[t].array_) \in Nat
                                 /\ h[t].map_ \in [Part -> Nat]
                                 /\ \A key \in Part : h[t].map_[key] \in Nat
<1>1. h \in Seq(Obj) /\ Len(h) \in Nat
  BY DocumentAssumption DEF Shaped
<1>2. ASSUME NEW o \in Obj
      PROVE  /\ o.is \in Kind /\ o.array_ \in Seq(Nat) /\ Len(o.array_) \in Nat
             /\ o.map_ \in [Part -> Nat]
             /\ \A key \in Part : o.map_[key] \in Nat
  BY DEF Obj
<1>3. \A t \in 1..Len(h) : h[t] \in Obj
  BY <1>1, ElementOfSeq
<1> QED  BY <1>1, <1>2, <1>3

LEMMA ElementFacts ==
  ASSUME NEW h, HeapInv(h), NEW t \in 1..Len(h), NEW i \in 1..Len(h[t].array_)
  PROVE  h[t].array_[i] \in 1..Len(h)
<1>1. Len(h[t].array_) \in Nat /\ Len(h) \in Nat
  BY ShapedFacts DEF HeapInv
<1>2. h[t].array_[i] \in (t + i)..Len(h)
  BY DEF HeapInv, ArraysGoUp
<1> QED  BY <1>1, <1>2

LEMMA ObjectIsObj ==
  ASSUME NEW is \in Kind, NEW array_ \in Seq(Nat)
  PROVE  /\ Object(is, array_) \in Obj
         /\ Object(is, array_).is = is /\ Object(is, array_).array_ = array_
         /\ \A key \in Part : Object(is, array_).map_[key] = 0
  BY DEF Object, Obj, Null

-------------------------------------------------------------------------------
(* Making an object without elements.                                      *)
Made(h, is) == Append(h, Object(is, <<>>))

LEMMA MadeEffect ==
  ASSUME NEW h, Shaped(h), Len(h) < MaxObjects, NEW is \in Kind,
         NEW h2, h2 = Made(h, is)
  PROVE  /\ Shaped(h2) /\ Len(h2) = Len(h) + 1
         /\ \A t \in 1..Len(h) : h2[t] = h[t]
         /\ h2[Len(h) + 1].is = is
         /\ h2[Len(h) + 1].array_ = <<>> /\ Len(h2[Len(h) + 1].array_) = 0
         /\ \A key \in Part : h2[Len(h) + 1].map_[key] = 0
<1>1. <<>> \in Seq(Nat) /\ Len(<<>>) = 0
  OBVIOUS
<1>2. Object(is, <<>>) \in Obj
  BY <1>1, ObjectIsObj
<1>3. h \in Seq(Obj) /\ Len(h) \in Nat /\ MaxObjects \in Nat
  BY DocumentAssumption DEF Shaped
<1>4. h2[Len(h) + 1] = Object(is, <<>>)
  BY <1>2, <1>3, AppendProperties DEF Made
<1>5. /\ h2 \in Seq(Obj) /\ Len(h2) = Len(h) + 1
      /\ \A t \in 1..Len(h) : h2[t] = h[t]
  BY <1>2, <1>3, AppendProperties DEF Made
<1>6. Shaped(h2)
  BY <1>3, <1>5 DEF Shaped
<1> DEFINE o == Object(is, <<>>)
<1>7. /\ o.is = is /\ o.array_ = <<>> /\ Len(o.array_) = 0
      /\ \A key \in Part : o.map_[key] = 0
  BY <1>1, ObjectIsObj
<1>8. h2[Len(h) + 1] = o
  BY <1>4
<1> HIDE DEF o
<1> QED  BY <1>5, <1>6, <1>7, <1>8

(* Adding objects that nothing leads to yet.                               *)
Extends(h, h2) ==
  /\ Shaped(h2) /\ Len(h2) >= Len(h)
  /\ \A t \in 1..Len(h) : h2[t] = h[t]
  /\ \A t \in (Len(h) + 1)..Len(h2) :
        /\ \A key \in Part : h2[t].map_[key] = 0
        /\ \A i \in 1..Len(h2[t].array_) : h2[t].array_[i] \in (t + i)..Len(h2)

LEMMA ExtendInv ==
  ASSUME NEW h, HeapInv(h), NEW h2, Extends(h, h2),
         \A t \in (Len(h) + 1)..Len(h2) :
            /\ h2[t].is = "table_array" => h2[t].array_ # <<>>
            /\ h2[t].is \in {"table_array", "static"} =>
                  \A i \in 1..Len(h2[t].array_) : h2[h2[t].array_[i]].is = "table"
  PROVE  HeapInv(h2) /\ Grows(h, h2)
<1>1. /\ Shaped(h) /\ Shaped(h2) /\ Len(h) \in Nat /\ Len(h2) \in Nat /\ Len(h2) >= Len(h)
      /\ \A t \in 1..Len(h) : t \in 1..Len(h2) /\ h2[t] = h[t]
  BY ShapedFacts DEF HeapInv, Extends
<1>2. \A t \in 1..Len(h2) : t \in 1..Len(h) \/ t \in (Len(h) + 1)..Len(h2)
  BY <1>1
<1>3. MapsGoUp(h2)
  BY <1>1, <1>2 DEF HeapInv, MapsGoUp, Extends
<1>4. ArraysGoUp(h2)
  BY <1>1, <1>2 DEF HeapInv, ArraysGoUp, Extends
<1>5. ElementsAreTables(h2)
  <2> SUFFICES ASSUME NEW t \in 1..Len(h2), h2[t].is \in {"table_array", "static"},
                      NEW i \in 1..Len(h2[t].array_)
               PROVE  h2[h2[t].array_[i]].is = "table"
    BY DEF ElementsAreTables
  <2>1. CASE t \in 1..Len(h)
    <3>1. h[t].is \in {"table_array", "static"} /\ i \in 1..Len(h[t].array_)
      BY <1>1, <2>1
    <3>2. h[t].array_[i] \in 1..Len(h) /\ h[h[t].array_[i]].is = "table"
      BY <2>1, <3>1, ElementFacts DEF HeapInv, ElementsAreTables
    <3> QED  BY <1>1, <2>1, <3>2
  <2> QED  BY <1>2, <2>1
<1>6. FoundArraysAreFilled(h2)
  <2>1. \A t \in 1..Len(h2) : h2[t].is = "table_array" => h2[t].array_ # <<>>
    BY <1>1, <1>2 DEF HeapInv, FoundArraysAreFilled
  <2>2. ASSUME NEW t \in 1..Len(h2), NEW key \in Part, h2[t].map_[key] # 0,
               h2[h2[t].map_[key]].is = "static"
        PROVE  h2[h2[t].map_[key]].array_ # <<>>
    <3>1. t \in 1..Len(h) /\ h2[t] = h[t]
      BY <1>1, <1>2, <2>2 DEF Extends
    <3>2. h[t].map_[key] \in 1..Len(h)
      BY <1>1, <2>2, <3>1 DEF HeapInv, MapsGoUp
    <3> QED  BY <1>1, <2>2, <3>1, <3>2 DEF HeapInv, FoundArraysAreFilled
  <2> QED  BY <2>1, <2>2 DEF FoundArraysAreFilled
<1>7. Grows(h, h2)
  BY <1>1, ShapedFacts DEF Grows
<1> QED  BY <1>1, <1>3, <1>4, <1>5, <1>6, <1>7 DEF HeapInv

LEMMA MadeInv ==
  ASSUME NEW h, HeapInv(h), Len(h) < MaxObjects, NEW is \in {"table", "static", "value", "array"},
         NEW h2, h2 = Made(h, is)
  PROVE  HeapInv(h2) /\ Grows(h, h2) /\ Extends(h, h2)
<1>1. is \in Kind /\ Shaped(h) /\ Len(h) \in Nat
  BY ShapedFacts DEF HeapInv, Kind
<1>2. /\ Shaped(h2) /\ Len(h2) = Len(h) + 1
      /\ \A t \in 1..Len(h) : h2[t] = h[t]
      /\ h2[Len(h) + 1].is = is /\ Len(h2[Len(h) + 1].array_) = 0
      /\ \A key \in Part : h2[Len(h) + 1].map_[key] = 0
  BY <1>1, MadeEffect
<1>3. \A t \in (Len(h) + 1)..Len(h2) : t = Len(h) + 1
  BY <1>1, <1>2
<1>4. Extends(h, h2)
  BY <1>1, <1>2, <1>3 DEF Extends
<1> QED  BY <1>1, <1>2, <1>3, <1>4, ExtendInv

(* Making a table array and its first table.                               *)
MadeTableArray(h) ==
  Append(Append(h, Object("table_array", <<Len(h) + 2>>)), Object("table", <<>>))

LEMMA TableArrayInv ==
  ASSUME NEW h, HeapInv(h), Len(h) + 2 <= MaxObjects, NEW h2, h2 = MadeTableArray(h)
  PROVE  /\ HeapInv(h2) /\ Grows(h, h2) /\ Extends(h, h2)
         /\ Len(h2) = Len(h) + 2
         /\ h2[Len(h) + 1].is = "table_array" /\ h2[Len(h) + 2].is = "table"
         /\ Len(h2[Len(h) + 1].array_) = 1 /\ h2[Len(h) + 1].array_[1] = Len(h) + 2
         /\ Len(h2[Len(h) + 2].array_) = 0
<1> DEFINE o == Object("table_array", <<Len(h) + 2>>)
           p == Object("table", <<>>)
           g == Append(h, o)
<1>1. /\ h \in Seq(Obj) /\ Len(h) \in Nat \ {0} /\ MaxObjects \in Nat
      /\ {"table", "table_array"} \subseteq Kind
      /\ <<Len(h) + 2>> \in Seq(Nat) /\ <<>> \in Seq(Nat)
  BY DocumentAssumption DEF HeapInv, Shaped, Kind
<1>2. /\ o \in Obj /\ o.is = "table_array" /\ o.array_ = <<Len(h) + 2>>
      /\ \A key \in Part : o.map_[key] = 0
  BY <1>1, ObjectIsObj
<1>3. /\ p \in Obj /\ p.is = "table" /\ p.array_ = <<>>
      /\ \A key \in Part : p.map_[key] = 0
  BY <1>1, ObjectIsObj
<1>4. Len(o.array_) = 1 /\ o.array_[1] = Len(h) + 2 /\ o.array_ # <<>> /\ Len(p.array_) = 0
  BY <1>2, <1>3
<1> HIDE DEF o, p
<1>5. /\ g \in Seq(Obj) /\ Len(g) = Len(h) + 1
      /\ g[Len(h) + 1] = o /\ \A t \in 1..Len(h) : g[t] = h[t]
  BY <1>1, <1>2, AppendProperties
<1> HIDE DEF g
<1>6. /\ Append(g, p) \in Seq(Obj) /\ Len(Append(g, p)) = Len(g) + 1
      /\ Append(g, p)[Len(g) + 1] = p /\ \A t \in 1..Len(g) : Append(g, p)[t] = g[t]
  BY <1>3, <1>5, AppendProperties
<1>7. h2 = Append(g, p)
  BY DEF MadeTableArray, g, o, p
<1>8. /\ h2 \in Seq(Obj) /\ Len(h2) = Len(h) + 2
      /\ h2[Len(h) + 1] = o /\ h2[Len(h) + 2] = p /\ \A t \in 1..Len(h) : h2[t] = h[t]
  BY <1>1, <1>5, <1>6, <1>7
<1>9. \A t \in (Len(h) + 1)..Len(h2) : t = Len(h) + 1 \/ t = Len(h) + 2
  BY <1>1, <1>8
<1>10. \A i \in 1..1 : i = 1
  OBVIOUS
<1>11. Shaped(h2)
  BY <1>1, <1>8 DEF Shaped
<1>12. Extends(h, h2)
  BY <1>1, <1>2, <1>3, <1>4, <1>8, <1>9, <1>10, <1>11 DEF Extends
<1>13. HeapInv(h2) /\ Grows(h, h2)
  <2>1. \A t \in (Len(h) + 1)..Len(h2) :
           /\ h2[t].is = "table_array" => h2[t].array_ # <<>>
           /\ h2[t].is \in {"table_array", "static"} =>
                 \A i \in 1..Len(h2[t].array_) : h2[h2[t].array_[i]].is = "table"
    <3> SUFFICES ASSUME NEW t \in (Len(h) + 1)..Len(h2)
                 PROVE  /\ h2[t].is = "table_array" => h2[t].array_ # <<>>
                        /\ h2[t].is \in {"table_array", "static"} =>
                              \A i \in 1..Len(h2[t].array_) : h2[h2[t].array_[i]].is = "table"
      OBVIOUS
    <3>1. CASE h2[t] = o
      <4>1. \A i \in 1..Len(o.array_) : h2[o.array_[i]] = p
        BY <1>4, <1>8, <1>10
      <4> QED  BY <1>3, <1>4, <3>1, <4>1
    <3>2. CASE h2[t] = p
      BY <1>3, <3>2
    <3> QED  BY <1>8, <1>9, <3>1, <3>2
  <2> QED  BY <1>12, <2>1, ExtendInv
<1> QED  BY <1>2, <1>3, <1>4, <1>8, <1>12, <1>13

(* Making an array of scalars.                                             *)
MadeArray(h, size) ==
  h \o <<Object("array", [i \in 1..size |-> Len(h) + 1 + i])>>
    \o [i \in 1..size |-> Object("value", <<>>)]

AddsArray(h, size, h2) ==
  /\ Len(h2) = Len(h) + 1 + size
  /\ h2[Len(h) + 1].is = "array"
  /\ Len(h2[Len(h) + 1].array_) = size
  /\ \A i \in 1..size : h2[Len(h) + 1].array_[i] = Len(h) + 1 + i
  /\ \A i \in 1..size : h2[Len(h) + 1 + i].is = "value"
  /\ \A t \in (Len(h) + 1)..Len(h2) : t = Len(h) + 1 \/ (h2[t].is = "value" /\ Len(h2[t].array_) = 0)

LEMMA ArrayInv ==
  ASSUME NEW h, HeapInv(h), NEW size \in Nat, Len(h) + 1 + size <= MaxObjects,
         NEW h2, h2 = MadeArray(h, size)
  PROVE  HeapInv(h2) /\ Grows(h, h2) /\ Extends(h, h2) /\ AddsArray(h, size, h2)
<1> DEFINE refs == [i \in 1..size |-> Len(h) + 1 + i]
           o == Object("array", refs)
           p == Object("value", <<>>)
           tail == [i \in 1..size |-> p]
<1>1. /\ h \in Seq(Obj) /\ Len(h) \in Nat \ {0} /\ MaxObjects \in Nat
      /\ {"value", "array"} \subseteq Kind /\ <<>> \in Seq(Nat)
  BY DocumentAssumption DEF HeapInv, Shaped, Kind
<1>2. refs \in Seq(Nat) /\ Len(refs) = size /\ \A i \in 1..size : refs[i] = Len(h) + 1 + i
  BY <1>1
<1> HIDE DEF refs
<1>3. /\ o \in Obj /\ o.is = "array" /\ o.array_ = refs
      /\ \A key \in Part : o.map_[key] = 0
  BY <1>1, <1>2, ObjectIsObj
<1>4. /\ p \in Obj /\ p.is = "value" /\ p.array_ = <<>>
      /\ \A key \in Part : p.map_[key] = 0
  BY <1>1, ObjectIsObj
<1>5. Len(p.array_) = 0
  BY <1>4
<1> HIDE DEF o, p
<1>6. tail \in Seq(Obj) /\ Len(tail) = size /\ \A i \in 1..size : tail[i] = p
  BY <1>4
<1> HIDE DEF tail
<1>7. <<o>> \in Seq(Obj) /\ Len(<<o>>) = 1 /\ <<o>>[1] = o
  BY <1>3
<1>8. /\ h \o <<o>> \in Seq(Obj) /\ Len(h \o <<o>>) = Len(h) + 1
      /\ \A t \in 1..(Len(h) + 1) : (h \o <<o>>)[t] = IF t <= Len(h) THEN h[t] ELSE <<o>>[t - Len(h)]
  BY <1>1, <1>7, ConcatProperties
<1> DEFINE g == h \o <<o>>
<1>9. /\ g \in Seq(Obj) /\ Len(g) = Len(h) + 1
      /\ \A t \in 1..Len(h) : g[t] = h[t]
      /\ g[Len(h) + 1] = o
  BY <1>1, <1>7, <1>8
<1>10. h2 = g \o tail
  BY DEF MadeArray, o, p, tail, refs
<1> HIDE DEF g
<1>11. /\ g \o tail \in Seq(Obj) /\ Len(g \o tail) = Len(g) + Len(tail)
       /\ \A t \in 1..(Len(g) + Len(tail)) : (g \o tail)[t] = IF t <= Len(g) THEN g[t] ELSE tail[t - Len(g)]
  BY <1>6, <1>9, ConcatProperties
<1>12. /\ h2 \in Seq(Obj) /\ Len(h2) = Len(h) + 1 + size
       /\ \A t \in 1..Len(h2) : h2[t] = IF t <= Len(h) + 1 THEN g[t] ELSE tail[t - (Len(h) + 1)]
  BY <1>1, <1>6, <1>9, <1>10, <1>11
<1>13. \A t \in 1..Len(h) : h2[t] = h[t]
  BY <1>1, <1>9, <1>12
<1>14. h2[Len(h) + 1] = o
  BY <1>1, <1>9, <1>12
<1>15. ASSUME NEW i \in 1..size  PROVE h2[Len(h) + 1 + i] = p
  <2>1. /\ Len(h) + 1 + i \in 1..Len(h2) /\ ~ (Len(h) + 1 + i <= Len(h) + 1)
        /\ (Len(h) + 1 + i) - (Len(h) + 1) = i
    BY <1>1, <1>12
  <2> QED  BY <1>6, <1>12, <2>1
<1>16. \A t \in (Len(h) + 1)..Len(h2) : t = Len(h) + 1 \/ h2[t] = p
  <2> SUFFICES ASSUME NEW t \in (Len(h) + 1)..Len(h2), t # Len(h) + 1  PROVE h2[t] = p
    OBVIOUS
  <2>1. t - (Len(h) + 1) \in 1..size /\ Len(h) + 1 + (t - (Len(h) + 1)) = t
    BY <1>1, <1>12
  <2> QED  BY <1>15, <2>1
<1>17. Shaped(h2)
  BY <1>1, <1>12 DEF Shaped
<1>18. Extends(h, h2)
  <2>1. ASSUME NEW t \in (Len(h) + 1)..Len(h2)
        PROVE  /\ \A key \in Part : h2[t].map_[key] = 0
               /\ \A i \in 1..Len(h2[t].array_) : h2[t].array_[i] \in (t + i)..Len(h2)
    <3>1. CASE h2[t] = p
      BY <1>4, <1>5, <3>1
    <3>2. CASE t = Len(h) + 1
      BY <1>1, <1>2, <1>3, <1>12, <1>14, <3>2
    <3> QED  BY <1>16, <3>1, <3>2
  <2> QED  BY <1>1, <1>12, <1>13, <1>17, <2>1 DEF Extends
<1>19. HeapInv(h2) /\ Grows(h, h2)
  <2>1. \A t \in (Len(h) + 1)..Len(h2) : h2[t].is \in {"array", "value"}
    BY <1>3, <1>4, <1>14, <1>16
  <2>2. \A t \in (Len(h) + 1)..Len(h2) : h2[t].is \notin {"table_array", "static"}
    BY <2>1
  <2> QED  BY <1>18, <2>2, ExtendInv
<1>20. AddsArray(h, size, h2)
  BY <1>2, <1>3, <1>4, <1>5, <1>12, <1>14, <1>15, <1>16 DEF AddsArray
<1> QED  BY <1>18, <1>19, <1>20

-------------------------------------------------------------------------------
(* Inserting object v at a key of table t.                                 *)
LEMMA InsertEffect ==
  ASSUME NEW h, Shaped(h), NEW t \in 1..Len(h), NEW key \in Part, NEW v \in Nat,
         NEW h2, h2 = insert(h, t, key, v)
  PROVE  /\ Shaped(h2) /\ Len(h2) = Len(h)
         /\ \A u \in 1..Len(h) :
               /\ h2[u].is = h[u].is /\ h2[u].array_ = h[u].array_
               /\ \A k \in Part :
                     h2[u].map_[k] = IF u = t /\ k = key THEN v ELSE h[u].map_[k]
<1> DEFINE e == [h[t] EXCEPT !.map_ = [@ EXCEPT ![key] = v]]
<1>1. h \in Seq(Obj) /\ h[t] \in Obj
  BY DEF Shaped
<1>2. /\ e \in Obj /\ e.is = h[t].is /\ e.array_ = h[t].array_
      /\ \A k \in Part : e.map_[k] = IF k = key THEN v ELSE h[t].map_[k]
  BY <1>1 DEF Obj
<1>3. h2 = [h EXCEPT ![t] = e]
  BY <1>1 DEF insert, Obj
<1> HIDE DEF e
<1>4. /\ h2 \in Seq(Obj) /\ Len(h2) = Len(h)
      /\ \A u \in 1..Len(h) : h2[u] = IF u = t THEN e ELSE h[u]
  BY <1>1, <1>2, <1>3, ExceptSeq
<1> QED  BY <1>2, <1>4 DEF Shaped

LEMMA InsertInv ==
  ASSUME NEW h, HeapInv(h), NEW t \in 1..Len(h), NEW key \in Part, NEW v \in (t + 1)..Len(h),
         h[t].map_[key] = 0, h[v].is = "static" => h[v].array_ # <<>>,
         NEW h2, h2 = insert(h, t, key, v)
  PROVE  HeapInv(h2) /\ Grows(h, h2)
<1>1. Len(h) \in Nat /\ v \in Nat /\ v \in 1..Len(h) /\ t \in Nat
  BY ShapedFacts DEF HeapInv
<1>2. /\ Shaped(h) /\ Shaped(h2) /\ Len(h2) = Len(h)
      /\ \A u \in 1..Len(h) :
            /\ h2[u].is = h[u].is /\ h2[u].array_ = h[u].array_
            /\ \A k \in Part :
                  h2[u].map_[k] = IF u = t /\ k = key THEN v ELSE h[u].map_[k]
  BY <1>1, InsertEffect DEF HeapInv
<1>3. MapsGoUp(h2)
  BY <1>1, <1>2 DEF HeapInv, MapsGoUp
<1>4. ArraysGoUp(h2)
  BY <1>1, <1>2 DEF HeapInv, ArraysGoUp
<1>5. ElementsAreTables(h2)
  <2> SUFFICES ASSUME NEW u \in 1..Len(h), h2[u].is \in {"table_array", "static"},
                      NEW i \in 1..Len(h2[u].array_)
               PROVE  h2[h2[u].array_[i]].is = "table"
    BY <1>2 DEF ElementsAreTables
  <2>1. h[u].array_[i] \in 1..Len(h) /\ h[h[u].array_[i]].is = "table"
    <3>1. i \in 1..Len(h[u].array_) /\ h[u].is \in {"table_array", "static"}
      BY <1>2
    <3>2. h[u].array_[i] \in 1..Len(h)
      BY <3>1, ElementFacts
    <3> QED  BY <3>1, <3>2 DEF HeapInv, ElementsAreTables
  <2> QED  BY <1>2, <2>1
<1>6. FoundArraysAreFilled(h2)
  <2>1. \A u \in 1..Len(h2) : h2[u].is = "table_array" => h2[u].array_ # <<>>
    BY <1>2 DEF HeapInv, FoundArraysAreFilled
  <2>2. ASSUME NEW u \in 1..Len(h2), NEW k \in Part, h2[u].map_[k] # 0,
               h2[h2[u].map_[k]].is = "static"
        PROVE  h2[h2[u].map_[k]].array_ # <<>>
    <3>1. CASE u = t /\ k = key
      BY <1>1, <1>2, <2>2, <3>1
    <3>2. CASE ~ (u = t /\ k = key)
      <4>1. u \in 1..Len(h) /\ h2[u].map_[k] = h[u].map_[k]
        BY <1>2, <2>2, <3>2
      <4>2. h[u].map_[k] \in 1..Len(h)
        BY <1>2, <2>2, <4>1 DEF HeapInv, MapsGoUp
      <4> QED  BY <1>2, <2>2, <4>1, <4>2 DEF HeapInv, FoundArraysAreFilled
    <3> QED  BY <3>1, <3>2
  <2> QED  BY <2>1, <2>2 DEF FoundArraysAreFilled
<1>7. Grows(h, h2)
  BY <1>2, ShapedFacts DEF Grows
<1> QED  BY <1>2, <1>3, <1>4, <1>5, <1>6, <1>7 DEF HeapInv

-------------------------------------------------------------------------------
(* Pushing object v onto array a.                                          *)
Pushed(h, a, v, h2) ==
  /\ Len(h2) = Len(h)
  /\ \A u \in 1..Len(h) :
        /\ h2[u].is = h[u].is /\ h2[u].map_ = h[u].map_
        /\ u # a => h2[u].array_ = h[u].array_
  /\ Len(h2[a].array_) = Len(h[a].array_) + 1
  /\ h2[a].array_[Len(h[a].array_) + 1] = v
  /\ \A i \in 1..Len(h[a].array_) : h2[a].array_[i] = h[a].array_[i]

LEMMA PushEffect ==
  ASSUME NEW h, Shaped(h), NEW a \in 1..Len(h), NEW v \in Nat,
         NEW h2, h2 = push_back(h, a, v)
  PROVE  Shaped(h2) /\ Pushed(h, a, v, h2)
<1> DEFINE s == Append(h[a].array_, v)
           e == [h[a] EXCEPT !.array_ = s]
<1>1. h \in Seq(Obj) /\ h[a] \in Obj /\ h[a].array_ \in Seq(Nat)
  BY ShapedFacts DEF Shaped
<1>2. /\ s \in Seq(Nat) /\ Len(s) = Len(h[a].array_) + 1 /\ s[Len(h[a].array_) + 1] = v
      /\ \A i \in 1..Len(h[a].array_) : s[i] = h[a].array_[i]
  BY <1>1, AppendProperties
<1> HIDE DEF s
<1>3. e \in Obj /\ e.is = h[a].is /\ e.map_ = h[a].map_ /\ e.array_ = s
  BY <1>1, <1>2 DEF Obj
<1>4. h2 = [h EXCEPT ![a] = e]
  BY <1>1 DEF push_back, Obj, s
<1> HIDE DEF e
<1>5. /\ h2 \in Seq(Obj) /\ Len(h2) = Len(h)
      /\ \A u \in 1..Len(h) : h2[u] = IF u = a THEN e ELSE h[u]
  BY <1>1, <1>3, <1>4, ExceptSeq
<1> QED  BY <1>2, <1>3, <1>5 DEF Shaped, Pushed, s

LEMMA PushInv ==
  ASSUME NEW h, HeapInv(h), NEW a \in 1..Len(h), h[a].is \in {"table_array", "static", "array"},
         NEW v \in (a + Len(h[a].array_) + 1)..Len(h), h[a].is # "array" => h[v].is = "table",
         NEW h2, h2 = push_back(h, a, v)
  PROVE  HeapInv(h2) /\ Grows(h, h2) /\ h2[a].array_ # <<>>
<1>1. /\ Len(h) \in Nat /\ a \in Nat /\ Len(h[a].array_) \in Nat
      /\ v \in Nat /\ v \in 1..Len(h)
      /\ \A u \in 1..Len(h) : Len(h[u].array_) \in Nat
  BY ShapedFacts DEF HeapInv
<1>2. Shaped(h) /\ Shaped(h2) /\ Pushed(h, a, v, h2)
  BY <1>1, PushEffect DEF HeapInv
<1>3. /\ Len(h2[a].array_) = Len(h[a].array_) + 1
      /\ h2[a].array_[Len(h[a].array_) + 1] = v
      /\ \A i \in 1..Len(h[a].array_) : h2[a].array_[i] = h[a].array_[i]
  BY <1>2 DEF Pushed
<1>4. /\ Len(h2) = Len(h)
       /\ \A u \in 1..Len(h) : h2[u].is = h[u].is /\ h2[u].map_ = h[u].map_
  BY <1>2 DEF Pushed
<1>5. \A u \in 1..Len(h) : u # a => h2[u].array_ = h[u].array_
  BY <1>2 DEF Pushed
<1>6. \A i \in 1..Len(h2[a].array_) : i \in 1..Len(h[a].array_) \/ i = Len(h[a].array_) + 1
  BY <1>1, <1>3
<1>7. h2[a].array_ # <<>>
  BY <1>1, <1>3
<1>8. MapsGoUp(h2)
  BY <1>4 DEF HeapInv, MapsGoUp
<1>9. ASSUME NEW t \in 1..Len(h), NEW i \in 1..Len(h2[t].array_)
       PROVE  \/ i \in 1..Len(h[t].array_) /\ h2[t].array_[i] = h[t].array_[i]
              \/ t = a /\ i = Len(h[a].array_) + 1 /\ h2[t].array_[i] = v
  <2>1. CASE t # a
    BY <1>5, <2>1
  <2>2. CASE t = a
    BY <1>3, <1>6, <2>2
  <2> QED  BY <2>1, <2>2
<1>10. ArraysGoUp(h2)
  <2> SUFFICES ASSUME NEW t \in 1..Len(h), NEW i \in 1..Len(h2[t].array_)
               PROVE  h2[t].array_[i] \in (t + i)..Len(h)
    BY <1>4 DEF ArraysGoUp
  <2>1. CASE i \in 1..Len(h[t].array_) /\ h2[t].array_[i] = h[t].array_[i]
    BY <2>1 DEF HeapInv, ArraysGoUp
  <2>2. CASE t = a /\ i = Len(h[a].array_) + 1 /\ h2[t].array_[i] = v
    BY <1>1, <2>2
  <2> QED  BY <1>9, <2>1, <2>2
<1>11. ElementsAreTables(h2)
  <2> SUFFICES ASSUME NEW t \in 1..Len(h2), h2[t].is \in {"table_array", "static"},
                      NEW i \in 1..Len(h2[t].array_)
               PROVE  h2[h2[t].array_[i]].is = "table"
    BY DEF ElementsAreTables
  <2>0. t \in 1..Len(h) /\ h[t].is \in {"table_array", "static"}
    BY <1>4
  <2>1. CASE i \in 1..Len(h[t].array_) /\ h2[t].array_[i] = h[t].array_[i]
    <3>1. h[t].array_[i] \in 1..Len(h)
      BY <2>0, <2>1, ElementFacts
    <3>2. h[h[t].array_[i]].is = "table"
      BY <2>0, <2>1 DEF HeapInv, ElementsAreTables
    <3> QED  BY <1>4, <2>1, <3>1, <3>2
  <2>2. CASE t = a /\ h2[t].array_[i] = v
    BY <1>1, <1>4, <2>0, <2>2
  <2> QED  BY <1>9, <2>0, <2>1, <2>2
<1>12. FoundArraysAreFilled(h2)
  <2>1. \A u \in 1..Len(h2) : u # a => h2[u].array_ = h[u].array_ /\ u \in 1..Len(h)
    BY <1>4, <1>5
  <2>2. \A u \in 1..Len(h2) : h2[u].is = "table_array" => h2[u].array_ # <<>>
    BY <1>7, <1>4, <2>1 DEF HeapInv, FoundArraysAreFilled
  <2>3. ASSUME NEW u \in 1..Len(h2), NEW k \in Part, h2[u].map_[k] # 0,
               h2[h2[u].map_[k]].is = "static"
        PROVE  h2[h2[u].map_[k]].array_ # <<>>
    <3> DEFINE b == h[u].map_[k]
    <3>1. u \in 1..Len(h) /\ h2[u].map_[k] = b /\ b # 0
      BY <1>4, <2>3
    <3>2. b \in 1..Len(h) /\ b \in 1..Len(h2)
      BY <1>1, <1>4, <3>1 DEF HeapInv, MapsGoUp
    <3>3. h[b].is = "static"
      BY <1>4, <2>3, <3>1, <3>2
    <3>4. h[b].array_ # <<>>
      BY <3>1, <3>3 DEF HeapInv, FoundArraysAreFilled
    <3> HIDE DEF b
    <3> QED  BY <1>7, <2>1, <3>1, <3>2, <3>4
  <2> QED  BY <2>2, <2>3 DEF FoundArraysAreFilled
<1>13. Grows(h, h2)
  <2> SUFFICES ASSUME NEW t \in 1..Len(h)
               PROVE  /\ t \in 1..Len(h2) /\ h2[t].is = h[t].is
                      /\ h2[t].map_ = h[t].map_
                      /\ \A i \in 1..Len(h[t].array_) :
                            i <= Len(h2[t].array_) /\ h2[t].array_[i] = h[t].array_[i]
    BY DEF Grows
  <2>1. t \in 1..Len(h2) /\ h2[t].is = h[t].is /\ h2[t].map_ = h[t].map_
    BY <1>4
  <2>2. CASE t = a
    BY <1>1, <1>3, <2>1, <2>2
  <2>3. CASE t # a
    BY <1>1, <1>5, <2>1, <2>3
  <2> QED  BY <2>2, <2>3
<1> QED  BY <1>2, <1>7, <1>8, <1>10, <1>11, <1>12, <1>13 DEF HeapInv

(* An array ends before the heap does.                                     *)
LEMMA ArrayEnds ==
  ASSUME NEW h, HeapInv(h), NEW a \in 1..Len(h)
  PROVE  a + Len(h[a].array_) <= Len(h) /\ Len(h[a].array_) \in Nat /\ Len(h) \in Nat
<1>1. Len(h[a].array_) \in Nat /\ Len(h) \in Nat
  BY ShapedFacts DEF HeapInv
<1>2. CASE Len(h[a].array_) = 0
  BY <1>1, <1>2
<1>3. CASE Len(h[a].array_) # 0
  <2>1. Len(h[a].array_) \in 1..Len(h[a].array_)
    BY <1>1, <1>3
  <2>2. h[a].array_[Len(h[a].array_)] \in (a + Len(h[a].array_))..Len(h)
    BY <2>1 DEF HeapInv, ArraysGoUp
  <2> QED  BY <1>1, <2>2
<1> QED  BY <1>2, <1>3

LEMMA GrowsTrans ==
  ASSUME NEW h, NEW g, NEW f, Shaped(h), Shaped(g), Shaped(f), Grows(h, g), Grows(g, f)
  PROVE  Grows(h, f)
<1> SUFFICES ASSUME NEW t \in 1..Len(h)
             PROVE  /\ t \in 1..Len(f) /\ f[t].is = h[t].is
                    /\ \A key \in Part : h[t].map_[key] # 0 => f[t].map_[key] = h[t].map_[key]
                    /\ \A i \in 1..Len(h[t].array_) :
                          i <= Len(f[t].array_) /\ f[t].array_[i] = h[t].array_[i]
  BY DEF Grows
<1>1. t \in 1..Len(g) /\ g[t].is = h[t].is /\ t \in 1..Len(f) /\ f[t].is = g[t].is
  BY DEF Grows
<1>2. ASSUME NEW key \in Part, h[t].map_[key] # 0  PROVE f[t].map_[key] = h[t].map_[key]
  BY <1>1, <1>2 DEF Grows
<1>3. ASSUME NEW i \in 1..Len(h[t].array_)
      PROVE  i <= Len(f[t].array_) /\ f[t].array_[i] = h[t].array_[i]
  <2>1. i <= Len(g[t].array_) /\ g[t].array_[i] = h[t].array_[i] /\ Len(g[t].array_) \in Nat
        /\ i \in Nat /\ i >= 1
    BY <1>1, ShapedFacts DEF Grows
  <2>2. i \in 1..Len(g[t].array_)
    BY <2>1
  <2> QED  BY <1>1, <2>1, <2>2 DEF Grows
<1> QED  BY <1>1, <1>2, <1>3

-------------------------------------------------------------------------------
(***************************************************************************)
(* The stack st over heap h.  What is read later was made later, except    *)
(* that a pair is in the table it stands under; a pair waits for a key     *)
(* that has no object; an element of an array is newer than those before.  *)
(***************************************************************************)
FrameType == [is : {"pair", "table", "array", "arrays"}, in : Nat, key : Part]

(* What a frame of the stack builds, or, for a pair, stands in.            *)
Builds(is) ==
  CASE is \in {"pair", "table"} -> "table"
    [] is = "array" -> "static"
    [] is = "arrays" -> "array"

FramesAreObjects(h, st) ==
  /\ st \in Seq(FrameType)
  /\ \A i \in 1..Len(st) :
        /\ st[i].in \in 1..Len(h)
        /\ h[st[i].in].is = Builds(st[i].is)

Nested(st) ==
  \A i \in 1..Len(st) :
     /\ st[i].is = "pair" => i = 1 \/ st[i - 1].is = "table"
     /\ st[i].is = "table" => i # 1 /\ st[i - 1].is \in {"pair", "array"}
     /\ st[i].is \in {"array", "arrays"} => i # 1 /\ st[i - 1].is \in {"pair", "arrays"}

Below(f, g) == f.in < g.in \/ (f.is = "table" /\ g.is = "pair" /\ f.in = g.in)

Ordered(st) == \A i, j \in 1..Len(st) : i < j => Below(st[i], st[j])

PairsWait(h, st) ==
  \A i \in 1..Len(st) : st[i].is = "pair" => h[st[i].in].map_[st[i].key] = 0

ElementIsNew(h, st) ==
  \A i \in 1..Len(st) :
     i # 1 /\ st[i - 1].is \in {"array", "arrays"} =>
        st[i].in > st[i - 1].in + Len(h[st[i - 1].in].array_)

StackInv(h, st) ==
  FramesAreObjects(h, st) /\ Nested(st) /\ Ordered(st) /\ PairsWait(h, st) /\ ElementIsNew(h, st)

LEMMA FrameFacts ==
  ASSUME NEW h, NEW st, Shaped(h), FramesAreObjects(h, st)
  PROVE  /\ st \in Seq(FrameType) /\ Len(st) \in Nat /\ Len(h) \in Nat
         /\ \A i \in 1..Len(st) : /\ st[i].in \in Nat /\ st[i].in \in 1..Len(h)
                                  /\ st[i].is \in {"pair", "table", "array", "arrays"}
                                  /\ st[i].key \in Part
<1>1. st \in Seq(FrameType) /\ Len(st) \in Nat /\ Len(h) \in Nat
  BY ShapedFacts DEF FramesAreObjects
<1>2. \A f \in FrameType : f.in \in Nat /\ f.is \in {"pair", "table", "array", "arrays"} /\ f.key \in Part
  BY DEF FrameType
<1>3. \A i \in 1..Len(st) : st[i] \in FrameType
  BY <1>1, ElementOfSeq
<1> QED  BY <1>1, <1>2, <1>3 DEF FramesAreObjects

LEMMA EmptyStack ==
  ASSUME NEW h
  PROVE  StackInv(h, <<>>)
  BY DEF StackInv, FramesAreObjects, Nested, Ordered, PairsWait, ElementIsNew

(* Objects are added to the heap.                                          *)
LEMMA StackExtends ==
  ASSUME NEW h, NEW h2, NEW st, Shaped(h), Extends(h, h2), StackInv(h, st)
  PROVE  StackInv(h2, st)
<1>1. \A i \in 1..Len(st) : st[i].in \in 1..Len(h)
  BY DEF StackInv, FramesAreObjects
<1>2. \A t \in 1..Len(h) : t \in 1..Len(h2) /\ h2[t] = h[t]
  BY ShapedFacts DEF Extends
<1>3. FramesAreObjects(h2, st)
  BY <1>1, <1>2 DEF StackInv, FramesAreObjects
<1>4. PairsWait(h2, st)
  BY <1>1, <1>2 DEF StackInv, PairsWait
<1>5. ElementIsNew(h2, st)
  <2> SUFFICES ASSUME NEW i \in 1..Len(st), i # 1, st[i - 1].is \in {"array", "arrays"}
               PROVE  st[i].in > st[i - 1].in + Len(h2[st[i - 1].in].array_)
    BY DEF ElementIsNew
  <2>1. i - 1 \in 1..Len(st)
    BY FrameFacts DEF StackInv
  <2> QED  BY <1>1, <1>2, <2>1 DEF StackInv, ElementIsNew
<1> QED  BY <1>3, <1>4, <1>5 DEF StackInv

(* An object is inserted at a key no pair of the stack waits for.          *)
LEMMA StackInserts ==
  ASSUME NEW h, NEW st, Shaped(h), StackInv(h, st),
         NEW t \in 1..Len(h), NEW key \in Part, NEW v \in Nat,
         \A i \in 1..Len(st) : st[i].is = "pair" => ~ (st[i].in = t /\ st[i].key = key),
         NEW h2, h2 = insert(h, t, key, v)
  PROVE  StackInv(h2, st)
<1>1. /\ Len(h2) = Len(h)
      /\ \A u \in 1..Len(h) :
            /\ h2[u].is = h[u].is /\ h2[u].array_ = h[u].array_
            /\ \A k \in Part :
                  h2[u].map_[k] = IF u = t /\ k = key THEN v ELSE h[u].map_[k]
  BY InsertEffect
<1>2. \A i \in 1..Len(st) : st[i].in \in 1..Len(h) /\ st[i].key \in Part
  BY FrameFacts DEF StackInv
<1>3. FramesAreObjects(h2, st)
  BY <1>1, <1>2 DEF StackInv, FramesAreObjects
<1>4. PairsWait(h2, st)
  BY <1>1, <1>2 DEF StackInv, PairsWait
<1>5. ElementIsNew(h2, st)
  <2> SUFFICES ASSUME NEW i \in 1..Len(st), i # 1, st[i - 1].is \in {"array", "arrays"}
               PROVE  st[i].in > st[i - 1].in + Len(h2[st[i - 1].in].array_)
    BY DEF ElementIsNew
  <2>1. i - 1 \in 1..Len(st)
    BY FrameFacts DEF StackInv
  <2>2. h2[st[i - 1].in].array_ = h[st[i - 1].in].array_
    BY <1>1, <1>2, <2>1
  <2> QED  BY <2>2 DEF StackInv, ElementIsNew
<1> QED  BY <1>3, <1>4, <1>5 DEF StackInv

(* An object is pushed onto an array with no element being read.           *)
LEMMA StackPushes ==
  ASSUME NEW h, NEW st, Shaped(h), StackInv(h, st), NEW a \in 1..Len(h), NEW v \in Nat,
         \A i \in 1..Len(st) : i # 1 /\ st[i - 1].is \in {"array", "arrays"} => st[i - 1].in # a,
         NEW h2, h2 = push_back(h, a, v)
  PROVE  StackInv(h2, st)
<1>1. /\ Len(h2) = Len(h)
      /\ \A u \in 1..Len(h) :
            /\ h2[u].is = h[u].is /\ h2[u].map_ = h[u].map_
            /\ u # a => h2[u].array_ = h[u].array_
  <2>1. Pushed(h, a, v, h2)
    BY PushEffect
  <2> QED  BY <2>1 DEF Pushed
<1>2. \A i \in 1..Len(st) : st[i].in \in 1..Len(h)
  BY FrameFacts DEF StackInv
<1>3. FramesAreObjects(h2, st)
  BY <1>1, <1>2 DEF StackInv, FramesAreObjects
<1>4. PairsWait(h2, st)
  BY <1>1, <1>2 DEF StackInv, PairsWait
<1>5. ElementIsNew(h2, st)
  <2> SUFFICES ASSUME NEW i \in 1..Len(st), i # 1, st[i - 1].is \in {"array", "arrays"}
               PROVE  st[i].in > st[i - 1].in + Len(h2[st[i - 1].in].array_)
    BY DEF ElementIsNew
  <2>1. i - 1 \in 1..Len(st)
    BY FrameFacts DEF StackInv
  <2>2. h2[st[i - 1].in].array_ = h[st[i - 1].in].array_
    BY <1>1, <1>2, <2>1
  <2> QED  BY <2>2 DEF StackInv, ElementIsNew
<1> QED  BY <1>3, <1>4, <1>5 DEF StackInv

(* The stack without its last frame.                                       *)
Popped(st) == SubSeq(st, 1, Len(st) - 1)

LEMMA PopFacts ==
  ASSUME NEW st \in Seq(FrameType), st # <<>>
  PROVE  /\ Popped(st) \in Seq(FrameType) /\ Len(st) \in Nat \ {0}
         /\ Len(Popped(st)) = Len(st) - 1
         /\ \A i \in 1..(Len(st) - 1) : Popped(st)[i] = st[i]
<1>1. Len(st) \in Nat \ {0}
  BY EmptySeq
<1>2. \A i \in 1..(Len(st) - 1) : st[i] \in FrameType
  BY <1>1, ElementOfSeq
<1>3. /\ Popped(st) \in Seq(FrameType)
      /\ Len(Popped(st)) = IF 1 <= Len(st) - 1 THEN (Len(st) - 1) - 1 + 1 ELSE 0
      /\ \A i \in 1..((Len(st) - 1) - 1 + 1) : Popped(st)[i] = st[1 + i - 1]
  BY <1>1, <1>2, SubSeqProperties DEF Popped
<1>4. Len(Popped(st)) = Len(st) - 1
  <2> DEFINE n == Len(st)
             m == Len(Popped(st))
  <2>1. m = IF 1 <= n - 1 THEN (n - 1) - 1 + 1 ELSE 0
    BY <1>3
  <2>2. n \in Nat \ {0}
    BY <1>1
  <2> HIDE DEF n, m
  <2>3. m = n - 1
    BY <2>1, <2>2
  <2> QED  BY <2>3 DEF n, m
<1>5. ASSUME NEW i \in 1..(Len(st) - 1)  PROVE Popped(st)[i] = st[i]
  <2>1. i \in 1..((Len(st) - 1) - 1 + 1) /\ 1 + i - 1 = i
    BY <1>1
  <2>2. Popped(st)[i] = st[1 + i - 1]
    BY <1>3, <2>1
  <2> QED  BY <2>1, <2>2
<1> QED  BY <1>1, <1>3, <1>4, <1>5

LEMMA StackPops ==
  ASSUME NEW h, NEW st, StackInv(h, st), st # <<>>
  PROVE  StackInv(h, Popped(st))
<1> DEFINE p == Popped(st)
<1>1. /\ p \in Seq(FrameType) /\ Len(st) \in Nat \ {0} /\ Len(p) = Len(st) - 1
      /\ \A i \in 1..Len(p) : p[i] = st[i] /\ i \in 1..Len(st)
      /\ \A i \in 1..Len(p) : i # 1 => p[i - 1] = st[i - 1]
  BY PopFacts DEF StackInv, FramesAreObjects
<1> HIDE DEF p
<1>2. FramesAreObjects(h, p)
  BY <1>1 DEF StackInv, FramesAreObjects
<1>3. Nested(p)
  BY <1>1 DEF StackInv, Nested
<1>4. Ordered(p)
  BY <1>1 DEF StackInv, Ordered
<1>5. PairsWait(h, p)
  BY <1>1 DEF StackInv, PairsWait
<1>6. ElementIsNew(h, p)
  BY <1>1 DEF StackInv, ElementIsNew
<1> QED  BY <1>2, <1>3, <1>4, <1>5, <1>6 DEF StackInv, p

LEMMA StackGrows ==
  ASSUME NEW h, NEW st, Shaped(h), StackInv(h, st), NEW f \in FrameType,
         f.in \in 1..Len(h), h[f.in].is = Builds(f.is),
         f.is = "pair" => st = <<>> \/ st[Len(st)].is = "table",
         f.is = "table" => st # <<>> /\ st[Len(st)].is \in {"pair", "array"},
         f.is \in {"array", "arrays"} => st # <<>> /\ st[Len(st)].is \in {"pair", "arrays"},
         \A i \in 1..Len(st) : Below(st[i], f),
         f.is = "pair" => h[f.in].map_[f.key] = 0,
         st # <<>> /\ st[Len(st)].is \in {"array", "arrays"} =>
            f.in > st[Len(st)].in + Len(h[st[Len(st)].in].array_)
  PROVE  StackInv(h, Append(st, f))
<1> DEFINE p == Append(st, f)
<1>1. st \in Seq(FrameType) /\ Len(st) \in Nat /\ (Len(st) # 0 <=> st # <<>>)
  BY FrameFacts, EmptySeq DEF StackInv
<1>2. /\ p \in Seq(FrameType) /\ Len(p) = Len(st) + 1 /\ p[Len(st) + 1] = f
      /\ \A i \in 1..Len(st) : p[i] = st[i]
  BY <1>1, AppendProperties
<1> HIDE DEF p
<1>3. \A i \in 1..Len(p) : \/ i \in 1..Len(st) /\ p[i] = st[i]
                              /\ (i # 1 => i - 1 \in 1..Len(st) /\ p[i - 1] = st[i - 1])
                           \/ i = Len(st) + 1 /\ p[i] = f /\ (i # 1 <=> st # <<>>)
                              /\ (i # 1 => i - 1 = Len(st) /\ p[i - 1] = st[Len(st)])
  BY <1>1, <1>2
<1>4. FramesAreObjects(h, p)
  BY <1>2, <1>3 DEF StackInv, FramesAreObjects
<1>5. Nested(p)
  BY <1>3 DEF StackInv, Nested
<1>6. Ordered(p)
  <2> SUFFICES ASSUME NEW i \in 1..Len(p), NEW j \in 1..Len(p), i < j
               PROVE  Below(p[i], p[j])
    BY DEF Ordered
  <2>1. i \in 1..Len(st) /\ p[i] = st[i]
    BY <1>1, <1>2
  <2>2. CASE j \in 1..Len(st)
    BY <1>2, <2>1, <2>2 DEF StackInv, Ordered
  <2>3. CASE j = Len(st) + 1
    BY <1>2, <2>1, <2>3
  <2> QED  BY <1>3, <2>2, <2>3
<1>7. PairsWait(h, p)
  BY <1>3 DEF StackInv, PairsWait
<1>8. ElementIsNew(h, p)
  <2> SUFFICES ASSUME NEW i \in 1..Len(p), i # 1, p[i - 1].is \in {"array", "arrays"}
               PROVE  p[i].in > p[i - 1].in + Len(h[p[i - 1].in].array_)
    BY DEF ElementIsNew
  <2>1. CASE i \in 1..Len(st) /\ p[i] = st[i] /\ p[i - 1] = st[i - 1]
    BY <2>1 DEF StackInv, ElementIsNew
  <2>2. CASE p[i] = f /\ p[i - 1] = st[Len(st)] /\ st # <<>>
    BY <2>2
  <2> QED  BY <1>3, <2>1, <2>2
<1> QED  BY <1>4, <1>5, <1>6, <1>7, <1>8 DEF StackInv, p

-------------------------------------------------------------------------------
(***************************************************************************)
(* The parser.  Outside values the stack is empty; a value is read for the *)
(* pair on top of it, an array for the pair or the array of arrays on top  *)
(* of it; keys are read in the table on top of it, or in a table made      *)
(* after all that is open.                                                 *)
(***************************************************************************)
Modes == {"line", "table", "table array", "key", "value", "array", "more", "done", "thrown"}

IsTable(t) == t \in 1..Len(heap) /\ heap[t].is = "table"

OpenIn(t) ==
  \A i \in 1..Len(stack) : stack[i].in < t \/ (stack[i].is = "table" /\ stack[i].in = t)

ModeInv ==
  /\ mode \in Modes
  /\ mode \in {"line", "table", "table array", "done"} => stack = <<>>
  /\ mode = "value" => stack # <<>> /\ stack[Len(stack)].is = "pair"
  /\ mode = "array" => stack # <<>> /\ stack[Len(stack)].is = "arrays"
  /\ mode = "more" => /\ stack # <<>> /\ stack[Len(stack)].is # "pair"
                      /\ stack[Len(stack)].is = "array" => heap[stack[Len(stack)].in].array_ # <<>>
  /\ mode = "key" => /\ stack # <<>> => stack[Len(stack)].is = "table"
                     /\ OpenIn(walk)

PlaceInv == IsTable(Root) /\ IsTable(curr_table) /\ IsTable(walk) /\ inserted \in BOOLEAN

DocInv == HeapInv(heap) /\ StackInv(heap, stack) /\ ModeInv /\ PlaceInv

(* What a key of a table leads to.                                         *)
LEMMA Found ==
  ASSUME DocInv, NEW t \in 1..Len(heap), NEW key \in Part
  PROVE  /\ Free(t, key) <=> heap[t].map_[key] = 0
         /\ ~ Free(t, key) => heap[t].map_[key] \in (t + 1)..Len(heap)
                              /\ heap[t].map_[key] \in 1..Len(heap)
<1>1. Len(heap) \in Nat
  BY ShapedFacts DEF DocInv, HeapInv
<1> QED  BY <1>1 DEF Free, Null, DocInv, HeapInv, MapsGoUp

(* Making an object and inserting it at a free key.                        *)
LEMMA InsertFresh ==
  ASSUME DocInv, NEW t \in 1..Len(heap), NEW key \in Part, Free(t, key), Fresh <= MaxObjects,
         NEW h2, h2 = insert(Make("table"), t, key, Fresh),
         \A i \in 1..Len(stack) : stack[i].is = "pair" => stack[i].in # t
  PROVE  /\ HeapInv(h2) /\ Grows(heap, h2) /\ StackInv(h2, stack)
         /\ Fresh \in 1..Len(h2) /\ h2[Fresh].is = "table" /\ Fresh > Len(heap)
         /\ Len(h2) = Len(heap) + 1
<1> DEFINE g == Made(heap, "table")
<1>1. /\ HeapInv(heap) /\ StackInv(heap, stack) /\ Len(heap) \in Nat
      /\ Shaped(heap) /\ Fresh = Len(heap) + 1 /\ Len(heap) < MaxObjects /\ t \in Nat
  BY ShapedFacts, DocumentAssumption DEF DocInv, HeapInv, Fresh
<1>2. h2 = insert(g, t, key, Fresh)
  BY DEF Make, Made
<1>3. HeapInv(g) /\ Grows(heap, g) /\ Extends(heap, g) /\ Shaped(g)
  BY <1>1, MadeInv DEF HeapInv
<1>4. /\ Len(g) = Len(heap) + 1 /\ g[Fresh].is = "table" /\ \A u \in 1..Len(heap) : g[u] = heap[u]
  BY <1>1, MadeEffect DEF Kind
<1> HIDE DEF g
<1>5. t \in 1..Len(g) /\ Fresh \in (t + 1)..Len(g) /\ Fresh \in Nat /\ Fresh \in 1..Len(g)
  BY <1>1, <1>4
<1>6. g[t].map_[key] = 0
  BY <1>4, Found
<1>7. HeapInv(h2) /\ Grows(g, h2)
  BY <1>2, <1>3, <1>4, <1>5, <1>6, InsertInv
<1>8. StackInv(g, stack)
  BY <1>1, <1>3, StackExtends
<1>9. StackInv(h2, stack)
  BY <1>2, <1>3, <1>5, <1>8, StackInserts
<1>10. Grows(heap, h2)
  BY <1>1, <1>3, <1>7, GrowsTrans DEF HeapInv
<1>11. Len(h2) = Len(g) /\ h2[Fresh].is = g[Fresh].is
  BY <1>2, <1>3, <1>5, InsertEffect
<1> QED  BY <1>1, <1>4, <1>5, <1>7, <1>9, <1>10, <1>11

(* A part of a header.                                                     *)
LEMMA EnterStep ==
  ASSUME DocInv, stack = <<>>, NEW part \in Part, EnterTable(part)
  PROVE  /\ HeapInv(heap') /\ Grows(heap, heap')
         /\ curr_table' \in 1..Len(heap') /\ heap'[curr_table'].is = "table"
         /\ inserted' \in BOOLEAN
<1>0. curr_table \in 1..Len(heap) /\ HeapInv(heap) /\ inserted \in BOOLEAN
  BY DEF DocInv, PlaceInv, IsTable
<1>1. CASE Free(curr_table, part)
  <2>1. /\ Fresh <= MaxObjects /\ heap' = insert(Make("table"), curr_table, part, Fresh)
        /\ curr_table' = Fresh /\ inserted' = TRUE
    BY <1>1 DEF EnterTable
  <2>2. \A i \in 1..Len(stack) : stack[i].is = "pair" => stack[i].in # curr_table
    OBVIOUS
  <2> QED  BY <1>0, <1>1, <2>1, <2>2, InsertFresh
<1>2. CASE ~ Free(curr_table, part)
  <2> DEFINE b == heap[curr_table].map_[part]
             s == heap[b].array_
  <2>1. Step(b) # 0 /\ curr_table' = Step(b) /\ UNCHANGED <<heap, inserted>>
    BY <1>2 DEF EnterTable, Null
  <2>2. b \in 1..Len(heap) /\ b # 0
    BY <1>0, <1>2, Found
  <2>3. CASE heap[b].is = "table"
    BY <1>0, <2>1, <2>2, <2>3, ShapedFacts DEF Step, Grows, HeapInv
  <2>4. CASE heap[b].is \in {"table_array", "static"}
    <3>1. s # <<>>
      BY <1>0, <2>2, <2>4 DEF HeapInv, FoundArraysAreFilled
    <3>2. s \in Seq(Nat)
      BY <1>0, <2>2, ShapedFacts DEF HeapInv
    <3> HIDE DEF s
    <3>3. Len(s) \in Nat /\ Len(s) # 0
      BY <3>1, <3>2, EmptySeq
    <3>4. Len(s) \in 1..Len(s)
      BY <3>3
    <3>5. s[Len(s)] \in 1..Len(heap) /\ heap[s[Len(s)]].is = "table"
      BY <1>0, <2>2, <2>4, <3>4, ElementFacts DEF HeapInv, ElementsAreTables, s
    <3>6. Step(b) = s[Len(s)]
      BY <2>4 DEF Step, Back, s
    <3> QED  BY <1>0, <2>1, <3>5, <3>6, ShapedFacts DEF Grows, HeapInv
  <2>5. CASE heap[b].is \notin {"table", "table_array", "static"}
    BY <2>1, <2>5 DEF Step, Null
  <2> QED  BY <2>3, <2>4, <2>5
<1> QED  BY <1>1, <1>2

(* The last part of the header of a table array.                           *)
LEMMA LastOfArrayStep ==
  ASSUME DocInv, NEW part \in Part, LastOfArray(part)
  PROVE  /\ HeapInv(heap') /\ Grows(heap, heap')
         /\ curr_table' \in 1..Len(heap') /\ heap'[curr_table'].is = "table"
<1>0. /\ curr_table \in 1..Len(heap) /\ HeapInv(heap) /\ Shaped(heap) /\ Len(heap) \in Nat
      /\ Fresh = Len(heap) + 1 /\ MaxObjects \in Nat
  BY ShapedFacts, DocumentAssumption DEF DocInv, HeapInv, PlaceInv, IsTable, Fresh
<1>1. CASE Free(curr_table, part)
  <2> DEFINE g == MadeTableArray(heap)
  <2>1. /\ Len(heap) + 2 <= MaxObjects /\ Fresh + 1 = Len(heap) + 2
        /\ heap' = insert(g, curr_table, part, Fresh) /\ curr_table' = Fresh + 1
    BY <1>0, <1>1 DEF LastOfArray, TableArray, MadeTableArray
  <2>2. /\ HeapInv(g) /\ Grows(heap, g) /\ Extends(heap, g) /\ Shaped(g)
        /\ Len(g) = Len(heap) + 2
        /\ g[Fresh].is = "table_array" /\ g[Fresh + 1].is = "table"
    BY <1>0, <2>1, TableArrayInv DEF HeapInv
  <2> HIDE DEF g
  <2>3. /\ curr_table \in 1..Len(g) /\ Fresh \in (curr_table + 1)..Len(g) /\ Fresh \in Nat
        /\ Fresh + 1 \in 1..Len(g)
    BY <1>0, <2>2
  <2>4. g[curr_table].map_[part] = 0
    BY <1>0, <1>1, <2>2, Found DEF Extends
  <2>5. HeapInv(heap') /\ Grows(g, heap')
    BY <2>1, <2>2, <2>3, <2>4, InsertInv
  <2>6. Len(heap') = Len(g) /\ heap'[Fresh + 1].is = g[Fresh + 1].is
    BY <2>1, <2>2, <2>3, InsertEffect
  <2>7. Grows(heap, heap')
    BY <1>0, <2>2, <2>5, GrowsTrans DEF HeapInv
  <2> QED  BY <2>1, <2>2, <2>3, <2>5, <2>6, <2>7
<1>2. CASE ~ Free(curr_table, part)
  <2> DEFINE g == Made(heap, "table")
             a == heap[curr_table].map_[part]
  <2>1. /\ heap[a].is = "table_array" /\ Fresh <= MaxObjects
        /\ heap' = push_back(g, a, Fresh) /\ curr_table' = Fresh
    BY <1>2 DEF LastOfArray, Make, Made
  <2>2. a \in 1..Len(heap)
    BY <1>0, <1>2, Found
  <2>3. /\ HeapInv(g) /\ Grows(heap, g) /\ Shaped(g)
    BY <1>0, <2>1, MadeInv DEF HeapInv
  <2>4. /\ Len(g) = Len(heap) + 1 /\ g[Fresh].is = "table" /\ g[a] = heap[a]
    BY <1>0, <2>1, <2>2, MadeEffect DEF Kind
  <2> HIDE DEF g, a
  <2>5. a + Len(heap[a].array_) <= Len(heap) /\ Len(heap[a].array_) \in Nat /\ a \in Nat
    BY <1>0, <2>2, ArrayEnds
  <2>6. /\ a \in 1..Len(g) /\ Fresh \in (a + Len(g[a].array_) + 1)..Len(g)
        /\ Fresh \in 1..Len(g) /\ Fresh \in Nat
    BY <1>0, <2>2, <2>4, <2>5
  <2>7. HeapInv(heap') /\ Grows(g, heap')
    BY <2>1, <2>3, <2>4, <2>6, PushInv
  <2>8. Len(heap') = Len(g) /\ heap'[Fresh].is = g[Fresh].is
    BY <2>1, <2>3, <2>6, PushEffect DEF Pushed
  <2>9. Grows(heap, heap')
    BY <1>0, <2>3, <2>7, GrowsTrans DEF HeapInv
  <2> QED  BY <2>1, <2>4, <2>6, <2>7, <2>8, <2>9
<1> QED  BY <1>1, <1>2

-------------------------------------------------------------------------------
(* What every step of the parser must show.                                *)
Goal ==
  HeapInv(heap') /\ Grows(heap, heap') /\ StackInv(heap', stack') /\ ModeInv'

LEMMA TopFacts ==
  ASSUME NEW g, NEW st, HeapInv(g), StackInv(g, st), st # <<>>
  PROVE  /\ Len(st) \in Nat \ {0} /\ Len(st) \in 1..Len(st)
         /\ st[Len(st)] \in FrameType /\ st[Len(st)].key \in Part
         /\ st[Len(st)].in \in 1..Len(g)
         /\ st[Len(st)].is \in {"pair", "table", "array", "arrays"}
<1>1. st \in Seq(FrameType) /\ Shaped(g)
  BY DEF StackInv, FramesAreObjects, HeapInv
<1>2. Len(st) \in Nat \ {0}
  BY <1>1, EmptySeq
<1>3. Len(st) \in 1..Len(st)
  BY <1>2
<1> QED  BY <1>1, <1>2, <1>3, FrameFacts, ElementOfSeq DEF StackInv

(* A value v is complete, over a heap g and what waits for it, st.         *)
LEMMA ReturnStep ==
  ASSUME NEW g, NEW st, NEW v, HeapInv(g), StackInv(g, st), st # <<>>,
         st[Len(st)].is # "table", v \in 1..Len(g), v > st[Len(st)].in,
         st[Len(st)].is = "pair" => (g[v].is = "static" => g[v].array_ # <<>>),
         st[Len(st)].is = "array" => g[v].is = "table",
         st[Len(st)].is \in {"array", "arrays"} =>
            v > st[Len(st)].in + Len(g[st[Len(st)].in].array_),
         Return(g, st, v)
  PROVE  HeapInv(heap') /\ Grows(g, heap') /\ StackInv(heap', stack') /\ ModeInv'
<1> DEFINE top == st[Len(st)]
<1>1. /\ Len(st) \in Nat \ {0} /\ Len(st) \in 1..Len(st) /\ top.key \in Part
      /\ top.in \in 1..Len(g) /\ top.is \in {"pair", "array", "arrays"}
      /\ Shaped(g) /\ Len(g) \in Nat /\ v \in Nat /\ top.in \in Nat
  BY TopFacts, ShapedFacts DEF HeapInv
<1>2. CASE top.is = "pair"
  <2>1. /\ heap' = insert(g, top.in, top.key, v)
        /\ stack' = Popped(st)
        /\ mode' = IF Len(st) = 1 THEN "line" ELSE "more"
    BY <1>2 DEF Return, Popped
  <2>2. v \in (top.in + 1)..Len(g)
    BY <1>1
  <2>3. g[top.in].map_[top.key] = 0
    BY <1>1, <1>2 DEF StackInv, PairsWait
  <2>4. HeapInv(heap') /\ Grows(g, heap')
    BY <1>1, <1>2, <2>1, <2>2, <2>3, InsertInv
  <2>5. /\ StackInv(g, Popped(st)) /\ Len(Popped(st)) = Len(st) - 1
        /\ \A i \in 1..(Len(st) - 1) : Popped(st)[i] = st[i]
    <3>1. st \in Seq(FrameType)
      BY DEF StackInv, FramesAreObjects
    <3> QED  BY <3>1, StackPops, PopFacts
  <2>6. \A i \in 1..Len(Popped(st)) :
           Popped(st)[i].is = "pair" => ~ (Popped(st)[i].in = top.in /\ Popped(st)[i].key = top.key)
    <3> SUFFICES ASSUME NEW i \in 1..(Len(st) - 1), st[i].is = "pair"
                 PROVE  st[i].in # top.in
      BY <2>5
    <3>1. i \in 1..Len(st) /\ i < Len(st)
      BY <1>1
    <3>2. Below(st[i], top)
      BY <1>1, <3>1 DEF StackInv, Ordered
    <3>3. st[i].in \in Nat
      BY <1>1, <3>1, FrameFacts DEF StackInv
    <3> HIDE DEF top
    <3> QED  BY <1>1, <3>2, <3>3 DEF Below
  <2>7. StackInv(heap', Popped(st))
    BY <1>1, <2>1, <2>5, <2>6, StackInserts
  <2>8. ModeInv'
    <3>1. CASE Len(st) = 1
      <4>1. mode' = "line" /\ Len(stack') = 0
        BY <2>1, <2>5, <3>1
      <4>2. stack' \in Seq(FrameType)
        BY <2>1, <2>7 DEF StackInv, FramesAreObjects
      <4>3. stack' = <<>>
        BY <4>1, <4>2, EmptySeq
      <4> QED  BY <4>1, <4>3 DEF ModeInv, Modes
    <3>2. CASE Len(st) # 1
      <4>1. mode' = "more" /\ Len(stack') = Len(st) - 1 /\ Len(st) - 1 \in 1..(Len(st) - 1)
        BY <1>1, <2>1, <2>5, <3>2
      <4>2. stack'[Len(stack')] = st[Len(st) - 1]
        BY <2>1, <2>5, <4>1
      <4>3. st[Len(st) - 1].is = "table"
        BY <1>1, <1>2, <3>2 DEF StackInv, Nested
      <4>4. stack' # <<>>
        BY <1>1, <3>2, <4>1
      <4> QED  BY <4>1, <4>2, <4>3, <4>4 DEF ModeInv, Modes
    <3> QED  BY <3>1, <3>2
  <2> QED  BY <2>1, <2>4, <2>7, <2>8
<1>3. CASE top.is \in {"array", "arrays"}
  <2>1. heap' = push_back(g, top.in, v) /\ stack' = st /\ mode' = "more"
    BY <1>3 DEF Return
  <2>2. /\ g[top.in].is \in {"static", "array"} /\ (g[top.in].is # "array" => g[v].is = "table")
        /\ v \in (top.in + Len(g[top.in].array_) + 1)..Len(g)
    <3>1. g[top.in].is = IF top.is = "array" THEN "static" ELSE "array"
      BY <1>1, <1>3 DEF StackInv, FramesAreObjects, Builds
    <3>2. Len(g[top.in].array_) \in Nat
      BY <1>1, ShapedFacts
    <3>3. (top.is = "array" => g[v].is = "table") /\ v > top.in + Len(g[top.in].array_)
      BY <1>3
    <3> HIDE DEF top
    <3> QED  BY <1>1, <1>3, <3>1, <3>2, <3>3
  <2>3. HeapInv(heap') /\ Grows(g, heap') /\ heap'[top.in].array_ # <<>>
    BY <1>1, <2>1, <2>2, PushInv
  <2>4. \A i \in 1..Len(st) : i # 1 /\ st[i - 1].is \in {"array", "arrays"} => st[i - 1].in # top.in
    <3> SUFFICES ASSUME NEW i \in 1..Len(st), i # 1, st[i - 1].is \in {"array", "arrays"}
                 PROVE  st[i - 1].in # top.in
      OBVIOUS
    <3>1. i - 1 \in 1..Len(st) /\ i - 1 < Len(st)
      BY <1>1
    <3>2. Below(st[i - 1], top)
      BY <1>1, <3>1 DEF StackInv, Ordered
    <3>3. st[i - 1].in \in Nat
      BY <1>1, <3>1, FrameFacts DEF StackInv
    <3> HIDE DEF top
    <3> QED  BY <1>1, <3>2, <3>3 DEF Below
  <2>5. StackInv(heap', stack')
    BY <1>1, <2>1, <2>4, StackPushes
  <2>6. ModeInv'
    BY <1>3, <2>1, <2>3 DEF ModeInv, Modes
  <2> QED  BY <2>3, <2>5, <2>6
<1> QED  BY <1>1, <1>2, <1>3

(* An inline table begins, for a pair or as an element of an array.        *)
LEMMA BeginStep ==
  ASSUME NEW g, NEW st, HeapInv(g), StackInv(g, st), st # <<>>,
         st[Len(st)].is \in {"pair", "array"}, BeginTable(g, st)
  PROVE  /\ HeapInv(heap') /\ Grows(g, heap') /\ StackInv(heap', stack') /\ ModeInv'
         /\ walk' \in 1..Len(heap') /\ heap'[walk'].is = "table"
<1> DEFINE n == Len(g) + 1
           f == [is |-> "table", in |-> n, key |-> Empty]
<1>1. /\ Len(st) \in Nat \ {0} /\ st \in Seq(FrameType) /\ Shaped(g) /\ Len(g) \in Nat
      /\ st[Len(st)].is \in {"pair", "array"} /\ st[Len(st)].in \in 1..Len(g)
  BY TopFacts, ShapedFacts DEF HeapInv, StackInv, FramesAreObjects
<1>2. /\ Len(g) < MaxObjects /\ heap' = Made(g, "table") /\ stack' = Append(st, f)
      /\ walk' = n /\ mode' = "key"
  BY DEF BeginTable, Made
<1>3. HeapInv(heap') /\ Grows(g, heap') /\ Extends(g, heap')
  BY <1>2, MadeInv
<1>4. Len(heap') = n /\ heap'[n].is = "table" /\ \A t \in 1..Len(g) : heap'[t] = g[t]
  BY <1>1, <1>2, MadeEffect DEF Kind
<1>5. f \in FrameType /\ f.in = n /\ f.is = "table" /\ n \in 1..Len(heap') /\ n \in Nat
  BY <1>1, <1>4, DocumentAssumption DEF FrameType
<1>6. StackInv(heap', st) /\ Shaped(heap')
  BY <1>1, <1>3, StackExtends DEF HeapInv
<1>7. \A i \in 1..Len(st) : st[i].in < n
  <2>1. \A i \in 1..Len(st) : st[i].in \in 1..Len(g)
    BY <1>1, FrameFacts DEF StackInv
  <2> QED  BY <1>1, <2>1
<1>8. n > st[Len(st)].in + Len(heap'[st[Len(st)].in].array_)
  <2>1. /\ st[Len(st)].in + Len(g[st[Len(st)].in].array_) <= Len(g)
        /\ heap'[st[Len(st)].in] = g[st[Len(st)].in]
        /\ Len(g[st[Len(st)].in].array_) \in Nat /\ st[Len(st)].in \in Nat
    BY <1>1, <1>4, ArrayEnds
  <2> QED  BY <1>1, <2>1
<1> HIDE DEF f, n
<1>9. StackInv(heap', Append(st, f))
  BY <1>1, <1>4, <1>5, <1>6, <1>7, <1>8, StackGrows DEF Below, Builds
<1>10. ModeInv'
  <2>1. /\ Append(st, f) \in Seq(FrameType) /\ Len(Append(st, f)) = Len(st) + 1
        /\ Append(st, f)[Len(st) + 1] = f
        /\ \A i \in 1..Len(st) : Append(st, f)[i] = st[i]
    BY <1>1, <1>5, AppendProperties
  <2>2. \A i \in 1..(Len(st) + 1) : i \in 1..Len(st) \/ i = Len(st) + 1
    BY <1>1
  <2>3. OpenIn(walk)'
    BY <1>2, <1>5, <1>7, <2>1, <2>2 DEF OpenIn
  <2>4. stack'[Len(stack')].is = "table"
    BY <1>2, <1>5, <2>1
  <2> QED  BY <1>2, <2>3, <2>4 DEF ModeInv, Modes
<1> QED  BY <1>2, <1>3, <1>4, <1>5, <1>9, <1>10

-------------------------------------------------------------------------------
(* Actions outside values: the stack stays empty.                          *)
LEMMA HeaderStep ==
  ASSUME DocInv, stack = <<>>, stack' = <<>>, HeapInv(heap'), Grows(heap, heap'),
         mode' \in {"line", "table", "table array", "thrown", "done"}
  PROVE  Goal
  BY EmptyStack DEF Goal, ModeInv, Modes

LEMMA KeyStep ==
  ASSUME DocInv, NEW part \in Part, parse_key_value(part)
  PROVE  Goal /\ IsTable(walk)'
<1>1. /\ mode = "key" /\ mode' = "key" /\ stack' = stack /\ OpenIn(walk)
      /\ walk \in 1..Len(heap) /\ heap[walk].is = "table" /\ Len(heap) \in Nat
      /\ HeapInv(heap) /\ StackInv(heap, stack)
      /\ stack # <<>> => stack[Len(stack)].is = "table"
  BY ShapedFacts DEF parse_key_value, DocInv, ModeInv, PlaceInv, IsTable, HeapInv
<1>2. \A i \in 1..Len(stack) : stack[i].in \in 1..Len(heap) /\ stack[i].in \in Nat
  BY <1>1, FrameFacts DEF StackInv, HeapInv
<1>3. CASE Free(walk, part)
  <2>1. /\ Fresh <= MaxObjects /\ heap' = insert(Make("table"), walk, part, Fresh)
        /\ walk' = Fresh /\ Fresh = Len(heap) + 1
    BY <1>3 DEF parse_key_value, Fresh
  <2>2. \A i \in 1..Len(stack) : stack[i].is = "pair" => stack[i].in # walk
    BY <1>1, <1>2 DEF OpenIn
  <2>3. /\ HeapInv(heap') /\ Grows(heap, heap') /\ StackInv(heap', stack)
        /\ Fresh \in 1..Len(heap') /\ heap'[Fresh].is = "table"
    BY <1>1, <1>3, <2>1, <2>2, InsertFresh
  <2>4. OpenIn(walk)'
    BY <1>1, <1>2, <2>1 DEF OpenIn
  <2> QED  BY <1>1, <2>1, <2>3, <2>4 DEF Goal, ModeInv, Modes, IsTable
<1>4. CASE ~ Free(walk, part)
  <2>1. /\ heap[heap[walk].map_[part]].is = "table"
        /\ walk' = heap[walk].map_[part] /\ heap' = heap
    BY <1>4 DEF parse_key_value
  <2>2. walk' \in (walk + 1)..Len(heap) /\ walk' \in 1..Len(heap)
    BY <1>1, <1>4, <2>1, Found
  <2>3. OpenIn(walk)'
    BY <1>1, <1>2, <2>2 DEF OpenIn
  <2>4. Grows(heap, heap')
    BY <1>1, <2>1, ShapedFacts DEF Grows, HeapInv
  <2> QED  BY <1>1, <2>1, <2>2, <2>3, <2>4 DEF Goal, ModeInv, Modes, IsTable
<1> QED  BY <1>3, <1>4

LEMMA LastOfKeyStep ==
  ASSUME DocInv, NEW part \in Part, LastOfKey(part)
  PROVE  Goal
<1> DEFINE f == Pair(walk, part)
<1>1. /\ mode = "key" /\ mode' = "value" /\ stack' = Append(stack, f) /\ OpenIn(walk)
      /\ walk \in 1..Len(heap) /\ heap[walk].is = "table" /\ Len(heap) \in Nat
      /\ HeapInv(heap) /\ StackInv(heap, stack) /\ heap' = heap
      /\ stack # <<>> => stack[Len(stack)].is = "table"
      /\ Free(walk, part)
  BY ShapedFacts DEF LastOfKey, DocInv, ModeInv, PlaceInv, IsTable, HeapInv
<1>2. f \in FrameType /\ f.is = "pair" /\ f.in = walk /\ f.key = part
  BY <1>1 DEF Pair, FrameType
<1> HIDE DEF f
<1>3. heap[walk].map_[part] = 0
  BY <1>1, Found
<1>4. stack \in Seq(FrameType) /\ Len(stack) \in Nat
  BY <1>1, FrameFacts DEF StackInv, HeapInv
<1>5. \A i \in 1..Len(stack) : Below(stack[i], f)
  BY <1>1, <1>2 DEF OpenIn, Below
<1>6. StackInv(heap, Append(stack, f))
  BY <1>1, <1>2, <1>3, <1>5, StackGrows DEF HeapInv, Builds
<1>7. Append(stack, f) # <<>> /\ Append(stack, f)[Len(Append(stack, f))] = f
  BY <1>2, <1>4, AppendProperties
<1>8. ModeInv'
  BY <1>1, <1>2, <1>7 DEF ModeInv, Modes
<1>9. Grows(heap, heap')
  BY <1>1, ShapedFacts DEF Grows, HeapInv
<1> QED  BY <1>1, <1>6, <1>8, <1>9 DEF Goal

(* A value or an array is next.                                            *)
LEMMA NextIs ==
  ASSUME DocInv, mode \in {"value", "array"}
  PROVE  /\ HeapInv(heap) /\ Shaped(heap) /\ StackInv(heap, stack) /\ Fresh = Len(heap) + 1
         /\ Len(heap) \in Nat /\ MaxObjects \in Nat
         /\ stack # <<>> /\ stack[Len(stack)].is \in {"pair", "arrays"}
         /\ stack[Len(stack)].in \in 1..Len(heap)
<1>1. /\ HeapInv(heap) /\ Shaped(heap) /\ StackInv(heap, stack) /\ Fresh = Len(heap) + 1
      /\ Len(heap) \in Nat /\ MaxObjects \in Nat
      /\ stack # <<>> /\ stack[Len(stack)].is \in {"pair", "arrays"}
  BY ShapedFacts, DocumentAssumption DEF DocInv, ModeInv, HeapInv, Fresh
<1>2. stack[Len(stack)].in \in 1..Len(heap)
  BY <1>1, TopFacts
<1> QED  BY <1>1, <1>2

(* It is read at once.                                                     *)
LEMMA FreshReturns ==
  ASSUME DocInv, mode \in {"value", "array"},
         NEW g, HeapInv(g), Grows(heap, g), Extends(heap, g), Fresh \in 1..Len(g),
         g[Fresh].is # "static", Return(g, stack, Fresh)
  PROVE  Goal
<1> DEFINE top == stack[Len(stack)]
<1>1. /\ HeapInv(heap) /\ Shaped(heap) /\ StackInv(heap, stack) /\ Fresh = Len(heap) + 1
      /\ Len(heap) \in Nat /\ stack # <<>> /\ top.is \in {"pair", "arrays"}
      /\ top.in \in 1..Len(heap)
  BY NextIs
<1>2. StackInv(g, stack) /\ Shaped(g)
  BY <1>1, StackExtends DEF HeapInv
<1>3. Fresh > top.in + Len(g[top.in].array_) /\ Fresh > top.in
  <2>1. /\ top.in + Len(heap[top.in].array_) <= Len(heap)
        /\ Len(heap[top.in].array_) \in Nat /\ g[top.in] = heap[top.in]
    BY <1>1, ArrayEnds DEF Extends
  <2> HIDE DEF top
  <2> QED  BY <1>1, <2>1
<1>4. HeapInv(heap') /\ Grows(g, heap') /\ StackInv(heap', stack') /\ ModeInv'
  BY <1>1, <1>2, <1>3, ReturnStep
<1>5. Grows(heap, heap')
  BY <1>1, <1>2, <1>4, GrowsTrans DEF HeapInv
<1> QED  BY <1>4, <1>5 DEF Goal

LEMMA ValueStep ==
  ASSUME DocInv, parse_value
  PROVE  Goal
<1> DEFINE g == Made(heap, "value")
<1>1. /\ HeapInv(heap) /\ Shaped(heap) /\ Fresh <= MaxObjects /\ Fresh = Len(heap) + 1
      /\ Len(heap) \in Nat /\ MaxObjects \in Nat /\ mode \in {"value", "array"}
  BY NextIs DEF parse_value
<1>2. HeapInv(g) /\ Grows(heap, g) /\ Extends(heap, g)
  BY <1>1, MadeInv
<1>3. Len(g) = Len(heap) + 1 /\ g[Fresh].is = "value"
  BY <1>1, MadeEffect DEF Kind
<1>4. Return(g, stack, Fresh)
  BY DEF parse_value, Make, Made
<1> HIDE DEF g
<1>5. Fresh \in 1..Len(g) /\ g[Fresh].is # "static"
  BY <1>1, <1>3
<1> QED  BY <1>1, <1>2, <1>4, <1>5, FreshReturns

LEMMA ValueArrayStep ==
  ASSUME DocInv, parse_value_array
  PROVE  Goal
<1>1. /\ HeapInv(heap) /\ Shaped(heap) /\ Fresh <= MaxObjects /\ Fresh = Len(heap) + 1
      /\ Len(heap) \in Nat /\ MaxObjects \in Nat /\ mode \in {"value", "array"}
  BY NextIs DEF parse_value_array, ArrayIsNext
<1>2. PICK size \in 0..(MaxObjects - Fresh) : Return(Array(size), stack, Fresh)
  BY DEF parse_value_array
<1> DEFINE g == MadeArray(heap, size)
<1>3. size \in Nat /\ Len(heap) + 1 + size <= MaxObjects
  BY <1>1
<1>4. /\ HeapInv(g) /\ Grows(heap, g) /\ Extends(heap, g)
      /\ Len(g) = Len(heap) + 1 + size /\ g[Fresh].is = "array"
  BY <1>1, <1>3, ArrayInv DEF AddsArray
<1>5. Return(g, stack, Fresh)
  <2>1. Array(size) = MadeArray(heap, size)
    BY DEF Array, MadeArray, Fresh
  <2> QED  BY <1>2, <2>1
<1> HIDE DEF g
<1>6. Fresh \in 1..Len(g) /\ g[Fresh].is # "static"
  BY <1>1, <1>3, <1>4
<1> QED  BY <1>1, <1>4, <1>5, <1>6, FreshReturns

(* An array whose elements are read one by one begins.                     *)
LEMMA ArrayBegins ==
  ASSUME DocInv, mode \in {"value", "array"}, Len(heap) < MaxObjects,
         NEW is \in {"array", "arrays"}, NEW g, g = Made(heap, Builds(is)),
         NEW f, f = [is |-> is, in |-> Fresh, key |-> Empty]
  PROVE  /\ HeapInv(g) /\ Grows(heap, g) /\ Extends(heap, g)
         /\ StackInv(g, Append(stack, f))
         /\ Append(stack, f) # <<>> /\ Append(stack, f)[Len(Append(stack, f))].is = is
<1>1. /\ HeapInv(heap) /\ Shaped(heap) /\ StackInv(heap, stack) /\ Fresh = Len(heap) + 1
      /\ Len(heap) \in Nat /\ stack # <<>> /\ stack[Len(stack)].is \in {"pair", "arrays"}
      /\ stack[Len(stack)].in \in 1..Len(heap)
  BY NextIs
<1>2. Builds(is) \in Kind
  BY DEF Builds, Kind
<1>3. HeapInv(g) /\ Grows(heap, g) /\ Extends(heap, g) /\ Shaped(g)
  <2>1. Builds(is) \in {"static", "array"}
    BY DEF Builds
  <2> QED  BY <1>1, <1>2, <2>1, MadeInv DEF HeapInv
<1>4. Len(g) = Len(heap) + 1 /\ g[Fresh].is = Builds(is) /\ \A t \in 1..Len(heap) : g[t] = heap[t]
  BY <1>1, <1>2, MadeEffect
<1>5. f \in FrameType /\ f.is = is /\ f.in = Fresh /\ Fresh \in 1..Len(g)
  BY <1>1, <1>4, DocumentAssumption DEF FrameType
<1>6. StackInv(g, stack) /\ stack \in Seq(FrameType)
  BY <1>1, <1>3, StackExtends DEF StackInv, FramesAreObjects
<1>7. \A i \in 1..Len(stack) : Below(stack[i], f)
  <2>1. \A i \in 1..Len(stack) : stack[i].in \in 1..Len(heap)
    BY <1>1, FrameFacts DEF StackInv
  <2> QED  BY <1>1, <1>5, <2>1 DEF Below
<1>8. f.in > stack[Len(stack)].in + Len(g[stack[Len(stack)].in].array_)
  <2>1. /\ stack[Len(stack)].in + Len(heap[stack[Len(stack)].in].array_) <= Len(heap)
        /\ g[stack[Len(stack)].in] = heap[stack[Len(stack)].in]
        /\ Len(heap[stack[Len(stack)].in].array_) \in Nat
    BY <1>1, <1>4, ArrayEnds
  <2> QED  BY <1>1, <1>5, <2>1
<1>9. StackInv(g, Append(stack, f))
  BY <1>1, <1>3, <1>4, <1>5, <1>6, <1>7, <1>8, StackGrows
<1>10. Append(stack, f) # <<>> /\ Append(stack, f)[Len(Append(stack, f))] = f
  BY <1>5, <1>6, AppendProperties
<1> QED  BY <1>3, <1>5, <1>9, <1>10

LEMMA ArrayOfArraysStep ==
  ASSUME DocInv, parse_array_of_arrays
  PROVE  Goal
<1> DEFINE f == [is |-> "arrays", in |-> Fresh, key |-> Empty]
<1>1. /\ mode \in {"value", "array"} /\ Fresh <= MaxObjects /\ mode' = "array"
      /\ heap' = Made(heap, "array") /\ stack' = Append(stack, f)
  BY DEF parse_array_of_arrays, ArrayIsNext, Make, Made
<1>2. Len(heap) < MaxObjects /\ Builds("arrays") = "array"
  BY <1>1, NextIs DEF Builds
<1>3. /\ HeapInv(heap') /\ Grows(heap, heap') /\ StackInv(heap', Append(stack, f))
      /\ Append(stack, f) # <<>> /\ Append(stack, f)[Len(Append(stack, f))].is = "arrays"
  BY <1>1, <1>2, ArrayBegins
<1> HIDE DEF f
<1>4. ModeInv'
  BY <1>1, <1>3 DEF ModeInv, Modes
<1> QED  BY <1>1, <1>3, <1>4 DEF Goal

LEMMA ObjectArrayStep ==
  ASSUME DocInv, parse_object_array
  PROVE  Goal /\ IsTable(walk)'
<1> DEFINE g == Made(heap, "static")
           f == [is |-> "array", in |-> Fresh, key |-> Empty]
<1>1. /\ mode \in {"value", "array"} /\ BeginTable(g, Append(stack, f))
      /\ Len(heap) \in Nat /\ Shaped(heap)
  BY NextIs DEF parse_object_array, ArrayIsNext, Make, Made
<1>2. Len(heap) < MaxObjects
  <2>1. Len(g) < MaxObjects /\ Len(g) = Len(heap) + 1
    <3>1. heap \in Seq(Obj) /\ Object("static", <<>>) \in Obj
      <4>1. <<>> \in Seq(Nat) /\ "static" \in Kind
        BY DEF Kind
      <4> QED  BY <1>1, <4>1, ObjectIsObj DEF Shaped
    <3>2. Len(g) = Len(heap) + 1
      BY <3>1, AppendProperties DEF Made
    <3> QED  BY <1>1, <3>2 DEF BeginTable
  <2> QED  BY <1>1, <2>1, DocumentAssumption
<1>3. Builds("array") = "static"
  BY DEF Builds
<1>4. /\ HeapInv(g) /\ Grows(heap, g) /\ StackInv(g, Append(stack, f))
      /\ Append(stack, f) # <<>> /\ Append(stack, f)[Len(Append(stack, f))].is = "array"
  BY <1>1, <1>2, <1>3, ArrayBegins
<1> HIDE DEF f, g
<1>5. /\ HeapInv(heap') /\ Grows(g, heap') /\ StackInv(heap', stack') /\ ModeInv'
      /\ walk' \in 1..Len(heap') /\ heap'[walk'].is = "table"
  BY <1>1, <1>4, BeginStep
<1>6. Grows(heap, heap')
  BY <1>1, <1>4, <1>5, GrowsTrans DEF HeapInv
<1> QED  BY <1>5, <1>6 DEF Goal, IsTable

LEMMA NextPairStep ==
  ASSUME DocInv, NextPair
  PROVE  Goal /\ IsTable(walk)'
<1> DEFINE top == stack[Len(stack)]
<1>1. /\ mode = "more" /\ mode' = "key" /\ top.is = "table" /\ walk' = top.in
      /\ stack' = stack /\ heap' = heap
      /\ stack # <<>> /\ HeapInv(heap) /\ StackInv(heap, stack)
  BY DEF NextPair, Top, DocInv, ModeInv
<1>2. /\ Len(stack) \in Nat \ {0} /\ Len(stack) \in 1..Len(stack)
      /\ top.in \in 1..Len(heap) /\ heap[top.in].is = "table"
  BY <1>1, TopFacts DEF StackInv, FramesAreObjects, Builds
<1>3. OpenIn(walk)'
  <2> SUFFICES ASSUME NEW i \in 1..Len(stack)
               PROVE  stack[i].in < top.in \/ (stack[i].is = "table" /\ stack[i].in = top.in)
    BY <1>1 DEF OpenIn
  <2>1. CASE i = Len(stack)
    BY <1>1, <2>1
  <2>2. CASE i # Len(stack)
    <3>1. Below(stack[i], top)
      BY <1>2, <2>2 DEF StackInv, Ordered, DocInv
    <3> QED  BY <1>1, <3>1 DEF Below
  <2> QED  BY <2>1, <2>2
<1>4. Grows(heap, heap')
  BY <1>1, ShapedFacts DEF Grows, HeapInv
<1> QED  BY <1>1, <1>2, <1>3, <1>4 DEF Goal, ModeInv, Modes, IsTable

LEMMA EndOfValueStep ==
  ASSUME DocInv, EndOfValue
  PROVE  Goal
<1> DEFINE top == stack[Len(stack)]
           st  == Popped(stack)
           below == stack[Len(stack) - 1]
<1>1. /\ mode = "more" /\ top.is # "pair" /\ stack # <<>>
      /\ top.is = "array" => heap[top.in].array_ # <<>>
      /\ HeapInv(heap) /\ Shaped(heap) /\ StackInv(heap, stack)
      /\ Return(heap, st, top.in)
  BY DEF EndOfValue, Top, Popped, DocInv, ModeInv, HeapInv
<1>2. /\ Len(stack) \in Nat \ {0} /\ Len(stack) \in 1..Len(stack) /\ top.in \in 1..Len(heap)
      /\ top.is \in {"table", "array", "arrays"}
      /\ heap[top.in].is = Builds(top.is)
      /\ stack \in Seq(FrameType)
  BY <1>1, TopFacts DEF StackInv, FramesAreObjects
<1>3. Len(stack) # 1 /\ below.is \in {"pair", "array", "arrays"} /\ (below.is = "array" => top.is = "table")
  BY <1>1, <1>2 DEF StackInv, Nested
<1>4. /\ StackInv(heap, st) /\ Len(st) = Len(stack) - 1
      /\ \A i \in 1..(Len(stack) - 1) : st[i] = stack[i]
  BY <1>1, <1>2, StackPops, PopFacts
<1>5. Len(st) \in 1..(Len(stack) - 1) /\ st[Len(st)] = below /\ st # <<>>
      /\ Len(stack) - 1 \in 1..Len(stack)
  BY <1>2, <1>3, <1>4
<1>6. top.in > below.in
  <2>1. Below(below, top)
    BY <1>1, <1>2, <1>5 DEF StackInv, Ordered
  <2>2. below.in \in Nat /\ top.in \in Nat
    BY <1>1, <1>2, <1>5, FrameFacts DEF StackInv
  <2> HIDE DEF below, top
  <2> QED  BY <1>1, <2>1, <2>2 DEF Below
<1>7. /\ below.is = "array" => heap[top.in].is = "table"
      /\ below.is \in {"array", "arrays"} => top.in > below.in + Len(heap[below.in].array_)
  BY <1>1, <1>2, <1>3 DEF StackInv, ElementIsNew, Builds
<1>8. heap[top.in].is = "static" => heap[top.in].array_ # <<>>
  BY <1>1, <1>2 DEF Builds
<1> HIDE DEF top, st, below
<1>9. HeapInv(heap') /\ Grows(heap, heap') /\ StackInv(heap', stack') /\ ModeInv'
  BY <1>1, <1>2, <1>3, <1>4, <1>5, <1>6, <1>7, <1>8, ReturnStep
<1> QED  BY <1>9 DEF Goal

-------------------------------------------------------------------------------
LEMMA DocStep ==
  ASSUME DocInv, [parse]_vars
  PROVE  DocInv' /\ Grows(heap, heap')
<1>0. /\ HeapInv(heap) /\ StackInv(heap, stack) /\ ModeInv /\ PlaceInv
      /\ Grows(heap, heap)
  BY ShapedFacts DEF DocInv, HeapInv, Grows
<1>1. ASSUME Goal, PlaceInv'  PROVE DocInv' /\ Grows(heap, heap')
  BY <1>1 DEF Goal, DocInv
<1>2. ASSUME Goal, UNCHANGED <<curr_table, walk, inserted>>
      PROVE  DocInv' /\ Grows(heap, heap')
  BY <1>0, <1>1, <1>2 DEF Goal, PlaceInv, IsTable, Grows, Root
<1>3. ASSUME Goal, UNCHANGED <<curr_table, inserted>>, IsTable(walk)'
      PROVE  DocInv' /\ Grows(heap, heap')
  BY <1>0, <1>1, <1>3 DEF Goal, PlaceInv, IsTable, Grows, Root
<1>4. CASE parse_table
  <2>1. stack = <<>> /\ IsTable(Root)
    BY <1>0, <1>4 DEF parse_table, ModeInv, PlaceInv
  <2>2. /\ mode' \in {"table", "table array"} /\ UNCHANGED <<heap, walk, stack>>
        /\ curr_table' = Root /\ inserted' = FALSE
    BY <1>4 DEF parse_table
  <2>3. Goal
    BY <1>0, <2>1, <2>2, HeaderStep
  <2>4. PlaceInv'
    BY <1>0, <2>1, <2>2 DEF PlaceInv, IsTable, Root
  <2> QED  BY <1>1, <2>3, <2>4
<1>5. CASE BeginPair
  <2>1. stack = <<>> /\ mode' = "key" /\ walk' = curr_table
        /\ UNCHANGED <<heap, curr_table, inserted, stack>>
    BY <1>5 DEF BeginPair, DocInv, ModeInv
  <2>2. ModeInv'
    BY <2>1 DEF ModeInv, Modes, OpenIn
  <2>3. PlaceInv'
    BY <1>0, <2>1 DEF PlaceInv, IsTable, Root
  <2> QED  BY <1>0, <2>1, <2>2, <2>3 DEF DocInv
<1>6. CASE EndOfFile
  <2>1. stack = <<>> /\ mode' = "done" /\ UNCHANGED <<heap, curr_table, walk, inserted, stack>>
    BY <1>6 DEF EndOfFile, DocInv, ModeInv
  <2> QED  BY <1>0, <1>2, <2>1, HeaderStep
<1>7. CASE Malformed
  <2>1. mode' = "thrown" /\ UNCHANGED <<heap, curr_table, walk, inserted, stack>>
    BY <1>7 DEF Malformed, throw_parse_exception
  <2>2. Goal
    BY <1>0, <2>1 DEF Goal, ModeInv, Modes
  <2> QED  BY <1>2, <2>1, <2>2
<1>8. ASSUME NEW part \in Part, NEW last \in BOOLEAN, parse_single_table(part, last)
      PROVE  DocInv' /\ Grows(heap, heap')
  <2>1. /\ stack = <<>> /\ EnterTable(part) /\ UNCHANGED <<walk, stack>>
        /\ mode' \in {"table", "thrown", "line"}
    BY <1>8 DEF parse_single_table, DocInv, ModeInv
  <2>2. /\ HeapInv(heap') /\ Grows(heap, heap')
        /\ curr_table' \in 1..Len(heap') /\ heap'[curr_table'].is = "table"
        /\ inserted' \in BOOLEAN
    BY <2>1, EnterStep
  <2>3. Goal
    BY <2>1, <2>2, HeaderStep
  <2>4. PlaceInv'
    <3>1. IsTable(walk)' /\ IsTable(Root)'
      BY <1>0, <2>1, <2>2 DEF PlaceInv, IsTable, Grows, Root
    <3> QED  BY <2>2, <3>1 DEF PlaceInv, IsTable
  <2> QED  BY <1>1, <2>3, <2>4
<1>9. ASSUME NEW part \in Part, NEW last \in BOOLEAN, parse_table_array(part, last)
      PROVE  DocInv' /\ Grows(heap, heap')
  <2>1. /\ stack = <<>> /\ UNCHANGED <<walk, stack>> /\ mode' \in {"table array", "line"}
        /\ EnterTable(part) \/ (LastOfArray(part) /\ UNCHANGED inserted)
    BY <1>9 DEF parse_table_array, DocInv, ModeInv
  <2>2. /\ HeapInv(heap') /\ Grows(heap, heap')
        /\ curr_table' \in 1..Len(heap') /\ heap'[curr_table'].is = "table"
        /\ inserted' \in BOOLEAN
    <3>1. CASE EnterTable(part)
      BY <2>1, <3>1, EnterStep
    <3>2. CASE LastOfArray(part) /\ UNCHANGED inserted
      BY <1>0, <3>2, LastOfArrayStep DEF PlaceInv
    <3> QED  BY <2>1, <3>1, <3>2
  <2>3. Goal
    BY <2>1, <2>2, HeaderStep
  <2>4. PlaceInv'
    <3>1. IsTable(walk)' /\ IsTable(Root)'
      BY <1>0, <2>1, <2>2 DEF PlaceInv, IsTable, Grows, Root
    <3> QED  BY <2>2, <3>1 DEF PlaceInv, IsTable
  <2> QED  BY <1>1, <2>3, <2>4
<1>10. ASSUME NEW part \in Part, parse_key_value(part)  PROVE DocInv' /\ Grows(heap, heap')
  BY <1>3, <1>10, KeyStep DEF parse_key_value
<1>11. ASSUME NEW part \in Part, LastOfKey(part)  PROVE DocInv' /\ Grows(heap, heap')
  BY <1>2, <1>11, LastOfKeyStep DEF LastOfKey
<1>12. CASE parse_value
  BY <1>2, <1>12, ValueStep DEF parse_value
<1>13. CASE parse_inline_table
  <2>1. stack # <<>> /\ stack[Len(stack)].is = "pair" /\ BeginTable(heap, stack)
    BY <1>13 DEF parse_inline_table, DocInv, ModeInv
  <2>2. Goal /\ IsTable(walk)'
    BY <1>0, <2>1, BeginStep DEF Goal, IsTable
  <2> QED  BY <1>3, <2>1, <2>2 DEF BeginTable
<1>14. CASE parse_object_array
  BY <1>3, <1>14, ObjectArrayStep DEF parse_object_array, BeginTable
<1>15. CASE NextPair
  BY <1>3, <1>15, NextPairStep DEF NextPair
<1>16. CASE NextElement
  <2>1. stack # <<>> /\ stack[Len(stack)].is = "array" /\ BeginTable(heap, stack)
    BY <1>16 DEF NextElement, Top, DocInv, ModeInv
  <2>2. Goal /\ IsTable(walk)'
    BY <1>0, <2>1, BeginStep DEF Goal, IsTable
  <2> QED  BY <1>3, <2>1, <2>2 DEF BeginTable
<1>17. CASE EndOfValue
  BY <1>2, <1>17, EndOfValueStep DEF EndOfValue
<1>18. CASE parse_value_array
  BY <1>2, <1>18, ValueArrayStep DEF parse_value_array
<1>19. CASE parse_array_of_arrays
  BY <1>2, <1>19, ArrayOfArraysStep DEF parse_array_of_arrays
<1>20. CASE NextArray
  <2>1. /\ stack # <<>> /\ stack[Len(stack)].is = "arrays" /\ mode' = "array"
        /\ UNCHANGED <<heap, curr_table, walk, inserted, stack>>
    BY <1>20 DEF NextArray, Top, DocInv, ModeInv
  <2>2. Goal
    BY <1>0, <2>1 DEF Goal, ModeInv, Modes
  <2> QED  BY <1>2, <2>1, <2>2
<1>21. CASE UNCHANGED vars
  BY <1>0, <1>21 DEF vars, DocInv, ModeInv, PlaceInv, IsTable, Root, OpenIn
<1> QED
  BY <1>4, <1>5, <1>6, <1>7, <1>8, <1>9, <1>10, <1>11, <1>12, <1>13, <1>14, <1>15, <1>16,
     <1>17, <1>18, <1>19, <1>20, <1>21 DEF parse

LEMMA DocCorrect == Spec => []DocInv
<1>1. Init => DocInv
  <2> SUFFICES ASSUME Init  PROVE DocInv
    OBVIOUS
  <2> DEFINE o == Object("table", <<>>)
  <2>1. o \in Obj /\ o.is = "table" /\ Len(o.array_) = 0 /\ \A key \in Part : o.map_[key] = 0
    <3>1. <<>> \in Seq(Nat) /\ "table" \in Kind /\ Len(<<>>) = 0
      BY DEF Kind
    <3> QED  BY <3>1, ObjectIsObj
  <2>2. heap = <<o>> /\ stack = <<>> /\ mode = "line" /\ curr_table = 1 /\ walk = 1 /\ inserted = FALSE
    BY DEF Init, Root
  <2> HIDE DEF o
  <2>3. Len(heap) = 1 /\ heap[1] = o /\ heap \in Seq(Obj) /\ \A t \in 1..Len(heap) : t = 1
    BY <2>1, <2>2
  <2>4. Shaped(heap)
    BY <2>3, DocumentAssumption DEF Shaped
  <2>5. HeapInv(heap)
    BY <2>1, <2>3, <2>4 DEF HeapInv, MapsGoUp, ArraysGoUp, ElementsAreTables, FoundArraysAreFilled
  <2>6. PlaceInv
    <3>1. curr_table = 1 /\ walk = 1 /\ inserted \in BOOLEAN /\ Root = 1
      BY <2>2 DEF Root
    <3>2. IsTable(1)
      BY <2>1, <2>3 DEF IsTable
    <3> QED  BY <3>1, <3>2 DEF PlaceInv
  <2>7. mode = "line" /\ stack = <<>> /\ mode \in Modes
    BY <2>2 DEF Modes
  <2>8. StackInv(heap, stack)
    BY <2>5, <2>7, EmptyStack
  <2>9. ModeInv
    BY <2>7 DEF ModeInv
  <2> QED  BY <2>5, <2>6, <2>8, <2>9 DEF DocInv
<1>2. DocInv /\ [parse]_vars => DocInv'
  BY DocStep
<1> QED  BY <1>1, <1>2, PTL DEF Spec

(* Every variable of the parser keeps its type: in particular curr_table   *)
(* and walk always point to tables, and whatever is held is an object.     *)
THEOREM TypeCorrect == Spec => []TypeOK
<1>1. DocInv => TypeOK
  <2> SUFFICES ASSUME DocInv  PROVE TypeOK
    OBVIOUS
  <2> DEFINE n == Len(heap)
             S == [is : Kind, map_ : [Part -> 0..n], array_ : Seq(1..n)]
  <2>1. n \in Nat /\ HeapInv(heap) /\ StackInv(heap, stack) /\ Shaped(heap)
    BY ShapedFacts DEF DocInv, HeapInv
  <2>2. ASSUME NEW t \in 1..n  PROVE heap[t] \in S
    <3>1. heap[t] \in Obj /\ heap[t].array_ \in Seq(Nat)
      BY <2>1, ShapedFacts
    <3>2. \A key \in Part : heap[t].map_[key] \in 0..n
      <4> SUFFICES ASSUME NEW key \in Part  PROVE heap[t].map_[key] \in 0..n
        OBVIOUS
      <4>1. CASE heap[t].map_[key] = 0
        BY <2>1, <4>1
      <4>2. CASE heap[t].map_[key] # 0
        <5>1. heap[t].map_[key] \in (t + 1)..n
          BY <2>1, <4>2 DEF HeapInv, MapsGoUp
        <5> QED  BY <2>1, <5>1
      <4> QED  BY <4>1, <4>2
    <3>3. \A i \in 1..Len(heap[t].array_) : heap[t].array_[i] \in 1..n
      BY <2>1, ElementFacts
    <3> HIDE DEF n
    <3>4. heap[t].array_ \in Seq(1..n)
      <4> DEFINE s == heap[t].array_
      <4>1. s \in [1..Len(s) -> Nat] /\ Len(s) \in Nat
        BY <3>1
      <4>2. s \in [1..Len(s) -> 1..n]
        BY <3>3, <4>1
      <4> DEFINE m == Len(s)
      <4>3. m \in Nat /\ s \in [1..m -> 1..n]
        BY <4>1, <4>2
      <4> DEFINE U == 1..n
      <4> HIDE DEF m, s
      <4>4. s \in [1..m -> U]
        BY <4>3
      <4> HIDE DEF U
      <4>5. s \in Seq(U)
        BY <4>3, <4>4
      <4>6. s \in Seq(1..n)
        BY <4>5 DEF U
      <4> QED  BY <4>6 DEF s
    <3>5. heap[t].map_ \in [Part -> 0..n]
      BY <3>1, <3>2 DEF Obj
    <3> QED  BY <3>1, <3>4, <3>5 DEF Obj
  <2>3. heap \in Seq(S)
    <3> HIDE DEF S
    <3>1. heap \in [1..n -> Obj]
      BY <2>1 DEF Shaped
    <3>2. heap \in [1..n -> S]
      BY <2>2, <3>1
    <3> HIDE DEF n
    <3> QED  BY <2>1, <3>2
  <2>4. stack \in Seq(Frame)
    <3>1. stack \in Seq(FrameType) /\ Len(stack) \in Nat
      BY <2>1, FrameFacts DEF StackInv
    <3>2. \A i \in 1..Len(stack) : stack[i] \in Frame
      <4> SUFFICES ASSUME NEW i \in 1..Len(stack)  PROVE stack[i] \in Frame
        OBVIOUS
      <4>1. stack[i] \in FrameType /\ stack[i].in \in 1..n
        BY <2>1, <3>1, FrameFacts, ElementOfSeq DEF StackInv
      <4> QED  BY <4>1 DEF FrameType, Frame
    <3>3. stack \in [1..Len(stack) -> Frame]
      BY <3>1, <3>2
    <3> DEFINE m == Len(stack)
    <3>4. m \in Nat /\ stack \in [1..m -> Frame]
      BY <3>1, <3>3
    <3> HIDE DEF m
    <3> QED  BY <3>4
  <2> QED  BY <2>3, <2>4 DEF TypeOK, DocInv, ModeInv, Modes, PlaceInv, IsTable
<1> QED  BY <1>1, DocCorrect, PTL

(* The header of a table array, and a header that goes on in one, always   *)
(* find a table at its end: no array that can be found is empty.           *)
THEOREM ArraysCorrect == Spec => []ArraysHaveATable
<1>1. DocInv => ArraysHaveATable
  <2> SUFFICES ASSUME DocInv, NEW t \in 1..Len(heap), NEW key \in Part,
                      heap[t].map_[key] # 0,
                      heap[heap[t].map_[key]].is \in {"table_array", "static"}
               PROVE  /\ heap[heap[t].map_[key]].array_ # <<>>
                      /\ \A i \in 1..Len(heap[heap[t].map_[key]].array_) :
                            heap[heap[heap[t].map_[key]].array_[i]].is = "table"
    BY DEF ArraysHaveATable, Null
  <2>1. heap[t].map_[key] \in 1..Len(heap) /\ HeapInv(heap)
    BY Found DEF DocInv
  <2> QED  BY <2>1 DEF HeapInv, ElementsAreTables, FoundArraysAreFilled
<1> QED  BY <1>1, DocCorrect, PTL

(* What the parser has put into a table or an array stays there.           *)
THEOREM GrowsCorrect == Spec => NothingIsReplaced
<1>1. DocInv /\ [parse]_vars => Grows(heap, heap')
  BY DocStep
<1>2. Grows(heap, heap') =>
        \A t \in 1..Len(heap) :
           /\ t \in 1..Len(heap') /\ heap'[t].is = heap[t].is
           /\ \A key \in Part : heap[t].map_[key] # Null => heap'[t].map_[key] = heap[t].map_[key]
           /\ \A i \in 1..Len(heap[t].array_) :
                 i <= Len(heap'[t].array_) /\ heap'[t].array_[i] = heap[t].array_[i]
  BY DEF Grows, Null
<1> QED  BY <1>1, <1>2, DocCorrect, PTL DEF Spec, NothingIsReplaced

-------------------------------------------------------------------------------
(***************************************************************************)
(* The tree.  What is being read, B, is held by nobody, and everything     *)
(* else by one key or by one place of an array.                            *)
(***************************************************************************)
KeyHolds(h, t, k, v) == t \in 1..Len(h) /\ k \in Part /\ h[t].map_[k] = v

PlaceHolds(h, t, i, v) ==
  t \in 1..Len(h) /\ i \in 1..Len(h[t].array_) /\ h[t].array_[i] = v

NoKeyHolds(h, v) == \A t, k : ~ KeyHolds(h, t, k, v)
NoPlaceHolds(h, v) == \A t, i : ~ PlaceHolds(h, t, i, v)

HeldByKey(h, v) ==
  /\ NoPlaceHolds(h, v)
  /\ \E t, k : KeyHolds(h, t, k, v) /\ \A t2, k2 : KeyHolds(h, t2, k2, v) => t2 = t /\ k2 = k

HeldByPlace(h, v) ==
  /\ NoKeyHolds(h, v)
  /\ \E t, i : PlaceHolds(h, t, i, v) /\ \A t2, i2 : PlaceHolds(h, t2, i2, v) => t2 = t /\ i2 = i

TreeInv(h, B) ==
  \A v \in 2..Len(h) :
     /\ v \in B => NoKeyHolds(h, v) /\ NoPlaceHolds(h, v)
     /\ v \notin B => HeldByKey(h, v) \/ HeldByPlace(h, v)

(* Who holds v does not change when the same keys and places hold it.      *)
LEMMA SameHolders ==
  ASSUME NEW h, NEW h2, NEW v,
         \A t, k : KeyHolds(h2, t, k, v) <=> KeyHolds(h, t, k, v),
         \A t, i : PlaceHolds(h2, t, i, v) <=> PlaceHolds(h, t, i, v)
  PROVE  /\ NoKeyHolds(h2, v) <=> NoKeyHolds(h, v)
         /\ NoPlaceHolds(h2, v) <=> NoPlaceHolds(h, v)
         /\ HeldByKey(h2, v) <=> HeldByKey(h, v)
         /\ HeldByPlace(h2, v) <=> HeldByPlace(h, v)
  BY DEF NoKeyHolds, NoPlaceHolds, HeldByKey, HeldByPlace

(* Objects are made: one, and behind it what it holds, in order.           *)
LEMMA TreeExtends ==
  ASSUME NEW h, NEW h2, NEW B, HeapInv(h), Extends(h, h2), TreeInv(h, B),
         \A v \in B : v \in 1..Len(h),
         NEW n, n = Len(h) + 1, n <= Len(h2),
         \A t \in (n + 1)..Len(h2) : Len(h2[t].array_) = 0,
         Len(h2[n].array_) = Len(h2) - n,
         \A i \in 1..(Len(h2) - n) : h2[n].array_[i] = n + i
  PROVE  TreeInv(h2, B \union {n})
<1>1. /\ Shaped(h) /\ Shaped(h2) /\ Len(h) \in Nat \ {0} /\ Len(h2) \in Nat /\ n \in Nat
      /\ \A t \in 1..Len(h) : t \in 1..Len(h2) /\ h2[t] = h[t]
      /\ \A t \in 1..Len(h2) : t \in 1..Len(h) \/ t = n \/ t \in (n + 1)..Len(h2)
  BY ShapedFacts DEF HeapInv, Shaped, Extends
<1>2. ASSUME NEW t, NEW k, NEW v, v # 0  PROVE KeyHolds(h2, t, k, v) <=> KeyHolds(h, t, k, v)
  <2>1. CASE t \in 1..Len(h)
    BY <1>1, <2>1 DEF KeyHolds
  <2>2. CASE t \notin 1..Len(h)
    <3>1. ASSUME KeyHolds(h2, t, k, v)  PROVE FALSE
      <4>1. t \in (Len(h) + 1)..Len(h2) /\ k \in Part /\ h2[t].map_[k] = v
        BY <1>1, <2>2, <3>1 DEF KeyHolds
      <4> QED  BY <1>2, <4>1 DEF Extends
    <3> QED  BY <2>2, <3>1 DEF KeyHolds
  <2> QED  BY <2>1, <2>2
<1>3. \A t, i, v : PlaceHolds(h, t, i, v) => PlaceHolds(h2, t, i, v) /\ v \in 1..Len(h)
  BY <1>1, ElementFacts DEF PlaceHolds
<1>4. \A t, k, v : KeyHolds(h, t, k, v) /\ v # 0 => v \in 1..Len(h)
  BY <1>1 DEF KeyHolds, HeapInv, MapsGoUp
<1>5. ASSUME NEW t, NEW i, NEW v, PlaceHolds(h2, t, i, v), ~ PlaceHolds(h, t, i, v)
      PROVE  t = n /\ v = n + i /\ i \in 1..(Len(h2) - n)
  <2>1. t \notin 1..Len(h)
    BY <1>1, <1>5 DEF PlaceHolds
  <2>2. t \notin (n + 1)..Len(h2)
    BY <1>5 DEF PlaceHolds
  <2>3. t = n
    BY <1>1, <1>5, <2>1, <2>2 DEF PlaceHolds
  <2> QED  BY <1>5, <2>3 DEF PlaceHolds
<1>6. ASSUME NEW v \in 2..Len(h), NEW t, NEW i, PlaceHolds(h2, t, i, v)  PROVE PlaceHolds(h, t, i, v)
  <2> SUFFICES ASSUME ~ PlaceHolds(h, t, i, v)  PROVE FALSE
    OBVIOUS
  <2>1. v = n + i /\ i \in 1..(Len(h2) - n)
    BY <1>5, <1>6
  <2> QED  BY <1>1, <2>1
<1>7. ASSUME NEW v \in 2..Len(h2)
      PROVE  /\ v \in B \union {n} => NoKeyHolds(h2, v) /\ NoPlaceHolds(h2, v)
             /\ v \notin B \union {n} => HeldByKey(h2, v) \/ HeldByPlace(h2, v)
  <2>1. CASE v \in 2..Len(h)
    <3>1. /\ \A t, k : KeyHolds(h2, t, k, v) <=> KeyHolds(h, t, k, v)
          /\ \A t, i : PlaceHolds(h2, t, i, v) <=> PlaceHolds(h, t, i, v)
      BY <1>2, <1>3, <1>6, <2>1
    <3>2. v # n
      BY <1>1, <2>1
    <3> QED  BY <2>1, <3>1, <3>2, SameHolders DEF TreeInv
  <2>2. CASE v \notin 2..Len(h)
    <3>1. v \notin 1..Len(h) /\ v # 0 /\ v \notin B
      BY <1>1, <2>2
    <3>2. NoKeyHolds(h2, v)
      BY <1>2, <1>4, <3>1 DEF NoKeyHolds
    <3>3. \A t, i : PlaceHolds(h2, t, i, v) => t = n /\ v = n + i /\ i \in 1..(Len(h2) - n)
      BY <1>3, <1>5, <3>1
    <3>4. CASE v = n
      <4>1. NoPlaceHolds(h2, v)
        BY <1>1, <3>3, <3>4 DEF NoPlaceHolds
      <4> QED  BY <3>2, <3>4, <4>1
    <3>5. CASE v # n
      <4>1. v - n \in 1..(Len(h2) - n) /\ n + (v - n) = v
        BY <1>1, <3>1, <3>5
      <4>2. PlaceHolds(h2, n, v - n, v)
        <5> DEFINE i == v - n
        <5>1. i \in 1..(Len(h2) - n) /\ n + i = v
          BY <4>1
        <5> HIDE DEF i
        <5>2. h2[n].array_[i] = v /\ n \in 1..Len(h2)
          BY <1>1, <5>1
        <5>3. PlaceHolds(h2, n, i, v)
          BY <5>1, <5>2 DEF PlaceHolds
        <5> QED  BY <5>3 DEF i
      <4>3. ASSUME NEW t, NEW i, PlaceHolds(h2, t, i, v)  PROVE t = n /\ i = v - n
        <5>1. t = n /\ v = n + i /\ i \in Nat
          BY <3>3, <4>3
        <5> QED  BY <1>1, <5>1
      <4> QED  BY <3>1, <3>2, <3>5, <4>2, <4>3 DEF HeldByPlace
    <3> QED  BY <3>4, <3>5
  <2> QED  BY <2>1, <2>2
<1> QED  BY <1>7 DEF TreeInv

(* What was being read is inserted at a free key.                          *)
LEMMA TreeInserts ==
  ASSUME NEW h, NEW B, HeapInv(h), TreeInv(h, B), NEW t \in 1..Len(h), NEW key \in Part,
         h[t].map_[key] = 0, NEW v \in 2..Len(h), v \in B,
         NEW h2, h2 = insert(h, t, key, v)
  PROVE  TreeInv(h2, B \ {v})
<1>1. /\ Len(h2) = Len(h) /\ Len(h) \in Nat
      /\ \A u \in 1..Len(h) :
            /\ h2[u].array_ = h[u].array_
            /\ \A k \in Part :
                  h2[u].map_[k] = IF u = t /\ k = key THEN v ELSE h[u].map_[k]
  BY InsertEffect, ShapedFacts DEF HeapInv
<1>2. \A w, u, i : PlaceHolds(h2, u, i, w) <=> PlaceHolds(h, u, i, w)
  BY <1>1 DEF PlaceHolds
<1>3. \A w, u, k : w # v /\ w # 0 => (KeyHolds(h2, u, k, w) <=> KeyHolds(h, u, k, w))
  BY <1>1 DEF KeyHolds
<1>4. NoKeyHolds(h, v) /\ NoPlaceHolds(h, v)
  BY DEF TreeInv
<1>5. HeldByKey(h2, v)
  <2>1. KeyHolds(h2, t, key, v)
    BY <1>1 DEF KeyHolds
  <2>2. \A u, k : KeyHolds(h2, u, k, v) => u = t /\ k = key
    BY <1>1, <1>4 DEF KeyHolds, NoKeyHolds
  <2>3. NoPlaceHolds(h2, v)
    BY <1>2, <1>4 DEF NoPlaceHolds
  <2> QED  BY <2>1, <2>2, <2>3 DEF HeldByKey
<1>6. ASSUME NEW w \in 2..Len(h), w # v
      PROVE  /\ w \in B \ {v} => NoKeyHolds(h2, w) /\ NoPlaceHolds(h2, w)
             /\ w \notin B \ {v} => HeldByKey(h2, w) \/ HeldByPlace(h2, w)
  <2>1. w # 0
    BY <1>1
  <2> QED  BY <1>2, <1>3, <1>6, <2>1, SameHolders DEF TreeInv
<1> QED  BY <1>1, <1>5, <1>6 DEF TreeInv

(* What was being read is pushed onto an array.                            *)
LEMMA TreePushes ==
  ASSUME NEW h, NEW B, HeapInv(h), TreeInv(h, B), NEW a \in 1..Len(h),
         NEW v \in 2..Len(h), v \in B,
         NEW h2, h2 = push_back(h, a, v)
  PROVE  TreeInv(h2, B \ {v})
<1>1. /\ Len(h2) = Len(h) /\ Len(h) \in Nat /\ v \in Nat
      /\ \A u \in 1..Len(h) :
            /\ h2[u].map_ = h[u].map_
            /\ u # a => h2[u].array_ = h[u].array_
      /\ Len(h2[a].array_) = Len(h[a].array_) + 1
      /\ h2[a].array_[Len(h[a].array_) + 1] = v
      /\ \A i \in 1..Len(h[a].array_) : h2[a].array_[i] = h[a].array_[i]
      /\ Len(h[a].array_) \in Nat
  <2>1. Shaped(h) /\ v \in Nat /\ Len(h) \in Nat /\ Len(h[a].array_) \in Nat
    BY ShapedFacts DEF HeapInv
  <2>2. Pushed(h, a, v, h2)
    BY <2>1, PushEffect
  <2> QED  BY <2>1, <2>2 DEF Pushed
<1>2. \A w, u, k : KeyHolds(h2, u, k, w) <=> KeyHolds(h, u, k, w)
  BY <1>1 DEF KeyHolds
<1>3. \A i \in 1..Len(h2[a].array_) : i \in 1..Len(h[a].array_) \/ i = Len(h[a].array_) + 1
  BY <1>1
<1>4. \A i \in 1..Len(h[a].array_) : i \in 1..Len(h2[a].array_)
  BY <1>1
<1>5. \A w, u, i : PlaceHolds(h, u, i, w) => PlaceHolds(h2, u, i, w)
  BY <1>1, <1>4 DEF PlaceHolds
<1>6. \A w, u, i : PlaceHolds(h2, u, i, w) =>
                     \/ PlaceHolds(h, u, i, w)
                     \/ u = a /\ i = Len(h[a].array_) + 1 /\ w = v
  BY <1>1, <1>3 DEF PlaceHolds
<1>7. NoKeyHolds(h, v) /\ NoPlaceHolds(h, v)
  BY DEF TreeInv
<1>8. HeldByPlace(h2, v)
  <2>1. PlaceHolds(h2, a, Len(h[a].array_) + 1, v)
    BY <1>1 DEF PlaceHolds
  <2>2. \A u, i : PlaceHolds(h2, u, i, v) => u = a /\ i = Len(h[a].array_) + 1
    BY <1>6, <1>7 DEF NoPlaceHolds
  <2>3. NoKeyHolds(h2, v)
    BY <1>2, <1>7 DEF NoKeyHolds
  <2> QED  BY <2>1, <2>2, <2>3 DEF HeldByPlace
<1>9. ASSUME NEW w \in 2..Len(h), w # v
      PROVE  /\ w \in B \ {v} => NoKeyHolds(h2, w) /\ NoPlaceHolds(h2, w)
             /\ w \notin B \ {v} => HeldByKey(h2, w) \/ HeldByPlace(h2, w)
  <2>1. \A u, i : PlaceHolds(h2, u, i, w) <=> PlaceHolds(h, u, i, w)
    BY <1>5, <1>6, <1>9
  <2> QED  BY <1>2, <1>9, <2>1, SameHolders DEF TreeInv
<1> QED  BY <1>1, <1>8, <1>9 DEF TreeInv

-------------------------------------------------------------------------------
(* The tables and arrays that are being read.                              *)
OpenObjects(st) == {st[i].in : i \in {j \in 1..Len(st) : st[j].is # "pair"}}

LEMMA OpenRange ==
  ASSUME NEW h, NEW st, FramesAreObjects(h, st)
  PROVE  \A v \in OpenObjects(st) : v \in 1..Len(h)
  BY DEF OpenObjects, FramesAreObjects

LEMMA OpenAppends ==
  ASSUME NEW st \in Seq(FrameType), NEW f \in FrameType
  PROVE  /\ f.is = "pair" => OpenObjects(Append(st, f)) = OpenObjects(st)
         /\ f.is # "pair" => OpenObjects(Append(st, f)) = OpenObjects(st) \union {f.in}
<1> DEFINE p == Append(st, f)
<1>1. /\ Len(st) \in Nat /\ Len(p) = Len(st) + 1 /\ p[Len(st) + 1] = f
      /\ \A i \in 1..Len(st) : p[i] = st[i]
  BY AppendProperties
<1> HIDE DEF p
<1>2. \A i \in 1..Len(p) : i \in 1..Len(st) \/ i = Len(st) + 1
  BY <1>1
<1>3. \A i \in 1..Len(st) : i \in 1..Len(p)
  BY <1>1
<1>4. Len(st) + 1 \in 1..Len(p)
  BY <1>1
<1>5. \A v \in OpenObjects(st) : v \in OpenObjects(p)
  BY <1>1, <1>3 DEF OpenObjects
<1>6. \A v \in OpenObjects(p) : v \in OpenObjects(st) \/ (f.is # "pair" /\ v = f.in)
  BY <1>1, <1>2 DEF OpenObjects
<1>7. f.is # "pair" => f.in \in OpenObjects(p)
  BY <1>1, <1>4 DEF OpenObjects
<1> QED  BY <1>5, <1>6, <1>7 DEF p

LEMMA OpenPops ==
  ASSUME NEW g, NEW st, HeapInv(g), StackInv(g, st), st # <<>>
  PROVE  /\ st[Len(st)].is = "pair" => OpenObjects(Popped(st)) = OpenObjects(st)
         /\ st[Len(st)].is # "pair" =>
              /\ OpenObjects(st) = OpenObjects(Popped(st)) \union {st[Len(st)].in}
              /\ st[Len(st)].in \notin OpenObjects(Popped(st))
<1> DEFINE p == Popped(st)
           top == st[Len(st)]
<1>1. /\ Len(st) \in Nat \ {0} /\ Len(st) \in 1..Len(st) /\ Len(p) = Len(st) - 1
      /\ \A i \in 1..(Len(st) - 1) : p[i] = st[i]
      /\ top.is \in {"pair", "table", "array", "arrays"}
  BY TopFacts, PopFacts DEF StackInv, FramesAreObjects
<1>2. \A i \in 1..Len(st) : st[i].in \in Nat
  BY FrameFacts DEF StackInv, HeapInv
<1>3. \A i \in 1..Len(p) : p[i] = st[i] /\ i \in 1..Len(st) /\ i < Len(st)
  BY <1>1
<1>4. \A i \in 1..Len(st) : i = Len(st) \/ i \in 1..Len(p)
  BY <1>1
<1> HIDE DEF p
<1>5. \A v \in OpenObjects(p) : v \in OpenObjects(st)
  BY <1>3 DEF OpenObjects
<1>6. \A v \in OpenObjects(st) : v \in OpenObjects(p) \/ (top.is # "pair" /\ v = top.in)
  BY <1>3, <1>4 DEF OpenObjects
<1>7. top.is # "pair" => top.in \in OpenObjects(st)
  BY <1>1 DEF OpenObjects
<1>8. ASSUME top.is # "pair"  PROVE top.in \notin OpenObjects(p)
  <2> SUFFICES ASSUME NEW i \in 1..Len(p)  PROVE p[i].in # top.in
    BY DEF OpenObjects
  <2>1. Below(st[i], top)
    BY <1>1, <1>3 DEF StackInv, Ordered
  <2>2. st[i].in \in Nat /\ top.in \in Nat /\ p[i] = st[i]
    BY <1>1, <1>2, <1>3
  <2> HIDE DEF top
  <2> QED  BY <1>8, <2>1, <2>2 DEF Below
<1> QED  BY <1>5, <1>6, <1>7, <1>8 DEF p

(* An object is made and is being read.                                    *)
LEMMA TreeMade ==
  ASSUME NEW h, NEW B, HeapInv(h), TreeInv(h, B), \A v \in B : v \in 1..Len(h),
         Len(h) < MaxObjects, NEW is \in {"table", "static", "value", "array"},
         NEW h2, h2 = Made(h, is)
  PROVE  TreeInv(h2, B \union {Len(h) + 1}) /\ Len(h) + 1 \notin B /\ Len(h) + 1 \in 2..Len(h2)
<1> DEFINE n == Len(h) + 1
<1>1. Shaped(h) /\ Len(h) \in Nat \ {0} /\ is \in Kind
  BY ShapedFacts DEF HeapInv, Shaped, Kind
<1>2. Extends(h, h2) /\ Len(h2) = n /\ Len(h2[n].array_) = 0
  BY <1>1, MadeInv, MadeEffect
<1>3. \A i \in (n + 1)..Len(h2) : FALSE
  BY <1>1, <1>2
<1>4. \A i \in 1..(Len(h2) - n) : FALSE
  BY <1>1, <1>2
<1>5. Len(h2[n].array_) = Len(h2) - n /\ n <= Len(h2) /\ n \notin B /\ n \in 2..Len(h2)
  BY <1>1, <1>2
<1>6. n = Len(h) + 1
  OBVIOUS
<1> HIDE DEF n
<1>7. TreeInv(h2, B \union {n})
  BY <1>2, <1>3, <1>4, <1>5, <1>6, TreeExtends
<1> QED  BY <1>5, <1>6, <1>7

LEMMA TreeInsertFresh ==
  ASSUME DocInv, NEW B, TreeInv(heap, B), \A v \in B : v \in 1..Len(heap),
         NEW t \in 1..Len(heap), NEW key \in Part, Free(t, key), Fresh <= MaxObjects,
         NEW h2, h2 = insert(Make("table"), t, key, Fresh)
  PROVE  TreeInv(h2, B)
<1> DEFINE g == Made(heap, "table")
<1>1. /\ HeapInv(heap) /\ Shaped(heap) /\ Len(heap) \in Nat
      /\ Fresh = Len(heap) + 1 /\ Len(heap) < MaxObjects
  BY ShapedFacts, DocumentAssumption DEF DocInv, HeapInv, Fresh
<1>2. h2 = insert(g, t, key, Fresh)
  BY DEF Make, Made
<1>3. HeapInv(g) /\ Len(g) = Len(heap) + 1 /\ g[t] = heap[t]
  BY <1>1, MadeInv, MadeEffect DEF Kind
<1>4. TreeInv(g, B \union {Fresh}) /\ Fresh \notin B /\ Fresh \in 2..Len(g)
  BY <1>1, TreeMade
<1> HIDE DEF g
<1>5. t \in 1..Len(g) /\ g[t].map_[key] = 0
  BY <1>1, <1>3, Found
<1>6. Fresh \in B \union {Fresh} /\ (B \union {Fresh}) \ {Fresh} = B
  BY <1>4
<1> DEFINE C == B \union {Fresh}
<1>7. TreeInv(g, C) /\ Fresh \in C /\ C \ {Fresh} = B
  BY <1>4, <1>6
<1> HIDE DEF C
<1>8. TreeInv(h2, C \ {Fresh})
  BY <1>2, <1>3, <1>4, <1>5, <1>7, TreeInserts
<1> QED  BY <1>7, <1>8

LEMMA TreeLastOfArray ==
  ASSUME DocInv, NEW B, TreeInv(heap, B), \A v \in B : v \in 1..Len(heap),
         NEW part \in Part, LastOfArray(part)
  PROVE  TreeInv(heap', B)
<1> DEFINE C == B \union {Fresh}
<1>0. /\ curr_table \in 1..Len(heap) /\ HeapInv(heap) /\ Shaped(heap) /\ Len(heap) \in Nat \ {0}
      /\ Fresh = Len(heap) + 1 /\ MaxObjects \in Nat
      /\ Fresh \in C /\ C \ {Fresh} = B
  <2>1. curr_table \in 1..Len(heap) /\ HeapInv(heap) /\ Shaped(heap) /\ Len(heap) \in Nat \ {0}
        /\ Fresh = Len(heap) + 1 /\ MaxObjects \in Nat
    BY ShapedFacts, DocumentAssumption DEF DocInv, HeapInv, Shaped, PlaceInv, IsTable, Fresh
  <2>2. Fresh \notin B
    BY <2>1
  <2> QED  BY <2>1, <2>2
<1> HIDE DEF C
<1>1. CASE Free(curr_table, part)
  <2> DEFINE g == MadeTableArray(heap)
             n == Len(heap) + 1
  <2>1. Len(heap) + 2 <= MaxObjects /\ heap' = insert(g, curr_table, part, Fresh)
    BY <1>0, <1>1 DEF LastOfArray, TableArray, MadeTableArray
  <2>2. /\ HeapInv(g) /\ Extends(heap, g) /\ Len(g) = Len(heap) + 2
        /\ Len(g[n].array_) = 1 /\ g[n].array_[1] = Len(heap) + 2 /\ Len(g[Len(heap) + 2].array_) = 0
    BY <1>0, <2>1, TableArrayInv
  <2> HIDE DEF g
  <2>3. /\ \A t \in (n + 1)..Len(g) : t = Len(heap) + 2
        /\ Len(g) - n = 1 /\ \A i \in 1..1 : i = 1 /\ n + 1 = Len(heap) + 2
        /\ n <= Len(g) /\ Fresh = n /\ Fresh \in 2..Len(g) /\ curr_table \in 1..Len(g)
    BY <1>0, <2>2
  <2>4. TreeInv(g, C)
    <3>1. /\ \A t \in (n + 1)..Len(g) : Len(g[t].array_) = 0
          /\ Len(g[n].array_) = Len(g) - n
          /\ \A i \in 1..(Len(g) - n) : g[n].array_[i] = n + i
      BY <2>2, <2>3
    <3>2. TreeInv(g, B \union {n})
      BY <1>0, <2>2, <2>3, <3>1, TreeExtends
    <3> QED  BY <2>3, <3>2 DEF C
  <2>5. g[curr_table].map_[part] = 0
    BY <1>0, <1>1, <2>2, Found DEF Extends
  <2> QED  BY <1>0, <2>1, <2>2, <2>3, <2>4, <2>5, TreeInserts
<1>2. CASE ~ Free(curr_table, part)
  <2> DEFINE g == Made(heap, "table")
             a == heap[curr_table].map_[part]
  <2>1. Fresh <= MaxObjects /\ heap' = push_back(g, a, Fresh)
    BY <1>2 DEF LastOfArray, Make, Made
  <2>2. a \in 1..Len(heap)
    BY <1>0, <1>2, Found
  <2>3. /\ HeapInv(g) /\ Len(g) = Len(heap) + 1
    BY <1>0, <2>1, MadeInv, MadeEffect DEF Kind
  <2>4. TreeInv(g, C) /\ Fresh \in 2..Len(g)
    <3>1. Len(heap) < MaxObjects
      BY <1>0, <2>1
    <3>2. TreeInv(g, B \union {Len(heap) + 1}) /\ Len(heap) + 1 \in 2..Len(g)
      BY <1>0, <3>1, TreeMade
    <3> QED  BY <1>0, <3>2 DEF C
  <2> HIDE DEF g, a
  <2>5. a \in 1..Len(g)
    BY <1>0, <2>2, <2>3
  <2>6. TreeInv(heap', C \ {Fresh})
    BY <1>0, <2>1, <2>3, <2>4, <2>5, TreePushes
  <2> QED  BY <1>0, <2>6
<1> QED  BY <1>1, <1>2

(* A value v is complete.                                                  *)
LEMMA TreeReturn ==
  ASSUME NEW g, NEW st, NEW v, HeapInv(g), StackInv(g, st), st # <<>>,
         st[Len(st)].is # "table", v \in 2..Len(g), v \notin OpenObjects(st),
         TreeInv(g, OpenObjects(st) \union {v}), Return(g, st, v)
  PROVE  TreeInv(heap', OpenObjects(stack'))
<1> DEFINE top == st[Len(st)]
           C == OpenObjects(st) \union {v}
<1>1. /\ top.key \in Part /\ top.in \in 1..Len(g) /\ top.is \in {"pair", "array", "arrays"}
      /\ Len(st) \in 1..Len(st)
  BY TopFacts
<1>2. TreeInv(g, C) /\ v \in C /\ C \ {v} = OpenObjects(st)
  OBVIOUS
<1> HIDE DEF C
<1>3. CASE top.is = "pair"
  <2>1. heap' = insert(g, top.in, top.key, v) /\ stack' = Popped(st)
    BY <1>3 DEF Return, Popped
  <2>2. g[top.in].map_[top.key] = 0
    BY <1>1, <1>3 DEF StackInv, PairsWait
  <2>3. OpenObjects(stack') = OpenObjects(st)
    BY <1>3, <2>1, OpenPops
  <2>4. TreeInv(heap', C \ {v})
    BY <1>1, <1>2, <2>1, <2>2, TreeInserts
  <2> QED  BY <1>2, <2>3, <2>4
<1>4. CASE top.is \in {"array", "arrays"}
  <2>1. heap' = push_back(g, top.in, v) /\ stack' = st
    BY <1>4 DEF Return
  <2>2. TreeInv(heap', C \ {v})
    BY <1>1, <1>2, <2>1, TreePushes
  <2> QED  BY <1>2, <2>1, <2>2
<1> QED  BY <1>1, <1>3, <1>4

(* An inline table begins.                                                 *)
LEMMA TreeBegin ==
  ASSUME NEW g, NEW st, HeapInv(g), StackInv(g, st), TreeInv(g, OpenObjects(st)),
         BeginTable(g, st)
  PROVE  TreeInv(heap', OpenObjects(stack'))
<1> DEFINE n == Len(g) + 1
           f == [is |-> "table", in |-> n, key |-> Empty]
<1>1. /\ Len(g) < MaxObjects /\ heap' = Made(g, "table") /\ stack' = Append(st, f)
  BY DEF BeginTable, Made
<1>2. FramesAreObjects(g, st) /\ Len(g) \in Nat /\ st \in Seq(FrameType)
  BY ShapedFacts DEF HeapInv, StackInv, FramesAreObjects
<1>3. f \in FrameType /\ f.is # "pair" /\ f.in = n
  BY <1>2, DocumentAssumption DEF FrameType
<1>4. TreeInv(heap', OpenObjects(st) \union {n})
  BY <1>1, <1>2, OpenRange, TreeMade
<1> HIDE DEF f
<1>5. OpenObjects(stack') = OpenObjects(st) \union {n}
  BY <1>1, <1>2, <1>3, OpenAppends
<1> QED  BY <1>4, <1>5

(* A value or an array is read at once.                                    *)
LEMMA TreeFresh ==
  ASSUME DocInv, TreeInv(heap, OpenObjects(stack)), mode \in {"value", "array"},
         NEW g, HeapInv(g), Extends(heap, g), Fresh \in 1..Len(g),
         TreeInv(g, OpenObjects(stack) \union {Fresh}), Return(g, stack, Fresh)
  PROVE  TreeInv(heap', OpenObjects(stack'))
<1>1. /\ Fresh = Len(heap) + 1 /\ Len(heap) \in Nat \ {0}
      /\ HeapInv(heap) /\ StackInv(heap, stack)
      /\ stack # <<>> /\ stack[Len(stack)].is # "table" /\ Shaped(heap)
  BY NextIs DEF Shaped
<1>2. \A v \in OpenObjects(stack) : v \in 1..Len(heap)
  BY <1>1, OpenRange DEF StackInv
<1>3. StackInv(g, stack)
  BY <1>1, StackExtends
<1>4. Fresh \in 2..Len(g) /\ Fresh \notin OpenObjects(stack)
  BY <1>1, <1>2
<1> QED  BY <1>1, <1>3, <1>4, TreeReturn

LEMMA TreeValue ==
  ASSUME DocInv, TreeInv(heap, OpenObjects(stack)), parse_value
  PROVE  TreeInv(heap', OpenObjects(stack'))
<1> DEFINE g == Made(heap, "value")
<1>1. /\ Fresh <= MaxObjects /\ Fresh = Len(heap) + 1 /\ Len(heap) \in Nat /\ MaxObjects \in Nat
      /\ HeapInv(heap) /\ StackInv(heap, stack) /\ Shaped(heap) /\ mode \in {"value", "array"}
  BY NextIs DEF parse_value
<1>2. \A v \in OpenObjects(stack) : v \in 1..Len(heap)
  BY <1>1, OpenRange DEF StackInv
<1>3. Len(heap) < MaxObjects
  BY <1>1
<1>4. HeapInv(g) /\ Extends(heap, g) /\ Len(g) = Len(heap) + 1
  BY <1>1, <1>3, MadeInv, MadeEffect DEF Kind
<1>5. TreeInv(g, OpenObjects(stack) \union {Len(heap) + 1})
  BY <1>1, <1>2, <1>3, TreeMade
<1>6. Return(g, stack, Fresh)
  BY DEF parse_value, Make, Made
<1> HIDE DEF g
<1>7. Fresh \in 1..Len(g)
  BY <1>1, <1>4
<1> QED  BY <1>1, <1>4, <1>5, <1>6, <1>7, TreeFresh

LEMMA TreeValueArray ==
  ASSUME DocInv, TreeInv(heap, OpenObjects(stack)), parse_value_array
  PROVE  TreeInv(heap', OpenObjects(stack'))
<1>1. /\ Fresh <= MaxObjects /\ Fresh = Len(heap) + 1 /\ Len(heap) \in Nat /\ MaxObjects \in Nat
      /\ HeapInv(heap) /\ StackInv(heap, stack) /\ Shaped(heap) /\ mode \in {"value", "array"}
  BY NextIs DEF parse_value_array, ArrayIsNext
<1>2. \A v \in OpenObjects(stack) : v \in 1..Len(heap)
  BY <1>1, OpenRange DEF StackInv
<1>3. PICK size \in 0..(MaxObjects - Fresh) : Return(Array(size), stack, Fresh)
  BY DEF parse_value_array
<1> DEFINE g == MadeArray(heap, size)
           n == Len(heap) + 1
<1>4. size \in Nat /\ Len(heap) + 1 + size <= MaxObjects
  BY <1>1
<1>5. /\ HeapInv(g) /\ Extends(heap, g) /\ Len(g) = n + size
      /\ Len(g[n].array_) = size
      /\ \A i \in 1..size : g[n].array_[i] = n + i
      /\ \A t \in n..Len(g) : t = n \/ Len(g[t].array_) = 0
  <2> HIDE DEF g
  <2>1. g = MadeArray(heap, size)
    BY DEF g
  <2>2. HeapInv(g) /\ Extends(heap, g) /\ AddsArray(heap, size, g)
    BY <1>1, <1>4, <2>1, ArrayInv
  <2> QED  BY <2>2 DEF AddsArray
<1>6. Return(g, stack, Fresh)
  <2>1. Array(size) = MadeArray(heap, size)
    BY DEF Array, MadeArray, Fresh
  <2> QED  BY <1>3, <2>1
<1> HIDE DEF g
<1>7. n \in Nat /\ n <= Len(g) /\ Fresh = n /\ Len(g) - n = size /\ Fresh \in 1..Len(g)
  BY <1>1, <1>4, <1>5
<1>8. ASSUME NEW t \in (n + 1)..Len(g)  PROVE Len(g[t].array_) = 0
  <2>1. t \in n..Len(g) /\ t # n
    BY <1>7
  <2> QED  BY <1>5, <2>1
<1>9. TreeInv(g, OpenObjects(stack) \union {n})
  <2> DEFINE m == n
  <2>1. m = Len(heap) + 1 /\ m <= Len(g) /\ Len(g) - m = size
    BY <1>7
  <2>2. /\ \A t \in (m + 1)..Len(g) : Len(g[t].array_) = 0
        /\ Len(g[m].array_) = Len(g) - m
        /\ \A i \in 1..(Len(g) - m) : g[m].array_[i] = m + i
    BY <1>5, <1>8, <2>1
  <2> HIDE DEF m
  <2>3. TreeInv(g, OpenObjects(stack) \union {m})
    BY <1>1, <1>2, <1>5, <2>1, <2>2, TreeExtends
  <2> QED  BY <2>3 DEF m
<1> QED  BY <1>1, <1>5, <1>6, <1>7, <1>9, TreeFresh

(* An array whose elements are read one by one begins.                     *)
LEMMA TreeArrayBegins ==
  ASSUME DocInv, TreeInv(heap, OpenObjects(stack)), mode \in {"value", "array"},
         Len(heap) < MaxObjects,
         NEW is \in {"array", "arrays"}, NEW g, g = Made(heap, Builds(is)),
         NEW f, f = [is |-> is, in |-> Fresh, key |-> Empty]
  PROVE  TreeInv(g, OpenObjects(Append(stack, f)))
<1>1. /\ Fresh = Len(heap) + 1 /\ Len(heap) \in Nat /\ HeapInv(heap) /\ StackInv(heap, stack)
      /\ stack \in Seq(FrameType)
  BY NextIs DEF StackInv, FramesAreObjects
<1>2. \A v \in OpenObjects(stack) : v \in 1..Len(heap)
  BY <1>1, OpenRange DEF StackInv
<1>3. Builds(is) \in {"static", "array"}
  BY DEF Builds
<1>4. TreeInv(g, OpenObjects(stack) \union {Fresh})
  BY <1>1, <1>2, <1>3, TreeMade
<1>5. f \in FrameType /\ f.is # "pair" /\ f.in = Fresh
  BY <1>1, DocumentAssumption DEF FrameType
<1>6. OpenObjects(Append(stack, f)) = OpenObjects(stack) \union {Fresh}
  BY <1>1, <1>5, OpenAppends
<1> QED  BY <1>4, <1>6

LEMMA TreeArrayOfArrays ==
  ASSUME DocInv, TreeInv(heap, OpenObjects(stack)), parse_array_of_arrays
  PROVE  TreeInv(heap', OpenObjects(stack'))
<1> DEFINE f == [is |-> "arrays", in |-> Fresh, key |-> Empty]
<1>1. /\ mode \in {"value", "array"} /\ Fresh <= MaxObjects
      /\ heap' = Made(heap, "array") /\ stack' = Append(stack, f)
  BY DEF parse_array_of_arrays, ArrayIsNext, Make, Made
<1>2. Len(heap) < MaxObjects /\ Builds("arrays") = "array"
  BY <1>1, NextIs DEF Builds
<1>3. TreeInv(heap', OpenObjects(Append(stack, f)))
  BY <1>1, <1>2, TreeArrayBegins
<1> HIDE DEF f
<1> QED  BY <1>1, <1>3

LEMMA TreeObjectArray ==
  ASSUME DocInv, TreeInv(heap, OpenObjects(stack)), parse_object_array
  PROVE  TreeInv(heap', OpenObjects(stack'))
<1> DEFINE g == Made(heap, "static")
           f == [is |-> "array", in |-> Fresh, key |-> Empty]
<1>1. /\ mode \in {"value", "array"} /\ BeginTable(g, Append(stack, f))
      /\ Len(heap) \in Nat /\ Shaped(heap) /\ Builds("array") = "static"
  BY NextIs DEF parse_object_array, ArrayIsNext, Make, Made, Builds
<1>2. Len(heap) < MaxObjects
  <2>1. heap \in Seq(Obj) /\ Object("static", <<>>) \in Obj
    <3>1. <<>> \in Seq(Nat) /\ "static" \in Kind
      BY DEF Kind
    <3> QED  BY <1>1, <3>1, ObjectIsObj DEF Shaped
  <2>2. Len(g) = Len(heap) + 1 /\ Len(g) < MaxObjects
    BY <1>1, <2>1, AppendProperties DEF Made, BeginTable
  <2> QED  BY <1>1, <2>2, DocumentAssumption
<1>3. HeapInv(g) /\ StackInv(g, Append(stack, f))
  BY <1>1, <1>2, ArrayBegins
<1>4. TreeInv(g, OpenObjects(Append(stack, f)))
  BY <1>1, <1>2, TreeArrayBegins
<1> HIDE DEF f, g
<1> QED  BY <1>1, <1>3, <1>4, TreeBegin

LEMMA TreeEndOfValue ==
  ASSUME DocInv, TreeInv(heap, OpenObjects(stack)), EndOfValue
  PROVE  TreeInv(heap', OpenObjects(stack'))
<1> DEFINE top == stack[Len(stack)]
           st  == Popped(stack)
           below == stack[Len(stack) - 1]
<1>1. /\ top.is # "pair" /\ stack # <<>>
      /\ HeapInv(heap) /\ StackInv(heap, stack)
      /\ Return(heap, st, top.in)
  BY DEF EndOfValue, Top, Popped, DocInv, ModeInv
<1>2. /\ Len(stack) \in Nat \ {0} /\ Len(stack) \in 1..Len(stack) /\ top.in \in 1..Len(heap)
      /\ top.is \in {"table", "array", "arrays"} /\ stack \in Seq(FrameType)
  BY <1>1, TopFacts DEF StackInv, FramesAreObjects
<1>3. Len(stack) # 1 /\ below.is \in {"pair", "array", "arrays"}
  BY <1>1, <1>2 DEF StackInv, Nested
<1>4. /\ StackInv(heap, st) /\ Len(st) = Len(stack) - 1
      /\ \A i \in 1..(Len(stack) - 1) : st[i] = stack[i]
  BY <1>1, <1>2, StackPops, PopFacts
<1>5. Len(st) \in 1..(Len(stack) - 1) /\ st[Len(st)] = below /\ st # <<>>
      /\ Len(stack) - 1 \in 1..Len(stack)
  BY <1>2, <1>3, <1>4
<1>6. top.in \in 2..Len(heap)
  <2>1. Below(below, top)
    BY <1>1, <1>2, <1>5 DEF StackInv, Ordered
  <2>2. below.in \in 1..Len(heap)
    BY <1>1, <1>5 DEF StackInv, FramesAreObjects
  <2>3. Len(heap) \in Nat
    BY <1>1, ShapedFacts DEF HeapInv
  <2> HIDE DEF below, top
  <2> QED  BY <1>1, <1>2, <2>1, <2>2, <2>3 DEF Below
<1>7. OpenObjects(stack) = OpenObjects(st) \union {top.in} /\ top.in \notin OpenObjects(st)
  BY <1>1, OpenPops
<1> HIDE DEF top, st, below
<1> QED  BY <1>1, <1>3, <1>4, <1>5, <1>6, <1>7, TreeReturn

(* The tree, of the parser's heap and stack.                               *)
HoldersInv == TreeInv(heap, OpenObjects(stack))

LEMMA TreeStep ==
  ASSUME DocInv, HoldersInv, [parse]_vars
  PROVE  HoldersInv'
<1> USE DEF HoldersInv
<1>1. /\ HeapInv(heap) /\ StackInv(heap, stack) /\ stack \in Seq(FrameType)
      /\ \A v \in OpenObjects(stack) : v \in 1..Len(heap)
      /\ curr_table \in 1..Len(heap) /\ walk \in 1..Len(heap)
  BY OpenRange DEF DocInv, StackInv, FramesAreObjects, PlaceInv, IsTable
<1>2. CASE UNCHANGED <<heap, stack>>
  BY <1>2
<1>3. ASSUME NEW part \in Part, EnterTable(part), UNCHANGED stack
      PROVE  TreeInv(heap', OpenObjects(stack'))
  <2>1. CASE Free(curr_table, part)
    BY <1>1, <1>3, <2>1, TreeInsertFresh DEF EnterTable
  <2>2. CASE ~ Free(curr_table, part)
    BY <1>2, <1>3, <2>2 DEF EnterTable
  <2> QED  BY <2>1, <2>2
<1>4. ASSUME NEW part \in Part, LastOfArray(part), UNCHANGED stack
      PROVE  TreeInv(heap', OpenObjects(stack'))
  BY <1>1, <1>4, TreeLastOfArray
<1>5. ASSUME NEW part \in Part, parse_key_value(part)
      PROVE  TreeInv(heap', OpenObjects(stack'))
  <2>1. CASE Free(walk, part)
    BY <1>1, <1>5, <2>1, TreeInsertFresh DEF parse_key_value
  <2>2. CASE ~ Free(walk, part)
    BY <1>2, <1>5, <2>2 DEF parse_key_value
  <2> QED  BY <2>1, <2>2
<1>6. ASSUME NEW part \in Part, LastOfKey(part)
      PROVE  TreeInv(heap', OpenObjects(stack'))
  <2> DEFINE f == Pair(walk, part)
  <2>1. heap' = heap /\ stack' = Append(stack, f)
    BY <1>6 DEF LastOfKey
  <2>2. f \in FrameType /\ f.is = "pair"
    <3>1. walk \in Nat
      BY <1>1, ShapedFacts DEF HeapInv
    <3> QED  BY <3>1 DEF Pair, FrameType
  <2> HIDE DEF f
  <2>3. OpenObjects(stack') = OpenObjects(stack)
    BY <1>1, <2>1, <2>2, OpenAppends
  <2> QED  BY <2>1, <2>3
<1>7. CASE parse_inline_table \/ NextElement
  <2>1. BeginTable(heap, stack)
    BY <1>7 DEF parse_inline_table, NextElement
  <2> QED  BY <1>1, <2>1, TreeBegin
<1>8. CASE parse_table \/ BeginPair \/ EndOfFile \/ Malformed \/ NextPair \/ NextArray \/ UNCHANGED vars
  BY <1>2, <1>8 DEF parse_table, BeginPair, EndOfFile, Malformed, throw_parse_exception, NextPair, NextArray, vars
<1>9. ASSUME NEW part \in Part, NEW last \in BOOLEAN,
             parse_single_table(part, last) \/ parse_table_array(part, last)
      PROVE  TreeInv(heap', OpenObjects(stack'))
  BY <1>3, <1>4, <1>9 DEF parse_single_table, parse_table_array
<1> QED
  BY <1>5, <1>6, <1>7, <1>8, <1>9, TreeValue, TreeValueArray, TreeArrayOfArrays, TreeObjectArray,
     TreeEndOfValue DEF parse

LEMMA HoldersCorrect == Spec => []HoldersInv
<1>1. Init => HoldersInv
  <2> SUFFICES ASSUME Init  PROVE HoldersInv
    OBVIOUS
  <2>1. Len(heap) = 1
    BY DEF Init
  <2> QED  BY <2>1 DEF HoldersInv, TreeInv
<1>2. DocInv /\ HoldersInv /\ [parse]_vars => HoldersInv'
  BY TreeStep
<1> QED  BY <1>1, <1>2, DocCorrect, PTL DEF Spec

(* The document is a tree at every moment: every object but the root is    *)
(* held once, by an older one, and what is still being read by none.       *)
THEOREM TreeCorrect == Spec => []IsATree
<1>1. DocInv /\ HoldersInv => IsATree
  <2> SUFFICES ASSUME DocInv, HoldersInv, NEW v \in 2..Len(heap)
               PROVE  IF v \in Building
                      THEN InMap(v) = {} /\ InArray(v) = {}
                      ELSE \E t \in 1..(v - 1) :
                              \/ InArray(v) = {} /\ \E key \in Part : InMap(v) = {<<t, key>>}
                              \/ InMap(v) = {} /\ \E i \in 1..MaxObjects : InArray(v) = {<<t, i>>}
    BY DEF IsATree
  <2> USE DEF HoldersInv
  <2>1. HeapInv(heap) /\ Len(heap) \in Nat /\ MaxObjects \in Nat /\ Len(heap) <= MaxObjects
    BY ShapedFacts, DocumentAssumption DEF DocInv, HeapInv, Shaped
  <2>2. \A t, k : KeyHolds(heap, t, k, v) <=> <<t, k>> \in InMap(v)
    BY DEF KeyHolds, InMap
  <2>3. \A e \in InMap(v) : e = <<e[1], e[2]>>
    BY DEF InMap
  <2>4. ASSUME NEW t, NEW i
        PROVE  PlaceHolds(heap, t, i, v) <=> <<t, i>> \in InArray(v)
    <3>1. CASE t \in 1..Len(heap)
      <4>1. Len(heap[t].array_) \in Nat /\ Len(heap[t].array_) <= MaxObjects
        BY <2>1, <3>1, ArrayEnds
      <4>2. i \in 1..Len(heap[t].array_) <=> i \in 1..MaxObjects /\ i <= Len(heap[t].array_)
        BY <2>1, <4>1
      <4> QED  BY <3>1, <4>2 DEF PlaceHolds, InArray
    <3>2. CASE t \notin 1..Len(heap)
      BY <3>2 DEF PlaceHolds, InArray
    <3> QED  BY <3>1, <3>2
  <2>5. \A e \in InArray(v) : e = <<e[1], e[2]>>
    BY DEF InArray
  <2>6. NoKeyHolds(heap, v) => InMap(v) = {}
    BY <2>2, <2>3 DEF NoKeyHolds
  <2>7. NoPlaceHolds(heap, v) => InArray(v) = {}
    BY <2>4, <2>5 DEF NoPlaceHolds
  <2>8. Building = OpenObjects(stack)
    BY DEF Building, OpenObjects
  <2>9. CASE v \in Building
    BY <2>6, <2>7, <2>8, <2>9 DEF TreeInv
  <2>10. CASE v \notin Building /\ HeldByKey(heap, v)
    <3>1. PICK t, k : KeyHolds(heap, t, k, v) /\ \A t2, k2 : KeyHolds(heap, t2, k2, v) => t2 = t /\ k2 = k
      BY <2>10 DEF HeldByKey
    <3>2. t \in 1..(v - 1) /\ k \in Part
      <4>1. t \in 1..Len(heap) /\ k \in Part /\ heap[t].map_[k] = v /\ v # 0
        BY <2>1, <3>1 DEF KeyHolds
      <4>2. v \in (t + 1)..Len(heap)
        BY <2>1, <4>1 DEF HeapInv, MapsGoUp
      <4> QED  BY <2>1, <4>1, <4>2
    <3>3. InMap(v) = {<<t, k>>}
      BY <2>2, <2>3, <3>1
    <3>4. InArray(v) = {}
      BY <2>7, <2>10 DEF HeldByKey
    <3> QED  BY <2>10, <3>2, <3>3, <3>4
  <2>11. CASE v \notin Building /\ HeldByPlace(heap, v)
    <3>1. PICK t, i : PlaceHolds(heap, t, i, v) /\ \A t2, i2 : PlaceHolds(heap, t2, i2, v) => t2 = t /\ i2 = i
      BY <2>11 DEF HeldByPlace
    <3>2. t \in 1..(v - 1) /\ i \in 1..MaxObjects
      <4>1. t \in 1..Len(heap) /\ i \in 1..Len(heap[t].array_) /\ heap[t].array_[i] = v
        BY <3>1 DEF PlaceHolds
      <4>2. v \in (t + i)..Len(heap)
        BY <2>1, <4>1 DEF HeapInv, ArraysGoUp
      <4>3. Len(heap[t].array_) \in Nat
        BY <2>1, <4>1, ArrayEnds
      <4> QED  BY <2>1, <4>1, <4>2, <4>3
    <3>3. InArray(v) = {<<t, i>>}
      BY <2>4, <2>5, <3>1
    <3>4. InMap(v) = {}
      BY <2>6, <2>11 DEF HeldByPlace
    <3> QED  BY <2>11, <3>2, <3>3, <3>4
  <2> QED  BY <2>8, <2>9, <2>10, <2>11 DEF TreeInv
<1> QED  BY <1>1, DocCorrect, HoldersCorrect, PTL

-------------------------------------------------------------------------------
(***************************************************************************)
(* What the kinds of objects have: tables have keys and no elements, and   *)
(* scalars have neither; in a document without arrays of arrays the        *)
(* elements of an array are scalars.                                       *)
(***************************************************************************)
HaveInv(h) ==
  \A t \in 1..Len(h) :
     /\ h[t].is # "table" => \A key \in Part : h[t].map_[key] = 0
     /\ h[t].is \in {"table", "value"} => Len(h[t].array_) = 0

KindsInv(h) ==
  \A t \in 1..Len(h) :
     /\ h[t].is # "table" => \A key \in Part : h[t].map_[key] = 0
     /\ h[t].is \in {"table", "value"} => Len(h[t].array_) = 0
     /\ h[t].is = "array" => \A i \in 1..Len(h[t].array_) : h[h[t].array_[i]].is = "value"

(* New objects that are so themselves.                                     *)
LEMMA HaveExtend ==
  ASSUME NEW h, NEW h2, HeapInv(h), Extends(h, h2), HaveInv(h),
         \A t \in (Len(h) + 1)..Len(h2) : h2[t].is \in {"table", "value"} => Len(h2[t].array_) = 0
  PROVE  HaveInv(h2)
<1>1. /\ Len(h) \in Nat /\ Len(h2) \in Nat /\ Len(h) <= Len(h2)
      /\ \A t \in 1..Len(h) : h2[t] = h[t]
  BY ShapedFacts DEF HeapInv, Extends
<1>2. ASSUME NEW t \in 1..Len(h2)
      PROVE  /\ h2[t].is # "table" => \A key \in Part : h2[t].map_[key] = 0
             /\ h2[t].is \in {"table", "value"} => Len(h2[t].array_) = 0
  <2>1. CASE t \in 1..Len(h)
    BY <1>1, <2>1 DEF HaveInv
  <2>2. CASE t \in (Len(h) + 1)..Len(h2)
    BY <2>2 DEF Extends
  <2> QED  BY <1>1, <2>1, <2>2
<1> QED  BY <1>2 DEF HaveInv

LEMMA HaveMade ==
  ASSUME NEW h, HeapInv(h), HaveInv(h), Len(h) < MaxObjects, NEW is \in {"table", "static", "value", "array"},
         NEW h2, h2 = Made(h, is)
  PROVE  HaveInv(h2)
<1>1. /\ Extends(h, h2) /\ Len(h2) = Len(h) + 1 /\ Len(h) \in Nat
      /\ h2[Len(h) + 1].is = is /\ Len(h2[Len(h) + 1].array_) = 0
  BY MadeInv, MadeEffect, ShapedFacts DEF HeapInv, Kind
<1>2. \A t \in (Len(h) + 1)..Len(h2) : t = Len(h) + 1
  BY <1>1
<1> QED  BY <1>1, <1>2, HaveExtend

LEMMA HaveInsert ==
  ASSUME NEW h, HeapInv(h), HaveInv(h), NEW t \in 1..Len(h), h[t].is = "table",
         NEW key \in Part, NEW v \in Nat, NEW h2, h2 = insert(h, t, key, v)
  PROVE  HaveInv(h2)
<1>1. /\ Len(h2) = Len(h)
      /\ \A u \in 1..Len(h) :
            /\ h2[u].is = h[u].is /\ h2[u].array_ = h[u].array_
            /\ \A k \in Part : h2[u].map_[k] = IF u = t /\ k = key THEN v ELSE h[u].map_[k]
  BY InsertEffect DEF HeapInv
<1>2. ASSUME NEW u \in 1..Len(h)
      PROVE  /\ h2[u].is # "table" => \A k \in Part : h2[u].map_[k] = 0
             /\ h2[u].is \in {"table", "value"} => Len(h2[u].array_) = 0
  <2>1. h2[u].is # "table" => u # t
    BY <1>1
  <2>2. h2[u].is # "table" => \A k \in Part : h2[u].map_[k] = 0
    BY <1>1, <2>1 DEF HaveInv
  <2>3. h2[u].is = h[u].is /\ h2[u].array_ = h[u].array_
    BY <1>1
  <2> QED  BY <2>2, <2>3 DEF HaveInv
<1> QED  BY <1>1, <1>2 DEF HaveInv

LEMMA HavePush ==
  ASSUME NEW h, HeapInv(h), HaveInv(h), NEW a \in 1..Len(h), h[a].is \in {"table_array", "static", "array"},
         NEW v \in Nat, NEW h2, h2 = push_back(h, a, v)
  PROVE  HaveInv(h2)
<1>1. Pushed(h, a, v, h2)
  BY PushEffect DEF HeapInv
<1>2. ASSUME NEW u \in 1..Len(h)
      PROVE  /\ h2[u].is # "table" => \A k \in Part : h2[u].map_[k] = 0
             /\ h2[u].is \in {"table", "value"} => Len(h2[u].array_) = 0
  <2>1. /\ h2[u].is = h[u].is /\ h2[u].map_ = h[u].map_
        /\ h2[u].is \in {"table", "value"} => h2[u].array_ = h[u].array_
    BY <1>1 DEF Pushed
  <2> QED  BY <2>1 DEF HaveInv
<1> QED  BY <1>1, <1>2 DEF HaveInv, Pushed

LEMMA HaveInsertFresh ==
  ASSUME DocInv, HaveInv(heap), NEW t \in 1..Len(heap), heap[t].is = "table", NEW key \in Part,
         Fresh <= MaxObjects, NEW h2, h2 = insert(Make("table"), t, key, Fresh)
  PROVE  HaveInv(h2)
<1> DEFINE g == Made(heap, "table")
<1>1. /\ HeapInv(heap) /\ Shaped(heap) /\ Len(heap) \in Nat
      /\ Fresh = Len(heap) + 1 /\ Len(heap) < MaxObjects
  BY ShapedFacts, DocumentAssumption DEF DocInv, HeapInv, Fresh
<1>2. h2 = insert(g, t, key, Fresh)
  BY DEF Make, Made
<1>3. HeapInv(g) /\ HaveInv(g) /\ Len(g) = Len(heap) + 1 /\ g[t] = heap[t]
  BY <1>1, MadeInv, MadeEffect, HaveMade DEF Kind
<1> HIDE DEF g
<1> QED  BY <1>1, <1>2, <1>3, HaveInsert

LEMMA HaveLastOfArray ==
  ASSUME DocInv, HaveInv(heap), NEW part \in Part, LastOfArray(part)
  PROVE  HaveInv(heap')
<1>0. /\ curr_table \in 1..Len(heap) /\ heap[curr_table].is = "table"
      /\ HeapInv(heap) /\ Shaped(heap) /\ Len(heap) \in Nat
      /\ Fresh = Len(heap) + 1 /\ MaxObjects \in Nat
  BY ShapedFacts, DocumentAssumption DEF DocInv, HeapInv, PlaceInv, IsTable, Fresh
<1>1. CASE Free(curr_table, part)
  <2> DEFINE g == MadeTableArray(heap)
  <2>1. Len(heap) + 2 <= MaxObjects /\ heap' = insert(g, curr_table, part, Fresh)
    BY <1>0, <1>1 DEF LastOfArray, TableArray, MadeTableArray
  <2>2. /\ HeapInv(g) /\ Extends(heap, g) /\ Len(g) = Len(heap) + 2
        /\ g[Len(heap) + 1].is = "table_array" /\ Len(g[Len(heap) + 2].array_) = 0
        /\ g[Len(heap) + 2].is = "table"
    BY <1>0, <2>1, TableArrayInv
  <2> HIDE DEF g
  <2>3. \A t \in (Len(heap) + 1)..Len(g) : t = Len(heap) + 1 \/ t = Len(heap) + 2
    BY <1>0, <2>2
  <2>4. HaveInv(g)
    BY <1>0, <2>2, <2>3, HaveExtend
  <2>5. curr_table \in 1..Len(g) /\ g[curr_table].is = "table" /\ Fresh \in Nat
    BY <1>0, <2>2 DEF Extends
  <2> QED  BY <2>1, <2>2, <2>4, <2>5, HaveInsert
<1>2. CASE ~ Free(curr_table, part)
  <2> DEFINE g == Made(heap, "table")
             a == heap[curr_table].map_[part]
  <2>1. heap[a].is = "table_array" /\ Fresh <= MaxObjects /\ heap' = push_back(g, a, Fresh)
    BY <1>2 DEF LastOfArray, Make, Made
  <2>2. a \in 1..Len(heap) /\ Len(heap) < MaxObjects
    BY <1>0, <1>2, <2>1, Found
  <2>3. HeapInv(g) /\ HaveInv(g) /\ Len(g) = Len(heap) + 1 /\ g[a] = heap[a]
    BY <1>0, <2>2, MadeInv, MadeEffect, HaveMade DEF Kind
  <2> HIDE DEF g, a
  <2>4. a \in 1..Len(g) /\ Fresh \in Nat
    BY <1>0, <2>2, <2>3
  <2> QED  BY <2>1, <2>3, <2>4, HavePush
<1> QED  BY <1>1, <1>2

LEMMA HaveReturn ==
  ASSUME NEW g, NEW st, NEW v \in Nat, HeapInv(g), StackInv(g, st), st # <<>>, HaveInv(g),
         st[Len(st)].is # "table", Return(g, st, v)
  PROVE  HaveInv(heap')
<1> DEFINE top == st[Len(st)]
<1>1. /\ top.key \in Part /\ top.in \in 1..Len(g) /\ top.is \in {"pair", "array", "arrays"}
      /\ Len(st) \in 1..Len(st)
  BY TopFacts
<1>2. /\ top.is = "pair" => g[top.in].is = "table"
      /\ top.is # "pair" => g[top.in].is \in {"static", "array"}
  BY <1>1 DEF StackInv, FramesAreObjects, Builds
<1>3. CASE top.is = "pair"
  <2>1. heap' = insert(g, top.in, top.key, v)
    BY <1>3 DEF Return
  <2> QED  BY <1>1, <1>2, <1>3, <2>1, HaveInsert
<1>4. CASE top.is \in {"array", "arrays"}
  <2>1. heap' = push_back(g, top.in, v)
    BY <1>4 DEF Return
  <2> QED  BY <1>1, <1>2, <1>4, <2>1, HavePush
<1> QED  BY <1>1, <1>3, <1>4

LEMMA HaveBegin ==
  ASSUME NEW g, NEW st, HeapInv(g), HaveInv(g), BeginTable(g, st)
  PROVE  HaveInv(heap')
<1>1. /\ Len(g) < MaxObjects /\ heap' = Made(g, "table")
  BY DEF BeginTable, Made
<1> QED  BY <1>1, HaveMade

LEMMA HaveFresh ==
  ASSUME DocInv, mode \in {"value", "array"}, NEW g, HeapInv(g), Extends(heap, g), HaveInv(g),
         Return(g, stack, Fresh)
  PROVE  HaveInv(heap')
<1>1. /\ HeapInv(heap) /\ StackInv(heap, stack) /\ Shaped(heap) /\ Fresh \in Nat
      /\ stack # <<>> /\ stack[Len(stack)].is # "table"
  BY NextIs
<1>2. StackInv(g, stack)
  BY <1>1, StackExtends
<1> QED  BY <1>1, <1>2, HaveReturn

LEMMA HaveValue ==
  ASSUME DocInv, HaveInv(heap), parse_value
  PROVE  HaveInv(heap')
<1> DEFINE g == Made(heap, "value")
<1>1. HeapInv(heap) /\ Len(heap) < MaxObjects /\ mode \in {"value", "array"}
  BY NextIs DEF parse_value
<1>2. HeapInv(g) /\ Extends(heap, g) /\ HaveInv(g)
  BY <1>1, MadeInv, HaveMade
<1>3. Return(g, stack, Fresh)
  BY DEF parse_value, Make, Made
<1> HIDE DEF g
<1> QED  BY <1>1, <1>2, <1>3, HaveFresh

LEMMA HaveValueArray ==
  ASSUME DocInv, HaveInv(heap), parse_value_array
  PROVE  HaveInv(heap')
<1>1. /\ Fresh <= MaxObjects /\ Fresh = Len(heap) + 1 /\ Len(heap) \in Nat /\ MaxObjects \in Nat
      /\ HeapInv(heap) /\ mode \in {"value", "array"}
  BY NextIs DEF parse_value_array, ArrayIsNext
<1>2. PICK size \in 0..(MaxObjects - Fresh) : Return(Array(size), stack, Fresh)
  BY DEF parse_value_array
<1> DEFINE g == MadeArray(heap, size)
           n == Len(heap) + 1
<1>3. size \in Nat /\ Len(heap) + 1 + size <= MaxObjects
  BY <1>1
<1>4. HeapInv(g) /\ Extends(heap, g) /\ AddsArray(heap, size, g)
  <2> HIDE DEF g
  <2>1. g = MadeArray(heap, size)
    BY DEF g
  <2> QED  BY <1>1, <1>3, <2>1, ArrayInv
<1>5. Return(g, stack, Fresh)
  <2>1. Array(size) = MadeArray(heap, size)
    BY DEF Array, MadeArray, Fresh
  <2> QED  BY <1>2, <2>1
<1> HIDE DEF g
<1>6. ASSUME NEW t \in (Len(heap) + 1)..Len(g)
      PROVE  g[t].is \in {"table", "value"} => Len(g[t].array_) = 0
  <2>1. CASE t = n
    BY <1>4, <2>1 DEF AddsArray
  <2>2. CASE t # n
    BY <1>4, <2>2 DEF AddsArray
  <2> QED  BY <2>1, <2>2
<1>7. HaveInv(g)
  BY <1>1, <1>4, <1>6, HaveExtend
<1> QED  BY <1>1, <1>4, <1>5, <1>7, HaveFresh

LEMMA HaveArrayOfArrays ==
  ASSUME DocInv, HaveInv(heap), parse_array_of_arrays
  PROVE  HaveInv(heap')
<1>1. HeapInv(heap) /\ Len(heap) < MaxObjects /\ heap' = Made(heap, "array")
  BY NextIs DEF parse_array_of_arrays, ArrayIsNext, Make, Made
<1> QED  BY <1>1, HaveMade

LEMMA HaveObjectArray ==
  ASSUME DocInv, HaveInv(heap), parse_object_array
  PROVE  HaveInv(heap')
<1> DEFINE g == Made(heap, "static")
           f == [is |-> "array", in |-> Fresh, key |-> Empty]
<1>1. HeapInv(heap) /\ Shaped(heap) /\ BeginTable(g, Append(stack, f))
  BY DEF parse_object_array, DocInv, HeapInv, Make, Made
<1>2. Len(heap) < MaxObjects
  <2>1. heap \in Seq(Obj) /\ Object("static", <<>>) \in Obj /\ Len(heap) \in Nat
    <3>1. <<>> \in Seq(Nat) /\ "static" \in Kind
      BY DEF Kind
    <3> QED  BY <1>1, <3>1, ObjectIsObj, ShapedFacts DEF Shaped
  <2>2. Len(g) = Len(heap) + 1 /\ Len(g) < MaxObjects
    BY <1>1, <2>1, AppendProperties DEF Made, BeginTable
  <2> QED  BY <2>1, <2>2, DocumentAssumption
<1>3. HeapInv(g) /\ HaveInv(g)
  BY <1>1, <1>2, MadeInv, HaveMade
<1> HIDE DEF f, g
<1> QED  BY <1>1, <1>3, HaveBegin

LEMMA HaveEndOfValue ==
  ASSUME DocInv, HaveInv(heap), EndOfValue
  PROVE  HaveInv(heap')
<1> DEFINE top == stack[Len(stack)]
           st  == Popped(stack)
           below == stack[Len(stack) - 1]
<1>1. /\ top.is # "pair" /\ stack # <<>>
      /\ HeapInv(heap) /\ StackInv(heap, stack)
      /\ Return(heap, st, top.in)
  BY DEF EndOfValue, Top, Popped, DocInv, ModeInv
<1>2. /\ Len(stack) \in Nat \ {0} /\ Len(stack) \in 1..Len(stack) /\ top.in \in Nat
      /\ top.is \in {"table", "array", "arrays"} /\ stack \in Seq(FrameType)
  BY <1>1, TopFacts DEF StackInv, FramesAreObjects
<1>3. Len(stack) # 1 /\ below.is \in {"pair", "array", "arrays"}
  BY <1>1, <1>2 DEF StackInv, Nested
<1>4. /\ StackInv(heap, st) /\ Len(st) = Len(stack) - 1
      /\ \A i \in 1..(Len(stack) - 1) : st[i] = stack[i]
  BY <1>1, <1>2, StackPops, PopFacts
<1>5. Len(st) \in 1..(Len(stack) - 1) /\ st[Len(st)] = below /\ st # <<>>
  BY <1>2, <1>3, <1>4
<1> HIDE DEF top, st, below
<1> QED  BY <1>1, <1>2, <1>3, <1>4, <1>5, HaveReturn

LEMMA HaveStep ==
  ASSUME DocInv, HaveInv(heap), [parse]_vars
  PROVE  HaveInv(heap')
<1>1. /\ HeapInv(heap) /\ curr_table \in 1..Len(heap) /\ walk \in 1..Len(heap)
      /\ heap[curr_table].is = "table" /\ heap[walk].is = "table"
  BY DEF DocInv, PlaceInv, IsTable
<1>2. CASE UNCHANGED heap
  BY <1>2
<1>3. ASSUME NEW part \in Part, EnterTable(part)
      PROVE  HaveInv(heap')
  <2>1. CASE Free(curr_table, part)
    BY <1>1, <1>3, <2>1, HaveInsertFresh DEF EnterTable
  <2>2. CASE ~ Free(curr_table, part)
    BY <1>2, <1>3, <2>2 DEF EnterTable
  <2> QED  BY <2>1, <2>2
<1>4. ASSUME NEW part \in Part, parse_key_value(part)
      PROVE  HaveInv(heap')
  <2>1. CASE Free(walk, part)
    BY <1>1, <1>4, <2>1, HaveInsertFresh DEF parse_key_value
  <2>2. CASE ~ Free(walk, part)
    BY <1>2, <1>4, <2>2 DEF parse_key_value
  <2> QED  BY <2>1, <2>2
<1>5. CASE parse_inline_table \/ NextElement
  <2>1. BeginTable(heap, stack)
    BY <1>5 DEF parse_inline_table, NextElement
  <2> QED  BY <1>1, <2>1, HaveBegin
<1>6. CASE parse_table \/ BeginPair \/ EndOfFile \/ Malformed \/ NextPair \/ NextArray \/ UNCHANGED vars
  BY <1>2, <1>6 DEF parse_table, BeginPair, EndOfFile, Malformed, throw_parse_exception, NextPair, NextArray, vars
<1>7. ASSUME NEW part \in Part, NEW last \in BOOLEAN,
             parse_single_table(part, last) \/ parse_table_array(part, last)
      PROVE  HaveInv(heap')
  BY <1>3, <1>7, HaveLastOfArray DEF parse_single_table, parse_table_array
<1>8. ASSUME NEW part \in Part, LastOfKey(part)  PROVE HaveInv(heap')
  BY <1>2, <1>8 DEF LastOfKey
<1> QED
  BY <1>4, <1>5, <1>6, <1>7, <1>8, HaveValue, HaveValueArray, HaveArrayOfArrays,
     HaveObjectArray, HaveEndOfValue DEF parse

(* What Visit computes, step by step, and that it exists.                   *)
VisitLevel(objects, order, n, deeper) ==
  [of \in Writers(ToSet(order)) \X Nat \X BOOLEAN |->
     IF n = 0 THEN of[1] ELSE visit(deeper, objects, order, of[1], of[2], of[3])]

VisitLeveled(objects, order, n, f) ==
  f[0] = VisitLevel(objects, order, 0, <<>>) /\ \A k \in 1..n : f[k] = VisitLevel(objects, order, k, f[k - 1])

LEMMA VisitLeveledExists ==
  ASSUME NEW objects, NEW order, NEW n \in Nat
  PROVE  \E f : VisitLeveled(objects, order, n, f)
<1> DEFINE T == {k \in Nat : \E f : VisitLeveled(objects, order, k, f)}
<1>1. 0 \in T
  <2>1. VisitLeveled(objects, order, 0, [k \in 0..0 |-> VisitLevel(objects, order, 0, <<>>)])
    BY DEF VisitLeveled
  <2> QED  BY <2>1
<1>2. ASSUME NEW m \in Nat, m \in T  PROVE m + 1 \in T
  <2>1. PICK f : VisitLeveled(objects, order, m, f)
    BY <1>2
  <2> DEFINE g == [k \in 0..(m + 1) |-> IF k = m + 1 THEN VisitLevel(objects, order, m + 1, f[m]) ELSE f[k]]
  <2>2. g[0] = VisitLevel(objects, order, 0, <<>>)
    BY <2>1 DEF VisitLeveled
  <2>3. ASSUME NEW k \in 1..(m + 1)  PROVE g[k] = VisitLevel(objects, order, k, g[k - 1])
    <3>1. CASE k = m + 1
      <4>1. k - 1 = m /\ m # m + 1 /\ m \in 0..(m + 1) /\ k \in 0..(m + 1)
        BY <3>1
      <4>2. g[k] = VisitLevel(objects, order, m + 1, f[m]) /\ g[m] = f[m]
        BY <3>1, <4>1
      <4> QED  BY <3>1, <4>1, <4>2
    <3>2. CASE k # m + 1
      <4>1. k \in 1..m /\ k - 1 # m + 1 /\ k \in 0..(m + 1) /\ k - 1 \in 0..(m + 1)
        BY <3>2
      <4>2. g[k] = f[k] /\ g[k - 1] = f[k - 1]
        BY <3>2, <4>1
      <4> QED  BY <2>1, <4>1, <4>2 DEF VisitLeveled
    <3> QED  BY <3>1, <3>2
  <2> HIDE DEF g
  <2>4. VisitLeveled(objects, order, m + 1, g)
    BY <2>2, <2>3 DEF VisitLeveled
  <2> QED  BY <2>4
<1> HIDE DEF T
<1>3. n \in T
  BY <1>1, <1>2, Induction
<1> QED  BY <1>3 DEF T

LEMMA VisitSteps ==
  ASSUME NEW objects, NEW order
  PROVE  \A n \in Nat : Visits(objects, order)[n] = VisitLevel(objects, order, n, Visits(objects, order)[n - 1])
<1> DEFINE Is(g) == g = [n \in Nat |-> VisitLevel(objects, order, n, g[n - 1])]
           h == [n \in Nat |-> CHOOSE f : VisitLeveled(objects, order, n, f)]
           g == [n \in Nat |-> h[n][n]]
<1>1. \A n \in Nat : VisitLeveled(objects, order, n, h[n])
  BY VisitLeveledExists
<1>2. \A x, y : VisitLevel(objects, order, 0, x) = VisitLevel(objects, order, 0, y)
  BY DEF VisitLevel
<1> HIDE DEF h
<1>3. ASSUME NEW n \in Nat  PROVE \A k \in Nat : k <= n => h[n][k] = h[n + 1][k]
  <2> DEFINE S == {k \in Nat : k <= n => h[n][k] = h[n + 1][k]}
  <2>1. 0 \in S
    BY <1>1 DEF VisitLeveled
  <2>2. ASSUME NEW k \in Nat, k \in S  PROVE k + 1 \in S
    <3> SUFFICES ASSUME k + 1 <= n  PROVE h[n][k + 1] = h[n + 1][k + 1]
      OBVIOUS
    <3>1. k + 1 \in 1..n /\ k + 1 \in 1..(n + 1) /\ (k + 1) - 1 = k /\ k <= n /\ n + 1 \in Nat
      OBVIOUS
    <3>2. h[n][k] = h[n + 1][k]
      BY <2>2, <3>1
    <3> HIDE DEF S
    <3>3. h[n][k + 1] = VisitLevel(objects, order, k + 1, h[n][(k + 1) - 1])
      BY <1>1, <3>1 DEF VisitLeveled
    <3>4. h[n + 1][k + 1] = VisitLevel(objects, order, k + 1, h[n + 1][(k + 1) - 1])
      BY <1>1, <3>1 DEF VisitLeveled
    <3> QED  BY <3>1, <3>2, <3>3, <3>4
  <2> HIDE DEF S
  <2>3. Nat \subseteq S
    BY <2>1, <2>2, Induction
  <2> QED  BY <2>3 DEF S
<1>4. g[0] = VisitLevel(objects, order, 0, <<>>)
  BY <1>1 DEF VisitLeveled
<1>5. ASSUME NEW k \in Nat \ {0}  PROVE g[k] = VisitLevel(objects, order, k, g[k - 1])
  <2>1. k - 1 \in Nat /\ k \in 1..k /\ (k - 1) + 1 = k
    OBVIOUS
  <2>2. h[k][k] = VisitLevel(objects, order, k, h[k][k - 1])
    BY <1>1, <2>1 DEF VisitLeveled
  <2>3. h[k - 1][k - 1] = h[k][k - 1]
    BY <1>3, <2>1
  <2> QED  BY <2>1, <2>2, <2>3
<1>6. Is(g)
  <2> DEFINE rhs == [n \in Nat |-> VisitLevel(objects, order, n, g[n - 1])]
  <2>1. ASSUME NEW n \in Nat  PROVE g[n] = rhs[n]
    <3>1. CASE n = 0
      <4>1. rhs[n] = VisitLevel(objects, order, 0, g[n - 1])
        BY <3>1
      <4>2. VisitLevel(objects, order, 0, g[n - 1]) = VisitLevel(objects, order, 0, <<>>)
        BY <1>2
      <4> QED  BY <1>4, <3>1, <4>1, <4>2
    <3>2. CASE n # 0
      BY <1>5, <3>2
    <3> QED  BY <3>1, <3>2
  <2>2. g = [n \in Nat |-> g[n]]
    OBVIOUS
  <2> HIDE DEF g
  <2> QED  BY <2>1, <2>2
<1> HIDE DEF g
<1>7. Visits(objects, order) = CHOOSE f : Is(f)
  BY DEF Visits, VisitLevel
<1>8. Is(Visits(objects, order))
  BY <1>6, <1>7
<1> QED  BY <1>8

(* What EntriesTo computes, step by step, and that it exists.               *)
EntriesLevel(n, deeper) ==
  [of \in Nat \X Seq(Part \X Nat) |->
     IF n = 0 THEN {} ELSE EntriesOf(deeper, of[1], of[2])]

EntriesLeveled(n, f) ==
  f[0] = EntriesLevel(0, <<>>) /\ \A k \in 1..n : f[k] = EntriesLevel(k, f[k - 1])

LEMMA EntriesLeveledExists ==
  ASSUME NEW n \in Nat
  PROVE  \E f : EntriesLeveled(n, f)
<1> DEFINE T == {k \in Nat : \E f : EntriesLeveled(k, f)}
<1>1. 0 \in T
  <2>1. EntriesLeveled(0, [k \in 0..0 |-> EntriesLevel(0, <<>>)])
    BY DEF EntriesLeveled
  <2> QED  BY <2>1
<1>2. ASSUME NEW m \in Nat, m \in T  PROVE m + 1 \in T
  <2>1. PICK f : EntriesLeveled(m, f)
    BY <1>2
  <2> DEFINE g == [k \in 0..(m + 1) |-> IF k = m + 1 THEN EntriesLevel(m + 1, f[m]) ELSE f[k]]
  <2>2. g[0] = EntriesLevel(0, <<>>)
    BY <2>1 DEF EntriesLeveled
  <2>3. ASSUME NEW k \in 1..(m + 1)  PROVE g[k] = EntriesLevel(k, g[k - 1])
    <3>1. CASE k = m + 1
      <4>1. k - 1 = m /\ m # m + 1 /\ m \in 0..(m + 1) /\ k \in 0..(m + 1)
        BY <3>1
      <4>2. g[k] = EntriesLevel(m + 1, f[m]) /\ g[m] = f[m]
        BY <3>1, <4>1
      <4> QED  BY <3>1, <4>1, <4>2
    <3>2. CASE k # m + 1
      <4>1. k \in 1..m /\ k - 1 # m + 1 /\ k \in 0..(m + 1) /\ k - 1 \in 0..(m + 1)
        BY <3>2
      <4>2. g[k] = f[k] /\ g[k - 1] = f[k - 1]
        BY <3>2, <4>1
      <4> QED  BY <2>1, <4>1, <4>2 DEF EntriesLeveled
    <3> QED  BY <3>1, <3>2
  <2> HIDE DEF g
  <2>4. EntriesLeveled(m + 1, g)
    BY <2>2, <2>3 DEF EntriesLeveled
  <2> QED  BY <2>4
<1> HIDE DEF T
<1>3. n \in T
  BY <1>1, <1>2, Induction
<1> QED  BY <1>3 DEF T

LEMMA EntriesToSteps ==
  \A n \in Nat : EntriesTo[n] = EntriesLevel(n, EntriesTo[n - 1])
<1> DEFINE Is(g) == g = [n \in Nat |-> EntriesLevel(n, g[n - 1])]
           h == [n \in Nat |-> CHOOSE f : EntriesLeveled(n, f)]
           g == [n \in Nat |-> h[n][n]]
<1>1. \A n \in Nat : EntriesLeveled(n, h[n])
  BY EntriesLeveledExists
<1>2. \A x, y : EntriesLevel(0, x) = EntriesLevel(0, y)
  BY DEF EntriesLevel
<1> HIDE DEF h
<1>3. ASSUME NEW n \in Nat  PROVE \A k \in Nat : k <= n => h[n][k] = h[n + 1][k]
  <2> DEFINE S == {k \in Nat : k <= n => h[n][k] = h[n + 1][k]}
  <2>1. 0 \in S
    BY <1>1 DEF EntriesLeveled
  <2>2. ASSUME NEW k \in Nat, k \in S  PROVE k + 1 \in S
    <3> SUFFICES ASSUME k + 1 <= n  PROVE h[n][k + 1] = h[n + 1][k + 1]
      OBVIOUS
    <3>1. k + 1 \in 1..n /\ k + 1 \in 1..(n + 1) /\ (k + 1) - 1 = k /\ k <= n /\ n + 1 \in Nat
      OBVIOUS
    <3>2. h[n][k] = h[n + 1][k]
      BY <2>2, <3>1
    <3> HIDE DEF S
    <3>3. h[n][k + 1] = EntriesLevel(k + 1, h[n][(k + 1) - 1])
      BY <1>1, <3>1 DEF EntriesLeveled
    <3>4. h[n + 1][k + 1] = EntriesLevel(k + 1, h[n + 1][(k + 1) - 1])
      BY <1>1, <3>1 DEF EntriesLeveled
    <3> QED  BY <3>1, <3>2, <3>3, <3>4
  <2> HIDE DEF S
  <2>3. Nat \subseteq S
    BY <2>1, <2>2, Induction
  <2> QED  BY <2>3 DEF S
<1>4. g[0] = EntriesLevel(0, <<>>)
  BY <1>1 DEF EntriesLeveled
<1>5. ASSUME NEW k \in Nat \ {0}  PROVE g[k] = EntriesLevel(k, g[k - 1])
  <2>1. k - 1 \in Nat /\ k \in 1..k /\ (k - 1) + 1 = k
    OBVIOUS
  <2>2. h[k][k] = EntriesLevel(k, h[k][k - 1])
    BY <1>1, <2>1 DEF EntriesLeveled
  <2>3. h[k - 1][k - 1] = h[k][k - 1]
    BY <1>3, <2>1
  <2> QED  BY <2>1, <2>2, <2>3
<1>6. Is(g)
  <2> DEFINE rhs == [n \in Nat |-> EntriesLevel(n, g[n - 1])]
  <2>1. ASSUME NEW n \in Nat  PROVE g[n] = rhs[n]
    <3>1. CASE n = 0
      <4>1. rhs[n] = EntriesLevel(0, g[n - 1])
        BY <3>1
      <4>2. EntriesLevel(0, g[n - 1]) = EntriesLevel(0, <<>>)
        BY <1>2
      <4> QED  BY <1>4, <3>1, <4>1, <4>2
    <3>2. CASE n # 0
      BY <1>5, <3>2
    <3> QED  BY <3>1, <3>2
  <2>2. g = [n \in Nat |-> g[n]]
    OBVIOUS
  <2> HIDE DEF g
  <2> QED  BY <2>1, <2>2
<1> HIDE DEF g
<1>7. EntriesTo = CHOOSE f : Is(f)
  BY DEF EntriesTo, EntriesLevel
<1>8. Is(EntriesTo)
  BY <1>6, <1>7
<1> QED  BY <1>8

-------------------------------------------------------------------------------
(***************************************************************************)
(* The lines of what is written: of tokens, the last line not ended.       *)
(***************************************************************************)
Token == Tokens(Part)

LineLists == Seq(Seq(Token)) \ {<<>>}

OneMore(lines, token) ==
  IF token = "\n" THEN Append(lines, <<>>) ELSE Append(Front(lines), Append(Last(lines), token))

LEMMA EndsAre ==
  ASSUME NEW S, NEW s \in Seq(S), s # <<>>
  PROVE  /\ Front(s) \in Seq(S) /\ Last(s) \in S /\ Len(s) \in Nat \ {0}
         /\ Len(Front(s)) = Len(s) - 1 /\ \A i \in 1..(Len(s) - 1) : Front(s)[i] = s[i]
         /\ Append(Front(s), Last(s)) = s
<1>1. Len(s) \in Nat \ {0} /\ Len(s) - 1 \in 0..(Len(s) - 1) /\ (Len(s) - 1) + 1 = Len(s)
  OBVIOUS
<1> DEFINE q == SubSeq(s, 1, Len(s) - 1)
           e == s[Len(s)]
<1>2. q \in Seq(S) /\ e \in S /\ s = Append(q, e)
  <2>1. /\ q \in Seq(S) /\ s[(Len(s) - 1) + 1] \in S
        /\ SubSeq(s, 1, (Len(s) - 1) + 1) = Append(q, s[(Len(s) - 1) + 1])
    BY <1>1, FirstOnes
  <2> QED  BY <1>1, <2>1, FirstOnes
<1> HIDE DEF q, e
<1>3. Len(s) = Len(q) + 1 /\ \A i \in 1..Len(q) : s[i] = q[i]
  BY <1>2, AppendHas
<1>4. Front(s) = q /\ Last(s) = e
  BY DEF Front, Last, q, e
<1>5. Len(q) \in Nat /\ Len(q) = Len(s) - 1
  BY <1>1, <1>2, <1>3
<1> QED  BY <1>1, <1>2, <1>3, <1>4, <1>5

(* A sequence and its last element.                                        *)
LEMMA AppendEnds ==
  ASSUME NEW S, NEW s \in Seq(S), NEW e \in S
  PROVE  /\ Front(Append(s, e)) = s /\ Last(Append(s, e)) = e /\ Append(s, e) # <<>>
         /\ Append(s, e) \in Seq(S)
<1>1. /\ Append(s, e) \in Seq(S) /\ Len(Append(s, e)) = Len(s) + 1 /\ Len(s) \in Nat
      /\ \A i \in 1..Len(s) : Append(s, e)[i] = s[i]
      /\ Append(s, e)[Len(s) + 1] = e
  BY AppendHas
<1>2. Append(s, e) # <<>> /\ Last(Append(s, e)) = e
  BY <1>1 DEF Last
<1> DEFINE q == Append(s, e)
<1> HIDE DEF q
<1>3. /\ Front(q) \in Seq(S) /\ Len(Front(q)) = Len(q) - 1
      /\ \A i \in 1..(Len(q) - 1) : Front(q)[i] = q[i]
  BY <1>1, <1>2, EndsAre DEF q
<1>4. Len(q) - 1 = Len(s) /\ \A i \in 1..Len(s) : q[i] = s[i]
  BY <1>1 DEF q
<1>5. Front(q) = s
  BY <1>3, <1>4, SameSeq
<1> QED  BY <1>1, <1>2, <1>5 DEF q

LEMMA OneMoreIs ==
  ASSUME NEW lines \in LineLists, NEW token \in Token
  PROVE  OneMore(lines, token) \in LineLists
<1>1. Front(lines) \in Seq(Seq(Token)) /\ Last(lines) \in Seq(Token) /\ lines \in Seq(Seq(Token))
  BY EndsAre DEF LineLists
<1>2. Append(Last(lines), token) \in Seq(Token) /\ <<>> \in Seq(Token)
  BY <1>1, AppendHas, EmptySeq
<1>3. \A e \in Seq(Token), q \in Seq(Seq(Token)) : Append(q, e) \in Seq(Seq(Token)) /\ Append(q, e) # <<>>
  BY AppendEnds
<1> QED  BY <1>1, <1>2, <1>3 DEF OneMore, LineLists

(* Lines takes the tokens one by one.                                      *)
LEMMA LinesFolds ==
  ASSUME NEW s \in Seq(Token)
  PROVE  \E f \in [0..Len(s) -> LineLists] :
            /\ f[0] = <<<<>>>> /\ Lines(s) = f[Len(s)]
            /\ \A i \in 1..Len(s) : f[i] = OneMore(f[i - 1], s[i])
<1> DEFINE n == Len(s)
           R == LineLists
           base == <<<<>>>>
           More(r, x) == OneMore(r, x)
           g == [p \in R \X (1..n) |-> More(p[1], s[p[2]])]
           Is(f) == f = [t \in SUBSET DOMAIN s |->
                           IF t = {} THEN base ELSE More(f[t \ {Max(t)}], s[Max(t)])]
           iter == CHOOSE f : Is(f)
           f0 == [i \in 0..n |-> iter[1..i]]
<1>1. n \in Nat /\ DOMAIN s = 1..n /\ \A i \in 1..n : s[i] \in Token
  OBVIOUS
<1>2. ASSUME NEW r \in R, NEW x \in Token  PROVE More(r, x) \in R
  BY OneMoreIs
<1>3. base \in R
  BY DEF LineLists
<1>5. Lines(s) = iter[1..n]
  BY <1>1 DEF Lines, OneMore, FoldLeft, MapThenFoldSet
<1> HIDE DEF More, R, base, n
<1>4. g \in [R \X (1..n) -> R]
  BY <1>1, <1>2
<1>6. PICK f \in [SUBSET (1..n) -> R] : Folds(n, base, g, f)
  <2> HIDE DEF g
  <2> QED  BY <1>1, <1>3, <1>4, FoldExists DEF HasFold
<1>7. Is(f)
  <2>1. ASSUME NEW t \in SUBSET (1..n), t # {}
        PROVE  g[<<f[t \ {Max(t)}], Max(t)>>] = More(f[t \ {Max(t)}], s[Max(t)])
    <3>1. Max(t) \in 1..n
      BY <1>1, <2>1, MaxIs
    <3>2. f[t \ {Max(t)}] \in R
      BY <1>6
    <3> DEFINE q == f[t \ {Max(t)}]
    <3> HIDE DEF q
    <3>3. q \in R
      BY <3>2 DEF q
    <3>4. g[<<q, Max(t)>>] = More(q, s[Max(t)])
      BY <3>1, <3>3
    <3> QED  BY <3>4 DEF q
  <2> HIDE DEF g
  <2>2. f = [t \in SUBSET (1..n) |-> IF t = {} THEN base ELSE g[<<f[t \ {Max(t)}], Max(t)>>]]
    BY <1>6 DEF Folds
  <2> DEFINE rhs == [t \in SUBSET DOMAIN s |-> IF t = {} THEN base ELSE More(f[t \ {Max(t)}], s[Max(t)])]
  <2>3. \A t \in SUBSET (1..n) : f[t] = rhs[t]
    BY <1>1, <2>1, <2>2
  <2>4. DOMAIN rhs = SUBSET (1..n) /\ DOMAIN f = SUBSET (1..n)
    BY <1>1, <1>6
  <2>5. rhs = [t \in SUBSET (1..n) |-> rhs[t]] /\ f = [t \in SUBSET (1..n) |-> f[t]]
    BY <2>4
  <2> HIDE DEF rhs
  <2>6. f = rhs
    BY <2>3, <2>5
  <2> QED  BY <2>6 DEF rhs
<1>8. Is(iter)
  BY <1>7
<1> HIDE DEF iter
<1>9. iter[{}] = base
  BY <1>8
<1>10. ASSUME NEW i \in 1..n  PROVE iter[1..i] = More(iter[1..(i - 1)], s[i])
  <2>0. n \in Nat /\ i \in Nat /\ 1..i \subseteq 1..n /\ i \in 1..i
    BY <1>1
  <2>1. 1..i \in SUBSET DOMAIN s /\ i \in 1..i /\ 1..i # {} /\ n \in Nat
    BY <1>1, <2>0
  <2>2. Max(1..i) \in 1..i /\ \A m \in 1..i : Max(1..i) >= m
    BY <1>1, <2>1, MaxIs
  <2>3. Max(1..i) = i
    BY <2>1, <2>2
  <2>4. (1..i) \ {i} = 1..(i - 1)
    OBVIOUS
  <2>5. iter[1..i] = More(iter[(1..i) \ {Max(1..i)}], s[Max(1..i)])
    BY <1>8, <2>1
  <2> QED  BY <2>3, <2>4, <2>5
<1>11. f0[0] = base
  <2>1. 1..0 = {} /\ 0 \in 0..n
    BY <1>1
  <2> QED  BY <1>9, <2>1
<1>12. f0[n] = iter[1..n]
  BY <1>1
<1>13. \A i \in 1..n : f0[i] = More(f0[i - 1], s[i])
  BY <1>1, <1>10
<1>14. \A i \in 0..n : f0[i] \in R
  <2> DEFINE T == {i \in Nat : i <= n => f0[i] \in R}
  <2> HIDE DEF f0
  <2>1. 0 \in T
    BY <1>3, <1>11
  <2>2. ASSUME NEW i \in Nat, i \in T  PROVE i + 1 \in T
    <3>1. i + 1 <= n => i + 1 \in 1..n /\ (i + 1) - 1 = i /\ i <= n
      BY <1>1
    <3>2. i + 1 <= n => f0[i + 1] \in R
      BY <1>1, <1>2, <1>13, <2>2, <3>1
    <3> QED  BY <3>2
  <2> HIDE DEF T
  <2>3. Nat \subseteq T
    BY <2>1, <2>2, Induction
  <2> QED  BY <1>1, <2>3 DEF T
<1>15. f0 \in [0..n -> R]
  BY <1>14
<1> HIDE DEF f0
<1>16. /\ f0 \in [0..n -> R] /\ f0[0] = base /\ Lines(s) = f0[n]
       /\ \A i \in 1..n : f0[i] = More(f0[i - 1], s[i])
  BY <1>5, <1>11, <1>12, <1>13, <1>15
<1> QED  BY <1>16 DEF n, R, base, More

LEMMA LinesGrow ==
  ASSUME NEW s \in Seq(Token), NEW x \in Token
  PROVE  /\ Lines(s) \in LineLists /\ Lines(<<>>) = <<<<>>>>
         /\ Lines(Append(s, x)) = OneMore(Lines(s), x)
<1> DEFINE t == Append(s, x)
           n == Len(s)
           More(r, y) == OneMore(r, y)
<1>1. /\ t \in Seq(Token) /\ Len(t) = n + 1 /\ t[n + 1] = x /\ n \in Nat
      /\ \A i \in 1..n : t[i] = s[i]
  BY AppendHas DEF t, n
<1> HIDE DEF t
<1>2. PICK f : /\ f \in [0..n -> LineLists] /\ f[0] = <<<<>>>> /\ Lines(s) = f[n]
               /\ \A i \in 1..n : f[i] = More(f[i - 1], s[i])
  BY LinesFolds
<1>3. PICK h : /\ h[0] = <<<<>>>> /\ Lines(t) = h[n + 1]
               /\ \A i \in 1..(n + 1) : h[i] = More(h[i - 1], t[i])
  <2>1. PICK g2 : /\ g2 \in [0..Len(t) -> LineLists] /\ g2[0] = <<<<>>>> /\ Lines(t) = g2[Len(t)]
                 /\ \A i \in 1..Len(t) : g2[i] = More(g2[i - 1], t[i])
    BY <1>1, LinesFolds
  <2> HIDE DEF More, n
  <2> QED  BY <1>1, <2>1
<1>4. Lines(<<>>) = <<<<>>>>
  <2>1. <<>> \in Seq(Token) /\ Len(<<>>) = 0
    OBVIOUS
  <2> HIDE DEF More, n
  <2>2. PICK g2 : g2[0] = <<<<>>>> /\ Lines(<<>>) = g2[Len(<<>>)]
    BY <2>1, LinesFolds
  <2> QED  BY <2>1, <2>2
<1> HIDE DEF More, n
<1> DEFINE T == {i \in Nat : i <= n => h[i] = f[i]}
<1>5. 0 \in T
  BY <1>2, <1>3
<1>6. ASSUME NEW i \in Nat, i \in T  PROVE i + 1 \in T
  <2>1. i + 1 <= n => i + 1 \in 1..n /\ (i + 1) - 1 = i /\ i <= n /\ i + 1 \in 1..(n + 1)
    BY <1>1
  <2> QED  BY <1>1, <1>2, <1>3, <1>6, <2>1
<1> HIDE DEF T
<1>7. h[n] = f[n]
  <2>1. n \in T
    BY <1>1, <1>5, <1>6, Induction
  <2> QED  BY <1>1, <2>1 DEF T
<1>8. n + 1 \in 1..(n + 1) /\ (n + 1) - 1 = n /\ n \in 0..n
  BY <1>1
<1>9. Lines(t) = More(Lines(s), x)
  BY <1>1, <1>2, <1>3, <1>7, <1>8
<1>10. Lines(s) \in LineLists
  BY <1>2, <1>8
<1> QED  BY <1>4, <1>9, <1>10 DEF More, t

-------------------------------------------------------------------------------
(***************************************************************************)
(* The reader: paths, where the keys of a header lead, and one line.       *)
(***************************************************************************)
PathStep == Part \X Nat
Path == Seq(PathStep)

EntryType == {e \in [path : Path, is : Kind] : e.path = <<>> => e.is # "table_array"}

Readers == [entries : SUBSET EntryType, at : Path, ok : BOOLEAN]

LEMMA SizeIs ==
  ASSUME NEW r, NEW p
  PROVE  Size(r, p) \in Nat
<1> DEFINE S == {i \in 1..MaxObjects : Entry(Element(p, i), "table") \in r.entries}
<1>1. S \subseteq 1..MaxObjects /\ MaxObjects \in Int /\ 1 \in Int
  BY DocumentAssumption
<1> HIDE DEF S
<1>2. IsFiniteSet(S)
  <2>1. IsFiniteSet(1..MaxObjects)
    BY <1>1, FS_Interval
  <2> QED  BY <1>1, <2>1, FS_Subset
<1>3. Cardinality(S) \in Nat
  BY <1>2, FS_CardinalityType
<1> QED  BY <1>3 DEF Size, S

LEMMA ElementIs ==
  ASSUME NEW p \in Path, p # <<>>, NEW i \in Nat
  PROVE  /\ Front(p) \in Path /\ Last(p) \in PathStep /\ Last(p)[1] \in Part
         /\ Element(p, i) \in Path /\ Len(Element(p, i)) = Len(p) /\ Element(p, i) # <<>>
         /\ Element(p, i) = Append(Front(p), <<Last(p)[1], i>>)
         /\ Front(Element(p, i)) = Front(p) /\ Last(Element(p, i)) = <<Last(p)[1], i>>
<1>1. /\ Front(p) \in Path /\ Last(p) \in PathStep /\ Len(p) \in Nat \ {0}
      /\ Len(Front(p)) = Len(p) - 1
  BY EndsAre DEF Path
<1>2. Last(p)[1] \in Part /\ <<Last(p)[1], i>> \in PathStep
  BY <1>1 DEF PathStep
<1> DEFINE q == Front(p)
           e == <<Last(p)[1], i>>
<1> HIDE DEF q, e
<1>3. /\ Append(q, e) \in Path /\ Len(Append(q, e)) = Len(q) + 1 /\ Append(q, e) # <<>>
      /\ Front(Append(q, e)) = q /\ Last(Append(q, e)) = e
  BY <1>1, <1>2, AppendHas, AppendEnds DEF Path, q, e
<1>4. Element(p, i) = Append(q, e)
  BY DEF Element, q, e
<1> QED  BY <1>1, <1>2, <1>3, <1>4 DEF q, e

(* An element of the array at a key.                                       *)
LEMMA ElementAt ==
  ASSUME NEW p \in Path, NEW key \in Part, NEW j \in Nat, NEW i \in Nat
  PROVE  /\ Append(p, <<key, j>>) \in Path /\ Append(p, <<key, j>>) # <<>>
         /\ Len(Append(p, <<key, j>>)) = Len(p) + 1
         /\ Element(Append(p, <<key, j>>), i) = Append(p, <<key, i>>)
<1> DEFINE e == <<key, j>>
<1>1. e \in PathStep /\ e[1] = key
  BY DEF PathStep
<1> HIDE DEF e
<1>2. /\ Append(p, e) \in Path /\ Append(p, e) # <<>> /\ Len(Append(p, e)) = Len(p) + 1
      /\ Front(Append(p, e)) = p /\ Last(Append(p, e)) = e
  BY <1>1, AppendHas, AppendEnds DEF Path
<1>3. Element(Append(p, e), i) = Append(p, <<key, i>>)
  BY <1>1, <1>2 DEF Element
<1> QED  BY <1>2, <1>3 DEF e

LEMMA InsideIs ==
  ASSUME NEW r \in Readers, NEW p \in Path
  PROVE  Inside(r, p) \in Path /\ Len(Inside(r, p)) = Len(p)
<1>1. Entry(p, "table_array") \in r.entries => p # <<>>
  BY DEF Readers, EntryType, Entry
<1>2. p # <<>> => Element(p, Size(r, p)) \in Path /\ Len(Element(p, Size(r, p))) = Len(p)
  BY SizeIs, ElementIs
<1> QED  BY <1>1, <1>2 DEF Inside

(* Named takes the keys one by one.                                        *)
LEMMA NamedFolds ==
  ASSUME NEW r \in Readers, NEW s \in Seq(Part)
  PROVE  \E f \in [0..Len(s) -> Path] :
            /\ f[0] = <<>> /\ Named(r, s) = f[Len(s)]
            /\ \A i \in 1..Len(s) : f[i] = Append(Inside(r, f[i - 1]), <<s[i], 0>>)
<1> DEFINE n == Len(s)
           R == Path
           base == <<>>
           More(q, x) == Append(Inside(r, q), <<x, 0>>)
           g == [p \in R \X (1..n) |-> More(p[1], s[p[2]])]
           Is(f) == f = [t \in SUBSET DOMAIN s |->
                           IF t = {} THEN base ELSE More(f[t \ {Max(t)}], s[Max(t)])]
           iter == CHOOSE f : Is(f)
           f0 == [i \in 0..n |-> iter[1..i]]
<1>1. n \in Nat /\ DOMAIN s = 1..n /\ \A i \in 1..n : s[i] \in Part
  OBVIOUS
<1>2. ASSUME NEW q \in R, NEW x \in Part  PROVE More(q, x) \in R
  <2>1. Inside(r, q) \in Path
    BY InsideIs
  <2> QED  BY <2>1, ElementAt
<1>3. base \in R
  BY EmptySeq DEF Path
<1>5. Named(r, s) = iter[1..n]
  BY <1>1 DEF Named, FoldLeft, MapThenFoldSet
<1> HIDE DEF More, R, base, n
<1>4. g \in [R \X (1..n) -> R]
  BY <1>1, <1>2
<1>6. PICK f \in [SUBSET (1..n) -> R] : Folds(n, base, g, f)
  <2> HIDE DEF g
  <2> QED  BY <1>1, <1>3, <1>4, FoldExists DEF HasFold
<1>7. Is(f)
  <2>1. ASSUME NEW t \in SUBSET (1..n), t # {}
        PROVE  g[<<f[t \ {Max(t)}], Max(t)>>] = More(f[t \ {Max(t)}], s[Max(t)])
    <3>1. Max(t) \in 1..n
      BY <1>1, <2>1, MaxIs
    <3>2. f[t \ {Max(t)}] \in R
      BY <1>6
    <3> DEFINE q == f[t \ {Max(t)}]
    <3> HIDE DEF q
    <3>3. q \in R
      BY <3>2 DEF q
    <3>4. g[<<q, Max(t)>>] = More(q, s[Max(t)])
      BY <3>1, <3>3
    <3> QED  BY <3>4 DEF q
  <2> HIDE DEF g
  <2>2. f = [t \in SUBSET (1..n) |-> IF t = {} THEN base ELSE g[<<f[t \ {Max(t)}], Max(t)>>]]
    BY <1>6 DEF Folds
  <2> DEFINE rhs == [t \in SUBSET DOMAIN s |-> IF t = {} THEN base ELSE More(f[t \ {Max(t)}], s[Max(t)])]
  <2>3. \A t \in SUBSET (1..n) : f[t] = rhs[t]
    BY <1>1, <2>1, <2>2
  <2>4. DOMAIN rhs = SUBSET (1..n) /\ DOMAIN f = SUBSET (1..n)
    BY <1>1, <1>6
  <2>5. rhs = [t \in SUBSET (1..n) |-> rhs[t]] /\ f = [t \in SUBSET (1..n) |-> f[t]]
    BY <2>4
  <2> HIDE DEF rhs
  <2>6. f = rhs
    BY <2>3, <2>5
  <2> QED  BY <2>6 DEF rhs
<1>8. Is(iter)
  BY <1>7
<1> HIDE DEF iter
<1>9. iter[{}] = base
  BY <1>8
<1>10. ASSUME NEW i \in 1..n  PROVE iter[1..i] = More(iter[1..(i - 1)], s[i])
  <2>0. n \in Nat /\ i \in Nat /\ 1..i \subseteq 1..n /\ i \in 1..i
    BY <1>1
  <2>1. 1..i \in SUBSET DOMAIN s /\ i \in 1..i /\ 1..i # {} /\ n \in Nat
    BY <1>1, <2>0
  <2>2. Max(1..i) \in 1..i /\ \A m \in 1..i : Max(1..i) >= m
    BY <1>1, <2>1, MaxIs
  <2>3. Max(1..i) = i
    BY <2>1, <2>2
  <2>4. (1..i) \ {i} = 1..(i - 1)
    OBVIOUS
  <2>5. iter[1..i] = More(iter[(1..i) \ {Max(1..i)}], s[Max(1..i)])
    BY <1>8, <2>1
  <2> QED  BY <2>3, <2>4, <2>5
<1>11. f0[0] = base
  <2>1. 1..0 = {} /\ 0 \in 0..n
    BY <1>1
  <2> QED  BY <1>9, <2>1
<1>12. f0[n] = iter[1..n]
  BY <1>1
<1>13. \A i \in 1..n : f0[i] = More(f0[i - 1], s[i])
  BY <1>1, <1>10
<1>14. \A i \in 0..n : f0[i] \in R
  <2> DEFINE T == {i \in Nat : i <= n => f0[i] \in R}
  <2> HIDE DEF f0
  <2>1. 0 \in T
    BY <1>3, <1>11
  <2>2. ASSUME NEW i \in Nat, i \in T  PROVE i + 1 \in T
    <3>1. i + 1 <= n => i + 1 \in 1..n /\ (i + 1) - 1 = i /\ i <= n
      BY <1>1
    <3>2. i + 1 <= n => f0[i + 1] \in R
      BY <1>1, <1>2, <1>13, <2>2, <3>1
    <3> QED  BY <3>2
  <2> HIDE DEF T
  <2>3. Nat \subseteq T
    BY <2>1, <2>2, Induction
  <2> QED  BY <1>1, <2>3 DEF T
<1>15. f0 \in [0..n -> R]
  BY <1>14
<1> HIDE DEF f0
<1>16. /\ f0 \in [0..n -> R] /\ f0[0] = base /\ Named(r, s) = f0[n]
       /\ \A i \in 1..n : f0[i] = More(f0[i - 1], s[i])
  BY <1>5, <1>11, <1>12, <1>13, <1>15
<1> QED  BY <1>16 DEF n, R, base, More

LEMMA NamedGrow ==
  ASSUME NEW r \in Readers, NEW s \in Seq(Part), NEW x \in Part
  PROVE  /\ Named(r, s) \in Path /\ Named(r, <<>>) = <<>>
         /\ Named(r, Append(s, x)) = Append(Inside(r, Named(r, s)), <<x, 0>>)
<1> DEFINE t == Append(s, x)
           n == Len(s)
           More(q, y) == Append(Inside(r, q), <<y, 0>>)
<1>1. /\ t \in Seq(Part) /\ Len(t) = n + 1 /\ t[n + 1] = x /\ n \in Nat
      /\ \A i \in 1..n : t[i] = s[i]
  BY AppendHas DEF t, n
<1> HIDE DEF t
<1>2. PICK f : /\ f \in [0..n -> Path] /\ f[0] = <<>> /\ Named(r, s) = f[n]
               /\ \A i \in 1..n : f[i] = More(f[i - 1], s[i])
  BY NamedFolds
<1>3. PICK h : /\ h[0] = <<>> /\ Named(r, t) = h[n + 1]
               /\ \A i \in 1..(n + 1) : h[i] = More(h[i - 1], t[i])
  <2>1. PICK g2 : /\ g2 \in [0..Len(t) -> Path] /\ g2[0] = <<>> /\ Named(r, t) = g2[Len(t)]
                 /\ \A i \in 1..Len(t) : g2[i] = More(g2[i - 1], t[i])
    <3>1. t \in Seq(Part)
      BY <1>1
    <3>2. \E g2 \in [0..Len(t) -> Path] :
             /\ g2[0] = <<>> /\ Named(r, t) = g2[Len(t)]
             /\ \A i \in 1..Len(t) : g2[i] = Append(Inside(r, g2[i - 1]), <<t[i], 0>>)
      BY <3>1, NamedFolds
    <3> QED  BY <3>2
  <2> HIDE DEF More, n
  <2> QED  BY <1>1, <2>1
<1>4. Named(r, <<>>) = <<>>
  <2>1. <<>> \in Seq(Part) /\ Len(<<>>) = 0
    OBVIOUS
  <2> HIDE DEF More, n
  <2>2. PICK g2 : g2[0] = <<>> /\ Named(r, <<>>) = g2[Len(<<>>)]
    BY <2>1, NamedFolds
  <2> QED  BY <2>1, <2>2
<1> HIDE DEF More, n
<1> DEFINE T == {i \in Nat : i <= n => h[i] = f[i]}
<1>5. 0 \in T
  BY <1>2, <1>3
<1>6. ASSUME NEW i \in Nat, i \in T  PROVE i + 1 \in T
  <2>1. i + 1 <= n => i + 1 \in 1..n /\ (i + 1) - 1 = i /\ i <= n /\ i + 1 \in 1..(n + 1)
    BY <1>1
  <2> QED  BY <1>1, <1>2, <1>3, <1>6, <2>1
<1> HIDE DEF T
<1>7. h[n] = f[n]
  <2>1. n \in T
    BY <1>1, <1>5, <1>6, Induction
  <2> QED  BY <1>1, <2>1 DEF T
<1>8. n + 1 \in 1..(n + 1) /\ (n + 1) - 1 = n /\ n \in 0..n
  BY <1>1
<1>9. Named(r, t) = More(Named(r, s), x)
  BY <1>1, <1>2, <1>3, <1>7, <1>8
<1>10. Named(r, s) \in Path
  BY <1>2, <1>8
<1> QED  BY <1>4, <1>9, <1>10 DEF More, t

LEMMA NamedIs ==
  ASSUME NEW r \in Readers, NEW ks \in Seq(Part)
  PROVE  Named(r, ks) \in Path /\ Len(Named(r, ks)) = Len(ks)
<1> DEFINE n == Len(ks)
<1>1. n \in Nat /\ \A i \in 1..n : ks[i] \in Part
  OBVIOUS
<1>2. PICK f \in [0..n -> Path] :
             /\ f[0] = <<>> /\ Named(r, ks) = f[n]
             /\ \A i \in 1..n : f[i] = Append(Inside(r, f[i - 1]), <<ks[i], 0>>)
  BY NamedFolds
<1> DEFINE T == {i \in Nat : i <= n => Len(f[i]) = i}
<1> HIDE DEF n
<1>3. 0 \in T
  <2>1. Len(<<>>) = 0
    OBVIOUS
  <2> QED  BY <1>2, <2>1
<1>4. ASSUME NEW i \in Nat, i \in T  PROVE i + 1 \in T
  <2> SUFFICES ASSUME i + 1 <= n  PROVE Len(f[i + 1]) = i + 1
    OBVIOUS
  <2>1. i + 1 \in 1..n /\ (i + 1) - 1 = i /\ i <= n /\ i \in 0..n
    BY <1>1
  <2>2. Len(f[i]) = i /\ f[i] \in Path
    BY <1>2, <1>4, <2>1
  <2>3. Inside(r, f[i]) \in Path /\ Len(Inside(r, f[i])) = i
    BY <2>2, InsideIs
  <2>4. f[i + 1] = Append(Inside(r, f[i]), <<ks[i + 1], 0>>)
    BY <1>2, <2>1
  <2>5. ks[i + 1] \in Part
    BY <1>1, <2>1
  <2> QED  BY <2>3, <2>4, <2>5, ElementAt
<1> HIDE DEF T
<1>5. n \in T
  BY <1>1, <1>3, <1>4, Induction
<1>6. n \in 0..n
  BY <1>1
<1> QED  BY <1>1, <1>2, <1>5, <1>6 DEF T, n

LEMMA TokensAre ==
  /\ \A key \in Part : /\ key \in Token
                       /\ key # "[" /\ key # "]" /\ key # "." /\ key # "=" /\ key # "," /\ key # "\n"
  /\ "[" \in Token /\ "]" \in Token /\ "." \in Token /\ "=" \in Token /\ "," \in Token
  /\ "\n" \in Token /\ "value" \in Token
<1>1. ASSUME NEW key \in Part
      PROVE  /\ key \in Token
             /\ key # "[" /\ key # "]" /\ key # "." /\ key # "=" /\ key # "," /\ key # "\n"
  <2>1. key \notin {"[", "]", ".", "=", ",", "\n"}
    BY TokenAssumption
  <2>2. key \in Token
    BY DEF Token, Tokens
  <2> QED  BY <2>1, <2>2
<1>2. /\ "[" \in Token /\ "]" \in Token /\ "." \in Token /\ "=" \in Token /\ "," \in Token
      /\ "\n" \in Token /\ "value" \in Token
  BY DEF Token, Tokens
<1> QED  BY <1>1, <1>2

(* The name in a header.                                                   *)
Dotted(ks) == FlattenSeq([i \in 1..Len(ks) |-> IF i = 1 THEN <<ks[1]>> ELSE <<".", ks[i]>>])

LEMMA DottedIs ==
  ASSUME NEW ks \in Seq(Part), ks # <<>>
  PROVE  /\ Dotted(ks) \in Seq(Token) /\ Len(Dotted(ks)) = 2 * Len(ks) - 1
         /\ \A i \in 1..Len(ks) : Dotted(ks)[2 * i - 1] = ks[i]
         /\ \A i \in 1..(Len(ks) - 1) : Dotted(ks)[2 * i] = "."
<1> DEFINE n == Len(ks)
           seqs == [i \in 1..n |-> IF i = 1 THEN <<ks[1]>> ELSE <<".", ks[i]>>]
           d == Dotted(ks)
<1>1. n \in Nat \ {0} /\ \A i \in 1..n : ks[i] \in Token
  <2>1. n \in Nat \ {0} /\ \A i \in 1..n : ks[i] \in Part
    BY EmptySeq
  <2> QED  BY <2>1, TokensAre
<1>2. "." \in Token /\ ks[1] \in Token
  <2>1. 1 \in 1..n
    BY <1>1
  <2> QED  BY <1>1, <2>1, TokensAre
<1>3. ASSUME NEW i \in 1..n
      PROVE  /\ seqs[i] \in Seq(Token)
             /\ i = 1 => Len(seqs[i]) = 1 /\ seqs[i][1] = ks[i]
             /\ i # 1 => Len(seqs[i]) = 2 /\ seqs[i][1] = "." /\ seqs[i][2] = ks[i]
  <2>1. CASE i = 1
    BY <1>1, <1>2, <2>1, ShortOnes
  <2>2. CASE i # 1
    <3>1. seqs[i] = <<".", ks[i]>> /\ ks[i] \in Token
      BY <1>1, <2>2
    <3> HIDE DEF seqs
    <3> QED  BY <1>2, <2>2, <3>1, ShortOnes
  <2> QED  BY <2>1, <2>2
<1>4. seqs \in Seq(Seq(Token)) /\ Len(seqs) = n
  <2>1. seqs \in [1..n -> Seq(Token)]
    <3> DEFINE z == seqs
    <3>1. z = [i \in 1..n |-> z[i]]
      OBVIOUS
    <3> HIDE DEF z
    <3>2. \A i \in 1..n : z[i] \in Seq(Token)
      BY <1>3 DEF z
    <3> QED  BY <3>1, <3>2 DEF z
  <2> HIDE DEF seqs
  <2> QED  BY <1>1, <2>1
<1>5. d = FlattenSeq(seqs)
  BY DEF Dotted
<1> HIDE DEF n, seqs, d
<1>6. PICK end \in [0..n -> Nat] : PiecesEnd(seqs, d, end) /\ d \in Seq(Token)
  BY <1>1, <1>4, <1>5, FlattenIs
<1>7. /\ end[0] = 0 /\ end[n] = Len(d)
      /\ \A k \in 1..n : /\ end[k] = end[k - 1] + Len(seqs[k])
                         /\ \A i \in 1..Len(seqs[k]) : d[end[k - 1] + i] = seqs[k][i]
  BY <1>4, <1>6 DEF PiecesEnd
<1> DEFINE T == {k \in Nat : k \in 1..n => end[k] = 2 * k - 1}
<1>8. 0 \in T
  OBVIOUS
<1>9. ASSUME NEW k \in Nat, k \in T  PROVE k + 1 \in T
  <2> SUFFICES ASSUME k + 1 \in 1..n  PROVE end[k + 1] = 2 * (k + 1) - 1
    OBVIOUS
  <2>1. end[k + 1] = end[k] + Len(seqs[k + 1])
    <3>1. (k + 1) - 1 = k
      OBVIOUS
    <3> QED  BY <1>7, <3>1
  <2>2. CASE k = 0
    <3>1. end[k] = 0 /\ Len(seqs[k + 1]) = 1
      BY <1>3, <1>7, <2>2
    <3> QED  BY <2>1, <2>2, <3>1
  <2>3. CASE k # 0
    <3>1. k \in 1..n /\ k + 1 # 1
      BY <1>1, <2>3
    <3>2. end[k] = 2 * k - 1 /\ Len(seqs[k + 1]) = 2
      BY <1>3, <1>9, <3>1
    <3> QED  BY <2>1, <3>2
  <2> QED  BY <2>2, <2>3
<1> HIDE DEF T
<1>10. \A k \in 1..n : end[k] = 2 * k - 1
  <2>1. Nat \subseteq T
    BY <1>8, <1>9, Induction
  <2> QED  BY <1>1, <2>1 DEF T
<1>11. Len(d) = 2 * n - 1
  <2>1. n \in 1..n
    BY <1>1
  <2> QED  BY <1>7, <1>10, <2>1
<1>12. ASSUME NEW i \in 1..n  PROVE d[2 * i - 1] = ks[i]
  <2>1. CASE i = 1
    <3>1. 1 \in 1..Len(seqs[1]) /\ seqs[1][1] = ks[1] /\ 1 \in 1..n
      BY <1>1, <1>3
    <3>2. d[end[1 - 1] + 1] = seqs[1][1]
      BY <1>7, <3>1
    <3> QED  BY <1>7, <2>1, <3>1, <3>2
  <2>2. CASE i # 1
    <3>0. i - 1 \in 1..n
      BY <1>1, <2>2
    <3>1. Len(seqs[i]) = 2 /\ seqs[i][2] = ks[i] /\ end[i - 1] = 2 * (i - 1) - 1
      BY <1>3, <1>10, <2>2, <3>0
    <3>2. d[end[i - 1] + 2] = seqs[i][2]
      <4>1. 2 \in 1..Len(seqs[i])
        BY <3>1
      <4> QED  BY <1>7, <4>1
    <3>3. end[i - 1] + 2 = 2 * i - 1
      BY <3>1
    <3> QED  BY <3>1, <3>2, <3>3
  <2> QED  BY <2>1, <2>2
<1>13. ASSUME NEW i \in 1..(n - 1)  PROVE d[2 * i] = "."
  <2>1. i + 1 \in 1..n /\ i + 1 # 1 /\ (i + 1) - 1 = i /\ i \in 1..n
    BY <1>1
  <2>2. Len(seqs[i + 1]) = 2 /\ seqs[i + 1][1] = "." /\ end[i] = 2 * i - 1
    BY <1>3, <1>10, <2>1
  <2>3. d[end[(i + 1) - 1] + 1] = seqs[i + 1][1]
    <3>1. 1 \in 1..Len(seqs[i + 1])
      BY <2>2
    <3> QED  BY <1>7, <2>1, <3>1
  <2>4. end[i] + 1 = 2 * i
    BY <2>2
  <2> QED  BY <2>1, <2>2, <2>3, <2>4
<1> QED  BY <1>6, <1>11, <1>12, <1>13 DEF d, n

(* The keys of a name.                                                     *)
LEMMA KeysAre ==
  ASSUME NEW line \in Seq(Token), NEW from \in Nat, NEW to \in Nat, IsName(line, from, to)
  PROVE  /\ Keys(line, from, to) \in Seq(Part) /\ Keys(line, from, to) # <<>>
         /\ \A i \in 1..Len(Keys(line, from, to)) : Keys(line, from, to)[i] # Empty
<1> DEFINE m == (to - from) \div 2 + 1
           ks == Keys(line, from, to)
<1>1. m \in Nat \ {0} /\ to - from = 2 * (m - 1) /\ from <= to
  BY DEF IsName
<1> HIDE DEF m
<1>2. ASSUME NEW i \in 1..m  PROVE line[from + 2 * (i - 1)] \in Part \ {Empty}
  <2>1. from + 2 * (i - 1) \in from..to /\ ((from + 2 * (i - 1)) - from) % 2 = 0
    BY <1>1
  <2> QED  BY <2>1 DEF IsName
<1>3. ks = [i \in 1..m |-> line[from + 2 * (i - 1)]]
  BY DEF Keys, m
<1> HIDE DEF ks
<1>4. ks \in Seq(Part) /\ Len(ks) = m /\ \A i \in 1..m : ks[i] # Empty
  BY <1>1, <1>2, <1>3
<1>5. ks # <<>>
  BY <1>1, <1>4
<1> QED  BY <1>4, <1>5 DEF ks

(* What reading a line does: it makes a reader, and one that has seen a    *)
(* malformed line has.                                                     *)
Onward(r, r2) == r2 \in Readers /\ (~ r.ok => ~ r2.ok)

LEMMA EntryIs ==
  ASSUME NEW p \in Path, NEW is \in Kind, p = <<>> => is # "table_array"
  PROVE  Entry(p, is) \in EntryType
BY DEF Entry, EntryType

LEMMA ReadTableIs ==
  ASSUME NEW r \in Readers, NEW p \in Path
  PROVE  /\ Onward(r, ReadTable(r, p)) /\ ReadTable(r, p).at = p
         /\ ReadTable(r, p).entries = r.entries \cup {Entry(p, "table")}
         /\ ReadTable(r, p).ok <=> r.ok /\ p \notin Paths(r)
<1>1. Entry(p, "table") \in EntryType
  BY EntryIs DEF Kind
<1> DEFINE E == r.entries \cup {Entry(p, "table")}
           b == r.ok /\ p \notin Paths(r)
<1>2. ReadTable(r, p) = [r EXCEPT !.entries = E, !.at = p, !.ok = b]
  BY DEF ReadTable
<1>3. E \subseteq EntryType /\ b \in BOOLEAN
  BY <1>1 DEF Readers
<1> HIDE DEF E
<1>4. b => r.ok
  OBVIOUS
<1> HIDE DEF b
<1>5. /\ ReadTable(r, p) \in Readers /\ ReadTable(r, p).at = p
      /\ ReadTable(r, p).entries = E /\ ReadTable(r, p).ok = b
  BY <1>2, <1>3 DEF Readers
<1> QED  BY <1>4, <1>5 DEF E, b, Onward

LEMMA ReadElementIs ==
  ASSUME NEW r \in Readers, NEW p \in Path, p # <<>>
  PROVE  LET q == Element(p, Size(r, p) + 1)
         IN  /\ Onward(r, ReadElement(r, p)) /\ ReadElement(r, p).at = q
             /\ ReadElement(r, p).entries = r.entries \cup {Entry(p, "table_array"), Entry(q, "table")}
             /\ ReadElement(r, p).ok <=> r.ok /\ (p \in Paths(r) => Entry(p, "table_array") \in r.entries)
<1> DEFINE q == Element(p, Size(r, p) + 1)
           E == r.entries \cup {Entry(p, "table_array"), Entry(q, "table")}
           b == r.ok /\ (p \in Paths(r) => Entry(p, "table_array") \in r.entries)
<1>1. q \in Path
  <2>1. Size(r, p) + 1 \in Nat
    BY SizeIs
  <2> QED  BY <2>1, ElementIs
<1>2. ReadElement(r, p) = [r EXCEPT !.entries = E, !.at = q, !.ok = b]
  BY DEF ReadElement
<1> HIDE DEF q
<1>3. E \subseteq EntryType /\ b \in BOOLEAN
  <2>1. Entry(p, "table_array") \in EntryType /\ Entry(q, "table") \in EntryType
    BY <1>1, EntryIs DEF Kind
  <2> QED  BY <2>1 DEF Readers
<1> HIDE DEF E
<1>4. b => r.ok
  OBVIOUS
<1> HIDE DEF b
<1>5. /\ ReadElement(r, p) \in Readers /\ ReadElement(r, p).at = q
      /\ ReadElement(r, p).entries = E /\ ReadElement(r, p).ok = b
  BY <1>1, <1>2, <1>3 DEF Readers
<1> QED  BY <1>4, <1>5 DEF E, b, q, Onward

LEMMA ReadPairIs ==
  ASSUME NEW r \in Readers, NEW p \in Path, p # <<>>, NEW is \in {"value", "array"}, NEW size \in Nat
  PROVE  /\ Onward(r, ReadPair(r, p, is, size)) /\ ReadPair(r, p, is, size).at = r.at
         /\ ReadPair(r, p, is, size).entries =
              r.entries \cup {Entry(p, is)} \cup {Entry(Element(p, i), "value") : i \in 1..size}
         /\ ReadPair(r, p, is, size).ok <=> r.ok /\ p \notin Paths(r)
<1> DEFINE V == {Entry(Element(p, i), "value") : i \in 1..size}
           E == r.entries \cup {Entry(p, is)} \cup V
           b == r.ok /\ p \notin Paths(r)
<1>1. \A i \in 1..size : Entry(Element(p, i), "value") \in EntryType
  <2> SUFFICES ASSUME NEW i \in 1..size  PROVE Entry(Element(p, i), "value") \in EntryType
    OBVIOUS
  <2>1. Element(p, i) \in Path
    BY ElementIs
  <2> QED  BY <2>1, EntryIs DEF Kind
<1>2. ReadPair(r, p, is, size) = [r EXCEPT !.entries = E, !.ok = b]
  BY DEF ReadPair
<1>3. E \subseteq EntryType /\ b \in BOOLEAN
  <2>1. Entry(p, is) \in EntryType
    BY EntryIs DEF Kind
  <2>2. V \subseteq EntryType
    BY <1>1
  <2> HIDE DEF V
  <2> QED  BY <2>1, <2>2 DEF Readers
<1>4. b => r.ok
  OBVIOUS
<1>5. E = r.entries \cup {Entry(p, is)} \cup {Entry(Element(p, i), "value") : i \in 1..size}
  OBVIOUS
<1> HIDE DEF b, E, V
<1>6. /\ ReadPair(r, p, is, size) \in Readers /\ ReadPair(r, p, is, size).at = r.at
      /\ ReadPair(r, p, is, size).entries = E /\ ReadPair(r, p, is, size).ok = b
  BY <1>2, <1>3 DEF Readers
<1> QED  BY <1>4, <1>5, <1>6 DEF b, Onward

(* An array that has arrays.                                               *)
LEMMA CountOf ==
  ASSUME NEW k \in Int, NEW S, S \subseteq 1..k
  PROVE  Cardinality(S) \in Nat
<1>1. IsFiniteSet(1..k)
  BY FS_Interval
<1>2. IsFiniteSet(S)
  BY <1>1, FS_Subset
<1> QED  BY <1>2, FS_CardinalityType

LEMMA DepthIs ==
  ASSUME NEW tokens, NEW k \in Int
  PROVE  Depth(tokens, k) \in Int
<1> DEFINE A == {i \in 1..k : tokens[i] = "["}
           B == {i \in 1..k : tokens[i] = "]"}
<1>1. Cardinality(A) \in Nat
  BY CountOf
<1>2. Cardinality(B) \in Nat
  BY CountOf
<1>3. Depth(tokens, k) = Cardinality(A) - Cardinality(B)
  BY DEF Depth
<1> HIDE DEF A, B
<1> QED  BY <1>1, <1>2, <1>3

LEMMA NumberIs ==
  ASSUME NEW tokens, NEW k \in Int, NEW level
  PROVE  Number(tokens, k, level) \in Nat
<1> DEFINE A == {i \in 1..k : /\ tokens[i] = "," /\ Depth(tokens, i) = level
                              /\ \A j \in i..k : Depth(tokens, j) >= level}
<1>1. Cardinality(A) \in Nat
  BY CountOf
<1>2. Number(tokens, k, level) = Cardinality(A) + 1
  BY DEF Number
<1> HIDE DEF A
<1> QED  BY <1>1, <1>2

LEMMA PathIs ==
  ASSUME NEW p \in Path, p # <<>>, NEW tokens \in Seq(Token), IsNested(tokens), NEW k \in 1..Len(tokens)
  PROVE  PathOf(p, tokens, k) \in Path
<1> DEFINE depth == Depth(tokens, k)
           First1 == Last(p)[1]
           step(level) == <<IF level = 1 THEN First1 ELSE Empty,
                            IF level = depth /\ tokens[k] = "[" THEN 0 ELSE Number(tokens, k, level)>>
           steps == [level \in 1..depth |-> step(level)]
<1>1. k \in Int /\ Len(tokens) \in Nat
  OBVIOUS
<1>2. depth \in Nat
  <2>1. depth \in Int
    BY <1>1, DepthIs
  <2>2. CASE k = Len(tokens)
    BY <2>2 DEF IsNested
  <2>3. CASE k # Len(tokens)
    <3>1. k \in 1..(Len(tokens) - 1)
      BY <1>1, <2>3
    <3>2. depth >= 1
      BY <3>1 DEF IsNested
    <3> HIDE DEF depth
    <3> QED  BY <2>1, <3>2
  <2> QED  BY <2>2, <2>3
<1>3. ASSUME NEW level \in 1..depth  PROVE step(level) \in PathStep
  <2>1. Number(tokens, k, level) \in Nat
    BY <1>1, NumberIs
  <2>2. First1 \in Part /\ Empty \in Part
    BY ElementIs, DocumentAssumption
  <2> HIDE DEF First1
  <2> QED  BY <2>1, <2>2 DEF PathStep
<1> HIDE DEF step, depth
<1>4. steps \in Path /\ Len(steps) = depth
  BY <1>2, <1>3 DEF Path
<1>5. Front(p) \in Path
  BY ElementIs
<1>6. PathOf(p, tokens, k) = Front(p) \o steps
  BY DEF PathOf, depth, step
<1>7. Front(p) \o steps \in Path /\ Len(Front(p) \o steps) = Len(Front(p)) + depth
  <2> HIDE DEF steps
  <2> QED  BY <1>4, <1>5, ConcatProperties DEF Path
<1> QED  BY <1>6, <1>7

LEMMA ReadArrayIs ==
  ASSUME NEW r \in Readers, NEW p \in Path, p # <<>>, NEW tokens \in Seq(Token), IsNested(tokens)
  PROVE  Onward(r, ReadArray(r, p, tokens))
<1> DEFINE V == {Entry(PathOf(p, tokens, k), IF tokens[k] = "[" THEN "array" ELSE "value") :
                    k \in {i \in 1..Len(tokens) : tokens[i] \in {"[", "value"}}}
           E == r.entries \cup V
           b == r.ok /\ p \notin Paths(r)
<1>1. V \subseteq EntryType
  <2> SUFFICES ASSUME NEW k \in 1..Len(tokens)
               PROVE  Entry(PathOf(p, tokens, k), IF tokens[k] = "[" THEN "array" ELSE "value") \in EntryType
    OBVIOUS
  <2>1. PathOf(p, tokens, k) \in Path
    BY PathIs
  <2> QED  BY <2>1, EntryIs DEF Kind
<1>2. ReadArray(r, p, tokens) = [r EXCEPT !.entries = E, !.ok = b]
  BY DEF ReadArray
<1>3. E \subseteq EntryType /\ b \in BOOLEAN
  <2> HIDE DEF V
  <2> QED  BY <1>1 DEF Readers
<1>4. b => r.ok
  OBVIOUS
<1> HIDE DEF b, E, V
<1>5. ReadArray(r, p, tokens) \in Readers /\ ReadArray(r, p, tokens).ok = b
  BY <1>2, <1>3 DEF Readers
<1> QED  BY <1>4, <1>5 DEF Onward

(* The lines that can be read, and what they are read as.                  *)
ArrayHeader(line) ==
  /\ Len(line) >= 5 /\ SubSeq(line, 1, 2) = <<"[", "[">>
  /\ SubSeq(line, Len(line) - 1, Len(line)) = <<"]", "]">> /\ IsName(line, 3, Len(line) - 2)

TableHeader(line) ==
  Len(line) >= 3 /\ line[1] = "[" /\ line[Len(line)] = "]" /\ IsName(line, 2, Len(line) - 1)

KeyFirst(line) == Len(line) >= 3 /\ line[1] \in Part \ {Empty} /\ line[2] = "="

ScalarPair(line) == KeyFirst(line) /\ After(line, 2) = <<"value">>

ArrayPair(line) == KeyFirst(line) /\ \E size \in 0..MaxObjects : After(line, 2) = ArrayOf(size)

NestedPair(line) == KeyFirst(line) /\ IsNested(After(line, 2))

LEMMA ReadLineIs ==
  ASSUME NEW r, NEW line, line # <<>>
  PROVE  ReadLine(r, line) =
           CASE ArrayHeader(line) -> ReadElement(r, Named(r, Keys(line, 3, Len(line) - 2)))
             [] TableHeader(line) -> ReadTable(r, Named(r, Keys(line, 2, Len(line) - 1)))
             [] ScalarPair(line) -> ReadPair(r, Append(r.at, <<line[1], 0>>), "value", 0)
             [] ArrayPair(line) -> ReadPair(r, Append(r.at, <<line[1], 0>>), "array", (Len(line) - 3) \div 2)
             [] NestedPair(line) -> ReadArray(r, Append(r.at, <<line[1], 0>>), After(line, 2))
             [] OTHER -> [r EXCEPT !.ok = FALSE]
BY DEF ReadLine, ArrayHeader, TableHeader, ScalarPair, ArrayPair, NestedPair, KeyFirst

LEMMA ReadLineOnward ==
  ASSUME NEW r \in Readers, NEW line \in Seq(Token)
  PROVE  Onward(r, ReadLine(r, line)) /\ (line = <<>> => ReadLine(r, line) = r)
<1>1. CASE line = <<>>
  BY <1>1 DEF ReadLine, Onward
<1>2. CASE line # <<>>
  <2> DEFINE a == ReadElement(r, Named(r, Keys(line, 3, Len(line) - 2)))
             t == ReadTable(r, Named(r, Keys(line, 2, Len(line) - 1)))
             v == ReadPair(r, Append(r.at, <<line[1], 0>>), "value", 0)
             w == ReadPair(r, Append(r.at, <<line[1], 0>>), "array", (Len(line) - 3) \div 2)
             x == ReadArray(r, Append(r.at, <<line[1], 0>>), After(line, 2))
             o == [r EXCEPT !.ok = FALSE]
  <2>1. Len(line) \in Nat
    OBVIOUS
  <2>2. ArrayHeader(line) => Onward(r, a)
    <3> SUFFICES ASSUME ArrayHeader(line)  PROVE Onward(r, a)
      OBVIOUS
    <3> DEFINE ks == Keys(line, 3, Len(line) - 2)
    <3>1. IsName(line, 3, Len(line) - 2) /\ 3 \in Nat /\ Len(line) - 2 \in Nat
      BY <2>1 DEF ArrayHeader
    <3>2. ks \in Seq(Part) /\ ks # <<>>
      BY <3>1, KeysAre
    <3> HIDE DEF ks
    <3>3. Named(r, ks) \in Path /\ Named(r, ks) # <<>>
      BY <3>2, NamedIs, EmptySeq
    <3> QED  BY <3>3, ReadElementIs DEF ks
  <2>3. TableHeader(line) => Onward(r, t)
    <3> SUFFICES ASSUME TableHeader(line)  PROVE Onward(r, t)
      OBVIOUS
    <3> DEFINE ks == Keys(line, 2, Len(line) - 1)
    <3>1. IsName(line, 2, Len(line) - 1) /\ 2 \in Nat /\ Len(line) - 1 \in Nat
      BY <2>1 DEF TableHeader
    <3>2. ks \in Seq(Part)
      BY <3>1, KeysAre
    <3> HIDE DEF ks
    <3>3. Named(r, ks) \in Path
      BY <3>2, NamedIs
    <3> QED  BY <3>3, ReadTableIs DEF ks
  <2>4. KeyFirst(line) => Onward(r, v) /\ Onward(r, w) /\ (NestedPair(line) => Onward(r, x))
    <3> SUFFICES ASSUME KeyFirst(line)
                 PROVE  Onward(r, v) /\ Onward(r, w) /\ (NestedPair(line) => Onward(r, x))
      OBVIOUS
    <3>1. line[1] \in Part /\ r.at \in Path /\ (Len(line) - 3) \div 2 \in Nat
      BY <2>1 DEF KeyFirst, Readers
    <3>2. Append(r.at, <<line[1], 0>>) \in Path /\ Append(r.at, <<line[1], 0>>) # <<>>
      <4> DEFINE p == r.at
                 key == line[1]
                 none == 0
      <4>1. p \in Path /\ key \in Part /\ none \in Nat
        BY <3>1
      <4> HIDE DEF p, key, none
      <4>2. Append(p, <<key, none>>) \in Path /\ Append(p, <<key, none>>) # <<>>
        BY <4>1, ElementAt
      <4> QED  BY <4>2 DEF p, key, none
    <3>3. After(line, 2) \in Seq(Token)
      <4>1. 3 \in 1..(Len(line) + 1) /\ Len(line) \in 2..Len(line) /\ 2 + 1 = 3
        BY <2>1 DEF KeyFirst
      <4>2. \A i \in 3..Len(line) : line[i] \in Token
        BY <2>1, ElementOfSeq
      <4>3. SubSeq(line, 3, Len(line)) \in Seq(Token)
        BY <2>1, <4>1, <4>2, SubSeqProperties
      <4> QED  BY <4>1, <4>3 DEF After
    <3>4. Onward(r, v) /\ Onward(r, w)
      BY <3>1, <3>2, ReadPairIs
    <3>5. NestedPair(line) => Onward(r, x)
      <4> DEFINE p == Append(r.at, <<line[1], 0>>)
                 tokens == After(line, 2)
      <4>1. p \in Path /\ p # <<>> /\ tokens \in Seq(Token) /\ (NestedPair(line) => IsNested(tokens))
        BY <3>2, <3>3 DEF NestedPair
      <4> HIDE DEF p, tokens
      <4>2. NestedPair(line) => Onward(r, ReadArray(r, p, tokens))
        BY <4>1, ReadArrayIs
      <4> QED  BY <4>2 DEF p, tokens
    <3> QED  BY <3>4, <3>5
  <2>5. Onward(r, o)
    BY DEF Readers, Onward
  <2>6. ReadLine(r, line) =
           CASE ArrayHeader(line) -> a [] TableHeader(line) -> t [] ScalarPair(line) -> v
             [] ArrayPair(line) -> w [] NestedPair(line) -> x [] OTHER -> o
    BY <1>2, ReadLineIs
  <2>7. (ScalarPair(line) => KeyFirst(line)) /\ (ArrayPair(line) => KeyFirst(line))
        /\ (NestedPair(line) => KeyFirst(line))
    BY DEF ScalarPair, ArrayPair, NestedPair
  <2> HIDE DEF a, t, v, w, x, o
  <2> QED  BY <1>2, <2>2, <2>3, <2>4, <2>5, <2>6, <2>7
<1> QED  BY <1>1, <1>2

Start == [entries |-> {Entry(<<>>, "table")}, at |-> <<>>, ok |-> TRUE]

ReadLines(lines) == FoldLeft(ReadLine, Start, lines)

LEMMA StartIs == Start \in Readers
<1>1. Entry(<<>>, "table") \in EntryType /\ <<>> \in Path
  BY EmptySeq, EntryIs DEF Path, Kind
<1> DEFINE q == <<>>
           E == {Entry(<<>>, "table")}
<1>2. q \in Path /\ E \subseteq EntryType
  BY <1>1
<1>3. Start = [entries |-> E, at |-> q, ok |-> TRUE]
  BY DEF Start
<1> HIDE DEF q, E
<1> QED  BY <1>2, <1>3 DEF Readers

(* ReadLines takes the lines one by one.                                   *)
LEMMA ReadingFolds ==
  ASSUME NEW s \in Seq(Seq(Token))
  PROVE  \E f \in [0..Len(s) -> Readers] :
            /\ f[0] = Start /\ ReadLines(s) = f[Len(s)]
            /\ \A i \in 1..Len(s) : f[i] = ReadLine(f[i - 1], s[i])
<1> DEFINE n == Len(s)
           R == Readers
           base == Start
           More(r, x) == ReadLine(r, x)
           g == [p \in R \X (1..n) |-> More(p[1], s[p[2]])]
           Is(f) == f = [t \in SUBSET DOMAIN s |->
                           IF t = {} THEN base ELSE More(f[t \ {Max(t)}], s[Max(t)])]
           iter == CHOOSE f : Is(f)
           f0 == [i \in 0..n |-> iter[1..i]]
<1>1. n \in Nat /\ DOMAIN s = 1..n /\ \A i \in 1..n : s[i] \in Seq(Token)
  OBVIOUS
<1>2. ASSUME NEW r \in R, NEW x \in Seq(Token)  PROVE More(r, x) \in R
  BY ReadLineOnward DEF Onward
<1>3. base \in R
  BY StartIs
<1>5. ReadLines(s) = iter[1..n]
  BY <1>1 DEF ReadLines, FoldLeft, MapThenFoldSet
<1> HIDE DEF More, R, base, n
<1>4. g \in [R \X (1..n) -> R]
  BY <1>1, <1>2
<1>6. PICK f \in [SUBSET (1..n) -> R] : Folds(n, base, g, f)
  <2> HIDE DEF g
  <2> QED  BY <1>1, <1>3, <1>4, FoldExists DEF HasFold
<1>7. Is(f)
  <2>1. ASSUME NEW t \in SUBSET (1..n), t # {}
        PROVE  g[<<f[t \ {Max(t)}], Max(t)>>] = More(f[t \ {Max(t)}], s[Max(t)])
    <3>1. Max(t) \in 1..n
      BY <1>1, <2>1, MaxIs
    <3>2. f[t \ {Max(t)}] \in R
      BY <1>6
    <3> DEFINE q == f[t \ {Max(t)}]
    <3> HIDE DEF q
    <3>3. q \in R
      BY <3>2 DEF q
    <3>4. g[<<q, Max(t)>>] = More(q, s[Max(t)])
      BY <3>1, <3>3
    <3> QED  BY <3>4 DEF q
  <2> HIDE DEF g
  <2>2. f = [t \in SUBSET (1..n) |-> IF t = {} THEN base ELSE g[<<f[t \ {Max(t)}], Max(t)>>]]
    BY <1>6 DEF Folds
  <2> DEFINE rhs == [t \in SUBSET DOMAIN s |-> IF t = {} THEN base ELSE More(f[t \ {Max(t)}], s[Max(t)])]
  <2>3. \A t \in SUBSET (1..n) : f[t] = rhs[t]
    BY <1>1, <2>1, <2>2
  <2>4. DOMAIN rhs = SUBSET (1..n) /\ DOMAIN f = SUBSET (1..n)
    BY <1>1, <1>6
  <2>5. rhs = [t \in SUBSET (1..n) |-> rhs[t]] /\ f = [t \in SUBSET (1..n) |-> f[t]]
    BY <2>4
  <2> HIDE DEF rhs
  <2>6. f = rhs
    BY <2>3, <2>5
  <2> QED  BY <2>6 DEF rhs
<1>8. Is(iter)
  BY <1>7
<1> HIDE DEF iter
<1>9. iter[{}] = base
  BY <1>8
<1>10. ASSUME NEW i \in 1..n  PROVE iter[1..i] = More(iter[1..(i - 1)], s[i])
  <2>0. n \in Nat /\ i \in Nat /\ 1..i \subseteq 1..n /\ i \in 1..i
    BY <1>1
  <2>1. 1..i \in SUBSET DOMAIN s /\ i \in 1..i /\ 1..i # {} /\ n \in Nat
    BY <1>1, <2>0
  <2>2. Max(1..i) \in 1..i /\ \A m \in 1..i : Max(1..i) >= m
    BY <1>1, <2>1, MaxIs
  <2>3. Max(1..i) = i
    BY <2>1, <2>2
  <2>4. (1..i) \ {i} = 1..(i - 1)
    OBVIOUS
  <2>5. iter[1..i] = More(iter[(1..i) \ {Max(1..i)}], s[Max(1..i)])
    BY <1>8, <2>1
  <2> QED  BY <2>3, <2>4, <2>5
<1>11. f0[0] = base
  <2>1. 1..0 = {} /\ 0 \in 0..n
    BY <1>1
  <2> QED  BY <1>9, <2>1
<1>12. f0[n] = iter[1..n]
  BY <1>1
<1>13. \A i \in 1..n : f0[i] = More(f0[i - 1], s[i])
  BY <1>1, <1>10
<1>14. \A i \in 0..n : f0[i] \in R
  <2> DEFINE T == {i \in Nat : i <= n => f0[i] \in R}
  <2> HIDE DEF f0
  <2>1. 0 \in T
    BY <1>3, <1>11
  <2>2. ASSUME NEW i \in Nat, i \in T  PROVE i + 1 \in T
    <3>1. i + 1 <= n => i + 1 \in 1..n /\ (i + 1) - 1 = i /\ i <= n
      BY <1>1
    <3>2. i + 1 <= n => f0[i + 1] \in R
      BY <1>1, <1>2, <1>13, <2>2, <3>1
    <3> QED  BY <3>2
  <2> HIDE DEF T
  <2>3. Nat \subseteq T
    BY <2>1, <2>2, Induction
  <2> QED  BY <1>1, <2>3 DEF T
<1>15. f0 \in [0..n -> R]
  BY <1>14
<1> HIDE DEF f0
<1>16. /\ f0 \in [0..n -> R] /\ f0[0] = base /\ ReadLines(s) = f0[n]
       /\ \A i \in 1..n : f0[i] = More(f0[i - 1], s[i])
  BY <1>5, <1>11, <1>12, <1>13, <1>15
<1> QED  BY <1>16 DEF n, R, base, More

LEMMA ReadingGrow ==
  ASSUME NEW s \in Seq(Seq(Token)), NEW x \in Seq(Token)
  PROVE  /\ ReadLines(s) \in Readers /\ ReadLines(<<>>) = Start
         /\ ReadLines(Append(s, x)) = ReadLine(ReadLines(s), x)
<1> DEFINE t == Append(s, x)
           n == Len(s)
           More(r, y) == ReadLine(r, y)
<1>1. /\ t \in Seq(Seq(Token)) /\ Len(t) = n + 1 /\ t[n + 1] = x /\ n \in Nat
      /\ \A i \in 1..n : t[i] = s[i]
  BY AppendHas DEF t, n
<1> HIDE DEF t
<1>2. PICK f : /\ f \in [0..n -> Readers] /\ f[0] = Start /\ ReadLines(s) = f[n]
               /\ \A i \in 1..n : f[i] = More(f[i - 1], s[i])
  BY ReadingFolds
<1>3. PICK h : /\ h[0] = Start /\ ReadLines(t) = h[n + 1]
               /\ \A i \in 1..(n + 1) : h[i] = More(h[i - 1], t[i])
  <2>1. PICK g2 : /\ g2 \in [0..Len(t) -> Readers] /\ g2[0] = Start /\ ReadLines(t) = g2[Len(t)]
                 /\ \A i \in 1..Len(t) : g2[i] = More(g2[i - 1], t[i])
    BY <1>1, ReadingFolds
  <2> HIDE DEF More, n
  <2> QED  BY <1>1, <2>1
<1>4. ReadLines(<<>>) = Start
  <2>1. <<>> \in Seq(Seq(Token)) /\ Len(<<>>) = 0
    OBVIOUS
  <2> HIDE DEF More, n
  <2>2. PICK g2 : g2[0] = Start /\ ReadLines(<<>>) = g2[Len(<<>>)]
    BY <2>1, ReadingFolds
  <2> QED  BY <2>1, <2>2
<1> HIDE DEF More, n
<1> DEFINE T == {i \in Nat : i <= n => h[i] = f[i]}
<1>5. 0 \in T
  BY <1>2, <1>3
<1>6. ASSUME NEW i \in Nat, i \in T  PROVE i + 1 \in T
  <2>1. i + 1 <= n => i + 1 \in 1..n /\ (i + 1) - 1 = i /\ i <= n /\ i + 1 \in 1..(n + 1)
    BY <1>1
  <2> QED  BY <1>1, <1>2, <1>3, <1>6, <2>1
<1> HIDE DEF T
<1>7. h[n] = f[n]
  <2>1. n \in T
    BY <1>1, <1>5, <1>6, Induction
  <2> QED  BY <1>1, <2>1 DEF T
<1>8. n + 1 \in 1..(n + 1) /\ (n + 1) - 1 = n /\ n \in 0..n
  BY <1>1
<1>9. ReadLines(t) = More(ReadLines(s), x)
  BY <1>1, <1>2, <1>3, <1>7, <1>8
<1>10. ReadLines(s) \in Readers
  BY <1>2, <1>8
<1> QED  BY <1>4, <1>9, <1>10 DEF More, t

(***************************************************************************)
(* A writer, and what is read of what it has written so far.               *)
(***************************************************************************)
Read(w) == ReadAsToml(w.out)

OnNewLine(w) == Last(Lines(w.out)) = <<>>

PartWriters == [out : Seq(Token), path : Seq(Part), naked : BOOLEAN]

Fine(w) == w \in PartWriters /\ (w.naked => OnNewLine(w))

LEMMA ReadIs ==
  ASSUME NEW w \in PartWriters
  PROVE  /\ Read(w) = ReadLines(Lines(w.out)) /\ Read(w) \in Readers
         /\ Lines(w.out) \in LineLists
<1>1. w.out \in Seq(Token)
  BY DEF PartWriters
<1>2. Lines(w.out) \in LineLists
  <2>1. "\n" \in Token
    BY TokensAre
  <2> QED  BY <1>1, <2>1, LinesGrow
<1>3. Read(w) = ReadLines(Lines(w.out))
  BY DEF Read, ReadAsToml, ReadLines, Start
<1>4. ReadLines(Lines(w.out)) \in Readers
  BY <1>2, ReadingGrow, EmptySeq DEF LineLists
<1> QED  BY <1>2, <1>3, <1>4

(* The end of a line is read as nothing, and a line is read as what it is. *)
LEMMA LineEnds ==
  ASSUME NEW o \in Seq(Token)
  PROVE  /\ Lines(Append(o, "\n")) = Append(Lines(o), <<>>)
         /\ Last(Lines(Append(o, "\n"))) = <<>>
         /\ ReadLines(Lines(Append(o, "\n"))) = ReadLines(Lines(o))
<1>1. Lines(Append(o, "\n")) = Append(Lines(o), <<>>) /\ Lines(o) \in Seq(Seq(Token))
  BY LinesGrow, TokensAre DEF OneMore, LineLists
<1>2. <<>> \in Seq(Token)
  BY EmptySeq
<1>3. Last(Append(Lines(o), <<>>)) = <<>>
  BY <1>1, <1>2, AppendEnds
<1>4. /\ ReadLines(Append(Lines(o), <<>>)) = ReadLine(ReadLines(Lines(o)), <<>>)
      /\ ReadLines(Lines(o)) \in Readers
  BY <1>1, <1>2, ReadingGrow
<1>5. ReadLine(ReadLines(Lines(o)), <<>>) = ReadLines(Lines(o))
  BY <1>2, <1>4, ReadLineOnward
<1> QED  BY <1>1, <1>3, <1>4, <1>5

(* A line, not ended.                                                      *)
OneLine(s) == s \in Seq(Token) /\ \A i \in 1..Len(s) : s[i] # "\n"

LEMMA AppendOut ==
  ASSUME NEW S, NEW a \in Seq(S), NEW b \in Seq(S), NEW e \in S
  PROVE  a \o Append(b, e) = Append(a \o b, e) /\ a \o b \in Seq(S)
<1> DEFINE p == a \o b
           q == Append(b, e)
<1>1. p \in Seq(S) /\ Len(p) = Len(a) + Len(b) /\ Len(a) \in Nat /\ Len(b) \in Nat
  BY JoinHas
<1>2. /\ \A i \in 1..Len(a) : p[i] = a[i]
      /\ \A i \in 1..Len(b) : p[Len(a) + i] = b[i]
  BY JoinHas
<1>3. q \in Seq(S) /\ Len(q) = Len(b) + 1 /\ (\A i \in 1..Len(b) : q[i] = b[i]) /\ q[Len(b) + 1] = e
  BY AppendHas
<1> HIDE DEF p, q
<1> DEFINE x == a \o q
           y == Append(p, e)
<1>4. /\ x \in Seq(S) /\ Len(x) = Len(a) + Len(q)
      /\ \A i \in 1..Len(a) : x[i] = a[i]
      /\ \A i \in 1..Len(q) : x[Len(a) + i] = q[i]
  <2>1. q \in Seq(S)
    BY <1>3
  <2> QED  BY <2>1, JoinHas
<1>5. y \in Seq(S) /\ Len(y) = Len(p) + 1 /\ (\A i \in 1..Len(p) : y[i] = p[i]) /\ y[Len(p) + 1] = e
  BY <1>1, AppendHas
<1> HIDE DEF x, y
<1>6. ASSUME NEW i \in 1..Len(x)  PROVE x[i] = y[i]
  <2>1. CASE i \in 1..Len(a)
    <3>1. i \in 1..Len(p)
      BY <1>1, <2>1
    <3>2. x[i] = a[i] /\ p[i] = a[i]
      BY <1>2, <1>4, <2>1
    <3> QED  BY <1>5, <3>1, <3>2
  <2>2. CASE i \notin 1..Len(a)
    <3>1. i - Len(a) \in 1..Len(q) /\ i = Len(a) + (i - Len(a))
      BY <1>1, <1>3, <1>4, <2>2
    <3>2. x[i] = q[i - Len(a)]
      BY <1>4, <3>1
    <3>3. CASE i - Len(a) \in 1..Len(b)
      <4>1. i \in 1..Len(p) /\ p[i] = b[i - Len(a)]
        BY <1>1, <1>2, <3>1, <3>3
      <4> QED  BY <1>3, <1>5, <3>2, <3>3, <4>1
    <3>4. CASE i - Len(a) \notin 1..Len(b)
      <4>1. Len(q) = Len(b) + 1 /\ i \in Int
        BY <1>3, <3>1
      <4>2. i - Len(a) = Len(b) + 1
        BY <1>1, <3>1, <3>4, <4>1
      <4>3. i = Len(p) + 1
        BY <1>1, <4>1, <4>2
      <4> QED  BY <1>3, <1>5, <3>2, <4>2, <4>3
    <3> QED  BY <3>3, <3>4
  <2> QED  BY <2>1, <2>2
<1>7. Len(x) = Len(y)
  BY <1>1, <1>3, <1>4, <1>5
<1>8. x = y
  BY <1>4, <1>5, <1>6, <1>7, SameSeq
<1> QED  BY <1>1, <1>8 DEF x, y, p, q

LEMMA LinesOnLine ==
  ASSUME NEW o \in Seq(Token), NEW s \in Seq(Token), OneLine(s)
  PROVE  Lines(o \o s) = Append(Front(Lines(o)), Last(Lines(o)) \o s)
<1> DEFINE n == Len(s)
           F == Front(Lines(o))
           L == Last(Lines(o))
           Same(i) == Lines(o \o SubSeq(s, 1, i)) = Append(F, L \o SubSeq(s, 1, i))
           T == {i \in Nat : i <= n => Same(i)}
<1>1. n \in Nat /\ \A i \in 1..n : s[i] \in Token
  OBVIOUS
<1>9. \A i \in 1..n : s[i] # "\n"
  BY DEF OneLine
<1>2. F \in Seq(Seq(Token)) /\ L \in Seq(Token) /\ Append(F, L) = Lines(o)
  <2>1. Lines(o) \in LineLists
    BY TokensAre, LinesGrow
  <2> QED  BY <2>1, EndsAre DEF LineLists
<1>3. SubSeq(s, 1, 0) = <<>> /\ SubSeq(s, 1, n) = s
  BY FirstOnes
<1> HIDE DEF F, L
<1>4. 0 \in T
  <2>1. o \o <<>> = o /\ L \o <<>> = L
    BY <1>2, ConcatProperties
  <2> QED  BY <1>2, <1>3, <2>1
<1>5. ASSUME NEW i \in Nat, i \in T  PROVE i + 1 \in T
  <2> SUFFICES ASSUME i + 1 <= n
               PROVE  Lines(o \o SubSeq(s, 1, i + 1)) = Append(F, L \o SubSeq(s, 1, i + 1))
    OBVIOUS
  <2> DEFINE q == SubSeq(s, 1, i)
             x == s[i + 1]
  <2>1. i \in 0..(n - 1) /\ i + 1 \in 1..n /\ i <= n
    BY <1>1
  <2>2. q \in Seq(Token) /\ SubSeq(s, 1, i + 1) = Append(q, x)
    BY <2>1, FirstOnes
  <2>3. x \in Token /\ x # "\n"
    BY <1>1, <1>9, <2>1
  <2>4. Lines(o \o q) = Append(F, L \o q)
    BY <1>5, <2>1
  <2> HIDE DEF q, x, T
  <2>5. /\ o \o Append(q, x) = Append(o \o q, x) /\ L \o Append(q, x) = Append(L \o q, x)
        /\ o \o q \in Seq(Token) /\ L \o q \in Seq(Token)
    <3>1. \A a \in Seq(Token), b \in Seq(Token), e \in Token :
             a \o Append(b, e) = Append(a \o b, e) /\ a \o b \in Seq(Token)
      BY AppendOut
    <3> QED  BY <1>2, <2>2, <2>3, <3>1
  <2>6. Lines(Append(o \o q, x)) = OneMore(Lines(o \o q), x)
    BY <2>3, <2>5, LinesGrow
  <2> DEFINE e == L \o q
  <2>7. Front(Append(F, e)) = F /\ Last(Append(F, e)) = e
    <3>1. F \in Seq(Seq(Token)) /\ e \in Seq(Token)
      BY <1>2, <2>5
    <3> HIDE DEF e
    <3> QED  BY <3>1, AppendEnds
  <2>8. OneMore(Append(F, e), x) = Append(F, Append(e, x))
    BY <2>3, <2>7 DEF OneMore
  <2> QED  BY <2>2, <2>4, <2>5, <2>6, <2>8
<1> HIDE DEF T
<1>6. n \in T
  BY <1>1, <1>4, <1>5, Induction
<1>7. Same(n)
  <2> HIDE DEF Same
  <2> QED  BY <1>1, <1>6 DEF T
<1>8. Lines(o \o s) = Append(F, L \o s)
  BY <1>3, <1>7
<1> QED  BY <1>8 DEF F, L

LEMMA LineIs ==
  ASSUME NEW w \in PartWriters, OnNewLine(w), NEW s \in Seq(Token), OneLine(s),
         NEW v \in PartWriters, v.out = w.out \o s
  PROVE  Read(v) = ReadLine(Read(w), s)
<1> DEFINE o == w.out
           F == Front(Lines(o))
<1>1. o \in Seq(Token) /\ Lines(o) \in LineLists /\ Last(Lines(o)) = <<>>
  BY ReadIs DEF PartWriters, OnNewLine
<1>2. F \in Seq(Seq(Token)) /\ Append(F, <<>>) = Lines(o)
  BY <1>1, EndsAre DEF LineLists
<1>3. Read(w) = ReadLines(Lines(o)) /\ Read(v) = ReadLines(Lines(v.out))
  BY ReadIs
<1> HIDE DEF o, F
<1>4. v.out = o \o s
  BY DEF o
<1>5. Lines(o \o s) = Append(F, s)
  <2>1. Lines(o \o s) = Append(Front(Lines(o)), Last(Lines(o)) \o s)
    BY <1>1, LinesOnLine
  <2>2. <<>> \o s = s
    BY ConcatProperties
  <2> QED  BY <1>1, <2>1, <2>2 DEF F
<1>6. ReadLines(Append(F, s)) = ReadLine(ReadLines(F), s)
  BY <1>2, ReadingGrow
<1>7. ReadLines(Append(F, <<>>)) = ReadLines(F)
  <2>1. <<>> \in Seq(Token)
    BY EmptySeq
  <2>2. ReadLines(Append(F, <<>>)) = ReadLine(ReadLines(F), <<>>) /\ ReadLines(F) \in Readers
    BY <1>2, <2>1, ReadingGrow
  <2> QED  BY <2>1, <2>2, ReadLineOnward
<1> QED  BY <1>2, <1>3, <1>4, <1>5, <1>6, <1>7

(***************************************************************************)
(* What the lines are read as that are written.                            *)
(***************************************************************************)
LEMMA NameIs ==
  ASSUME NEW ks \in Seq(Part), ks # <<>>, NEW line \in Seq(Token), NEW from \in Nat,
         \A i \in 1..(2 * Len(ks) - 1) : line[from + i - 1] = Dotted(ks)[i],
         NEW to, to = from + 2 * Len(ks) - 2
  PROVE  /\ IsName(line, from, to) <=> \A i \in 1..Len(ks) : ks[i] # Empty
         /\ Keys(line, from, to) = ks
<1> DEFINE n == Len(ks)
           d == Dotted(ks)
<1>1. n \in Nat \ {0} /\ (\A i \in 1..n : ks[i] \in Part) /\ to = from + 2 * n - 2 /\ to \in Nat
  BY EmptySeq
<1>2. /\ \A i \in 1..n : d[2 * i - 1] = ks[i]
      /\ \A i \in 1..(n - 1) : d[2 * i] = "."
  BY DottedIs
<1>3. \A i \in 1..(2 * n - 1) : line[from + i - 1] = d[i]
  OBVIOUS
<1>4. ks = [i \in 1..n |-> ks[i]]
  OBVIOUS
<1> HIDE DEF n, d
<1>5. \A i \in 1..n : line[from + 2 * (i - 1)] = ks[i]
  <2> SUFFICES ASSUME NEW i \in 1..n  PROVE line[from + 2 * (i - 1)] = ks[i]
    OBVIOUS
  <2>1. 2 * i - 1 \in 1..(2 * n - 1) /\ from + (2 * i - 1) - 1 = from + 2 * (i - 1)
    BY <1>1
  <2> QED  BY <1>2, <1>3, <2>1
<1>6. \A i \in 1..(n - 1) : line[from + 2 * i - 1] = "."
  <2> SUFFICES ASSUME NEW i \in 1..(n - 1)  PROVE line[from + 2 * i - 1] = "."
    OBVIOUS
  <2>1. 2 * i \in 1..(2 * n - 1)
    BY <1>1
  <2> QED  BY <1>2, <1>3, <2>1
<1>7. Keys(line, from, to) = ks
  <2>1. (to - from) \div 2 + 1 = n
    BY <1>1
  <2>2. Keys(line, from, to) = [i \in 1..n |-> line[from + 2 * (i - 1)]]
    BY <2>1 DEF Keys
  <2> QED  BY <1>4, <1>5, <2>2
<1>8. ASSUME \A i \in 1..n : ks[i] # Empty  PROVE IsName(line, from, to)
  <2>1. from <= to /\ (to - from) % 2 = 0
    BY <1>1
  <2>2. ASSUME NEW i \in from..to
        PROVE  IF (i - from) % 2 = 0 THEN line[i] \in Part \ {Empty} ELSE line[i] = "."
    <3>1. CASE (i - from) % 2 = 0
      <4>1. PICK j \in Nat : i - from = 2 * j
        <5>1. i - from \in Nat
          BY <1>1
        <5>2. \A k \in Nat : k % 2 = 0 => k \div 2 \in Nat /\ k = 2 * (k \div 2)
          OBVIOUS
        <5> QED  BY <3>1, <5>1, <5>2
      <4>2. j + 1 \in 1..n /\ from + 2 * ((j + 1) - 1) = i
        BY <1>1, <4>1
      <4>3. line[i] = ks[j + 1]
        BY <1>5, <4>2
      <4> QED  BY <1>1, <1>8, <3>1, <4>2, <4>3
    <3>2. CASE (i - from) % 2 # 0
      <4>1. PICK j \in Nat : i - from = 2 * j + 1
        <5>1. i - from \in Nat
          BY <1>1
        <5>2. \A k \in Nat : k % 2 # 0 => k \div 2 \in Nat /\ k = 2 * (k \div 2) + 1
          OBVIOUS
        <5> QED  BY <3>2, <5>1, <5>2
      <4>2. j + 1 \in 1..(n - 1) /\ from + 2 * (j + 1) - 1 = i
        BY <1>1, <4>1
      <4> QED  BY <1>6, <3>2, <4>2
    <3> QED  BY <3>1, <3>2
  <2> QED  BY <2>1, <2>2 DEF IsName
<1>9. ASSUME IsName(line, from, to), NEW i \in 1..n  PROVE ks[i] # Empty
  <2>1. from + 2 * (i - 1) \in from..to /\ ((from + 2 * (i - 1)) - from) % 2 = 0
    BY <1>1
  <2>2. line[from + 2 * (i - 1)] \in Part \ {Empty}
    BY <1>9, <2>1 DEF IsName
  <2> QED  BY <1>5, <2>2
<1> QED  BY <1>7, <1>8, <1>9 DEF n

LEMMA PairOf ==
  ASSUME NEW S, NEW s \in Seq(S), NEW i \in Nat \ {0}, i + 1 <= Len(s), NEW a, NEW b, s[i] = a, s[i + 1] = b
  PROVE  SubSeq(s, i, i + 1) = <<a, b>>
<1>1. /\ SubSeq(s, i, i + 1) \in Seq(S) /\ Len(SubSeq(s, i, i + 1)) = 2
      /\ SubSeq(s, i, i + 1)[1] = s[i] /\ SubSeq(s, i, i + 1)[2] = s[i + 1]
  <2>1. i \in 1..Len(s) /\ i + 1 \in 1..Len(s) /\ (i + 1) - i + 1 = 2 /\ i + 1 \in Int /\ i <= i + 1
    OBVIOUS
  <2>2. SubSeq(s, i, i + 1) = [j \in 1..2 |-> s[i + j - 1]]
    BY <2>1
  <2>3. \A j \in 1..2 : i + j - 1 \in 1..Len(s)
    BY <2>1
  <2>4. [j \in 1..2 |-> s[i + j - 1]] \in Seq(S) /\ Len([j \in 1..2 |-> s[i + j - 1]]) = 2
    BY <2>3
  <2>5. 1 \in 1..2 /\ 2 \in 1..2 /\ i + 1 - 1 = i /\ i + 2 - 1 = i + 1
    OBVIOUS
  <2> QED  BY <2>2, <2>4, <2>5
<1>2. a \in S /\ b \in S
  OBVIOUS
<1> DEFINE q == SubSeq(s, i, i + 1)
           p == <<a, b>>
<1>3. p \in Seq(S) /\ Len(p) = 2 /\ p[1] = a /\ p[2] = b
  BY <1>2, ShortOnes
<1> HIDE DEF q, p
<1>4. q = p
  BY <1>1, <1>3, SameSeq DEF q
<1> QED  BY <1>4 DEF q, p

Header(ks, in_array) ==
  IF in_array THEN <<"[", "[">> \o Dotted(ks) \o <<"]", "]">> ELSE <<"[">> \o Dotted(ks) \o <<"]">>

(* A line between what opens it and what closes it.                        *)
LEMMA TokensAround ==
  ASSUME NEW a, NEW d, NEW c, NEW line, line = a \o d \o c,
         a \in Seq(Token), d \in Seq(Token), c \in Seq(Token)
  PROVE  /\ line \in Seq(Token) /\ Len(line) = Len(a) + Len(d) + Len(c)
         /\ \A i \in 1..Len(a) : line[i] = a[i]
         /\ \A i \in 1..Len(d) : line[Len(a) + i] = d[i]
         /\ \A i \in 1..Len(c) : line[Len(a) + Len(d) + i] = c[i]
BY AroundIs

LEMMA HeaderHas ==
  ASSUME NEW ks \in Seq(Part), ks # <<>>, NEW in_array \in BOOLEAN
  PROVE  LET line == Header(ks, in_array)
             m == 2 * Len(ks) - 1
         IN  /\ line \in Seq(Token) /\ OneLine(line)
             /\ ~ in_array => /\ Len(line) = m + 2 /\ line[1] = "[" /\ line[m + 2] = "]"
                              /\ \A i \in 1..m : line[i + 1] = Dotted(ks)[i]
             /\ in_array => /\ Len(line) = m + 4 /\ line[1] = "[" /\ line[2] = "["
                            /\ line[m + 3] = "]" /\ line[m + 4] = "]"
                            /\ \A i \in 1..m : line[i + 2] = Dotted(ks)[i]
<1> DEFINE d == Dotted(ks)
           n == Len(ks)
           m == 2 * n - 1
<1>1. n \in Nat \ {0} /\ (\A i \in 1..n : ks[i] \in Part)
  BY EmptySeq
<1>2. /\ d \in Seq(Token) /\ Len(d) = m
      /\ \A i \in 1..n : d[2 * i - 1] = ks[i]
      /\ \A i \in 1..(n - 1) : d[2 * i] = "."
  BY DottedIs
<1> HIDE DEF n, d
<1>3. \A i \in 1..m : d[i] # "\n"
  <2> SUFFICES ASSUME NEW i \in 1..m  PROVE d[i] # "\n"
    OBVIOUS
  <2>1. CASE i % 2 = 1
    <3>1. (i + 1) \div 2 \in 1..n /\ 2 * ((i + 1) \div 2) - 1 = i
      BY <1>1, <2>1
    <3>2. d[i] = ks[(i + 1) \div 2]
      BY <1>2, <3>1
    <3> QED  BY <1>1, <3>1, <3>2, TokensAre
  <2>2. CASE i % 2 = 0
    <3>1. i \div 2 \in 1..(n - 1) /\ 2 * (i \div 2) = i
      BY <1>1, <2>2
    <3>2. d[i] = "."
      BY <1>2, <3>1
    <3> QED  BY <3>2
  <2> QED  BY <1>1, <2>1, <2>2
<1>4. m \in Nat \ {0}
  BY <1>1
<1>5. CASE ~ in_array
  <2> DEFINE a == <<"[">>
             c == <<"]">>
             line == a \o d \o c
  <2>1. /\ a \in Seq(Token) /\ Len(a) = 1 /\ a[1] = "[" /\ c \in Seq(Token) /\ Len(c) = 1 /\ c[1] = "]"
    BY TokensAre, ShortOnes
  <2> HIDE DEF a, c
  <2>2. /\ line \in Seq(Token) /\ Len(line) = Len(a) + Len(d) + Len(c)
        /\ \A i \in 1..Len(a) : line[i] = a[i]
        /\ \A i \in 1..Len(d) : line[Len(a) + i] = d[i]
        /\ \A i \in 1..Len(c) : line[Len(a) + Len(d) + i] = c[i]
    <3>1. a \in Seq(Token) /\ d \in Seq(Token) /\ c \in Seq(Token)
      BY <1>2, <2>1
    <3>2. line = a \o d \o c
      OBVIOUS
    <3> HIDE DEF line, m
    <3> QED  BY <3>1, <3>2, TokensAround
  <2> HIDE DEF line, m
  <2>3. Len(line) = m + 2 /\ line[1] = "["
    BY <1>2, <1>4, <2>1, <2>2
  <2>4. line[m + 2] = "]"
    <3>1. Len(a) + Len(d) + 1 = m + 2 /\ 1 \in 1..Len(c)
      BY <1>2, <1>4, <2>1
    <3>2. line[Len(a) + Len(d) + 1] = c[1]
      BY <2>2, <3>1
    <3> QED  BY <2>1, <3>1, <3>2
  <2>5. \A i \in 1..m : line[i + 1] = d[i]
    <3> SUFFICES ASSUME NEW i \in 1..m  PROVE line[i + 1] = d[i]
      OBVIOUS
    <3>1. Len(a) + i = i + 1
      BY <1>4, <2>1
    <3> QED  BY <1>2, <2>2, <3>1
  <2>6. \A i \in 1..Len(line) : line[i] # "\n"
    <3> SUFFICES ASSUME NEW i \in 1..Len(line)  PROVE line[i] # "\n"
      OBVIOUS
    <3>1. i = 1 \/ i = m + 2 \/ (i - 1 \in 1..m /\ (i - 1) + 1 = i)
      BY <1>4, <2>3
    <3> QED  BY <1>3, <2>3, <2>4, <2>5, <3>1
  <2>7. line = Header(ks, in_array)
    BY <1>5 DEF Header, line, d, a, c
  <2> QED  BY <1>5, <2>2, <2>3, <2>4, <2>5, <2>6, <2>7 DEF m, n, d, OneLine
<1>6. CASE in_array
  <2> DEFINE a == <<"[", "[">>
             c == <<"]", "]">>
             line == a \o d \o c
  <2>1. /\ a \in Seq(Token) /\ Len(a) = 2 /\ a[1] = "[" /\ a[2] = "["
        /\ c \in Seq(Token) /\ Len(c) = 2 /\ c[1] = "]" /\ c[2] = "]"
    BY TokensAre, ShortOnes
  <2> HIDE DEF a, c
  <2>2. /\ line \in Seq(Token) /\ Len(line) = Len(a) + Len(d) + Len(c)
        /\ \A i \in 1..Len(a) : line[i] = a[i]
        /\ \A i \in 1..Len(d) : line[Len(a) + i] = d[i]
        /\ \A i \in 1..Len(c) : line[Len(a) + Len(d) + i] = c[i]
    <3>1. a \in Seq(Token) /\ d \in Seq(Token) /\ c \in Seq(Token)
      BY <1>2, <2>1
    <3>2. line = a \o d \o c
      OBVIOUS
    <3> HIDE DEF line, m
    <3> QED  BY <3>1, <3>2, TokensAround
  <2> HIDE DEF line, m
  <2>3. Len(line) = m + 4 /\ line[1] = "[" /\ line[2] = "["
    BY <1>2, <1>4, <2>1, <2>2
  <2>4. line[m + 3] = "]" /\ line[m + 4] = "]"
    <3>1. Len(a) + Len(d) + 1 = m + 3 /\ Len(a) + Len(d) + 2 = m + 4 /\ 1 \in 1..Len(c) /\ 2 \in 1..Len(c)
      BY <1>2, <1>4, <2>1
    <3>2. line[Len(a) + Len(d) + 1] = c[1] /\ line[Len(a) + Len(d) + 2] = c[2]
      BY <2>2, <3>1
    <3> QED  BY <2>1, <3>1, <3>2
  <2>5. \A i \in 1..m : line[i + 2] = d[i]
    <3> SUFFICES ASSUME NEW i \in 1..m  PROVE line[i + 2] = d[i]
      OBVIOUS
    <3>1. Len(a) + i = i + 2
      BY <1>4, <2>1
    <3> QED  BY <1>2, <2>2, <3>1
  <2>6. \A i \in 1..Len(line) : line[i] # "\n"
    <3> SUFFICES ASSUME NEW i \in 1..Len(line)  PROVE line[i] # "\n"
      OBVIOUS
    <3>1. i = 1 \/ i = 2 \/ i = m + 3 \/ i = m + 4 \/ (i - 2 \in 1..m /\ (i - 2) + 2 = i)
      BY <1>4, <2>3
    <3> QED  BY <1>3, <2>3, <2>4, <2>5, <3>1
  <2>7. line = Header(ks, in_array)
    BY <1>6 DEF Header, line, d, a, c
  <2> QED  BY <1>6, <2>2, <2>3, <2>4, <2>5, <2>6, <2>7 DEF m, n, d, OneLine
<1> QED  BY <1>5, <1>6

LEMMA HeaderIs ==
  ASSUME NEW r \in Readers, NEW ks \in Seq(Part), ks # <<>>, NEW in_array \in BOOLEAN
  PROVE  /\ (\A i \in 1..Len(ks) : ks[i] # Empty) =>
              ReadLine(r, Header(ks, in_array)) =
                IF in_array THEN ReadElement(r, Named(r, ks)) ELSE ReadTable(r, Named(r, ks))
         /\ (\E i \in 1..Len(ks) : ks[i] = Empty) => ~ ReadLine(r, Header(ks, in_array)).ok
<1> DEFINE line == Header(ks, in_array)
           n == Len(ks)
           m == 2 * n - 1
           named == \A i \in 1..n : ks[i] # Empty
<1>1. n \in Nat \ {0} /\ m \in Nat \ {0} /\ m = 2 * n - 1
  BY EmptySeq
<1>2. /\ line \in Seq(Token) /\ Len(line) \in Nat
      /\ ~ in_array => /\ Len(line) = m + 2 /\ line[1] = "[" /\ line[m + 2] = "]"
                       /\ \A i \in 1..m : line[i + 1] = Dotted(ks)[i]
      /\ in_array => /\ Len(line) = m + 4 /\ line[1] = "[" /\ line[2] = "["
                     /\ line[m + 3] = "]" /\ line[m + 4] = "]"
                     /\ \A i \in 1..m : line[i + 2] = Dotted(ks)[i]
  BY HeaderHas
<1>3. line[1] = "[" /\ line # <<>> /\ Len(line) >= 3
  BY <1>1, <1>2
<1>4. ~ KeyFirst(line)
  BY <1>3, TokensAre DEF KeyFirst
<1>5. Dotted(ks)[1] \in Part /\ Dotted(ks)[1] # "["
  <2>1. 1 \in 1..n /\ 2 * 1 - 1 = 1 /\ ks[1] \in Part
    BY <1>1
  <2>2. Dotted(ks)[1] = ks[1]
    BY <2>1, DottedIs
  <2> QED  BY <2>1, <2>2, TokensAre
<1> HIDE DEF line, m
<1>8. ~ ScalarPair(line) /\ ~ ArrayPair(line) /\ ~ NestedPair(line)
  BY <1>4 DEF ScalarPair, ArrayPair, NestedPair
<1>6. CASE ~ in_array
  <2>1. ~ ArrayHeader(line)
    <3>1. line[2] = Dotted(ks)[1]
      <4>1. 1 \in 1..m /\ 1 + 1 = 2
        BY <1>1
      <4> QED  BY <1>2, <1>6, <4>1
    <3>2. SubSeq(line, 1, 2)[2] = line[2]
      BY <1>2, <1>3
    <3>3. <<"[", "[">>[2] = "["
      OBVIOUS
    <3> QED  BY <1>5, <3>1, <3>2, <3>3 DEF ArrayHeader
  <2>2. /\ IsName(line, 2, Len(line) - 1) <=> named
        /\ Keys(line, 2, Len(line) - 1) = ks
    <3>1. Len(line) - 1 = 2 + 2 * n - 2
      BY <1>1, <1>2, <1>6
    <3>2. \A i \in 1..(2 * n - 1) : line[2 + i - 1] = Dotted(ks)[i]
      <4> SUFFICES ASSUME NEW i \in 1..m  PROVE line[2 + i - 1] = Dotted(ks)[i]
        BY <1>1
      <4>1. 2 + i - 1 = i + 1
        BY <1>1
      <4> QED  BY <1>2, <1>6, <4>1
    <3>3. line \in Seq(Token) /\ 2 \in Nat
      BY <1>2
    <3> HIDE DEF n
    <3> QED  BY <3>1, <3>2, <3>3, NameIs DEF n
  <2>3. TableHeader(line) <=> named
    <3>1. line[Len(line)] = "]"
      BY <1>2, <1>6
    <3> QED  BY <1>3, <2>2, <3>1 DEF TableHeader
  <2>4. named => ReadLine(r, line) = ReadTable(r, Named(r, ks))
    <3> HIDE DEF named
    <3> QED  BY <1>3, <1>8, <2>1, <2>2, <2>3, ReadLineIs
  <2>5. ~ named => ReadLine(r, line) = [r EXCEPT !.ok = FALSE]
    BY <1>3, <1>8, <2>1, <2>3, ReadLineIs
  <2>6. [r EXCEPT !.ok = FALSE].ok = FALSE
    BY DEF Readers
  <2> QED  BY <1>6, <2>4, <2>5, <2>6 DEF line
<1>7. CASE in_array
  <2>1. ~ TableHeader(line)
    <3>1. CASE IsName(line, 2, Len(line) - 1)
      <4>1. 2 \in 2..(Len(line) - 1) /\ (2 - 2) % 2 = 0
        BY <1>2, <1>3
      <4>2. line[2] \in Part
        BY <3>1, <4>1 DEF IsName
      <4> QED  BY <1>2, <1>7, <4>2, TokensAre
    <3>2. CASE ~ IsName(line, 2, Len(line) - 1)
      BY <3>2 DEF TableHeader
    <3> QED  BY <3>1, <3>2
  <2>2. /\ IsName(line, 3, Len(line) - 2) <=> named
        /\ Keys(line, 3, Len(line) - 2) = ks
    <3>1. Len(line) - 2 = 3 + 2 * n - 2
      BY <1>1, <1>2, <1>7
    <3>2. \A i \in 1..(2 * n - 1) : line[3 + i - 1] = Dotted(ks)[i]
      <4> SUFFICES ASSUME NEW i \in 1..m  PROVE line[3 + i - 1] = Dotted(ks)[i]
        BY <1>1
      <4>1. 3 + i - 1 = i + 2
        BY <1>1
      <4> QED  BY <1>2, <1>7, <4>1
    <3>3. line \in Seq(Token) /\ 3 \in Nat
      BY <1>2
    <3> HIDE DEF n
    <3> QED  BY <3>1, <3>2, <3>3, NameIs DEF n
  <2>3. ArrayHeader(line) <=> named
    <3>1. Len(line) = m + 4 /\ Len(line) >= 5
      BY <1>1, <1>2, <1>7
    <3>2. SubSeq(line, 1, 2) = <<"[", "[">>
      BY <1>2, <1>7, <3>1, PairOf
    <3>3. SubSeq(line, Len(line) - 1, Len(line)) = <<"]", "]">>
      <4>1. Len(line) - 1 = m + 3
        BY <1>1, <3>1
      <4>2. line[Len(line) - 1] = "]" /\ line[(Len(line) - 1) + 1] = "]" /\ (Len(line) - 1) + 1 = Len(line)
        BY <1>1, <1>2, <1>7, <3>1, <4>1
      <4>3. Len(line) - 1 \in Nat \ {0} /\ (Len(line) - 1) + 1 <= Len(line)
        BY <3>1, <1>2
      <4>4. SubSeq(line, Len(line) - 1, (Len(line) - 1) + 1) = <<"]", "]">>
        <5> DEFINE from == Len(line) - 1
        <5>1. line \in Seq(Token) /\ from \in Nat \ {0} /\ from + 1 <= Len(line) /\ line[from] = "]" /\ line[from + 1] = "]"
          BY <1>2, <4>2, <4>3
        <5> HIDE DEF from
        <5>2. SubSeq(line, from, from + 1) = <<"]", "]">>
          BY <5>1, PairOf
        <5> QED  BY <5>2 DEF from
      <4> QED  BY <4>2, <4>4
    <3> QED  BY <2>2, <3>1, <3>2, <3>3 DEF ArrayHeader
  <2>4. named => ReadLine(r, line) = ReadElement(r, Named(r, ks))
    <3> HIDE DEF named
    <3> QED  BY <1>3, <1>8, <2>1, <2>2, <2>3, ReadLineIs
  <2>5. ~ named => ReadLine(r, line) = [r EXCEPT !.ok = FALSE]
    BY <1>3, <1>8, <2>1, <2>3, ReadLineIs
  <2>6. [r EXCEPT !.ok = FALSE].ok = FALSE
    BY DEF Readers
  <2> QED  BY <1>7, <2>4, <2>5, <2>6 DEF line
<1> QED  BY <1>6, <1>7

LEMMA PairLineHas ==
  ASSUME NEW key \in Part, NEW tail \in Seq(Token), tail # <<>>, OneLine(tail),
         NEW line, line = <<key, "=">> \o tail
  PROVE  /\ line \in Seq(Token) /\ Len(line) = Len(tail) + 2 /\ OneLine(line)
         /\ After(line, 2) = tail /\ line[1] = key /\ line[2] = "="
         /\ ~ ArrayHeader(line) /\ ~ TableHeader(line) /\ (KeyFirst(line) <=> key # Empty)
<1> DEFINE a == <<key, "=">>
           m == Len(tail)
<1>1. a \in Seq(Token) /\ Len(a) = 2 /\ a[1] = key /\ a[2] = "="
  BY TokensAre, ShortOnes
<1>2. m \in Nat \ {0} /\ line = a \o tail
  BY EmptySeq
<1> HIDE DEF a, m
<1>3. /\ line \in Seq(Token) /\ Len(line) = Len(a) + Len(tail)
      /\ \A i \in 1..Len(a) : line[i] = a[i]
      /\ \A i \in 1..Len(tail) : line[Len(a) + i] = tail[i]
  <2>1. a \in Seq(Token)
    BY <1>1
  <2>2. /\ a \o tail \in Seq(Token) /\ Len(a \o tail) = Len(a) + Len(tail)
        /\ \A i \in 1..Len(a) : (a \o tail)[i] = a[i]
        /\ \A i \in 1..Len(tail) : (a \o tail)[Len(a) + i] = tail[i]
    BY <2>1, JoinHas
  <2> QED  BY <1>2, <2>2
<1>4. Len(line) = m + 2 /\ line[1] = key /\ line[2] = "=" /\ Len(line) >= 3
  BY <1>1, <1>2, <1>3 DEF m
<1>5. \A i \in 1..m : line[i + 2] = tail[i]
  BY <1>1, <1>2, <1>3 DEF m
<1>6. ~ ArrayHeader(line) /\ ~ TableHeader(line)
  <2>1. key # "["
    BY TokensAre
  <2>2. SubSeq(line, 1, 2)[1] = line[1]
    BY <1>2, <1>3, <1>4
  <2>3. <<"[", "[">>[1] = "["
    OBVIOUS
  <2> QED  BY <1>4, <2>1, <2>2, <2>3 DEF ArrayHeader, TableHeader
<1>7. KeyFirst(line) <=> key # Empty
  BY <1>4 DEF KeyFirst
<1>8. \A i \in 1..Len(line) : line[i] # "\n"
  <2> SUFFICES ASSUME NEW i \in 1..Len(line)  PROVE line[i] # "\n"
    OBVIOUS
  <2>1. i = 1 \/ i = 2 \/ (i - 2 \in 1..m /\ (i - 2) + 2 = i)
    BY <1>2, <1>4
  <2>2. key # "\n"
    BY TokensAre
  <2>3. \A j \in 1..m : tail[j] # "\n"
    BY DEF OneLine, m
  <2> QED  BY <1>4, <1>5, <2>1, <2>2, <2>3
<1>9. After(line, 2) = tail
  <2>1. After(line, 2) = [j \in 1..m |-> line[j + 2]]
    <3>1. Len(line) - 3 + 1 = m /\ 3 <= Len(line) /\ 2 + 1 = 3 /\ Len(line) \in Nat
      BY <1>2, <1>4
    <3>2. After(line, 2) = [j \in 1..(Len(line) - 3 + 1) |-> line[3 + j - 1]]
      BY <3>1, <1>3 DEF After
    <3>3. \A j \in 1..m : 3 + j - 1 = j + 2
      BY <1>2
    <3> QED  BY <3>1, <3>2, <3>3
  <2>2. tail = [j \in 1..m |-> tail[j]]
    BY DEF m
  <2> QED  BY <1>5, <2>1, <2>2
<1> QED  BY <1>3, <1>4, <1>6, <1>7, <1>8, <1>9 DEF m, OneLine

Between(size) ==
  [i \in 1..(IF size = 0 THEN 0 ELSE 2 * size - 1) |-> IF i % 2 = 1 THEN "value" ELSE ","]

LEMMA ArrayOfHas ==
  ASSUME NEW size \in Nat
  PROVE  /\ ArrayOf(size) = <<"[">> \o Between(size) \o <<"]">> /\ ArrayOf(size)[1] = "["
         /\ Between(size) \in Seq(Token) /\ Len(Between(size)) = (IF size = 0 THEN 0 ELSE 2 * size - 1)
         /\ ArrayOf(size) \in Seq(Token) /\ Len(ArrayOf(size)) = IF size = 0 THEN 2 ELSE 2 * size + 1
         /\ OneLine(ArrayOf(size))
<1> DEFINE a == <<"[">>
           b == Between(size)
           c == <<"]">>
           m == IF size = 0 THEN 0 ELSE 2 * size - 1
           s == a \o b \o c
<1>1. /\ a \in Seq(Token) /\ Len(a) = 1 /\ a[1] = "[" /\ c \in Seq(Token) /\ Len(c) = 1 /\ c[1] = "]"
  BY TokensAre, ShortOnes
<1>2. s = ArrayOf(size) /\ m \in Nat
  BY DEF ArrayOf, Between
<1>3. b \in Seq(Token) /\ Len(b) = m /\ \A i \in 1..m : b[i] # "\n"
  <2>1. b = [i \in 1..m |-> IF i % 2 = 1 THEN "value" ELSE ","]
    BY DEF Between
  <2>2. \A i \in 1..m : b[i] \in Token /\ b[i] # "\n"
    BY <2>1, TokensAre
  <2>3. b = [i \in 1..m |-> b[i]]
    BY <2>1
  <2> HIDE DEF b, m
  <2>4. b \in [1..m -> Token]
    BY <2>2, <2>3
  <2>5. b \in Seq(Token) /\ Len(b) = m
    BY <1>2, <2>4
  <2> QED  BY <2>2, <2>5
<1>4. m + 2 = IF size = 0 THEN 2 ELSE 2 * size + 1
  OBVIOUS
<1> HIDE DEF a, b, c, m
<1>5. /\ s \in Seq(Token) /\ Len(s) = Len(a) + Len(b) + Len(c)
      /\ \A i \in 1..Len(a) : s[i] = a[i]
      /\ \A i \in 1..Len(b) : s[Len(a) + i] = b[i]
      /\ \A i \in 1..Len(c) : s[Len(a) + Len(b) + i] = c[i]
  <2>1. a \in Seq(Token) /\ b \in Seq(Token) /\ c \in Seq(Token)
    BY <1>1, <1>3
  <2> QED  BY <2>1, AroundIs
<1> HIDE DEF s
<1>6. Len(s) = m + 2 /\ s[1] = "["
  BY <1>1, <1>2, <1>3, <1>5
<1>7. \A i \in 1..Len(s) : s[i] # "\n"
  <2> SUFFICES ASSUME NEW i \in 1..Len(s)  PROVE s[i] # "\n"
    OBVIOUS
  <2>1. CASE i = 1
    BY <1>6, <2>1
  <2>2. CASE i - 1 \in 1..m
    <3>1. Len(a) + (i - 1) = i
      BY <1>1, <2>2
    <3>2. s[i] = b[i - 1]
      BY <1>3, <1>5, <2>2, <3>1
    <3> QED  BY <1>3, <2>2, <3>2
  <2>3. CASE i = m + 2
    <3>1. Len(a) + Len(b) + 1 = i /\ 1 \in 1..Len(c)
      BY <1>1, <1>2, <1>3, <2>3
    <3>2. s[i] = c[1]
      BY <1>5, <3>1
    <3> QED  BY <1>1, <3>2
  <2>4. i = 1 \/ i - 1 \in 1..m \/ i = m + 2
    BY <1>2, <1>6
  <2> QED  BY <2>1, <2>2, <2>3, <2>4
<1>8. s = <<"[">> \o Between(size) \o <<"]">>
  BY DEF s, a, b, c
<1> QED  BY <1>2, <1>3, <1>4, <1>5, <1>6, <1>7, <1>8 DEF m, b, OneLine

LEMMA ScalarLineIs ==
  ASSUME NEW r \in Readers, NEW key \in Part, NEW line, line = <<key, "=">> \o <<"value">>
  PROVE  /\ line \in Seq(Token) /\ OneLine(line)
         /\ ReadLine(r, line) = IF key = Empty THEN [r EXCEPT !.ok = FALSE]
                                ELSE ReadPair(r, Append(r.at, <<key, 0>>), "value", 0)
<1> DEFINE tail == <<"value">>
<1>1. tail \in Seq(Token) /\ Len(tail) = 1 /\ tail[1] = "value"
  BY TokensAre, ShortOnes
<1>2. tail # <<>> /\ OneLine(tail)
  BY <1>1 DEF OneLine
<1>3. /\ line \in Seq(Token) /\ Len(line) = Len(tail) + 2 /\ OneLine(line)
      /\ After(line, 2) = tail /\ line[1] = key
      /\ ~ ArrayHeader(line) /\ ~ TableHeader(line) /\ (KeyFirst(line) <=> key # Empty)
  <2>1. line = <<key, "=">> \o tail
    OBVIOUS
  <2>2. tail \in Seq(Token) /\ tail # <<>> /\ OneLine(tail)
    BY <1>1, <1>2
  <2> HIDE DEF tail
  <2>3. /\ line \in Seq(Token) /\ Len(line) = Len(tail) + 2
        /\ After(line, 2) = tail /\ line[1] = key
        /\ ~ ArrayHeader(line) /\ ~ TableHeader(line) /\ (KeyFirst(line) <=> key # Empty)
    BY <2>1, <2>2, PairLineHas
  <2>4. OneLine(line)
    BY <2>1, <2>2, PairLineHas
  <2> QED  BY <2>3, <2>4
<1>4. (ScalarPair(line) <=> key # Empty) /\ (key = Empty => ~ ArrayPair(line) /\ ~ NestedPair(line))
  BY <1>3 DEF ScalarPair, ArrayPair, NestedPair
<1>5. line # <<>>
  BY <1>1, <1>3
<1>6. CASE key = Empty
  <2>1. ReadLine(r, line) = [r EXCEPT !.ok = FALSE]
    BY <1>3, <1>4, <1>5, <1>6, ReadLineIs
  <2> QED  BY <1>3, <1>6, <2>1
<1>7. CASE key # Empty
  <2>1. ~ ArrayPair(line)
    <3> SUFFICES ASSUME NEW size \in 0..MaxObjects, After(line, 2) = ArrayOf(size)  PROVE FALSE
      BY DEF ArrayPair
    <3>1. size \in Nat
      BY DocumentAssumption
    <3>2. ArrayOf(size)[1] = "["
      BY <3>1, ArrayOfHas
    <3> QED  BY <1>1, <1>3, <3>2
  <2>2. ~ NestedPair(line)
    <3>1. Len(<<"value">>) = 1
      OBVIOUS
    <3> QED  BY <1>3, <3>1 DEF NestedPair, IsNested
  <2>3. ReadLine(r, line) = ReadPair(r, Append(r.at, <<line[1], 0>>), "value", 0)
    BY <1>3, <1>4, <1>5, <1>7, <2>1, <2>2, ReadLineIs
  <2> QED  BY <1>3, <1>7, <2>3
<1> QED  BY <1>6, <1>7

LEMMA ArrayLineIs ==
  ASSUME NEW r \in Readers, NEW key \in Part, NEW size \in 0..MaxObjects,
         NEW line, line = <<key, "=">> \o ArrayOf(size)
  PROVE  /\ line \in Seq(Token) /\ OneLine(line)
         /\ ReadLine(r, line) = IF key = Empty THEN [r EXCEPT !.ok = FALSE]
                                ELSE ReadPair(r, Append(r.at, <<key, 0>>), "array", size)
<1> DEFINE tail == ArrayOf(size)
<1>0. size \in Nat
  BY DocumentAssumption
<1>1. /\ tail \in Seq(Token) /\ Len(tail) = (IF size = 0 THEN 2 ELSE 2 * size + 1) /\ tail[1] = "["
      /\ OneLine(tail)
  BY <1>0, ArrayOfHas
<1>2. tail # <<>>
  BY <1>0, <1>1
<1>3. /\ line \in Seq(Token) /\ Len(line) = Len(tail) + 2 /\ OneLine(line)
      /\ After(line, 2) = tail /\ line[1] = key
      /\ ~ ArrayHeader(line) /\ ~ TableHeader(line) /\ (KeyFirst(line) <=> key # Empty)
  <2>1. line = <<key, "=">> \o tail
    OBVIOUS
  <2>2. tail \in Seq(Token) /\ tail # <<>> /\ OneLine(tail)
    BY <1>1, <1>2
  <2> HIDE DEF tail
  <2>3. /\ line \in Seq(Token) /\ Len(line) = Len(tail) + 2
        /\ After(line, 2) = tail /\ line[1] = key
        /\ ~ ArrayHeader(line) /\ ~ TableHeader(line) /\ (KeyFirst(line) <=> key # Empty)
    BY <2>1, <2>2, PairLineHas
  <2>4. OneLine(line)
    BY <2>1, <2>2, PairLineHas
  <2> QED  BY <2>3, <2>4
<1>4. (ArrayPair(line) <=> key # Empty) /\ ~ NestedPair(line)
  BY <1>3 DEF ArrayPair, NestedPair, IsNested
<1>5. ~ ScalarPair(line)
  <2>1. <<"value">>[1] = "value"
    OBVIOUS
  <2> QED  BY <1>1, <1>3, <2>1 DEF ScalarPair
<1>6. line # <<>> /\ (Len(line) - 3) \div 2 = size
  <2>1. Len(line) = IF size = 0 THEN 4 ELSE 2 * size + 3
    BY <1>0, <1>1, <1>3
  <2>2. (4 - 3) \div 2 = 0 /\ ((2 * size + 3) - 3) \div 2 = size
    BY <1>0
  <2>3. line # <<>>
    BY <1>0, <2>1
  <2> QED  BY <2>1, <2>2, <2>3
<1>7. CASE key = Empty
  <2>1. ReadLine(r, line) = [r EXCEPT !.ok = FALSE]
    BY <1>3, <1>4, <1>5, <1>6, <1>7, ReadLineIs
  <2> QED  BY <1>3, <1>7, <2>1
<1>8. CASE key # Empty
  <2>1. ReadLine(r, line) = ReadPair(r, Append(r.at, <<line[1], 0>>), "array", (Len(line) - 3) \div 2)
    BY <1>3, <1>4, <1>5, <1>6, <1>8, ReadLineIs
  <2> QED  BY <1>3, <1>6, <1>8, <2>1
<1> QED  BY <1>7, <1>8

-------------------------------------------------------------------------------
(***************************************************************************)
(* The writer, step by step.                                               *)
(***************************************************************************)
LEMMA OrderIs ==
  ASSUME NEW order \in SetToSeqs(Part)
  PROVE  /\ order \in Seq(Part) /\ ToSet(order) = Part
         /\ \A i, j \in 1..Len(order) : order[i] = order[j] => i = j
<1> DEFINE n == Cardinality(Part)
<1>1. n \in Nat /\ IsFiniteSet(Part)
  BY TokenAssumption, FS_CardinalityType
<1>2. order \in [1..n -> Part] /\ \A i, j \in 1..n : i # j => order[i] # order[j]
  BY DEF SetToSeqs
<1>3. Cardinality(1..n) = n
  <2>1. 1 \in Int /\ n \in Int
    BY <1>1
  <2> HIDE DEF n
  <2>2. Cardinality(1..n) = IF 1 > n THEN 0 ELSE n - 1 + 1
    BY <2>1, FS_Interval
  <2> QED  BY <1>1, <2>2
<1>4. order \in Injection(1..n, Part)
  <2>1. order \in [1..n -> Part] /\ \A i, j \in 1..n : order[i] = order[j] => i = j
    BY <1>2
  <2> QED  BY <2>1 DEF Injection, IsInjective
<1>5. order \in Surjection(1..n, Part)
  BY <1>1, <1>3, <1>4, FS_Injection
<1>6. \A key \in Part : \E i \in 1..n : order[i] = key
  BY <1>5 DEF Surjection
<1> HIDE DEF n
<1>7. order \in Seq(Part) /\ Len(order) = n /\ DOMAIN order = 1..n
  BY <1>1, <1>2
<1>8. ToSet(order) = {order[i] : i \in 1..n}
  BY <1>7 DEF ToSet
<1> QED  BY <1>2, <1>6, <1>7, <1>8

LEMMA VisitIs ==
  ASSUME NEW order \in SetToSeqs(Part), NEW n \in Nat, NEW w \in PartWriters, NEW b \in Nat,
         NEW in_array \in BOOLEAN
  PROVE  Visits(heap, order)[n][<<w, b, in_array>>] =
           IF n = 0 THEN w ELSE visit(Visits(heap, order)[n - 1], heap, order, w, b, in_array)
<1> DEFINE V == Visits(heap, order)
           of == <<w, b, in_array>>
<1>1. V[n] = VisitLevel(heap, order, n, V[n - 1])
  BY VisitSteps
<1>2. w \in Writers(ToSet(order))
  BY OrderIs DEF PartWriters, Writers, Token
<1>3. of \in Writers(ToSet(order)) \X Nat \X BOOLEAN
  BY <1>2
<1> HIDE DEF V
<1>4. /\ of[1] = w /\ of[2] = b /\ of[3] = in_array
      /\ V[n][of] = IF n = 0 THEN of[1] ELSE visit(V[n - 1], heap, order, of[1], of[2], of[3])
  BY <1>1, <1>3 DEF VisitLevel
<1> QED  BY <1>4 DEF V

LEMMA EntriesIs ==
  ASSUME NEW n \in Nat, NEW b \in Nat, NEW p \in Path
  PROVE  EntriesTo[n][<<b, p>>] = IF n = 0 THEN {} ELSE EntriesOf(EntriesTo[n - 1], b, p)
<1> DEFINE of == <<b, p>>
<1>1. EntriesTo[n] = EntriesLevel(n, EntriesTo[n - 1])
  BY EntriesToSteps
<1>2. of \in Nat \X Seq(Part \X Nat) /\ of[1] = b /\ of[2] = p
  BY DEF Path, PathStep
<1>3. EntriesTo[n][of] = IF n = 0 THEN {} ELSE EntriesOf(EntriesTo[n - 1], of[1], of[2])
  <2> HIDE DEF of
  <2> QED  BY <1>1, <1>2 DEF EntriesLevel
<1> QED  BY <1>2, <1>3

LEMMA WriteIs ==
  ASSUME NEW w \in PartWriters, NEW s \in Seq(Token)
  PROVE  Fine(write(w, s)) /\ write(w, s).path = w.path /\ write(w, s).out = w.out \o s
<1> DEFINE o == w.out \o s
<1>1. o \in Seq(Token)
  BY JoinHas DEF PartWriters
<1>2. write(w, s) = [w EXCEPT !.out = o, !.naked = FALSE]
  BY DEF write
<1> HIDE DEF o
<1>3. /\ write(w, s) \in PartWriters /\ write(w, s).path = w.path /\ write(w, s).out = o
      /\ write(w, s).naked = FALSE
  BY <1>1, <1>2 DEF PartWriters
<1> QED  BY <1>3 DEF Fine, o

LEMMA EndlineIs ==
  ASSUME NEW w, Fine(w)
  PROVE  /\ Fine(endline(w)) /\ endline(w).path = w.path
         /\ OnNewLine(endline(w)) /\ Read(endline(w)) = Read(w)
<1>1. CASE w.naked
  BY <1>1 DEF endline, Fine
<1>2. CASE ~ w.naked
  <2> DEFINE o == Append(w.out, "\n")
             v == endline(w)
  <2>1. o \in Seq(Token) /\ w.out \in Seq(Token)
    <3>1. w.out \in Seq(Token) /\ "\n" \in Token
      BY TokensAre DEF Fine, PartWriters
    <3> QED  BY <3>1, AppendHas
  <2>2. v = [w EXCEPT !.out = o, !.naked = TRUE]
    BY <1>2 DEF endline
  <2> HIDE DEF o, v
  <2>3. v \in PartWriters /\ v.path = w.path /\ v.out = o
    BY <2>1, <2>2 DEF Fine, PartWriters
  <2>4. Last(Lines(o)) = <<>> /\ ReadLines(Lines(o)) = ReadLines(Lines(w.out))
    BY <2>1, LineEnds DEF o
  <2>5. Read(v) = ReadLines(Lines(o)) /\ Read(w) = ReadLines(Lines(w.out))
    BY <2>3, ReadIs DEF Fine
  <2> QED  BY <2>3, <2>4, <2>5 DEF Fine, OnNewLine, v
<1> QED  BY <1>1, <1>2

LEMMA EnterIs ==
  ASSUME NEW w, Fine(w), NEW key \in Part
  PROVE  /\ Fine(Enter(w, key)) /\ Enter(w, key).path = Append(w.path, key)
         /\ Read(Enter(w, key)) = Read(w) /\ (OnNewLine(w) <=> OnNewLine(Enter(w, key)))
<1> DEFINE ks == Append(w.path, key)
<1>1. ks \in Seq(Part)
  BY AppendHas DEF Fine, PartWriters
<1>2. Enter(w, key) = [w EXCEPT !.path = ks]
  BY DEF Enter
<1> HIDE DEF ks
<1>3. /\ Enter(w, key) \in PartWriters /\ Enter(w, key).path = ks
      /\ Enter(w, key).out = w.out /\ Enter(w, key).naked = w.naked
  BY <1>1, <1>2 DEF Fine, PartWriters
<1> QED  BY <1>3 DEF Fine, OnNewLine, Read, ks

LEMMA LeaveIs ==
  ASSUME NEW w, w \in PartWriters, NEW ks \in Seq(Part), NEW key \in Part, w.path = Append(ks, key)
  PROVE  /\ Leave(w) \in PartWriters /\ Leave(w).path = ks /\ (Fine(w) => Fine(Leave(w)))
         /\ Read(Leave(w)) = Read(w) /\ (OnNewLine(w) <=> OnNewLine(Leave(w)))
<1>1. Front(w.path) = ks
  BY AppendEnds
<1>2. Leave(w) = [w EXCEPT !.path = ks]
  BY <1>1 DEF Leave
<1>3. /\ Leave(w) \in PartWriters /\ Leave(w).path = ks
      /\ Leave(w).out = w.out /\ Leave(w).naked = w.naked
  BY <1>2 DEF PartWriters
<1> QED  BY <1>3 DEF Fine, OnNewLine, Read

LEMMA HeadIs ==
  ASSUME NEW w, w \in PartWriters, NEW in_array \in BOOLEAN
  PROVE  LET v == write_table_header(w, in_array)
         IN  /\ v \in PartWriters /\ v.path = w.path /\ (Fine(w) => Fine(v))
             /\ w.path = <<>> => v = w
             /\ Fine(w) /\ OnNewLine(w) /\ w.path # <<>> =>
                  OnNewLine(v) /\ Read(v) = ReadLine(Read(w), Header(w.path, in_array))
<1> DEFINE line == Header(w.path, in_array)
           u == write(w, line)
           v == write_table_header(w, in_array)
<1>1. CASE w.path = <<>>
  BY <1>1 DEF write_table_header
<1>2. CASE w.path # <<>>
  <2>1. w.path \in Seq(Part) /\ line \in Seq(Token) /\ OneLine(line)
    <3>1. w.path \in Seq(Part)
      BY DEF PartWriters
    <3> QED  BY <1>2, <3>1, HeaderHas
  <2>2. v = endline(u)
    <3>1. CASE in_array
      BY <1>2, <3>1 DEF write_table_header, Header, Dotted
    <3>2. CASE ~ in_array
      BY <1>2, <3>2 DEF write_table_header, Header, Dotted
    <3> QED  BY <3>1, <3>2
  <2> HIDE DEF line
  <2>3. Fine(u) /\ u.path = w.path /\ u.out = w.out \o line
    BY <2>1, WriteIs
  <2>4. OnNewLine(w) => Read(u) = ReadLine(Read(w), line)
    <3>1. u \in PartWriters
      BY <2>3 DEF Fine
    <3> HIDE DEF u
    <3> QED  BY <2>1, <2>3, <3>1, LineIs
  <2> HIDE DEF u
  <2>5. /\ Fine(endline(u)) /\ endline(u).path = u.path
        /\ OnNewLine(endline(u)) /\ Read(endline(u)) = Read(u)
    BY <2>3, EndlineIs
  <2> HIDE DEF v
  <2>6. v \in PartWriters
    BY <2>2, <2>5 DEF Fine
  <2> QED  BY <1>2, <2>2, <2>3, <2>4, <2>5, <2>6 DEF v, line
<1> QED  BY <1>1, <1>2

(* The beginning of an item.                                               *)
Begun(w, key, first) == IF first THEN Enter(w, key) ELSE endline(Enter(w, key))

LEMMA BegunIs ==
  ASSUME NEW w, Fine(w), NEW key \in Part, NEW first \in BOOLEAN, first => OnNewLine(w)
  PROVE  /\ Fine(Begun(w, key, first)) /\ Begun(w, key, first).path = Append(w.path, key)
         /\ OnNewLine(Begun(w, key, first)) /\ Read(Begun(w, key, first)) = Read(w)
<1> DEFINE e == Enter(w, key)
<1>1. Fine(e) /\ e.path = Append(w.path, key) /\ Read(e) = Read(w) /\ (OnNewLine(w) <=> OnNewLine(e))
  BY EnterIs
<1> HIDE DEF e
<1>2. /\ Fine(endline(e)) /\ endline(e).path = e.path
      /\ OnNewLine(endline(e)) /\ Read(endline(e)) = Read(e)
  BY <1>1, EndlineIs
<1>3. Begun(w, key, first) = IF first THEN e ELSE endline(e)
  BY DEF Begun, e
<1> QED  BY <1>1, <1>2, <1>3

(* The writers that are at a path; what visits an object comes back there. *)
At(ks) == {v \in PartWriters : v.path = ks}

Typed(deeper) ==
  \A ks \in Seq(Part), b \in 1..Len(heap), in_array \in BOOLEAN :
     \A v \in At(ks) : deeper[<<v, b, in_array>>] \in At(ks)

LEMMA StaysAt ==
  ASSUME NEW ks \in Seq(Part), NEW v \in At(ks)
  PROVE  /\ endline(v) \in At(ks)
         /\ \A s \in Seq(Token) : write(v, s) \in At(ks)
         /\ \A in_array \in BOOLEAN : write_table_header(v, in_array) \in At(ks)
         /\ \A key \in Part : Enter(v, key) \in At(Append(ks, key))
<1>1. v \in PartWriters /\ v.path = ks
  BY DEF At
<1>2. endline(v) \in At(ks)
  <2> DEFINE o == Append(v.out, "\n")
  <2>1. o \in Seq(Token)
    <3>1. v.out \in Seq(Token) /\ "\n" \in Token
      BY <1>1, TokensAre DEF PartWriters
    <3> QED  BY <3>1, AppendHas
  <2>2. endline(v) = IF v.naked THEN v ELSE [v EXCEPT !.out = o, !.naked = TRUE]
    BY DEF endline
  <2> HIDE DEF o
  <2> QED  BY <1>1, <2>1, <2>2 DEF At, PartWriters
<1>3. \A s \in Seq(Token) : write(v, s) \in At(ks)
  BY <1>1, WriteIs DEF At, Fine
<1>4. \A in_array \in BOOLEAN : write_table_header(v, in_array) \in At(ks)
  BY <1>1, HeadIs DEF At
<1>5. ASSUME NEW key \in Part  PROVE Enter(v, key) \in At(Append(ks, key))
  <2> DEFINE q == Append(ks, key)
  <2>1. q \in Seq(Part)
    BY AppendHas
  <2>2. Enter(v, key) = [v EXCEPT !.path = q]
    BY <1>1 DEF Enter
  <2> HIDE DEF q
  <2>3. Enter(v, key) \in At(q)
    BY <1>1, <2>1, <2>2 DEF At, PartWriters
  <2> QED  BY <2>3 DEF q
<1> QED  BY <1>2, <1>3, <1>4, <1>5

LEMMA ComesBack ==
  ASSUME NEW ks \in Seq(Part), NEW key \in Part, NEW v \in At(Append(ks, key))
  PROVE  Leave(v) \in At(ks)
<1>1. v \in PartWriters /\ v.path = Append(ks, key)
  BY DEF At
<1>2. Leave(v) \in PartWriters /\ Leave(v).path = ks
  BY <1>1, LeaveIs
<1> QED  BY <1>2 DEF At

(* The head of an item: of a pair, its key.                                *)
LEMMA ItemHeadIs ==
  ASSUME NEW ks \in Seq(Part), NEW key \in Part, NEW w \in At(Append(ks, key)), NEW b
  PROVE  /\ write_table_item_header(heap, w, b) =
              IF is_table_or_tables(heap, b) THEN w ELSE write(w, <<key, "=">>)
         /\ write_table_item_header(heap, w, b) \in At(Append(ks, key))
         /\ <<key, "=">> \in Seq(Token)
<1>1. Last(w.path) = key
  <2>1. w.path = Append(ks, key)
    BY DEF At
  <2>2. Last(Append(ks, key)) = key
    BY AppendEnds
  <2> QED  BY <2>1, <2>2
<1>2. <<key, "=">> \in Seq(Token)
  BY TokensAre, ShortOnes
<1>3. write_table_item_header(heap, w, b) = IF is_table_or_tables(heap, b) THEN w ELSE write(w, <<key, "=">>)
  BY <1>1 DEF write_table_item_header
<1>4. write(w, <<key, "=">>) \in At(Append(ks, key))
  <2> DEFINE q == Append(ks, key)
  <2>1. q \in Seq(Part)
    BY AppendHas
  <2> HIDE DEF q
  <2>2. w \in At(q)
    BY DEF q
  <2>3. write(w, <<key, "=">>) \in At(q)
    BY <1>2, <2>1, <2>2, StaysAt
  <2> QED  BY <2>3 DEF q
<1> QED  BY <1>2, <1>3, <1>4

ItemVisit(deeper, w, t, key, first) ==
  deeper[<<write_table_item_header(heap, Begun(w, key, first), heap[t].map_[key]), heap[t].map_[key], FALSE>>]

LEMMA ItemIs ==
  ASSUME NEW deeper, NEW w, NEW t, NEW key, NEW first
  PROVE  Item(deeper, heap, w, t, key, first) = Leave(ItemVisit(deeper, w, t, key, first))
  BY DEF Item, ItemVisit, Begun

LEMMA ItemTyped ==
  ASSUME NEW deeper, Typed(deeper), NEW ks \in Seq(Part), NEW w \in At(ks), NEW t, NEW key \in Part,
         heap[t].map_[key] \in 1..Len(heap), NEW first \in BOOLEAN
  PROVE  Item(deeper, heap, w, t, key, first) \in At(ks)
<1> DEFINE q == Append(ks, key)
           b == heap[t].map_[key]
           begun == Begun(w, key, first)
           head == write_table_item_header(heap, begun, b)
           v == deeper[<<head, b, FALSE>>]
<1>1. q \in Seq(Part)
  BY AppendHas
<1>2. Enter(w, key) \in At(q)
  BY StaysAt
<1>3. b \in 1..Len(heap)
  OBVIOUS
<1>4. v = ItemVisit(deeper, w, t, key, first)
  BY DEF ItemVisit
<1>5. \A u \in At(q) : write_table_item_header(heap, u, b) \in At(q)
  BY ItemHeadIs
<1> HIDE DEF q, b
<1>6. begun \in At(q)
  BY <1>1, <1>2, StaysAt DEF Begun
<1> HIDE DEF begun
<1>7. head \in At(q)
  BY <1>5, <1>6
<1> HIDE DEF head
<1>8. v \in At(q)
  BY <1>1, <1>3, <1>7 DEF Typed
<1>9. Leave(v) \in At(ks)
  <2> HIDE DEF v
  <2> QED  BY <1>8, ComesBack DEF q
<1> QED  BY <1>4, <1>9, ItemIs

Group(t, keys, none, D) ==
  none \in BOOLEAN /\ \A i \in D : keys[i] \in Part /\ heap[t].map_[keys[i]] \in 1..Len(heap)

ElementStep(deeper, a, v, i) == deeper[<<IF i = 1 THEN v ELSE write(v, <<",">>), a[i], TRUE>>]

TableStep(deeper, a, v, i) == deeper[<<IF i = 1 THEN v ELSE endline(v), a[i], TRUE>>]

Places(a, D) == \A i \in D : a[i] \in 1..Len(heap)

First(none, i) == none /\ i = 1

EachItem(deeper, t, keys, none, w, s) ==
  FoldLeft(LAMBDA v, i : Item(deeper, heap, v, t, keys[i], First(none, i)), w, s)

EachElement(deeper, a, w, s) ==
  FoldLeft(LAMBDA v, i : ElementStep(deeper, a, v, i), w, s)

EachTable(deeper, a, w, s) ==
  FoldLeft(LAMBDA v, i : TableStep(deeper, a, v, i), w, s)

(***************************************************************************)
(* The items, one by one.                                                  *)
(***************************************************************************)
LEMMA EachFolds ==
  ASSUME NEW deeper, NEW ks \in Seq(Part), NEW t, NEW keys, NEW none, NEW D,
         NEW w \in At(ks), NEW s \in Seq(D), Typed(deeper), Group(t, keys, none, D)
  PROVE  \E f \in [0..Len(s) -> At(ks)] :
            /\ f[0] = w /\ EachItem(deeper, t, keys, none, w, s) = f[Len(s)]
            /\ \A i \in 1..Len(s) : f[i] = Item(deeper, heap, f[i - 1], t, keys[s[i]], First(none, s[i]))
<1> DEFINE n == Len(s)
           R == At(ks)
           base == w
           More(r, x) == Item(deeper, heap, r, t, keys[x], First(none, x))
           g == [p \in R \X (1..n) |-> More(p[1], s[p[2]])]
           Is(f) == f = [z \in SUBSET DOMAIN s |->
                           IF z = {} THEN base ELSE More(f[z \ {Max(z)}], s[Max(z)])]
           iter == CHOOSE f : Is(f)
           f0 == [i \in 0..n |-> iter[1..i]]
<1>1. n \in Nat /\ DOMAIN s = 1..n /\ \A i \in 1..n : s[i] \in D
  OBVIOUS
<1>2. ASSUME NEW r \in R, NEW x \in D  PROVE More(r, x) \in R
  <2>1. keys[x] \in Part /\ heap[t].map_[keys[x]] \in 1..Len(heap) /\ First(none, x) \in BOOLEAN
    BY DEF Group, First
  <2> DEFINE first == First(none, x)
  <2>2. first \in BOOLEAN
    BY <2>1
  <2> HIDE DEF first
  <2>3. Item(deeper, heap, r, t, keys[x], first) \in At(ks)
    BY <2>1, <2>2, ItemTyped
  <2> QED  BY <2>3 DEF first
<1>3. base \in R
  OBVIOUS
<1>5. EachItem(deeper, t, keys, none, w, s) = iter[1..n]
  BY <1>1 DEF EachItem, FoldLeft, MapThenFoldSet
<1> HIDE DEF More, R, base, n
<1>4. g \in [R \X (1..n) -> R]
  BY <1>1, <1>2
<1>6. PICK f \in [SUBSET (1..n) -> R] : Folds(n, base, g, f)
  <2> HIDE DEF g
  <2> QED  BY <1>1, <1>3, <1>4, FoldExists DEF HasFold
<1>7. Is(f)
  <2>1. ASSUME NEW z \in SUBSET (1..n), z # {}
        PROVE  g[<<f[z \ {Max(z)}], Max(z)>>] = More(f[z \ {Max(z)}], s[Max(z)])
    <3>1. Max(z) \in 1..n
      BY <1>1, <2>1, MaxIs
    <3>2. f[z \ {Max(z)}] \in R
      BY <1>6
    <3> DEFINE q == f[z \ {Max(z)}]
    <3> HIDE DEF q
    <3>3. q \in R
      BY <3>2 DEF q
    <3>4. g[<<q, Max(z)>>] = More(q, s[Max(z)])
      BY <3>1, <3>3
    <3> QED  BY <3>4 DEF q
  <2> HIDE DEF g
  <2>2. f = [z \in SUBSET (1..n) |-> IF z = {} THEN base ELSE g[<<f[z \ {Max(z)}], Max(z)>>]]
    BY <1>6 DEF Folds
  <2> DEFINE rhs == [z \in SUBSET DOMAIN s |-> IF z = {} THEN base ELSE More(f[z \ {Max(z)}], s[Max(z)])]
  <2>3. \A z \in SUBSET (1..n) : f[z] = rhs[z]
    BY <1>1, <2>1, <2>2
  <2>4. DOMAIN rhs = SUBSET (1..n) /\ DOMAIN f = SUBSET (1..n)
    BY <1>1, <1>6
  <2>5. rhs = [z \in SUBSET (1..n) |-> rhs[z]] /\ f = [z \in SUBSET (1..n) |-> f[z]]
    BY <2>4
  <2> HIDE DEF rhs
  <2>6. f = rhs
    BY <2>3, <2>5
  <2> QED  BY <2>6 DEF rhs
<1>8. Is(iter)
  BY <1>7
<1> HIDE DEF iter
<1>9. iter[{}] = base
  BY <1>8
<1>10. ASSUME NEW i \in 1..n  PROVE iter[1..i] = More(iter[1..(i - 1)], s[i])
  <2>0. n \in Nat /\ i \in Nat /\ 1..i \subseteq 1..n /\ i \in 1..i
    BY <1>1
  <2>1. 1..i \in SUBSET DOMAIN s /\ i \in 1..i /\ 1..i # {} /\ n \in Nat
    BY <1>1, <2>0
  <2>2. Max(1..i) \in 1..i /\ \A m \in 1..i : Max(1..i) >= m
    BY <1>1, <2>1, MaxIs
  <2>3. Max(1..i) = i
    BY <2>1, <2>2
  <2>4. (1..i) \ {i} = 1..(i - 1)
    OBVIOUS
  <2>5. iter[1..i] = More(iter[(1..i) \ {Max(1..i)}], s[Max(1..i)])
    BY <1>8, <2>1
  <2> QED  BY <2>3, <2>4, <2>5
<1>11. f0[0] = base
  <2>1. 1..0 = {} /\ 0 \in 0..n
    BY <1>1
  <2> QED  BY <1>9, <2>1
<1>12. f0[n] = iter[1..n]
  BY <1>1
<1>13. \A i \in 1..n : f0[i] = More(f0[i - 1], s[i])
  BY <1>1, <1>10
<1>14. \A i \in 0..n : f0[i] \in R
  <2> DEFINE T == {i \in Nat : i <= n => f0[i] \in R}
  <2> HIDE DEF f0
  <2>1. 0 \in T
    BY <1>3, <1>11
  <2>2. ASSUME NEW i \in Nat, i \in T  PROVE i + 1 \in T
    <3>1. i + 1 <= n => i + 1 \in 1..n /\ (i + 1) - 1 = i /\ i <= n
      BY <1>1
    <3>2. i + 1 <= n => f0[i + 1] \in R
      BY <1>1, <1>2, <1>13, <2>2, <3>1
    <3> QED  BY <3>2
  <2> HIDE DEF T
  <2>3. Nat \subseteq T
    BY <2>1, <2>2, Induction
  <2> QED  BY <1>1, <2>3 DEF T
<1>15. f0 \in [0..n -> R]
  BY <1>14
<1> HIDE DEF f0
<1>16. /\ f0 \in [0..n -> R] /\ f0[0] = base /\ EachItem(deeper, t, keys, none, w, s) = f0[n]
       /\ \A i \in 1..n : f0[i] = More(f0[i - 1], s[i])
  BY <1>5, <1>11, <1>12, <1>13, <1>15
<1> QED  BY <1>16 DEF n, R, base, More

LEMMA CountIs ==
  ASSUME NEW m \in Nat
  PROVE  LET s == [i \in 1..m |-> i]
         IN  s \in Seq(1..m) /\ Len(s) = m /\ \A i \in 1..m : s[i] = i
OBVIOUS

LEMMA CommaIs == <<",">> \in Seq(Token)
  BY TokensAre, ShortOnes

LEMMA OpenIs == <<"[">> \in Seq(Token) /\ <<"]">> \in Seq(Token) /\ <<"value">> \in Seq(Token)
  BY TokensAre, ShortOnes

LEMMA ItemsAre ==
  ASSUME NEW deeper, NEW ks, NEW t, NEW keys, NEW none, NEW w, NEW D,
         ks \in Seq(Part), keys \in Seq(Part), w \in At(ks), Typed(deeper), D = 1..Len(keys),
         Group(t, keys, none, D)
  PROVE  \E f \in [0..Len(keys) -> At(ks)] :
            /\ f[0] = w /\ Items(deeper, heap, w, t, keys, none) = f[Len(keys)]
            /\ \A i \in 1..Len(keys) :
                  f[i] = Item(deeper, heap, f[i - 1], t, keys[i], First(none, i))
<1> DEFINE m == Len(keys)
           s == [i \in 1..m |-> i]
<1>1. m \in Nat /\ \A i \in 1..m : keys[i] \in Part /\ heap[t].map_[keys[i]] \in 1..Len(heap)
  BY DEF Group
<1>2. s \in Seq(1..m) /\ Len(s) = m /\ \A i \in 1..m : s[i] = i
  BY <1>1, CountIs
<1>3. Items(deeper, heap, w, t, keys, none) = EachItem(deeper, t, keys, none, w, s)
  BY DEF Items, EachItem, First
<1> HIDE DEF m, s
<1>4. PICK f \in [0..Len(s) -> At(ks)] :
            /\ f[0] = w
            /\ EachItem(deeper, t, keys, none, w, s) = f[Len(s)]
            /\ \A i \in 1..Len(s) : f[i] = Item(deeper, heap, f[i - 1], t, keys[s[i]], First(none, s[i]))
  <2> DEFINE places == 1..m
  <2>1. s \in Seq(places) /\ Group(t, keys, none, places)
    BY <1>1, <1>2 DEF Group
  <2> HIDE DEF places
  <2> QED  BY <2>1, EachFolds
<1>5. /\ f \in [0..m -> At(ks)] /\ f[0] = w /\ Items(deeper, heap, w, t, keys, none) = f[m]
      /\ \A i \in 1..m : f[i] = Item(deeper, heap, f[i - 1], t, keys[i], First(none, i))
  BY <1>1, <1>2, <1>3, <1>4
<1> QED  BY <1>5 DEF m

(***************************************************************************)
(* The elements of an array, and of an array of tables, one by one.        *)
(***************************************************************************)
LEMMA ElementsFolds ==
  ASSUME NEW deeper, NEW ks \in Seq(Part), NEW a, NEW D, NEW w \in At(ks), NEW s \in Seq(D), Typed(deeper), Places(a, D)
  PROVE  \E f \in [0..Len(s) -> At(ks)] :
            /\ f[0] = w /\ EachElement(deeper, a, w, s) = f[Len(s)]
            /\ \A i \in 1..Len(s) : f[i] = ElementStep(deeper, a, f[i - 1], s[i])
<1> DEFINE n == Len(s)
           R == At(ks)
           base == w
           More(r, x) == ElementStep(deeper, a, r, x)
           g == [p \in R \X (1..n) |-> More(p[1], s[p[2]])]
           Is(f) == f = [t \in SUBSET DOMAIN s |->
                           IF t = {} THEN base ELSE More(f[t \ {Max(t)}], s[Max(t)])]
           iter == CHOOSE f : Is(f)
           f0 == [i \in 0..n |-> iter[1..i]]
<1>1. n \in Nat /\ DOMAIN s = 1..n /\ \A i \in 1..n : s[i] \in D
  OBVIOUS
<1>2. ASSUME NEW r \in R, NEW x \in D  PROVE More(r, x) \in R
  <2> DEFINE u == IF x = 1 THEN r ELSE write(r, <<",">>)
  <2>1. a[x] \in 1..Len(heap)
    BY DEF Places
  <2>2. u \in At(ks)
    BY CommaIs, StaysAt
  <2> HIDE DEF u
  <2>3. deeper[<<u, a[x], TRUE>>] \in At(ks)
    BY <2>1, <2>2 DEF Typed
  <2> QED  BY <2>3 DEF u, ElementStep
<1>3. base \in R
  OBVIOUS
<1>5. EachElement(deeper, a, w, s) = iter[1..n]
  BY <1>1 DEF EachElement, FoldLeft, MapThenFoldSet
<1> HIDE DEF More, R, base, n
<1>4. g \in [R \X (1..n) -> R]
  BY <1>1, <1>2
<1>6. PICK f \in [SUBSET (1..n) -> R] : Folds(n, base, g, f)
  <2> HIDE DEF g
  <2> QED  BY <1>1, <1>3, <1>4, FoldExists DEF HasFold
<1>7. Is(f)
  <2>1. ASSUME NEW t \in SUBSET (1..n), t # {}
        PROVE  g[<<f[t \ {Max(t)}], Max(t)>>] = More(f[t \ {Max(t)}], s[Max(t)])
    <3>1. Max(t) \in 1..n
      BY <1>1, <2>1, MaxIs
    <3>2. f[t \ {Max(t)}] \in R
      BY <1>6
    <3> DEFINE q == f[t \ {Max(t)}]
    <3> HIDE DEF q
    <3>3. q \in R
      BY <3>2 DEF q
    <3>4. g[<<q, Max(t)>>] = More(q, s[Max(t)])
      BY <3>1, <3>3
    <3> QED  BY <3>4 DEF q
  <2> HIDE DEF g
  <2>2. f = [t \in SUBSET (1..n) |-> IF t = {} THEN base ELSE g[<<f[t \ {Max(t)}], Max(t)>>]]
    BY <1>6 DEF Folds
  <2> DEFINE rhs == [t \in SUBSET DOMAIN s |-> IF t = {} THEN base ELSE More(f[t \ {Max(t)}], s[Max(t)])]
  <2>3. \A t \in SUBSET (1..n) : f[t] = rhs[t]
    BY <1>1, <2>1, <2>2
  <2>4. DOMAIN rhs = SUBSET (1..n) /\ DOMAIN f = SUBSET (1..n)
    BY <1>1, <1>6
  <2>5. rhs = [t \in SUBSET (1..n) |-> rhs[t]] /\ f = [t \in SUBSET (1..n) |-> f[t]]
    BY <2>4
  <2> HIDE DEF rhs
  <2>6. f = rhs
    BY <2>3, <2>5
  <2> QED  BY <2>6 DEF rhs
<1>8. Is(iter)
  BY <1>7
<1> HIDE DEF iter
<1>9. iter[{}] = base
  BY <1>8
<1>10. ASSUME NEW i \in 1..n  PROVE iter[1..i] = More(iter[1..(i - 1)], s[i])
  <2>0. n \in Nat /\ i \in Nat /\ 1..i \subseteq 1..n /\ i \in 1..i
    BY <1>1
  <2>1. 1..i \in SUBSET DOMAIN s /\ i \in 1..i /\ 1..i # {} /\ n \in Nat
    BY <1>1, <2>0
  <2>2. Max(1..i) \in 1..i /\ \A m \in 1..i : Max(1..i) >= m
    BY <1>1, <2>1, MaxIs
  <2>3. Max(1..i) = i
    BY <2>1, <2>2
  <2>4. (1..i) \ {i} = 1..(i - 1)
    OBVIOUS
  <2>5. iter[1..i] = More(iter[(1..i) \ {Max(1..i)}], s[Max(1..i)])
    BY <1>8, <2>1
  <2> QED  BY <2>3, <2>4, <2>5
<1>11. f0[0] = base
  <2>1. 1..0 = {} /\ 0 \in 0..n
    BY <1>1
  <2> QED  BY <1>9, <2>1
<1>12. f0[n] = iter[1..n]
  BY <1>1
<1>13. \A i \in 1..n : f0[i] = More(f0[i - 1], s[i])
  BY <1>1, <1>10
<1>14. \A i \in 0..n : f0[i] \in R
  <2> DEFINE T == {i \in Nat : i <= n => f0[i] \in R}
  <2> HIDE DEF f0
  <2>1. 0 \in T
    BY <1>3, <1>11
  <2>2. ASSUME NEW i \in Nat, i \in T  PROVE i + 1 \in T
    <3>1. i + 1 <= n => i + 1 \in 1..n /\ (i + 1) - 1 = i /\ i <= n
      BY <1>1
    <3>2. i + 1 <= n => f0[i + 1] \in R
      BY <1>1, <1>2, <1>13, <2>2, <3>1
    <3> QED  BY <3>2
  <2> HIDE DEF T
  <2>3. Nat \subseteq T
    BY <2>1, <2>2, Induction
  <2> QED  BY <1>1, <2>3 DEF T
<1>15. f0 \in [0..n -> R]
  BY <1>14
<1> HIDE DEF f0
<1>16. /\ f0 \in [0..n -> R] /\ f0[0] = base /\ EachElement(deeper, a, w, s) = f0[n]
       /\ \A i \in 1..n : f0[i] = More(f0[i - 1], s[i])
  BY <1>5, <1>11, <1>12, <1>13, <1>15
<1> QED  BY <1>16 DEF n, R, base, More

LEMMA TablesFolds ==
  ASSUME NEW deeper, NEW ks \in Seq(Part), NEW a, NEW D, NEW w \in At(ks), NEW s \in Seq(D), Typed(deeper), Places(a, D)
  PROVE  \E f \in [0..Len(s) -> At(ks)] :
            /\ f[0] = w /\ EachTable(deeper, a, w, s) = f[Len(s)]
            /\ \A i \in 1..Len(s) : f[i] = TableStep(deeper, a, f[i - 1], s[i])
<1> DEFINE n == Len(s)
           R == At(ks)
           base == w
           More(r, x) == TableStep(deeper, a, r, x)
           g == [p \in R \X (1..n) |-> More(p[1], s[p[2]])]
           Is(f) == f = [t \in SUBSET DOMAIN s |->
                           IF t = {} THEN base ELSE More(f[t \ {Max(t)}], s[Max(t)])]
           iter == CHOOSE f : Is(f)
           f0 == [i \in 0..n |-> iter[1..i]]
<1>1. n \in Nat /\ DOMAIN s = 1..n /\ \A i \in 1..n : s[i] \in D
  OBVIOUS
<1>2. ASSUME NEW r \in R, NEW x \in D  PROVE More(r, x) \in R
  <2> DEFINE u == IF x = 1 THEN r ELSE endline(r)
  <2>1. a[x] \in 1..Len(heap)
    BY DEF Places
  <2>2. u \in At(ks)
    BY StaysAt
  <2> HIDE DEF u
  <2>3. deeper[<<u, a[x], TRUE>>] \in At(ks)
    BY <2>1, <2>2 DEF Typed
  <2> QED  BY <2>3 DEF u, TableStep
<1>3. base \in R
  OBVIOUS
<1>5. EachTable(deeper, a, w, s) = iter[1..n]
  BY <1>1 DEF EachTable, FoldLeft, MapThenFoldSet
<1> HIDE DEF More, R, base, n
<1>4. g \in [R \X (1..n) -> R]
  BY <1>1, <1>2
<1>6. PICK f \in [SUBSET (1..n) -> R] : Folds(n, base, g, f)
  <2> HIDE DEF g
  <2> QED  BY <1>1, <1>3, <1>4, FoldExists DEF HasFold
<1>7. Is(f)
  <2>1. ASSUME NEW t \in SUBSET (1..n), t # {}
        PROVE  g[<<f[t \ {Max(t)}], Max(t)>>] = More(f[t \ {Max(t)}], s[Max(t)])
    <3>1. Max(t) \in 1..n
      BY <1>1, <2>1, MaxIs
    <3>2. f[t \ {Max(t)}] \in R
      BY <1>6
    <3> DEFINE q == f[t \ {Max(t)}]
    <3> HIDE DEF q
    <3>3. q \in R
      BY <3>2 DEF q
    <3>4. g[<<q, Max(t)>>] = More(q, s[Max(t)])
      BY <3>1, <3>3
    <3> QED  BY <3>4 DEF q
  <2> HIDE DEF g
  <2>2. f = [t \in SUBSET (1..n) |-> IF t = {} THEN base ELSE g[<<f[t \ {Max(t)}], Max(t)>>]]
    BY <1>6 DEF Folds
  <2> DEFINE rhs == [t \in SUBSET DOMAIN s |-> IF t = {} THEN base ELSE More(f[t \ {Max(t)}], s[Max(t)])]
  <2>3. \A t \in SUBSET (1..n) : f[t] = rhs[t]
    BY <1>1, <2>1, <2>2
  <2>4. DOMAIN rhs = SUBSET (1..n) /\ DOMAIN f = SUBSET (1..n)
    BY <1>1, <1>6
  <2>5. rhs = [t \in SUBSET (1..n) |-> rhs[t]] /\ f = [t \in SUBSET (1..n) |-> f[t]]
    BY <2>4
  <2> HIDE DEF rhs
  <2>6. f = rhs
    BY <2>3, <2>5
  <2> QED  BY <2>6 DEF rhs
<1>8. Is(iter)
  BY <1>7
<1> HIDE DEF iter
<1>9. iter[{}] = base
  BY <1>8
<1>10. ASSUME NEW i \in 1..n  PROVE iter[1..i] = More(iter[1..(i - 1)], s[i])
  <2>0. n \in Nat /\ i \in Nat /\ 1..i \subseteq 1..n /\ i \in 1..i
    BY <1>1
  <2>1. 1..i \in SUBSET DOMAIN s /\ i \in 1..i /\ 1..i # {} /\ n \in Nat
    BY <1>1, <2>0
  <2>2. Max(1..i) \in 1..i /\ \A m \in 1..i : Max(1..i) >= m
    BY <1>1, <2>1, MaxIs
  <2>3. Max(1..i) = i
    BY <2>1, <2>2
  <2>4. (1..i) \ {i} = 1..(i - 1)
    OBVIOUS
  <2>5. iter[1..i] = More(iter[(1..i) \ {Max(1..i)}], s[Max(1..i)])
    BY <1>8, <2>1
  <2> QED  BY <2>3, <2>4, <2>5
<1>11. f0[0] = base
  <2>1. 1..0 = {} /\ 0 \in 0..n
    BY <1>1
  <2> QED  BY <1>9, <2>1
<1>12. f0[n] = iter[1..n]
  BY <1>1
<1>13. \A i \in 1..n : f0[i] = More(f0[i - 1], s[i])
  BY <1>1, <1>10
<1>14. \A i \in 0..n : f0[i] \in R
  <2> DEFINE T == {i \in Nat : i <= n => f0[i] \in R}
  <2> HIDE DEF f0
  <2>1. 0 \in T
    BY <1>3, <1>11
  <2>2. ASSUME NEW i \in Nat, i \in T  PROVE i + 1 \in T
    <3>1. i + 1 <= n => i + 1 \in 1..n /\ (i + 1) - 1 = i /\ i <= n
      BY <1>1
    <3>2. i + 1 <= n => f0[i + 1] \in R
      BY <1>1, <1>2, <1>13, <2>2, <3>1
    <3> QED  BY <3>2
  <2> HIDE DEF T
  <2>3. Nat \subseteq T
    BY <2>1, <2>2, Induction
  <2> QED  BY <1>1, <2>3 DEF T
<1>15. f0 \in [0..n -> R]
  BY <1>14
<1> HIDE DEF f0
<1>16. /\ f0 \in [0..n -> R] /\ f0[0] = base /\ EachTable(deeper, a, w, s) = f0[n]
       /\ \A i \in 1..n : f0[i] = More(f0[i - 1], s[i])
  BY <1>5, <1>11, <1>12, <1>13, <1>15
<1> QED  BY <1>16 DEF n, R, base, More

LEMMA ArrayVisits ==
  ASSUME NEW deeper, NEW ks \in Seq(Part), NEW b \in 1..Len(heap), NEW w \in At(ks), Typed(deeper), HeapInv(heap)
  PROVE  \E f \in [0..Len(heap[b].array_) -> At(ks)] :
            /\ f[0] = write(w, <<"[">>)
            /\ visit_array(deeper, heap, w, b) = write(f[Len(heap[b].array_)], <<"]">>)
            /\ \A i \in 1..Len(heap[b].array_) :
                  f[i] = ElementStep(deeper, heap[b].array_, f[i - 1], i)
<1> DEFINE a == heap[b].array_
           m == Len(a)
           s == [i \in 1..m |-> i]
           base == write(w, <<"[">>)
<1>1. m \in Nat /\ \A i \in 1..m : a[i] \in 1..Len(heap)
  BY ArrayEnds, ElementFacts
<1>2. s \in Seq(1..m) /\ Len(s) = m /\ \A i \in 1..m : s[i] = i
  BY <1>1, CountIs
<1>3. visit_array(deeper, heap, w, b) = write(EachElement(deeper, a, base, s), <<"]">>)
  BY DEF visit_array, EachElement, ElementStep
<1>4. base \in At(ks)
  BY StaysAt, OpenIs
<1> HIDE DEF a, m, s, base
<1>5. PICK f \in [0..Len(s) -> At(ks)] :
            /\ f[0] = base /\ EachElement(deeper, a, base, s) = f[Len(s)]
            /\ \A i \in 1..Len(s) :
                  f[i] = ElementStep(deeper, a, f[i - 1], s[i])
  <2> DEFINE D == 1..m
  <2>1. base \in At(ks) /\ s \in Seq(D) /\ Places(a, D)
    BY <1>1, <1>2, <1>4 DEF Places
  <2> HIDE DEF D
  <2> QED  BY <2>1, ElementsFolds
<1>6. /\ f \in [0..m -> At(ks)] /\ f[0] = base
      /\ visit_array(deeper, heap, w, b) = write(f[m], <<"]">>)
      /\ \A i \in 1..m : f[i] = ElementStep(deeper, a, f[i - 1], i)
  BY <1>1, <1>2, <1>3, <1>5
<1> QED  BY <1>6 DEF m, a, base

LEMMA TablesVisits ==
  ASSUME NEW deeper, NEW ks \in Seq(Part), NEW b \in 1..Len(heap), NEW w \in At(ks), Typed(deeper), HeapInv(heap)
  PROVE  \E f \in [0..Len(heap[b].array_) -> At(ks)] :
            /\ f[0] = w
            /\ visit_table_array(deeper, heap, w, b) = endline(f[Len(heap[b].array_)])
            /\ \A i \in 1..Len(heap[b].array_) :
                  f[i] = TableStep(deeper, heap[b].array_, f[i - 1], i)
<1> DEFINE a == heap[b].array_
           m == Len(a)
           s == [i \in 1..m |-> i]
           base == w
<1>1. m \in Nat /\ \A i \in 1..m : a[i] \in 1..Len(heap)
  BY ArrayEnds, ElementFacts
<1>2. s \in Seq(1..m) /\ Len(s) = m /\ \A i \in 1..m : s[i] = i
  BY <1>1, CountIs
<1>3. visit_table_array(deeper, heap, w, b) = endline(EachTable(deeper, a, base, s))
  BY DEF visit_table_array, EachTable, TableStep
<1>4. base \in At(ks)
  BY StaysAt, OpenIs
<1> HIDE DEF a, m, s, base
<1>5. PICK f \in [0..Len(s) -> At(ks)] :
            /\ f[0] = base /\ EachTable(deeper, a, base, s) = f[Len(s)]
            /\ \A i \in 1..Len(s) :
                  f[i] = TableStep(deeper, a, f[i - 1], s[i])
  <2> DEFINE D == 1..m
  <2>1. base \in At(ks) /\ s \in Seq(D) /\ Places(a, D)
    BY <1>1, <1>2, <1>4 DEF Places
  <2> HIDE DEF D
  <2> QED  BY <2>1, TablesFolds
<1>6. /\ f \in [0..m -> At(ks)] /\ f[0] = base
      /\ visit_table_array(deeper, heap, w, b) = endline(f[m])
      /\ \A i \in 1..m : f[i] = TableStep(deeper, a, f[i - 1], i)
  BY <1>1, <1>2, <1>3, <1>5
<1> QED  BY <1>6 DEF m, a, base

OneThose(set, those, key) == IF key \in set THEN Append(those, key) ELSE those

(***************************************************************************)
(* Some of the keys, in the order they have.                               *)
(***************************************************************************)
LEMMA ThoseFolds ==
  ASSUME NEW set, NEW s \in Seq(Part)
  PROVE  \E f \in [0..Len(s) -> Seq(Part)] :
            /\ f[0] = <<>> /\ Those(s, set) = f[Len(s)]
            /\ \A i \in 1..Len(s) : f[i] = OneThose(set, f[i - 1], s[i])
<1> DEFINE n == Len(s)
           R == Seq(Part)
           base == <<>>
           More(r, x) == OneThose(set, r, x)
           g == [p \in R \X (1..n) |-> More(p[1], s[p[2]])]
           Is(f) == f = [t \in SUBSET DOMAIN s |->
                           IF t = {} THEN base ELSE More(f[t \ {Max(t)}], s[Max(t)])]
           iter == CHOOSE f : Is(f)
           f0 == [i \in 0..n |-> iter[1..i]]
<1>1. n \in Nat /\ DOMAIN s = 1..n /\ \A i \in 1..n : s[i] \in Part
  OBVIOUS
<1>2. ASSUME NEW r \in R, NEW x \in Part  PROVE More(r, x) \in R
  BY AppendHas DEF OneThose
<1>3. base \in R
  OBVIOUS
<1>5. Those(s, set) = iter[1..n]
  BY <1>1 DEF Those, OneThose, FoldLeft, MapThenFoldSet
<1> HIDE DEF More, R, base, n
<1>4. g \in [R \X (1..n) -> R]
  BY <1>1, <1>2
<1>6. PICK f \in [SUBSET (1..n) -> R] : Folds(n, base, g, f)
  <2> HIDE DEF g
  <2> QED  BY <1>1, <1>3, <1>4, FoldExists DEF HasFold
<1>7. Is(f)
  <2>1. ASSUME NEW t \in SUBSET (1..n), t # {}
        PROVE  g[<<f[t \ {Max(t)}], Max(t)>>] = More(f[t \ {Max(t)}], s[Max(t)])
    <3>1. Max(t) \in 1..n
      BY <1>1, <2>1, MaxIs
    <3>2. f[t \ {Max(t)}] \in R
      BY <1>6
    <3> DEFINE q == f[t \ {Max(t)}]
    <3> HIDE DEF q
    <3>3. q \in R
      BY <3>2 DEF q
    <3>4. g[<<q, Max(t)>>] = More(q, s[Max(t)])
      BY <3>1, <3>3
    <3> QED  BY <3>4 DEF q
  <2> HIDE DEF g
  <2>2. f = [t \in SUBSET (1..n) |-> IF t = {} THEN base ELSE g[<<f[t \ {Max(t)}], Max(t)>>]]
    BY <1>6 DEF Folds
  <2> DEFINE rhs == [t \in SUBSET DOMAIN s |-> IF t = {} THEN base ELSE More(f[t \ {Max(t)}], s[Max(t)])]
  <2>3. \A t \in SUBSET (1..n) : f[t] = rhs[t]
    BY <1>1, <2>1, <2>2
  <2>4. DOMAIN rhs = SUBSET (1..n) /\ DOMAIN f = SUBSET (1..n)
    BY <1>1, <1>6
  <2>5. rhs = [t \in SUBSET (1..n) |-> rhs[t]] /\ f = [t \in SUBSET (1..n) |-> f[t]]
    BY <2>4
  <2> HIDE DEF rhs
  <2>6. f = rhs
    BY <2>3, <2>5
  <2> QED  BY <2>6 DEF rhs
<1>8. Is(iter)
  BY <1>7
<1> HIDE DEF iter
<1>9. iter[{}] = base
  BY <1>8
<1>10. ASSUME NEW i \in 1..n  PROVE iter[1..i] = More(iter[1..(i - 1)], s[i])
  <2>0. n \in Nat /\ i \in Nat /\ 1..i \subseteq 1..n /\ i \in 1..i
    BY <1>1
  <2>1. 1..i \in SUBSET DOMAIN s /\ i \in 1..i /\ 1..i # {} /\ n \in Nat
    BY <1>1, <2>0
  <2>2. Max(1..i) \in 1..i /\ \A m \in 1..i : Max(1..i) >= m
    BY <1>1, <2>1, MaxIs
  <2>3. Max(1..i) = i
    BY <2>1, <2>2
  <2>4. (1..i) \ {i} = 1..(i - 1)
    OBVIOUS
  <2>5. iter[1..i] = More(iter[(1..i) \ {Max(1..i)}], s[Max(1..i)])
    BY <1>8, <2>1
  <2> QED  BY <2>3, <2>4, <2>5
<1>11. f0[0] = base
  <2>1. 1..0 = {} /\ 0 \in 0..n
    BY <1>1
  <2> QED  BY <1>9, <2>1
<1>12. f0[n] = iter[1..n]
  BY <1>1
<1>13. \A i \in 1..n : f0[i] = More(f0[i - 1], s[i])
  BY <1>1, <1>10
<1>14. \A i \in 0..n : f0[i] \in R
  <2> DEFINE T == {i \in Nat : i <= n => f0[i] \in R}
  <2> HIDE DEF f0
  <2>1. 0 \in T
    BY <1>3, <1>11
  <2>2. ASSUME NEW i \in Nat, i \in T  PROVE i + 1 \in T
    <3>1. i + 1 <= n => i + 1 \in 1..n /\ (i + 1) - 1 = i /\ i <= n
      BY <1>1
    <3>2. i + 1 <= n => f0[i + 1] \in R
      BY <1>1, <1>2, <1>13, <2>2, <3>1
    <3> QED  BY <3>2
  <2> HIDE DEF T
  <2>3. Nat \subseteq T
    BY <2>1, <2>2, Induction
  <2> QED  BY <1>1, <2>3 DEF T
<1>15. f0 \in [0..n -> R]
  BY <1>14
<1> HIDE DEF f0
<1>16. /\ f0 \in [0..n -> R] /\ f0[0] = base /\ Those(s, set) = f0[n]
       /\ \A i \in 1..n : f0[i] = More(f0[i - 1], s[i])
  BY <1>5, <1>11, <1>12, <1>13, <1>15
<1> QED  BY <1>16 DEF n, R, base, More

Distinct(keys) == \A i, j \in 1..Len(keys) : keys[i] = keys[j] => i = j

LEMMA ThoseAre ==
  ASSUME NEW order \in Seq(Part), Distinct(order), NEW set
  PROVE  /\ Those(order, set) \in Seq(Part) /\ Distinct(Those(order, set))
         /\ \A k : Occurs(k, Those(order, set)) <=> k \in set /\ Occurs(k, order)
<1> DEFINE n == Len(order)
           Upto(k, i) == \E j \in 1..i : order[j] = k
           Good(c, i) == Distinct(c) /\ \A k : Occurs(k, c) <=> k \in set /\ Upto(k, i)
<1>1. n \in Nat
  OBVIOUS
<1>2. PICK f \in [0..n -> Seq(Part)] :
            /\ f[0] = <<>> /\ Those(order, set) = f[n]
            /\ \A i \in 1..n : f[i] = OneThose(set, f[i - 1], order[i])
  BY ThoseFolds
<1> DEFINE T == {i \in Nat : i <= n => Good(f[i], i)}
<1>3. 0 \in T
  <2>1. Len(<<>>) = 0
    OBVIOUS
  <2> QED  BY <1>2, <2>1 DEF Distinct, Occurs
<1>4. ASSUME NEW i \in Nat, i \in T  PROVE i + 1 \in T
  <2> SUFFICES ASSUME i + 1 <= n  PROVE Good(f[i + 1], i + 1)
    OBVIOUS
  <2> DEFINE c == f[i]
             e == order[i + 1]
             d == f[i + 1]
  <2>1. i + 1 \in 1..n /\ (i + 1) - 1 = i /\ i \in 0..n /\ i <= n
    BY <1>1
  <2>2. c \in Seq(Part) /\ e \in Part
    BY <1>2, <2>1
  <2>3. Good(c, i)
    BY <1>4, <2>1
  <2>4. d = IF e \in set THEN Append(c, e) ELSE c
    BY <1>2, <2>1 DEF OneThose
  <2>5. \A k : Upto(k, i + 1) <=> Upto(k, i) \/ k = e
    BY <2>1
  <2>6. ~ Upto(e, i)
    BY <1>1, <2>1 DEF Distinct
  <2>7. CASE e \notin set
    <3>1. \A k : k \in set /\ Upto(k, i + 1) <=> k \in set /\ Upto(k, i)
      <4> HIDE DEF Upto, e
      <4> QED  BY <2>5, <2>7
    <3> HIDE DEF Upto
    <3> QED  BY <2>3, <2>4, <2>7, <3>1
  <2>8. CASE e \in set
    <3> HIDE DEF c, e
    <3>1. /\ d \in Seq(Part) /\ Len(d) = Len(c) + 1 /\ d[Len(c) + 1] = e /\ Len(c) \in Nat
          /\ \A j \in 1..Len(c) : d[j] = c[j]
      BY <2>2, <2>4, <2>8, AppendHas
    <3> HIDE DEF d
    <3>2. \A k : Occurs(k, d) <=> Occurs(k, c) \/ k = e
      <4>1. \A j \in 1..Len(d) : j \in 1..Len(c) \/ j = Len(c) + 1
        BY <3>1
      <4>2. \A j \in 1..Len(c) : j \in 1..Len(d)
        BY <3>1
      <4>3. Len(c) + 1 \in 1..Len(d)
        BY <3>1
      <4> QED  BY <3>1, <4>1, <4>2, <4>3 DEF Occurs
    <3>3. ~ Occurs(e, c)
      <4> HIDE DEF Upto
      <4> QED  BY <2>3, <2>6
    <3>4. Distinct(d)
      <4>1. \A j \in 1..Len(d) : j \in 1..Len(c) \/ j = Len(c) + 1
        BY <3>1
      <4>2. Distinct(c)
        BY <2>3
      <4> QED  BY <3>1, <3>3, <4>1, <4>2 DEF Distinct, Occurs
    <3> HIDE DEF Upto
    <3> QED  BY <2>3, <2>5, <2>8, <3>2, <3>4 DEF d
  <2> QED  BY <2>7, <2>8
<1>5. n \in T
  <2> HIDE DEF T
  <2> QED  BY <1>1, <1>3, <1>4, Induction
<1>6. Good(f[n], n)
  BY <1>1, <1>5
<1>7. \A k : Upto(k, n) <=> Occurs(k, order)
  BY DEF Occurs
<1>8. f[n] \in Seq(Part)
  BY <1>1, <1>2
<1> HIDE DEF Upto
<1> QED  BY <1>2, <1>6, <1>7, <1>8

(***************************************************************************)
(* The keys of a table in the order they are written in: every key of it   *)
(* once, and those of scalars and arrays before those of tables.           *)
(***************************************************************************)
Listing(t, keys) ==
  /\ keys \in Seq(Part) /\ Distinct(keys)
  /\ \A k \in Part : Occurs(k, keys) <=> heap[t].map_[k] # 0
  /\ \A i, j \in 1..Len(keys) :
        i < j /\ is_table_or_tables(heap, heap[t].map_[keys[i]]) =>
           is_table_or_tables(heap, heap[t].map_[keys[j]])

LEMMA TableVisits ==
  ASSUME NEW order \in SetToSeqs(Part), NEW deeper, NEW ks \in Seq(Part), NEW b \in 1..Len(heap),
         NEW w \in At(ks), Typed(deeper), HeapInv(heap), NEW in_array \in BOOLEAN
  PROVE  \E keys, f :
            /\ Listing(b, keys) /\ f \in [0..Len(keys) -> At(ks)]
            /\ f[0] = write_table_header(w, in_array)
            /\ visit_table(deeper, heap, order, w, b, in_array) = endline(f[Len(keys)])
            /\ \A i \in 1..Len(keys) : f[i] = Item(deeper, heap, f[i - 1], b, keys[i], i = 1)
<1> DEFINE items == {key \in ToSet(order) : heap[b].map_[key] # 0}
           ts == {key \in items : is_table_or_tables(heap, heap[b].map_[key])}
           values == Those(order, items \ ts)
           tables == Those(order, ts)
           headed == write_table_header(w, in_array)
           none == values = <<>>
           p == Len(values)
           q == Len(tables)
<1>1. order \in Seq(Part) /\ ToSet(order) = Part /\ Distinct(order)
  BY OrderIs DEF Distinct
<1>2. \A k \in Part : Occurs(k, order)
  BY <1>1 DEF ToSet, Occurs
<1>3. \A k : k \in items <=> k \in Part /\ heap[b].map_[k] # 0
  BY <1>1
<1>4. \A k : k \in ts <=> k \in items /\ is_table_or_tables(heap, heap[b].map_[k])
  OBVIOUS
<1>5. visit_table(deeper, heap, order, w, b, in_array) =
        endline(Items(deeper, heap, Items(deeper, heap, headed, b, values, TRUE), b, tables, none))
  BY DEF visit_table
<1> HIDE DEF items, ts
<1>6. values \in Seq(Part) /\ Distinct(values) /\ \A k \in Part : Occurs(k, values) <=> k \in items /\ k \notin ts
  BY <1>1, <1>2, ThoseAre
<1>7. tables \in Seq(Part) /\ Distinct(tables) /\ \A k \in Part : Occurs(k, tables) <=> k \in ts
  BY <1>1, <1>2, ThoseAre
<1> HIDE DEF values, tables
<1>8. \A k \in Part : heap[b].map_[k] # 0 => heap[b].map_[k] \in 1..Len(heap)
  BY ShapedFacts DEF HeapInv, MapsGoUp
<1>9. \A i \in 1..p : values[i] \in Part /\ values[i] \in items /\ values[i] \notin ts
  BY <1>6 DEF Occurs
<1>10. \A i \in 1..q : tables[i] \in Part /\ tables[i] \in ts
  BY <1>7 DEF Occurs
<1>11. headed \in At(ks) /\ none \in BOOLEAN
  BY StaysAt
<1>12. PICK g \in [0..p -> At(ks)] :
            /\ g[0] = headed /\ Items(deeper, heap, headed, b, values, TRUE) = g[p]
            /\ \A i \in 1..p : g[i] = Item(deeper, heap, g[i - 1], b, values[i], First(TRUE, i))
  <2>1. Group(b, values, TRUE, 1..Len(values))
    BY <1>3, <1>8, <1>9 DEF Group
  <2> DEFINE z == Items(deeper, heap, headed, b, values, TRUE)
             none1 == TRUE
             D == 1..Len(values)
  <2>2. /\ z = Items(deeper, heap, headed, b, values, none1) /\ D = 1..Len(values) /\ Group(b, values, none1, D)
        /\ values \in Seq(Part) /\ headed \in At(ks) /\ ks \in Seq(Part) /\ Typed(deeper)
    BY <1>6, <1>11, <2>1
  <2> HIDE DEF headed, z, none1, D
  <2>3. \E g \in [0..Len(values) -> At(ks)] :
            /\ g[0] = headed /\ z = g[Len(values)]
            /\ \A i \in 1..Len(values) : g[i] = Item(deeper, heap, g[i - 1], b, values[i], First(none1, i))
    BY <2>2, ItemsAre
  <2> QED  BY <2>3 DEF z, none1
<1>13. g[p] \in At(ks) /\ p \in Nat /\ q \in Nat
  BY <1>6, <1>7
<1>14. PICK h \in [0..q -> At(ks)] :
            /\ h[0] = g[p] /\ Items(deeper, heap, g[p], b, tables, none) = h[q]
            /\ \A i \in 1..q : h[i] = Item(deeper, heap, h[i - 1], b, tables[i], First(none, i))
  <2>1. Group(b, tables, none, 1..Len(tables))
    BY <1>3, <1>4, <1>8, <1>10, <1>11 DEF Group
  <2> DEFINE u == g[p]
  <2>2. u \in At(ks)
    BY <1>13
  <2> DEFINE z == Items(deeper, heap, u, b, tables, none)
             D == 1..Len(tables)
  <2>4. /\ z = Items(deeper, heap, u, b, tables, none) /\ D = 1..Len(tables) /\ Group(b, tables, none, D)
        /\ tables \in Seq(Part) /\ u \in At(ks) /\ ks \in Seq(Part) /\ Typed(deeper)
    BY <1>7, <2>1, <2>2
  <2> HIDE DEF none, u, z, D
  <2>3. \E h \in [0..Len(tables) -> At(ks)] :
            /\ h[0] = u /\ z = h[Len(tables)]
            /\ \A i \in 1..Len(tables) :
                  h[i] = Item(deeper, heap, h[i - 1], b, tables[i], First(none, i))
    BY <2>4, ItemsAre
  <2> QED  BY <2>3 DEF u, z
<1> DEFINE keys == values \o tables
           f == [i \in 0..(p + q) |-> IF i <= p THEN g[i] ELSE h[i - p]]
<1>15. /\ keys \in Seq(Part) /\ Len(keys) = p + q
       /\ \A i \in 1..p : keys[i] = values[i]
       /\ \A i \in 1..q : keys[p + i] = tables[i]
       /\ \A k : Occurs(k, keys) <=> Occurs(k, values) \/ Occurs(k, tables)
  BY <1>6, <1>7, ConcatIs
<1>16. none <=> p = 0
  BY <1>6
<1> HIDE DEF keys, p, q, none
<1>17. \A i \in 1..(p + q) : i \in 1..p \/ (i - p \in 1..q /\ i = p + (i - p))
  BY <1>13
<1>18. Listing(b, keys)
  <2>1. Distinct(keys)
    <3>0. Distinct(values) /\ Distinct(tables) /\ p = Len(values) /\ q = Len(tables)
      BY <1>6, <1>7 DEF p, q
    <3> SUFFICES ASSUME NEW i \in 1..(p + q), NEW j \in 1..(p + q), keys[i] = keys[j]  PROVE i = j
      BY <1>15 DEF Distinct
    <3>1. CASE i \in 1..p /\ j \in 1..p
      BY <1>15, <3>0, <3>1 DEF Distinct
    <3>2. CASE i \notin 1..p /\ j \notin 1..p
      <4>1. i - p \in 1..q /\ j - p \in 1..q /\ i = p + (i - p) /\ j = p + (j - p)
        BY <1>17, <3>2
      <4>2. tables[i - p] = tables[j - p]
        BY <1>15, <4>1
      <4>3. i - p = j - p
        BY <3>0, <4>1, <4>2 DEF Distinct
      <4> QED  BY <4>1, <4>3
    <3>3. CASE i \in 1..p /\ j \notin 1..p
      <4>1. keys[i] \notin ts
        BY <1>9, <1>15, <3>3
      <4>2. j - p \in 1..q /\ keys[j] = tables[j - p]
        BY <1>15, <1>17, <3>3
      <4>3. keys[j] \in ts
        BY <1>10, <4>2
      <4> QED  BY <4>1, <4>3
    <3>4. CASE i \notin 1..p /\ j \in 1..p
      <4>1. keys[j] \notin ts
        BY <1>9, <1>15, <3>4
      <4>2. i - p \in 1..q /\ keys[i] = tables[i - p]
        BY <1>15, <1>17, <3>4
      <4>3. keys[i] \in ts
        BY <1>10, <4>2
      <4> QED  BY <4>1, <4>3
    <3> QED  BY <3>1, <3>2, <3>3, <3>4
  <2>2. \A k \in Part : Occurs(k, keys) <=> heap[b].map_[k] # 0
    BY <1>3, <1>4, <1>6, <1>7, <1>15
  <2>3. ASSUME NEW i \in 1..(p + q), NEW j \in 1..(p + q), i < j,
               is_table_or_tables(heap, heap[b].map_[keys[i]])
        PROVE  is_table_or_tables(heap, heap[b].map_[keys[j]])
    <3>1. i \notin 1..p
      BY <1>4, <1>9, <1>15, <2>3
    <3>2. j \notin 1..p
      BY <1>13, <2>3, <3>1
    <3>3. keys[j] \in ts
      BY <1>10, <1>15, <1>17, <3>2
    <3> QED  BY <1>4, <3>3
  <2> QED  BY <1>15, <2>1, <2>2, <2>3 DEF Listing
<1>19. f \in [0..(p + q) -> At(ks)]
  <2>1. \A i \in 0..(p + q) : f[i] \in At(ks)
    <3>1. \A i \in 0..(p + q) : i <= p => i \in 0..p
      BY <1>13
    <3>2. \A i \in 0..(p + q) : ~ (i <= p) => i - p \in 0..q
      BY <1>13
    <3> QED  BY <1>12, <1>14, <3>1, <3>2 DEF p, q
  <2> QED  BY <2>1
<1>20. f[0] = headed
  BY <1>12, <1>13
<1>21. f[p + q] = h[q]
  BY <1>13, <1>14
<1>22. ASSUME NEW i \in 1..(p + q)  PROVE f[i] = Item(deeper, heap, f[i - 1], b, keys[i], i = 1)
  <2>1. CASE i \in 1..p
    <3>1. f[i] = g[i] /\ f[i - 1] = g[i - 1] /\ keys[i] = values[i] /\ First(TRUE, i) = (i = 1)
      BY <1>13, <1>15, <2>1 DEF First
    <3>2. g[i] = Item(deeper, heap, g[i - 1], b, values[i], First(TRUE, i))
      BY <1>12, <2>1 DEF p
    <3> QED  BY <3>1, <3>2
  <2>2. CASE i \notin 1..p
    <3> DEFINE j == i - p
    <3>1. j \in 1..q /\ i = p + j /\ ~ (i <= p)
      BY <1>13, <1>17, <2>2
    <3>2. keys[i] = tables[j] /\ f[i] = h[j]
      BY <1>15, <3>1
    <3>3. f[i - 1] = h[j - 1]
      <4>1. CASE j = 1
        <5>1. i - 1 = p /\ i - 1 \in 0..(p + q) /\ j - 1 = 0
          BY <1>13, <3>1, <4>1
        <5> QED  BY <1>14, <5>1
      <4>2. CASE j # 1
        <5>1. ~ (i - 1 <= p) /\ i - 1 \in 0..(p + q) /\ (i - 1) - p = j - 1
          BY <1>13, <3>1, <4>2
        <5> QED  BY <5>1
      <4> QED  BY <4>1, <4>2
    <3>4. First(none, j) = (i = 1)
      BY <1>13, <1>16, <3>1 DEF First
    <3>5. h[j] = Item(deeper, heap, h[j - 1], b, tables[j], First(none, j))
      BY <1>14, <3>1 DEF q
    <3> QED  BY <3>2, <3>3, <3>4, <3>5
  <2> QED  BY <2>1, <2>2
<1>23. visit_table(deeper, heap, order, w, b, in_array) = endline(f[p + q])
  BY <1>5, <1>12, <1>14, <1>21
<1> HIDE DEF f
<1>24. /\ Listing(b, keys) /\ f \in [0..Len(keys) -> At(ks)] /\ f[0] = headed
       /\ visit_table(deeper, heap, order, w, b, in_array) = endline(f[Len(keys)])
       /\ \A i \in 1..Len(keys) : f[i] = Item(deeper, heap, f[i - 1], b, keys[i], i = 1)
  BY <1>15, <1>18, <1>19, <1>20, <1>22, <1>23
<1> QED  BY <1>24

(***************************************************************************)
(* However deep, a visit comes back to the path it was at.                 *)
(***************************************************************************)
LEMMA VisitTyped ==
  ASSUME NEW order \in SetToSeqs(Part), NEW deeper, NEW ks \in Seq(Part), NEW b \in 1..Len(heap),
         NEW w \in At(ks), Typed(deeper), HeapInv(heap), NEW in_array \in BOOLEAN
  PROVE  visit(deeper, heap, order, w, b, in_array) \in At(ks)
<1>0. heap[b].is \in {"table", "table_array", "static", "value", "array"}
  BY ShapedFacts DEF HeapInv, Kind
<1>00. Len(heap[b].array_) \in Nat
  BY ArrayEnds
<1>1. CASE heap[b].is = "value"
  <2>1. visit(deeper, heap, order, w, b, in_array) = write(w, <<"value">>)
    BY <1>1 DEF visit
  <2> QED  BY <2>1, OpenIs, StaysAt
<1>2. CASE heap[b].is = "table"
  <2>1. visit(deeper, heap, order, w, b, in_array) = visit_table(deeper, heap, order, w, b, in_array)
    BY <1>2 DEF visit
  <2>2. PICK keys, f : /\ Listing(b, keys) /\ f \in [0..Len(keys) -> At(ks)]
                       /\ visit_table(deeper, heap, order, w, b, in_array) = endline(f[Len(keys)])
    BY TableVisits
  <2>3. f[Len(keys)] \in At(ks)
    BY <2>2 DEF Listing
  <2> QED  BY <2>1, <2>2, <2>3, StaysAt
<1>3. CASE heap[b].is = "array"
  <2>1. visit(deeper, heap, order, w, b, in_array) = visit_array(deeper, heap, w, b)
    BY <1>3 DEF visit
  <2>2. PICK f \in [0..Len(heap[b].array_) -> At(ks)] :
               visit_array(deeper, heap, w, b) = write(f[Len(heap[b].array_)], <<"]">>)
    BY ArrayVisits
  <2>3. f[Len(heap[b].array_)] \in At(ks)
    BY <1>00, <2>2
  <2> QED  BY <2>1, <2>2, <2>3, OpenIs, StaysAt
<1>4. CASE heap[b].is \in {"table_array", "static"}
  <2>1. visit(deeper, heap, order, w, b, in_array) = visit_table_array(deeper, heap, w, b)
    BY <1>4 DEF visit
  <2>2. PICK f \in [0..Len(heap[b].array_) -> At(ks)] :
               visit_table_array(deeper, heap, w, b) = endline(f[Len(heap[b].array_)])
    BY TablesVisits
  <2>3. f[Len(heap[b].array_)] \in At(ks)
    BY <1>00, <2>2
  <2> QED  BY <2>1, <2>2, <2>3, StaysAt
<1> QED  BY <1>0, <1>1, <1>2, <1>3, <1>4

LEMMA VisitsTyped ==
  ASSUME NEW order \in SetToSeqs(Part), HeapInv(heap)
  PROVE  \A n \in Nat : Typed(Visits(heap, order)[n])
<1> DEFINE T == {n \in Nat : Typed(Visits(heap, order)[n])}
<1>0. \A ks \in Seq(Part) : \A v \in At(ks) : v \in PartWriters
  BY DEF At
<1>1. 0 \in T
  BY <1>0, VisitIs DEF Typed
<1>2. ASSUME NEW n \in Nat, n \in T  PROVE n + 1 \in T
  <2>1. Typed(Visits(heap, order)[n]) /\ n + 1 \in Nat /\ n + 1 # 0 /\ (n + 1) - 1 = n
    BY <1>2
  <2> DEFINE d == Visits(heap, order)[n]
  <2> HIDE DEF d
  <2>2. ASSUME NEW ks \in Seq(Part), NEW b \in 1..Len(heap), NEW in_array \in BOOLEAN, NEW v \in At(ks)
        PROVE  Visits(heap, order)[n + 1][<<v, b, in_array>>] \in At(ks)
    <3>1. visit(d, heap, order, v, b, in_array) \in At(ks)
      BY <2>1, VisitTyped DEF d
    <3>2. v \in PartWriters /\ b \in Nat
      BY <1>0
    <3>3. Visits(heap, order)[n + 1][<<v, b, in_array>>] = visit(d, heap, order, v, b, in_array)
      BY <2>1, <3>2, VisitIs DEF d
    <3> QED  BY <3>1, <3>3
  <2> QED  BY <2>2 DEF Typed
<1> HIDE DEF T
<1>3. Nat \subseteq T
  BY <1>1, <1>2, Induction
<1> QED  BY <1>3 DEF T

(***************************************************************************)
(* What is written for a scalar, and for an array of scalars.              *)
(***************************************************************************)
Join(a, b) == a \o b

LEMMA TokensJoin ==
  ASSUME NEW a, NEW b, a \in Seq(Token), b \in Seq(Token)
  PROVE  /\ a \o b \in Seq(Token) /\ Len(a \o b) = Len(a) + Len(b)
         /\ \A i \in 1..Len(a) : (a \o b)[i] = a[i]
         /\ \A i \in 1..Len(b) : (a \o b)[Len(a) + i] = b[i]
OBVIOUS

LEMMA TokensSame ==
  ASSUME NEW a, NEW b, a \in Seq(Token), b \in Seq(Token), Len(a) = Len(b), \A i \in 1..Len(a) : a[i] = b[i]
  PROVE  a = b
OBVIOUS

LEMMA JoinTwice ==
  ASSUME NEW a, NEW b, NEW c, a \in Seq(Token), b \in Seq(Token), c \in Seq(Token)
  PROVE  Join(Join(a, b), c) = Join(a, Join(b, c))
<1>1. /\ (a \o b) \o c \in Seq(Token) /\ Len((a \o b) \o c) = Len(a) + Len(b) + Len(c)
      /\ \A i \in 1..Len(a) : ((a \o b) \o c)[i] = a[i]
      /\ \A i \in 1..Len(b) : ((a \o b) \o c)[Len(a) + i] = b[i]
      /\ \A i \in 1..Len(c) : ((a \o b) \o c)[Len(a) + Len(b) + i] = c[i]
  BY AroundIs
<1>2. b \o c \in Seq(Token) /\ Len(b \o c) = Len(b) + Len(c)
      /\ (\A i \in 1..Len(b) : (b \o c)[i] = b[i]) /\ (\A i \in 1..Len(c) : (b \o c)[Len(b) + i] = c[i])
  BY TokensJoin
<1> DEFINE d == b \o c
           e == a \o d
           g == (a \o b) \o c
<1>3. d \in Seq(Token) /\ Len(d) = Len(b) + Len(c)
      /\ (\A i \in 1..Len(b) : d[i] = b[i]) /\ (\A i \in 1..Len(c) : d[Len(b) + i] = c[i])
  BY <1>2
<1> HIDE DEF d
<1>31. d \in Seq(Token)
  BY <1>3
<1>4. /\ e \in Seq(Token) /\ Len(e) = Len(a) + Len(d)
      /\ \A i \in 1..Len(a) : e[i] = a[i]
      /\ \A i \in 1..Len(d) : e[Len(a) + i] = d[i]
  BY <1>31, TokensJoin
<1>5. /\ g \in Seq(Token) /\ Len(g) = Len(a) + Len(b) + Len(c)
      /\ \A i \in 1..Len(a) : g[i] = a[i]
      /\ \A i \in 1..Len(b) : g[Len(a) + i] = b[i]
      /\ \A i \in 1..Len(c) : g[Len(a) + Len(b) + i] = c[i]
  BY <1>1
<1> HIDE DEF e, g
<1>6. Len(a) \in Nat /\ Len(b) \in Nat /\ Len(c) \in Nat
  OBVIOUS
<1>7. Len(e) = Len(g)
  BY <1>3, <1>4, <1>5, <1>6
<1>8. \A i \in 1..Len(g) : e[i] = g[i]
  <2> SUFFICES ASSUME NEW i \in 1..Len(g)  PROVE e[i] = g[i]
    OBVIOUS
  <2>1. CASE i \in 1..Len(a)
    BY <1>4, <1>5, <2>1
  <2>2. CASE i - Len(a) \in 1..Len(b)
    <3>1. i = Len(a) + (i - Len(a)) /\ i - Len(a) \in 1..Len(d)
      BY <1>3, <1>6, <2>2
    <3>2. e[Len(a) + (i - Len(a))] = d[i - Len(a)] /\ g[Len(a) + (i - Len(a))] = b[i - Len(a)]
      BY <1>4, <1>5, <2>2, <3>1
    <3>3. d[i - Len(a)] = b[i - Len(a)]
      BY <1>3, <2>2
    <3> QED  BY <3>1, <3>2, <3>3
  <2>3. CASE i - Len(a) - Len(b) \in 1..Len(c)
    <3> DEFINE j == i - Len(a) - Len(b)
    <3>1. /\ i = Len(a) + Len(b) + j /\ Len(b) + j \in 1..Len(d) /\ i = Len(a) + (Len(b) + j) /\ j \in 1..Len(c)
      BY <1>3, <1>6, <2>3
    <3> HIDE DEF j
    <3> QED  BY <1>3, <1>4, <1>5, <3>1
  <2> QED  BY <1>5, <1>6, <2>1, <2>2, <2>3
<1>9. e = g
  BY <1>4, <1>5, <1>7, <1>8, TokensSame
<1> QED  BY <1>4, <1>9 DEF e, g, d, Join

LEMMA JoinIs ==
  ASSUME NEW a, NEW b, a \in Seq(Token), b \in Seq(Token)
  PROVE  Join(a, b) \in Seq(Token) /\ Join(<<>>, b) = b /\ Join(a, <<>>) = a
  BY DEF Join

LEMMA BetweenGrows ==
  ASSUME NEW size \in Nat
  PROVE  /\ Between(0) = <<>> /\ Between(1) = <<"value">>
         /\ size # 0 => Between(size + 1) = Between(size) \o <<",", "value">>
<1>0. \A k \in Nat : k # 0 => Between(k) \in Seq(Token) /\ Len(Between(k)) = 2 * k - 1
  BY ArrayOfHas
<1>1. Between(0) = <<>>
  BY DEF Between
<1>2. Between(1) = <<"value">>
  <2>1. Between(1) \in Seq(Token) /\ Len(Between(1)) = 1
    <3>1. 1 \in Nat /\ 1 # 0 /\ 2 * 1 - 1 = 1
      OBVIOUS
    <3> QED  BY <1>0, <3>1
  <2>2. <<"value">> \in Seq(Token) /\ Len(<<"value">>) = 1
    BY OpenIs
  <2>3. Between(1)[1] = "value"
    BY DEF Between
  <2> QED  BY <2>1, <2>2, <2>3, TokensSame
<1>3. ASSUME size # 0  PROVE Between(size + 1) = Between(size) \o <<",", "value">>
  <2> DEFINE a == Between(size)
             b == Between(size + 1)
             e == <<",", "value">>
             c == a \o e
             m == 2 * size - 1
  <2>1. e \in Seq(Token) /\ Len(e) = 2 /\ e[1] = "," /\ e[2] = "value"
    BY TokensAre, ShortOnes
  <2>2. a \in Seq(Token) /\ Len(a) = m /\ m \in Nat
    BY <1>0, <1>3
  <2>3. b \in Seq(Token) /\ Len(b) = m + 2
    <3>1. size + 1 \in Nat /\ size + 1 # 0 /\ 2 * (size + 1) - 1 = m + 2
      OBVIOUS
    <3> QED  BY <1>0, <3>1
  <2>4. \A i \in 1..m : a[i] = IF i % 2 = 1 THEN "value" ELSE ","
    BY <1>3 DEF Between
  <2>5. \A i \in 1..(m + 2) : b[i] = IF i % 2 = 1 THEN "value" ELSE ","
    <3>1. size + 1 \in Nat /\ size + 1 # 0 /\ 2 * (size + 1) - 1 = m + 2
      OBVIOUS
    <3> QED  BY <3>1 DEF Between
  <2>6. (m + 1) % 2 = 0 /\ (m + 2) % 2 = 1
    BY <1>3
  <2> HIDE DEF a, b, e, m
  <2>7. /\ c \in Seq(Token) /\ Len(c) = m + 2
        /\ \A i \in 1..m : c[i] = a[i]
        /\ c[m + 1] = "," /\ c[m + 2] = "value"
    <3>0. a \in Seq(Token) /\ e \in Seq(Token)
      BY <2>1, <2>2
    <3>3. /\ c \in Seq(Token) /\ Len(c) = Len(a) + Len(e)
          /\ (\A i \in 1..Len(a) : c[i] = a[i])
          /\ \A i \in 1..Len(e) : c[Len(a) + i] = e[i]
      BY <3>0, TokensJoin
    <3> HIDE DEF c
    <3>1. c \in Seq(Token) /\ Len(c) = m + 2 /\ (\A i \in 1..m : c[i] = a[i])
          /\ \A i \in 1..2 : c[m + i] = e[i]
      BY <2>1, <2>2, <3>3
    <3>2. 1 \in 1..2 /\ 2 \in 1..2
      OBVIOUS
    <3> QED  BY <2>1, <3>1, <3>2
  <2> HIDE DEF c
  <2>8. \A i \in 1..(m + 2) : i \in 1..m \/ i = m + 1 \/ i = m + 2
    BY <2>2
  <2>9. \A i \in 1..(m + 2) : b[i] = c[i]
    BY <2>2, <2>4, <2>5, <2>6, <2>7, <2>8
  <2>10. b = c
    BY <2>3, <2>7, <2>9, TokensSame
  <2> QED  BY <2>10 DEF b, c, a, e
<1> QED  BY <1>1, <1>2, <1>3

(* What is visited for a key, and for an element of an array: in_array.    *)
ByKey == FALSE
ByPlace == TRUE

(* Enough steps for what lies below an object.                             *)
Reach(n, b, in_array) == in_array \in BOOLEAN /\ n \in Nat \ {0} /\ b \in 1..Len(heap) /\ n + b > Len(heap)

Rest(b) == IF heap[b].is = "value" THEN <<"value">> ELSE ArrayOf(Len(heap[b].array_))

LEMMA ScalarVisit ==
  ASSUME NEW order, NEW n, NEW b, NEW w, NEW in_array,
         order \in SetToSeqs(Part), Reach(n, b, in_array), w \in PartWriters, HeapInv(heap), heap[b].is = "value"
  PROVE  Visits(heap, order)[n][<<w, b, in_array>>] = write(w, <<"value">>)
<1>1. Visits(heap, order)[n][<<w, b, in_array>>] =
        visit(Visits(heap, order)[n - 1], heap, order, w, b, in_array)
  BY VisitIs DEF Reach
<1> QED  BY <1>1 DEF visit

LEMMA ArrayVisit ==
  ASSUME NEW order, NEW n, NEW b, NEW w, NEW in_array,
         order \in SetToSeqs(Part), Reach(n, b, in_array),
         w \in PartWriters, HeapInv(heap), KindsInv(heap), heap[b].is = "array"
  PROVE  LET v == Visits(heap, order)[n][<<w, b, in_array>>]
         IN  Fine(v) /\ v.path = w.path /\ v.out = Join(w.out, ArrayOf(Len(heap[b].array_)))
<1> DEFINE a == heap[b].array_
           m == Len(a)
           deeper == Visits(heap, order)[n - 1]
           ks == w.path
           v == Visits(heap, order)[n][<<w, b, in_array>>]
           Filled(i) == Join(<<"[">>, Between(i))
<1>0. b \in 1..Len(heap)
  BY DEF Reach
<1>1. m \in Nat /\ \A i \in 1..m : a[i] \in 1..Len(heap) /\ heap[a[i]].is = "value" /\ a[i] > b
  <2>1. m \in Nat /\ Len(heap) \in Nat
    BY <1>0, ArrayEnds
  <2>2. \A i \in 1..m : a[i] \in 1..Len(heap)
    BY <1>0, ElementFacts
  <2>3. \A i \in 1..m : a[i] \in (b + i)..Len(heap)
    BY <1>0 DEF HeapInv, ArraysGoUp
  <2>4. \A i \in 1..m : heap[a[i]].is = "value"
    BY <1>0 DEF KindsInv
  <2>5. \A i \in 1..m : a[i] > b
    <3> SUFFICES ASSUME NEW i \in 1..m  PROVE a[i] > b
      OBVIOUS
    <3>1. a[i] \in (b + i)..Len(heap)
      BY <2>3
    <3> HIDE DEF a
    <3> QED  BY <1>0, <2>1, <3>1
  <2> QED  BY <2>1, <2>2, <2>4, <2>5
<1>2. v = visit_array(deeper, heap, w, b)
  <2>1. v = visit(deeper, heap, order, w, b, in_array)
    BY VisitIs DEF Reach
  <2> QED  BY <2>1 DEF visit
<1>3. w \in At(ks) /\ ks \in Seq(Part)
  BY DEF At, PartWriters
<1>4. Typed(deeper)
  <2>1. n - 1 \in Nat
    BY DEF Reach
  <2> QED  BY <2>1, VisitsTyped
<1>5. \A u \in PartWriters, i \in 1..m : deeper[<<u, a[i], TRUE>>] = write(u, <<"value">>)
  <2> SUFFICES ASSUME NEW u \in PartWriters, NEW i \in 1..m
               PROVE  deeper[<<u, a[i], TRUE>>] = write(u, <<"value">>)
    OBVIOUS
  <2>1. a[i] \in 1..Len(heap) /\ heap[a[i]].is = "value" /\ a[i] > b
    BY <1>1
  <2>2. Reach(n - 1, a[i], TRUE)
    <3>1. Len(heap) \in Nat
      BY <1>0, ArrayEnds
    <3> QED  BY <2>1, <3>1 DEF Reach
  <2> DEFINE c == a[i]
             k == n - 1
             yes == TRUE
  <2>4. Reach(k, c, yes) /\ heap[c].is = "value"
    BY <2>1, <2>2
  <2> HIDE DEF c, k, yes
  <2>3. Visits(heap, order)[k][<<u, c, yes>>] = write(u, <<"value">>)
    BY <2>4, ScalarVisit
  <2> QED  BY <2>3 DEF c, k, yes
<1>6. PICK f \in [0..m -> At(ks)] :
            /\ f[0] = write(w, <<"[">>) /\ visit_array(deeper, heap, w, b) = write(f[m], <<"]">>)
            /\ \A i \in 1..m : f[i] = ElementStep(deeper, a, f[i - 1], i)
  <2> HIDE DEF deeper, ks
  <2> QED  BY <1>0, <1>3, <1>4, ArrayVisits
<1>7. \A u : u \in At(ks) => u \in PartWriters /\ u.path = ks
  BY DEF At
<1>8. w.out \in Seq(Token)
  BY DEF PartWriters
<1>9. \A u \in PartWriters, s \in Seq(Token) : Fine(write(u, s)) /\ write(u, s).path = u.path /\ write(u, s).out = Join(u.out, s)
  BY WriteIs DEF Join
<1>10. \A u \in PartWriters : u.out \in Seq(Token)
  BY DEF PartWriters
<1>11. \A i \in Nat : Filled(i) \in Seq(Token)
  BY ArrayOfHas, OpenIs, JoinIs
<1> HIDE DEF a, m, deeper, ks, v
<1> DEFINE T == {i \in Nat : i <= m => f[i].out = Join(w.out, Filled(i))}
<1>12. 0 \in T
  <2>1. f[0].out = Join(w.out, <<"[">>)
    BY <1>6, <1>9, OpenIs
  <2>2. Filled(0) = <<"[">>
    BY BetweenGrows, OpenIs, JoinIs
  <2> QED  BY <2>1, <2>2
<1>13. ASSUME NEW i \in Nat, i \in T  PROVE i + 1 \in T
  <2> SUFFICES ASSUME i + 1 <= m  PROVE f[i + 1].out = Join(w.out, Filled(i + 1))
    OBVIOUS
  <2>1. i + 1 \in 1..m /\ (i + 1) - 1 = i /\ i \in 0..m /\ i <= m
    BY <1>1
  <2>2. f[i].out = Join(w.out, Filled(i))
    BY <1>13, <2>1
  <2>3. f[i] \in PartWriters
    BY <1>6, <1>7, <2>1
  <2> DEFINE u == IF i + 1 = 1 THEN f[i] ELSE write(f[i], <<",">>)
             F == Filled(i)
             x == <<"value">>
             y == <<",">>
             xy == <<",", "value">>
  <2>4. f[i + 1] = deeper[<<u, a[i + 1], TRUE>>]
    BY <1>6, <2>1 DEF ElementStep
  <2>5. x \in Seq(Token) /\ y \in Seq(Token) /\ xy \in Seq(Token) /\ xy = Join(y, x)
    <3>1. x \in Seq(Token) /\ y \in Seq(Token) /\ xy \in Seq(Token)
      BY TokensAre, ShortOnes
    <3>2. xy = Join(y, x)
      <4>1. Join(y, x) \in Seq(Token) /\ Len(Join(y, x)) = 2 /\ Join(y, x)[1] = "," /\ Join(y, x)[2] = "value"
        <5>1. y \in Seq(Token) /\ x \in Seq(Token)
          BY <3>1
        <5>2. Len(y) = 1 /\ Len(x) = 1 /\ y[1] = "," /\ x[1] = "value"
          OBVIOUS
        <5> HIDE DEF x, y
        <5>3. /\ Join(y, x) \in Seq(Token) /\ Len(Join(y, x)) = Len(y) + Len(x)
              /\ \A k \in 1..Len(y) : Join(y, x)[k] = y[k]
              /\ \A k \in 1..Len(x) : Join(y, x)[Len(y) + k] = x[k]
          BY <5>1, TokensJoin DEF Join
        <5>4. 1 \in 1..1 /\ 1 + 1 = 2
          OBVIOUS
        <5> QED  BY <5>2, <5>3, <5>4
      <4>2. xy \in Seq(Token) /\ Len(xy) = 2 /\ xy[1] = "," /\ xy[2] = "value"
        BY <3>1
      <4> HIDE DEF x, y, xy
      <4>3. \A k \in 1..2 : k = 1 \/ k = 2
        OBVIOUS
      <4> QED  BY <4>1, <4>2, <4>3, TokensSame
    <3> QED  BY <3>1, <3>2
  <2>6. F \in Seq(Token)
    BY <1>11
  <2>7. u \in PartWriters
    BY <1>9, <2>3, <2>5 DEF Fine
  <2> HIDE DEF x, y, xy, F
  <2>8. f[i + 1].out = Join(u.out, x)
    <3>1. f[i + 1] = write(u, x)
      BY <1>5, <2>1, <2>4, <2>7 DEF x
    <3> QED  BY <1>9, <2>5, <2>7, <3>1
  <2>9. CASE i = 0
    <3>1. u = f[i]
      BY <2>9
    <3>2. Filled(1) = Join(Filled(0), x)
      BY BetweenGrows, OpenIs, JoinIs DEF x
    <3>3. f[1].out = Join(Join(w.out, F), x)
      BY <2>2, <2>8, <2>9, <3>1 DEF F
    <3>4. f[1].out = Join(w.out, Join(F, x))
      BY <1>8, <2>5, <2>6, <3>3, JoinTwice
    <3> QED  BY <2>9, <3>2, <3>4 DEF F
  <2>10. CASE i # 0
    <3>1. u.out = Join(f[i].out, y)
      <4>1. u = write(f[i], y)
        <5>1. i + 1 # 1
          BY <2>10
        <5> QED  BY <5>1 DEF y
      <4> QED  BY <1>9, <2>3, <2>5, <4>1
    <3>2. Filled(i + 1) = Join(F, xy)
      <4> DEFINE o == <<"[">>
                 t == Between(i)
      <4>1. o \in Seq(Token) /\ t \in Seq(Token)
        BY OpenIs, ArrayOfHas
      <4>2. Between(i + 1) = Join(t, xy)
        BY <2>10, BetweenGrows DEF xy, Join
      <4> HIDE DEF o, t
      <4>3. Join(Join(o, t), xy) = Join(o, Join(t, xy))
        BY <2>5, <4>1, JoinTwice
      <4> QED  BY <4>2, <4>3 DEF o, t, F
    <3>3. Join(Join(F, y), x) = Join(F, xy)
      BY <2>5, <2>6, JoinTwice
    <3> DEFINE Fy == Join(F, y)
    <3>4. Fy \in Seq(Token)
      BY <2>5, <2>6, JoinIs
    <3>5. Join(Join(w.out, F), y) = Join(w.out, Fy)
      BY <1>8, <2>5, <2>6, JoinTwice
    <3> HIDE DEF Fy
    <3>6. Join(Join(w.out, Fy), x) = Join(w.out, Join(Fy, x))
      BY <1>8, <2>5, <3>4, JoinTwice
    <3>7. f[i + 1].out = Join(Join(Join(w.out, F), y), x)
      BY <2>2, <2>8, <3>1 DEF F
    <3> QED  BY <3>2, <3>3, <3>5, <3>6, <3>7 DEF Fy
  <2> QED  BY <2>9, <2>10
<1>14. f[m].out = Join(w.out, Filled(m))
  <2> HIDE DEF T, Filled
  <2>1. m \in T
    BY <1>1, <1>12, <1>13, Induction
  <2> QED  BY <1>1, <2>1 DEF T
<1>15. f[m] \in PartWriters /\ f[m].path = ks
  BY <1>1, <1>6, <1>7
<1>16. v.out = Join(Join(w.out, Filled(m)), <<"]">>) /\ Fine(v) /\ v.path = ks
  BY <1>2, <1>6, <1>9, <1>14, <1>15, OpenIs
<1>17. Join(Join(w.out, Filled(m)), <<"]">>) = Join(w.out, Join(Filled(m), <<"]">>))
  <2> DEFINE F == Filled(m)
             c == <<"]">>
  <2>1. F \in Seq(Token) /\ c \in Seq(Token)
    BY <1>1, <1>11, OpenIs
  <2> HIDE DEF F, c
  <2>2. Join(Join(w.out, F), c) = Join(w.out, Join(F, c))
    BY <1>8, <2>1, JoinTwice
  <2> QED  BY <2>2 DEF F, c
<1>18. Join(Filled(m), <<"]">>) = ArrayOf(m)
  BY <1>1, ArrayOfHas DEF Join
<1>19. v.out = Join(w.out, ArrayOf(m))
  BY <1>16, <1>17, <1>18
<1> QED  BY <1>16, <1>19 DEF v, m, a, ks

(***************************************************************************)
(* The line of a pair, and what the reader makes of it.                    *)
(***************************************************************************)
PairRead(r, key, b) ==
  IF key = Empty THEN [r EXCEPT !.ok = FALSE]
  ELSE ReadPair(r, Append(r.at, <<key, 0>>), heap[b].is, Len(heap[b].array_))

(* An item may begin where the writer is.                                  *)
Begins(w, t, key, first) ==
  /\ Fine(w) /\ first \in BOOLEAN /\ (first => OnNewLine(w))
  /\ t \in 1..Len(heap) /\ key \in Part /\ heap[t].map_[key] # 0

Paired(w, v, key, b) == Fine(v) /\ v.path = w.path /\ Read(v) = PairRead(Read(w), key, b)

LEMMA PairItem ==
  ASSUME NEW order, NEW n, NEW t, NEW key, NEW w, NEW first, NEW v,
         v = Item(Visits(heap, order)[n], heap, w, t, key, first),
         order \in SetToSeqs(Part), Begins(w, t, key, first), Reach(n, heap[t].map_[key], ByKey),
         heap[heap[t].map_[key]].is \in {"value", "array"}, HeapInv(heap), KindsInv(heap)
  PROVE  Paired(w, v, key, heap[t].map_[key])
<1> DEFINE b == heap[t].map_[key]
           ks == w.path
           q == Append(ks, key)
           begun == Begun(w, key, first)
           head == write(begun, <<key, "=">>)
           no == FALSE
           visited == Visits(heap, order)[n][<<head, b, no>>]
           line == Join(<<key, "=">>, Rest(b))
<1>0. Fine(w) /\ key \in Part /\ first \in BOOLEAN /\ (first => OnNewLine(w))
  BY DEF Begins
<1>1. Fine(begun) /\ begun.path = q /\ OnNewLine(begun) /\ Read(begun) = Read(w)
  BY <1>0, BegunIs
<1>2. w \in PartWriters /\ begun \in PartWriters /\ ks \in Seq(Part) /\ q \in Seq(Part)
  <2>1. w \in PartWriters /\ ks \in Seq(Part)
    BY <1>0 DEF Fine, PartWriters
  <2>2. begun \in PartWriters
    BY <1>1 DEF Fine
  <2> QED  BY <1>0, <2>1, <2>2, AppendHas
<1>3. <<key, "=">> \in Seq(Token)
  BY <1>0, TokensAre, ShortOnes
<1>4. Fine(head) /\ head.path = q /\ head.out = Join(begun.out, <<key, "=">>)
  BY <1>1, <1>2, <1>3, WriteIs DEF Join
<1>5. write_table_item_header(heap, begun, b) = head
  <2>1. Last(q) = key
    BY <1>0, <1>2, AppendEnds
  <2>2. Last(begun.path) = key
    BY <1>1, <2>1
  <2> HIDE DEF begun, q
  <2> QED  BY <2>2 DEF write_table_item_header, is_table_or_tables
<1>6. v = Leave(visited)
  <2>1. ItemVisit(Visits(heap, order)[n], w, t, key, first) = visited
    <3>1. ItemVisit(Visits(heap, order)[n], w, t, key, first) =
            Visits(heap, order)[n][<<write_table_item_header(heap, begun, b), b, FALSE>>]
      BY DEF ItemVisit
    <3> QED  BY <1>5, <3>1
  <2> HIDE DEF visited
  <2> QED  BY <2>1, ItemIs
<1>7. head \in PartWriters
  BY <1>4 DEF Fine
<1>8. /\ Len(heap[b].array_) \in 0..MaxObjects /\ b \in 1..Len(heap) /\ Reach(n, b, no)
      /\ heap[b].is = "value" => Len(heap[b].array_) = 0
  <2>1. Len(heap) \in 1..MaxObjects /\ MaxObjects \in Nat
    BY DocumentAssumption DEF HeapInv, Shaped
  <2>2. b \in 1..Len(heap) /\ Reach(n, b, no)
    BY DEF Reach, ByKey
  <2> HIDE DEF b
  <2>3. b + Len(heap[b].array_) <= Len(heap) /\ Len(heap[b].array_) \in Nat
    BY <2>2, ArrayEnds
  <2>4. Len(heap[b].array_) \in 0..MaxObjects
    BY <2>1, <2>2, <2>3
  <2>5. heap[b].is = "value" => Len(heap[b].array_) = 0
    BY <2>2 DEF KindsInv
  <2> QED  BY <2>2, <2>4, <2>5 DEF b
<1> HIDE DEF b, no
<1>9. heap[b].is \in {"value", "array"}
  BY DEF b
<1>10. Fine(visited) /\ visited.path = head.path /\ visited.out = Join(head.out, Rest(b))
  <2> HIDE DEF head
  <2>1. CASE heap[b].is = "value"
    <3>1. visited = write(head, <<"value">>)
      BY <1>7, <1>8, <2>1, ScalarVisit
    <3> QED  BY <1>7, <2>1, <3>1, OpenIs, WriteIs DEF Rest, Join
  <2>2. CASE heap[b].is = "array"
    <3>1. Fine(visited) /\ visited.path = head.path /\ visited.out = Join(head.out, ArrayOf(Len(heap[b].array_)))
      BY <1>7, <1>8, <2>2, ArrayVisit
    <3>2. Rest(b) = ArrayOf(Len(heap[b].array_))
      BY <2>2 DEF Rest
    <3> QED  BY <3>1, <3>2
  <2> QED  BY <1>9, <2>1, <2>2
<1>11. /\ line \in Seq(Token) /\ OneLine(line) /\ Rest(b) \in Seq(Token)
       /\ ReadLine(Read(w), line) = PairRead(Read(w), key, b)
  <2> DEFINE r == Read(w)
             size == Len(heap[b].array_)
  <2>1. r \in Readers
    BY <1>2, ReadIs
  <2>2. size \in 0..MaxObjects /\ size \in Nat
    BY <1>8
  <2> HIDE DEF r, size
  <2>3. CASE heap[b].is = "value"
    <3>1. line = <<key, "=">> \o <<"value">> /\ Rest(b) \in Seq(Token)
      BY <2>3, OpenIs DEF Rest, Join
    <3>2. size = 0
      BY <1>8, <2>3 DEF size
    <3> HIDE DEF line
    <3>3. /\ line \in Seq(Token) /\ OneLine(line)
          /\ ReadLine(r, line) = IF key = Empty THEN [r EXCEPT !.ok = FALSE]
                                 ELSE ReadPair(r, Append(r.at, <<key, 0>>), "value", 0)
      BY <1>0, <2>1, <3>1, ScalarLineIs
    <3> QED  BY <2>3, <3>1, <3>2, <3>3 DEF PairRead, r, size
  <2>4. CASE heap[b].is = "array"
    <3>1. line = <<key, "=">> \o ArrayOf(size) /\ Rest(b) \in Seq(Token)
      BY <2>2, <2>4, ArrayOfHas DEF Rest, size, Join
    <3> HIDE DEF line
    <3>3. /\ line \in Seq(Token) /\ OneLine(line)
          /\ ReadLine(r, line) = IF key = Empty THEN [r EXCEPT !.ok = FALSE]
                                 ELSE ReadPair(r, Append(r.at, <<key, 0>>), "array", size)
      BY <1>0, <2>1, <2>2, <3>1, ArrayLineIs
    <3> QED  BY <2>4, <3>1, <3>3 DEF PairRead, r, size
  <2> QED  BY <1>9, <2>3, <2>4
<1>12. visited.out = Join(begun.out, line)
  <2> DEFINE o == begun.out
             k == <<key, "=">>
             e == Rest(b)
  <2>1. o \in Seq(Token) /\ k \in Seq(Token) /\ e \in Seq(Token)
    BY <1>2, <1>3, <1>11 DEF PartWriters
  <2>2. visited.out = Join(Join(o, k), e)
    BY <1>4, <1>10
  <2> HIDE DEF o, k, e, visited
  <2>3. visited.out = Join(o, Join(k, e))
    BY <2>1, <2>2, JoinTwice
  <2> QED  BY <2>3 DEF o, k, e
<1>13. visited \in PartWriters /\ visited.path = q
  BY <1>4, <1>10 DEF Fine
<1>14. Read(visited) = PairRead(Read(w), key, b)
  <2> HIDE DEF visited, line, begun
  <2>1. Read(visited) = ReadLine(Read(begun), line)
    BY <1>1, <1>2, <1>11, <1>12, <1>13, LineIs DEF Join
  <2> QED  BY <1>1, <1>11, <2>1
<1> HIDE DEF visited, ks
<1>15. Leave(visited).path = ks /\ Fine(Leave(visited)) /\ Read(Leave(visited)) = Read(visited)
  BY <1>2, <1>10, <1>13, <1>0, LeaveIs DEF q
<1>16. Fine(v) /\ v.path = w.path /\ Read(v) = PairRead(Read(w), key, b)
  BY <1>6, <1>14, <1>15 DEF ks
<1> QED  BY <1>16 DEF b, Paired

(***************************************************************************)
(* What an empty key does to all that is written: a line that TOML does    *)
(* not have.  Doomed objects are those with an empty key in them, or in    *)
(* what they hold.                                                         *)
(***************************************************************************)
Doomed(D) ==
  /\ D \subseteq 1..Len(heap)
  /\ \A b \in D :
       \/ /\ heap[b].is = "table"
          /\ \E k \in Part : heap[b].map_[k] # 0 /\ (k = Empty \/ heap[b].map_[k] \in D)
       \/ /\ heap[b].is \in {"table_array", "static"}
          /\ \E i \in 1..Len(heap[b].array_) : heap[b].array_[i] \in D

Seen(b) ==
  /\ b \in 1..Len(heap)
  /\ \/ heap[b].is = "table"
     \/ heap[b].is \in {"table_array", "static"} /\ heap[b].array_ # <<>>

HasEmpty(ks) == \E i \in 1..Len(ks) : ks[i] = Empty

Ready(w) == Fine(w) /\ OnNewLine(w)

Ends(w, v, D, b) ==
  Ready(v) /\ v.path = w.path /\ (~ Read(w).ok \/ b \in D \/ HasEmpty(w.path) => ~ Read(v).ok)

Quiet(n, order, D) ==
  \A w, b, in_array :
     Ready(w) /\ Seen(b) /\ Reach(n, b, in_array) =>
        Ends(w, Visits(heap, order)[n][<<w, b, in_array>>], D, b)

LEMMA ReadyAt ==
  ASSUME NEW w, Fine(w)
  PROVE  w \in PartWriters /\ w.path \in Seq(Part) /\ w \in At(w.path) /\ Read(w) \in Readers
<1>1. w \in PartWriters
  BY DEF Fine
<1>2. Read(w) \in Readers
  BY <1>1, ReadIs
<1> QED  BY <1>1, <1>2 DEF PartWriters, At

(* An item that is a table, or tables: its visit x begins with u.          *)
Tabled(w, v, key, u, x) == v = Leave(x) /\ Ready(u) /\ u.path = Append(w.path, key) /\ Read(u) = Read(w)

LEMMA TableItem ==
  ASSUME NEW deeper, NEW t, NEW key, NEW w, NEW first, NEW v, v = Item(deeper, heap, w, t, key, first),
         Begins(w, t, key, first), is_table_or_tables(heap, heap[t].map_[key])
  PROVE  Tabled(w, v, key, Begun(w, key, first), deeper[<<Begun(w, key, first), heap[t].map_[key], ByKey>>])
<1> USE DEF ByKey
<1> DEFINE u == Begun(w, key, first)
<1>1. Ready(u) /\ u.path = Append(w.path, key) /\ Read(u) = Read(w)
  BY BegunIs DEF Ready, Begins
<1>2. write_table_item_header(heap, u, heap[t].map_[key]) = u
  BY DEF write_table_item_header
<1>3. ItemVisit(deeper, w, t, key, first) = deeper[<<u, heap[t].map_[key], ByKey>>]
  BY <1>2 DEF ItemVisit
<1>4. v = Leave(deeper[<<u, heap[t].map_[key], ByKey>>])
  BY <1>3, ItemIs
<1> QED  BY <1>1, <1>4 DEF Tabled

LEMMA FoundIsSeen ==
  ASSUME NEW t, NEW key, HeapInv(heap), t \in 1..Len(heap), key \in Part, heap[t].map_[key] # 0
  PROVE  /\ heap[t].map_[key] \in 1..Len(heap) /\ heap[t].map_[key] > t
         /\ is_table_or_tables(heap, heap[t].map_[key]) => Seen(heap[t].map_[key])
         /\ ~ is_table_or_tables(heap, heap[t].map_[key]) => heap[heap[t].map_[key]].is \in {"value", "array"}
<1> DEFINE c == heap[t].map_[key]
<1>1. c \in (t + 1)..Len(heap) /\ Len(heap) \in Nat
  BY ArrayEnds DEF HeapInv, MapsGoUp
<1>2. heap[c].is = "table_array" => heap[c].array_ # <<>>
  <2>1. c \in 1..Len(heap)
    BY <1>1
  <2> QED  BY <2>1 DEF HeapInv, FoundArraysAreFilled
<1>3. heap[c].is = "static" => heap[c].array_ # <<>>
  BY DEF HeapInv, FoundArraysAreFilled
<1> HIDE DEF c
<1>4. c \in 1..Len(heap) /\ c > t
  BY <1>1
<1>5. heap[c].is \in {"table", "table_array", "static", "value", "array"}
  BY <1>4, ShapedFacts DEF HeapInv, Kind
<1>6. is_table_or_tables(heap, c) <=> heap[c].is \in {"table", "table_array", "static"}
  BY DEF is_table_or_tables
<1>7. is_table_or_tables(heap, c) => Seen(c)
  BY <1>2, <1>3, <1>4, <1>6 DEF Seen
<1>8. ~ is_table_or_tables(heap, c) => heap[c].is \in {"value", "array"}
  BY <1>5, <1>6
<1> QED  BY <1>4, <1>7, <1>8 DEF c

LEMMA PairOnward ==
  ASSUME NEW r, NEW key, NEW b, r \in Readers, key \in Part, b \in 1..Len(heap), HeapInv(heap),
         heap[b].is \in {"value", "array"}
  PROVE  ~ r.ok \/ key = Empty => ~ PairRead(r, key, b).ok
<1> DEFINE size == Len(heap[b].array_)
           p == Append(r.at, <<key, 0>>)
<1>1. size \in Nat
  BY ArrayEnds
<1>2. p \in Path /\ p # <<>>
  <2>1. r.at \in Path
    BY DEF Readers
  <2> QED  BY <2>1, ElementAt
<1> HIDE DEF size, p
<1>3. CASE key = Empty
  <2>1. PairRead(r, key, b).ok = FALSE
    BY <1>3 DEF PairRead, Readers
  <2> QED  BY <2>1
<1>4. CASE key # Empty
  <2>1. PairRead(r, key, b) = ReadPair(r, p, heap[b].is, size)
    BY <1>4 DEF PairRead, size, p
  <2>2. Onward(r, ReadPair(r, p, heap[b].is, size))
    BY <1>1, <1>2, ReadPairIs
  <2> QED  BY <1>4, <2>1, <2>2 DEF Onward
<1> QED  BY <1>3, <1>4

ItemEnds(w, v, D, t, key) ==
  Fine(v) /\ v.path = w.path /\ (~ Read(w).ok \/ key = Empty \/ heap[t].map_[key] \in D => ~ Read(v).ok)

LEMMA QuietItem ==
  ASSUME NEW order, NEW n, NEW D, NEW t, NEW key, NEW w, NEW first, NEW v,
         v = Item(Visits(heap, order)[n], heap, w, t, key, first),
         order \in SetToSeqs(Part), HeapInv(heap), KindsInv(heap), Doomed(D), Quiet(n, order, D),
         Begins(w, t, key, first), Reach(n, heap[t].map_[key], ByKey)
  PROVE  ItemEnds(w, v, D, t, key)
<1> DEFINE c == heap[t].map_[key]
<1>1. /\ c \in 1..Len(heap)
      /\ is_table_or_tables(heap, c) => Seen(c)
      /\ ~ is_table_or_tables(heap, c) => heap[c].is \in {"value", "array"}
  BY FoundIsSeen DEF Begins
<1>0. Fine(w) /\ key \in Part
  BY DEF Begins
<1>2. w \in PartWriters /\ w.path \in Seq(Part) /\ Read(w) \in Readers
  BY <1>0, ReadyAt
<1>3. CASE ~ is_table_or_tables(heap, c)
  <2>1. heap[c].is \in {"value", "array"}
    BY <1>1, <1>3
  <2>2. Fine(v) /\ v.path = w.path /\ Read(v) = PairRead(Read(w), key, c)
    <3>1. heap[heap[t].map_[key]].is \in {"value", "array"}
      BY <2>1
    <3>2. Paired(w, v, key, heap[t].map_[key])
      BY <3>1, PairItem
    <3> QED  BY <3>2 DEF Paired
  <2>3. c \notin D
    <3> HIDE DEF c
    <3> QED  BY <2>1 DEF Doomed
  <2> HIDE DEF c
  <2>4. ~ Read(w).ok \/ key = Empty => ~ PairRead(Read(w), key, c).ok
    BY <1>0, <1>1, <1>2, <2>1, PairOnward
  <2>5. Fine(v) /\ v.path = w.path /\ (~ Read(w).ok \/ key = Empty \/ c \in D => ~ Read(v).ok)
    BY <2>2, <2>3, <2>4
  <2> QED  BY <2>5 DEF c, ItemEnds
<1>4. CASE is_table_or_tables(heap, c)
  <2> DEFINE u == Begun(w, key, first)
             q == Append(w.path, key)
             no == ByKey
             x == Visits(heap, order)[n][<<u, c, no>>]
  <2>1. v = Leave(x) /\ Ready(u) /\ u.path = q /\ Read(u) = Read(w)
    <3> DEFINE deeper == Visits(heap, order)[n]
    <3>1. v = Item(deeper, heap, w, t, key, first) /\ Begins(w, t, key, first)
      OBVIOUS
    <3> HIDE DEF deeper
    <3>2. Tabled(w, v, key, Begun(w, key, first), deeper[<<Begun(w, key, first), heap[t].map_[key], ByKey>>])
      BY <1>4, <3>1, TableItem
    <3> QED  BY <3>2 DEF deeper, Tabled
  <2>2. Seen(c) /\ Reach(n, c, no)
    BY <1>1, <1>4
  <2>3. HasEmpty(w.path) \/ key = Empty <=> HasEmpty(q)
    <3>1. /\ Len(q) = Len(w.path) + 1 /\ Len(w.path) \in Nat /\ q[Len(w.path) + 1] = key
          /\ \A i \in 1..Len(w.path) : q[i] = w.path[i]
      BY <1>0, <1>2, AppendHas
    <3> HIDE DEF q
    <3>2. \A i \in 1..Len(q) : i \in 1..Len(w.path) \/ i = Len(w.path) + 1
      BY <3>1
    <3>3. /\ \A i \in 1..Len(w.path) : i \in 1..Len(q)
          /\ Len(w.path) + 1 \in 1..Len(q)
      BY <3>1
    <3> QED  BY <3>1, <3>2, <3>3 DEF HasEmpty
  <2> HIDE DEF c, u, no, q
  <2>4. Ends(u, x, D, c)
    BY <2>1, <2>2 DEF Quiet
  <2> HIDE DEF x
  <2>5. Ready(x) /\ x.path = q /\ (~ Read(u).ok \/ c \in D \/ HasEmpty(q) => ~ Read(x).ok)
    BY <2>1, <2>4 DEF Ends
  <2>6. Fine(Leave(x)) /\ Leave(x).path = w.path /\ Read(Leave(x)) = Read(x)
    <3>1. x \in PartWriters /\ Fine(x) /\ x.path = Append(w.path, key) /\ w.path \in Seq(Part)
      BY <1>2, <2>5 DEF Ready, Fine, q
    <3> QED  BY <1>0, <3>1, LeaveIs
  <2>7. Fine(v) /\ v.path = w.path /\ (~ Read(w).ok \/ key = Empty \/ c \in D => ~ Read(v).ok)
    BY <2>1, <2>3, <2>5, <2>6
  <2> QED  BY <2>7 DEF c, ItemEnds
<1> QED  BY <1>3, <1>4

(* The header of a table, or none if it is the root.                       *)
LEMMA QuietHeader ==
  ASSUME NEW w, NEW in_array, Ready(w), in_array \in BOOLEAN
  PROVE  LET v == write_table_header(w, in_array)
         IN  Ready(v) /\ v.path = w.path /\ (~ Read(w).ok \/ HasEmpty(w.path) => ~ Read(v).ok)
<1> DEFINE v == write_table_header(w, in_array)
           ks == w.path
           r == Read(w)
<1>1. w \in PartWriters /\ ks \in Seq(Part) /\ r \in Readers
  BY ReadyAt DEF Ready
<1>2. /\ v \in PartWriters /\ v.path = w.path /\ Fine(v)
      /\ ks = <<>> => v = w
      /\ ks # <<>> => OnNewLine(v) /\ Read(v) = ReadLine(r, Header(ks, in_array))
  BY <1>1, HeadIs DEF Ready
<1>3. CASE ks = <<>>
  <2>1. ~ HasEmpty(ks)
    BY <1>3 DEF HasEmpty
  <2> HIDE DEF v
  <2> QED  BY <1>2, <1>3, <2>1 DEF v
<1>4. CASE ks # <<>>
  <2> HIDE DEF ks, r, v
  <2>1. Onward(r, ReadLine(r, Header(ks, in_array)))
    BY <1>1, <1>4, HeaderHas, ReadLineOnward
  <2>2. HasEmpty(ks) => ~ ReadLine(r, Header(ks, in_array)).ok
    BY <1>1, <1>4, HeaderIs DEF HasEmpty
  <2>3. Ready(v) /\ v.path = w.path /\ (~ r.ok \/ HasEmpty(ks) => ~ Read(v).ok)
    BY <1>2, <1>4, <2>1, <2>2 DEF Ready, Onward
  <2> QED  BY <2>3 DEF v, ks, r
<1> QED  BY <1>3, <1>4

(* There is fuel for what is in b.                                         *)
Deep(m, b) == m \in Nat /\ b \in 1..Len(heap) /\ m + b >= Len(heap)

LEMMA DeeperReach ==
  ASSUME NEW m, NEW b, NEW c, Deep(m, b), HeapInv(heap), c \in 1..Len(heap), c > b
  PROVE  Reach(m, c, ByKey) /\ Reach(m, c, ByPlace)
<1>1. Len(heap) \in Nat
  BY ShapedFacts DEF HeapInv
<1>2. m \in Nat \ {0} /\ m + c > Len(heap)
  BY <1>1 DEF Deep
<1> QED  BY <1>2 DEF Reach, ByKey, ByPlace

(* A table is its header, then its items one after the other.             *)
Walk(order, m, w, b, in_array, v, keys, f) ==
  /\ Listing(b, keys) /\ f \in [0..Len(keys) -> At(w.path)]
  /\ f[0] = write_table_header(w, in_array)
  /\ v = endline(f[Len(keys)])
  /\ \A i \in 1..Len(keys) : f[i] = Item(Visits(heap, order)[m], heap, f[i - 1], b, keys[i], i = 1)

LEMMA TableWalk ==
  ASSUME NEW order, NEW m, NEW w, NEW b, NEW in_array, NEW v,
         v = visit_table(Visits(heap, order)[m], heap, order, w, b, in_array),
         order \in SetToSeqs(Part), HeapInv(heap), Ready(w), Deep(m, b), in_array \in BOOLEAN
  PROVE  \E keys, f : Walk(order, m, w, b, in_array, v, keys, f)
<1> DEFINE deeper == Visits(heap, order)[m]
           ks == w.path
<1>1. Fine(w) /\ w \in At(ks) /\ ks \in Seq(Part)
  BY ReadyAt DEF Ready
<1>2. b \in 1..Len(heap) /\ m \in Nat
  BY DEF Deep
<1>3. Typed(deeper)
  BY <1>2, VisitsTyped
<1>4. \E keys, f :
            /\ Listing(b, keys) /\ f \in [0..Len(keys) -> At(ks)]
            /\ f[0] = write_table_header(w, in_array)
            /\ v = endline(f[Len(keys)])
            /\ \A i \in 1..Len(keys) : f[i] = Item(deeper, heap, f[i - 1], b, keys[i], i = 1)
  <2> HIDE DEF deeper, ks
  <2>1. \E keys, f :
            /\ Listing(b, keys) /\ f \in [0..Len(keys) -> At(ks)]
            /\ f[0] = write_table_header(w, in_array)
            /\ visit_table(deeper, heap, order, w, b, in_array) = endline(f[Len(keys)])
            /\ \A i \in 1..Len(keys) : f[i] = Item(deeper, heap, f[i - 1], b, keys[i], i = 1)
    BY <1>1, <1>2, <1>3, TableVisits
  <2>2. v = visit_table(deeper, heap, order, w, b, in_array)
    BY DEF deeper
  <2> HIDE DEF deeper
  <2> QED  BY <2>1, <2>2
<1> QED  BY <1>4 DEF Walk

LEMMA QuietTable ==
  ASSUME NEW order, NEW m, NEW D, NEW w, NEW b, NEW in_array, NEW v,
         v = visit_table(Visits(heap, order)[m], heap, order, w, b, in_array),
         order \in SetToSeqs(Part), HeapInv(heap), KindsInv(heap), Doomed(D), Quiet(m, order, D),
         Ready(w), Deep(m, b), in_array \in BOOLEAN, heap[b].is = "table"
  PROVE  Ends(w, v, D, b)
<1> DEFINE deeper == Visits(heap, order)[m]
           ks == w.path
           Spoilt(keys, i) == \E j \in 1..i : keys[j] = Empty \/ heap[b].map_[keys[j]] \in D
<1>2. b \in 1..Len(heap)
  BY DEF Deep
<1>4. PICK keys, f :
            /\ Listing(b, keys) /\ f \in [0..Len(keys) -> At(ks)]
            /\ f[0] = write_table_header(w, in_array)
            /\ v = endline(f[Len(keys)])
            /\ \A i \in 1..Len(keys) : f[i] = Item(deeper, heap, f[i - 1], b, keys[i], i = 1)
  <2>1. PICK keys, f : Walk(order, m, w, b, in_array, v, keys, f)
    BY TableWalk
  <2> QED  BY <2>1 DEF Walk
<1> DEFINE Bad(i) == ~ Read(w).ok \/ HasEmpty(ks) \/ Spoilt(keys, i)
           Good(i) == Fine(f[i]) /\ f[i].path = ks /\ (i = 0 => OnNewLine(f[i])) /\ (Bad(i) => ~ Read(f[i]).ok)
           T == {i \in Nat : i <= Len(keys) => Good(i)}
<1>5. Len(keys) \in Nat /\ \A i \in 1..Len(keys) : keys[i] \in Part /\ heap[b].map_[keys[i]] # 0
  <2>1. keys \in Seq(Part)
    BY <1>4 DEF Listing
  <2>2. \A i \in 1..Len(keys) : keys[i] \in Part
    BY <2>1
  <2>3. \A i \in 1..Len(keys) : heap[b].map_[keys[i]] # 0
    BY <1>4, <2>2 DEF Listing, Occurs
  <2> QED  BY <2>1, <2>2, <2>3
<1>6. 0 \in T
  <2> DEFINE u == f[0]
  <2>1. u = write_table_header(w, in_array)
    BY <1>4
  <2>2. ~ Spoilt(keys, 0)
    OBVIOUS
  <2> HIDE DEF u, Spoilt
  <2>3. Ready(u) /\ u.path = ks /\ (~ Read(w).ok \/ HasEmpty(ks) => ~ Read(u).ok)
    BY <2>1, QuietHeader
  <2>4. Good(0)
    BY <2>2, <2>3 DEF u, Ready
  <2> QED  BY <2>4
<1>7. ASSUME NEW i \in Nat, i \in T  PROVE i + 1 \in T
  <2> SUFFICES ASSUME i + 1 <= Len(keys)  PROVE Good(i + 1)
    OBVIOUS
  <2> DEFINE u == f[i]
             x == f[i + 1]
             key == keys[i + 1]
             c == heap[b].map_[key]
             first == i + 1 = 1
  <2>1. i <= Len(keys) /\ i + 1 \in 1..Len(keys) /\ (i + 1) - 1 = i
    BY <1>5
  <2>2. Good(i)
    <3> HIDE DEF Good
    <3> QED  BY <1>7, <2>1
  <2>3. key \in Part /\ c # 0
    BY <1>5, <2>1
  <2>4. x = Item(deeper, heap, u, b, key, first)
    <3>1. f[i + 1] = Item(deeper, heap, f[(i + 1) - 1], b, keys[i + 1], i + 1 = 1)
      BY <1>4, <2>1
    <3> QED  BY <2>1, <3>1
  <2>5. c \in 1..Len(heap) /\ c > b
    BY <1>2, <2>3, FoundIsSeen
  <2>6. Begins(u, b, key, first)
    <3>1. first \in BOOLEAN /\ (first => i = 0)
      OBVIOUS
    <3> HIDE DEF first
    <3> QED  BY <1>2, <2>2, <2>3, <3>1 DEF Begins
  <2> HIDE DEF first
  <2>7. ItemEnds(u, x, D, b, key)
    <3>1. Reach(m, heap[b].map_[key], ByKey)
      BY <2>5, DeeperReach
    <3>2. x = Item(Visits(heap, order)[m], heap, u, b, key, first)
      BY <2>4
    <3> HIDE DEF u, x, key, deeper
    <3> QED  BY <2>6, <3>1, <3>2, QuietItem
  <2>8. Fine(x) /\ x.path = u.path /\ (~ Read(u).ok \/ key = Empty \/ c \in D => ~ Read(x).ok)
    BY <2>7 DEF ItemEnds
  <2>9. Bad(i + 1) => Bad(i) \/ key = Empty \/ c \in D
    <3>1. \A j \in 1..(i + 1) : j \in 1..i \/ j = i + 1
      OBVIOUS
    <3> QED  BY <3>1
  <2>10. u.path = ks /\ (Bad(i) => ~ Read(u).ok)
    BY <2>2
  <2> HIDE DEF Bad, u, key, c
  <2>11. Fine(x) /\ x.path = ks /\ (Bad(i + 1) => ~ Read(x).ok) /\ i + 1 # 0
    BY <2>8, <2>9, <2>10
  <2> QED  BY <2>11 DEF x
<1>8. Good(Len(keys))
  <2> HIDE DEF T, Good
  <2>1. Len(keys) \in T
    BY <1>5, <1>6, <1>7, Induction
  <2> QED  BY <1>5, <2>1 DEF T
<1>9. b \in D => Spoilt(keys, Len(keys))
  <2> SUFFICES ASSUME b \in D  PROVE Spoilt(keys, Len(keys))
    OBVIOUS
  <2>1. PICK k \in Part : heap[b].map_[k] # 0 /\ (k = Empty \/ heap[b].map_[k] \in D)
    BY DEF Doomed
  <2>2. Occurs(k, keys)
    BY <1>4, <2>1 DEF Listing
  <2> QED  BY <2>1, <2>2 DEF Occurs
<1>10. Ready(v) /\ v.path = ks /\ Read(v) = Read(f[Len(keys)])
  <2> DEFINE x == f[Len(keys)]
  <2>1. Fine(x) /\ x.path = ks /\ v = endline(x)
    BY <1>4, <1>8
  <2> HIDE DEF x
  <2>2. Ready(v) /\ v.path = ks /\ Read(v) = Read(x)
    BY <2>1, EndlineIs DEF Ready
  <2> QED  BY <2>2 DEF x
<1>11. Bad(Len(keys)) => ~ Read(f[Len(keys)]).ok
  BY <1>8
<1> HIDE DEF Spoilt
<1> QED  BY <1>9, <1>10, <1>11 DEF Ends

LEMMA ElementIsTable ==
  ASSUME NEW a, NEW i, HeapInv(heap), a \in 1..Len(heap), heap[a].is \in {"table_array", "static"},
         i \in 1..Len(heap[a].array_)
  PROVE  /\ heap[a].array_[i] \in 1..Len(heap) /\ heap[a].array_[i] > a
         /\ heap[heap[a].array_[i]].is = "table" /\ Seen(heap[a].array_[i])
<1> DEFINE c == heap[a].array_[i]
<1>1. c \in (a + i)..Len(heap) /\ Len(heap) \in Nat /\ Len(heap[a].array_) \in Nat
  BY ArrayEnds DEF HeapInv, ArraysGoUp
<1>2. heap[c].is = "table"
  BY DEF HeapInv, ElementsAreTables
<1> HIDE DEF c
<1>3. c \in 1..Len(heap) /\ c > a
  BY <1>1
<1> QED  BY <1>2, <1>3 DEF Seen, c

LEMMA QuietArray ==
  ASSUME NEW order, NEW m, NEW D, NEW w, NEW b, NEW v,
         v = visit_table_array(Visits(heap, order)[m], heap, w, b),
         order \in SetToSeqs(Part), HeapInv(heap), KindsInv(heap), Doomed(D), Quiet(m, order, D),
         Ready(w), Deep(m, b), Seen(b), heap[b].is \in {"table_array", "static"}
  PROVE  Ends(w, v, D, b)
<1> DEFINE deeper == Visits(heap, order)[m]
           ks == w.path
           a == heap[b].array_
           k == Len(a)
           Spoilt(i) == \E j \in 1..i : a[j] \in D
           Bad(i) == ~ Read(w).ok \/ (i # 0 /\ HasEmpty(ks)) \/ Spoilt(i)
<1>1. Fine(w) /\ w \in At(ks) /\ ks \in Seq(Part)
  BY ReadyAt DEF Ready
<1>2. b \in 1..Len(heap) /\ m \in Nat
  BY DEF Deep
<1>3. Typed(deeper)
  BY <1>2, VisitsTyped
<1>4. k \in Nat /\ k # 0
  <2>1. a # <<>> /\ a \in Seq(Nat)
    BY <1>2, ShapedFacts DEF Seen, HeapInv
  <2> HIDE DEF a
  <2> QED  BY <2>1, EmptySeq
<1>5. PICK f \in [0..k -> At(ks)] :
            /\ f[0] = w /\ v = endline(f[k])
            /\ \A i \in 1..k : f[i] = TableStep(deeper, a, f[i - 1], i)
  <2> HIDE DEF deeper, ks
  <2>1. \E f \in [0..k -> At(ks)] :
            /\ f[0] = w /\ visit_table_array(deeper, heap, w, b) = endline(f[k])
            /\ \A i \in 1..k : f[i] = TableStep(deeper, a, f[i - 1], i)
    BY <1>1, <1>2, <1>3, TablesVisits
  <2>2. v = visit_table_array(deeper, heap, w, b)
    BY DEF deeper
  <2> HIDE DEF a, k
  <2> QED  BY <2>1, <2>2
<1> DEFINE Good(i) == Ready(f[i]) /\ f[i].path = ks /\ (Bad(i) => ~ Read(f[i]).ok)
           T == {i \in Nat : i <= k => Good(i)}
<1>6. 0 \in T
  <2>1. ~ Spoilt(0)
    OBVIOUS
  <2> HIDE DEF Spoilt
  <2> QED  BY <1>5, <2>1
<1>7. ASSUME NEW i \in Nat, i \in T  PROVE i + 1 \in T
  <2> SUFFICES ASSUME i + 1 <= k  PROVE Good(i + 1)
    OBVIOUS
  <2> DEFINE x == f[i + 1]
             c == a[i + 1]
             u == IF i + 1 = 1 THEN f[i] ELSE endline(f[i])
             yes == ByPlace
  <2>1. i <= k /\ i + 1 \in 1..k /\ (i + 1) - 1 = i
    BY <1>4
  <2>2. Good(i)
    <3> HIDE DEF Good
    <3> QED  BY <1>7, <2>1
  <2>3. x = deeper[<<u, c, yes>>]
    <3>1. f[i + 1] = TableStep(deeper, a, f[(i + 1) - 1], i + 1)
      BY <1>5, <2>1
    <3>2. f[i + 1] = TableStep(deeper, a, f[i], i + 1)
      BY <2>1, <3>1
    <3> QED  BY <3>2 DEF TableStep, ByPlace
  <2>4. c \in 1..Len(heap) /\ c > b /\ Seen(c)
    BY <1>2, <2>1, ElementIsTable
  <2>5. Ready(u) /\ u.path = ks /\ Read(u) = Read(f[i])
    <3> DEFINE o == f[i]
    <3>1. Ready(o) /\ o.path = ks
      BY <2>2
    <3> HIDE DEF o
    <3>2. Ready(endline(o)) /\ endline(o).path = ks /\ Read(endline(o)) = Read(o)
      BY <3>1, EndlineIs DEF Ready
    <3>3. u = o \/ u = endline(o)
      BY DEF o
    <3> HIDE DEF u
    <3>4. Ready(u) /\ u.path = ks /\ Read(u) = Read(o)
      BY <3>1, <3>2, <3>3
    <3> QED  BY <3>4 DEF o
  <2>6. Reach(m, c, yes)
    BY <2>4, DeeperReach
  <2>7. Ends(u, x, D, c)
    <3>1. x = Visits(heap, order)[m][<<u, c, yes>>]
      BY <2>3
    <3> HIDE DEF x, u, c, yes
    <3> QED  BY <2>4, <2>5, <2>6, <3>1 DEF Quiet
  <2>8. Ready(x) /\ x.path = ks /\ (~ Read(f[i]).ok \/ c \in D \/ HasEmpty(ks) => ~ Read(x).ok)
    BY <2>5, <2>7 DEF Ends
  <2>9. Bad(i + 1) => Bad(i) \/ c \in D \/ HasEmpty(ks)
    <3>1. \A j \in 1..(i + 1) : j \in 1..i \/ j = i + 1
      OBVIOUS
    <3> QED  BY <3>1
  <2>10. Bad(i) => ~ Read(f[i]).ok
    BY <2>2
  <2> HIDE DEF Bad, c
  <2>11. Ready(x) /\ x.path = ks /\ (Bad(i + 1) => ~ Read(x).ok)
    BY <2>8, <2>9, <2>10
  <2> QED  BY <2>11 DEF x
<1>8. Good(k)
  <2> HIDE DEF T, Good
  <2>1. k \in T
    BY <1>4, <1>6, <1>7, Induction
  <2> QED  BY <1>4, <2>1 DEF T
<1>9. b \in D => Spoilt(k)
  BY DEF Doomed
<1>10. Ready(v) /\ v.path = ks /\ Read(v) = Read(f[k])
  <2> DEFINE x == f[k]
  <2>1. Fine(x) /\ x.path = ks /\ v = endline(x)
    BY <1>5, <1>8 DEF Ready
  <2> HIDE DEF x
  <2>2. Ready(v) /\ v.path = ks /\ Read(v) = Read(x)
    BY <2>1, EndlineIs DEF Ready
  <2> QED  BY <2>2 DEF x
<1>11. Bad(k) => ~ Read(f[k]).ok
  BY <1>8
<1> HIDE DEF Spoilt, k
<1> QED  BY <1>4, <1>9, <1>10, <1>11 DEF Ends

LEMMA QuietAll ==
  ASSUME NEW order, NEW D, order \in SetToSeqs(Part), HeapInv(heap), KindsInv(heap), Doomed(D)
  PROVE  \A n \in Nat : Quiet(n, order, D)
<1> DEFINE T == {n \in Nat : Quiet(n, order, D)}
<1>1. 0 \in T
  BY DEF Quiet, Reach
<1>2. ASSUME NEW m \in Nat, m \in T  PROVE m + 1 \in T
  <2> SUFFICES ASSUME NEW w, NEW b, NEW in_array, Ready(w), Seen(b), Reach(m + 1, b, in_array)
               PROVE  Ends(w, Visits(heap, order)[m + 1][<<w, b, in_array>>], D, b)
    BY DEF Quiet
  <2> DEFINE v == Visits(heap, order)[m + 1][<<w, b, in_array>>]
  <2>1. b \in 1..Len(heap) /\ in_array \in BOOLEAN /\ Quiet(m, order, D) /\ Deep(m, b)
    <3>1. Len(heap) \in Nat
      BY ShapedFacts DEF HeapInv
    <3>2. b \in 1..Len(heap) /\ in_array \in BOOLEAN /\ m + 1 + b > Len(heap)
      BY DEF Reach
    <3>3. Deep(m, b)
      BY <3>1, <3>2 DEF Deep
    <3>4. Quiet(m, order, D)
      BY <1>2
    <3> QED  BY <3>2, <3>3, <3>4
  <2>2. v = visit(Visits(heap, order)[m], heap, order, w, b, in_array)
    <3>1. w \in PartWriters /\ b \in Nat /\ m + 1 \in Nat /\ m + 1 # 0 /\ (m + 1) - 1 = m
      BY <2>1, ReadyAt DEF Ready
    <3>2. v = IF m + 1 = 0 THEN w ELSE visit(Visits(heap, order)[(m + 1) - 1], heap, order, w, b, in_array)
      BY <2>1, <3>1, VisitIs
    <3> QED  BY <3>1, <3>2
  <2> HIDE DEF v
  <2>3. CASE heap[b].is = "table"
    <3>1. v = visit_table(Visits(heap, order)[m], heap, order, w, b, in_array)
      BY <2>2, <2>3 DEF visit
    <3> QED  BY <2>1, <2>3, <3>1, QuietTable DEF v
  <2>4. CASE heap[b].is \in {"table_array", "static"}
    <3>1. v = visit_table_array(Visits(heap, order)[m], heap, w, b)
      BY <2>2, <2>4 DEF visit
    <3> QED  BY <2>1, <2>4, <3>1, QuietArray DEF v
  <2> QED  BY <2>3, <2>4 DEF Seen, v
<1> HIDE DEF T
<1>3. Nat \subseteq T
  BY <1>1, <1>2, Induction
<1> QED  BY <1>3 DEF T

(***************************************************************************)
(* Paths: what is below p, and what is in a key of the table at p.         *)
(***************************************************************************)
Child(p, key, j) == Append(p, <<key, j>>)

Under(p, x) == x \in Path /\ Len(x) > Len(p) /\ \A i \in 1..Len(p) : x[i] = p[i]

In(p, key, x) == Under(p, x) /\ x[Len(p) + 1][1] = key

LEMMA ChildIs ==
  ASSUME NEW p, NEW key, NEW j, p \in Path, key \in Part, j \in Nat
  PROVE  /\ Child(p, key, j) \in Path /\ Child(p, key, j) # <<>> /\ Len(p) \in Nat
         /\ Len(Child(p, key, j)) = Len(p) + 1 /\ Child(p, key, j)[Len(p) + 1] = <<key, j>>
         /\ \A i \in 1..Len(p) : Child(p, key, j)[i] = p[i]
         /\ In(p, key, Child(p, key, j))
<1> DEFINE e == <<key, j>>
           q == Append(p, e)
<1>1. e \in PathStep /\ e[1] = key
  BY DEF PathStep
<1> HIDE DEF e
<1>2. /\ q \in Path /\ Len(q) = Len(p) + 1 /\ q[Len(p) + 1] = e /\ Len(p) \in Nat
      /\ \A i \in 1..Len(p) : q[i] = p[i]
  BY <1>1, AppendHas DEF Path
<1>3. q # <<>>
  BY <1>1, AppendEnds DEF Path
<1> HIDE DEF q
<1>4. In(p, key, q)
  BY <1>1, <1>2 DEF In, Under
<1> QED  BY <1>2, <1>3, <1>4 DEF q, e, Child

LEMMA ChildElement ==
  ASSUME NEW p, NEW key, NEW j, NEW i, p \in Path, key \in Part, j \in Nat, i \in Nat
  PROVE  Element(Child(p, key, j), i) = Child(p, key, i)
BY ElementAt DEF Child

LEMMA BelowChild ==
  ASSUME NEW p, NEW key, NEW j, NEW x, p \in Path, key \in Part, j \in Nat, Under(Child(p, key, j), x)
  PROVE  In(p, key, x) /\ Len(x) > Len(p) + 1 /\ x[Len(p) + 1] = <<key, j>>
<1> DEFINE q == Child(p, key, j)
<1>1. /\ q \in Path /\ Len(p) \in Nat
      /\ Len(q) = Len(p) + 1 /\ q[Len(p) + 1] = <<key, j>>
      /\ \A i \in 1..Len(p) : q[i] = p[i]
  BY ChildIs
<1>2. x \in Path /\ Len(x) > Len(q) /\ \A i \in 1..Len(q) : x[i] = q[i]
  BY DEF Under
<1> HIDE DEF q
<1>3. Len(x) > Len(p) + 1 /\ Len(x) \in Nat
  BY <1>1, <1>2 DEF Path
<1>4. Len(p) + 1 \in 1..Len(q) /\ \A i \in 1..Len(p) : i \in 1..Len(q)
  BY <1>1
<1>5. x[Len(p) + 1] = <<key, j>>
  BY <1>1, <1>2, <1>4
<1>6. x[Len(p) + 1][1] = key
  BY <1>5
<1>7. \A i \in 1..Len(p) : x[i] = p[i]
  BY <1>1, <1>2, <1>4
<1> QED  BY <1>1, <1>2, <1>3, <1>5, <1>6, <1>7 DEF In, Under

(***************************************************************************)
(* The entries of a document.                                              *)
(***************************************************************************)
Ent(n, b, p) == EntriesTo[n][<<b, p>>]

WrittenIs(b) == IF heap[b].is = "static" THEN "table_array" ELSE heap[b].is

(* What an object has in a key, or at a place.                             *)
InKey(n, b, p, e) ==
  \E key \in Part : heap[b].map_[key] # 0 /\ e \in Ent(n, heap[b].map_[key], Child(p, key, 0))

AtPlace(n, b, p, e) ==
  \E i \in 1..Len(heap[b].array_) : e \in Ent(n, heap[b].array_[i], Element(p, i))

LEMMA EntHas ==
  ASSUME NEW n, NEW b, NEW p, NEW e, n \in Nat, b \in 1..Len(heap), p \in Path,
         HeapInv(heap), KindsInv(heap)
  PROVE  e \in Ent(n + 1, b, p) <=>
           e = Entry(p, WrittenIs(b)) \/ InKey(n, b, p, e) \/ AtPlace(n, b, p, e)
<1>1. b \in Nat /\ n + 1 \in Nat /\ (n + 1) - 1 = n /\ n + 1 # 0
  OBVIOUS
<1>2. Ent(n + 1, b, p) = EntriesOf(EntriesTo[n], b, p)
  <2>1. EntriesTo[n + 1][<<b, p>>] = IF n + 1 = 0 THEN {} ELSE EntriesOf(EntriesTo[(n + 1) - 1], b, p)
    BY <1>1, EntriesIs
  <2> QED  BY <1>1, <2>1 DEF Ent
<1> DEFINE K == UNION {EntriesTo[n][<<heap[b].map_[key], Append(p, <<key, 0>>)>>] : key \in {k \in Part : ~Free(b, k)}}
           A == UNION {EntriesTo[n][<<heap[b].array_[i], Element(p, i)>>] : i \in 1..Len(heap[b].array_)}
<1>3. Ent(n + 1, b, p) = {Entry(p, WrittenIs(b))} \cup K \cup A
  <2> DEFINE H == UNION {EntriesTo[n][<<heap[b].array_[i], Held(heap[heap[b].array_[i]].is, p, i)>>] :
                            i \in 1..Len(heap[b].array_)}
  <2>1. EntriesOf(EntriesTo[n], b, p) = {Entry(p, WrittenIs(b))} \cup K \cup H
    BY Zenon DEF EntriesOf, WrittenIs
  <2>2. ASSUME NEW i \in 1..Len(heap[b].array_)
        PROVE  Held(heap[heap[b].array_[i]].is, p, i) = Element(p, i)
    <3>1. heap[b].is \in Kind /\ Len(heap[b].array_) \in Nat
      BY ShapedFacts DEF HeapInv
    <3>2. heap[heap[b].array_[i]].is # "array"
      BY <3>1 DEF HeapInv, ElementsAreTables, KindsInv, Kind
    <3> QED  BY <3>2 DEF Held
  <2>3. H = A
    BY <2>2, Zenon
  <2> QED  BY <1>2, <2>1, <2>3
<1>4. e \in K <=> InKey(n, b, p, e)
  <2>1. e \in K <=> \E key \in {k \in Part : ~Free(b, k)} : e \in EntriesTo[n][<<heap[b].map_[key], Append(p, <<key, 0>>)>>]
    OBVIOUS
  <2> HIDE DEF K
  <2> QED  BY <2>1 DEF InKey, Free, Null, Ent, Child
<1>5. e \in A <=> AtPlace(n, b, p, e)
  BY DEF AtPlace, Ent
<1> HIDE DEF K, A
<1> QED  BY <1>3, <1>4, <1>5

LEMMA EntNone ==
  ASSUME NEW b, NEW p, b \in 1..Len(heap), p \in Path
  PROVE  Ent(0, b, p) = {}
<1>1. b \in Nat /\ 0 \in Nat
  OBVIOUS
<1> QED  BY <1>1, EntriesIs DEF Ent

Within(n) ==
  \A b, p, key, j, e :
     b \in 1..Len(heap) /\ p \in Path /\ key \in Part /\ j \in Nat /\ e \in Ent(n, b, Child(p, key, j)) =>
        In(p, key, e.path)

LEMMA HeldIs ==
  ASSUME NEW b, NEW key, HeapInv(heap), b \in 1..Len(heap), key \in Part, heap[b].map_[key] # 0
  PROVE  heap[b].map_[key] \in 1..Len(heap)
<1>1. heap[b].map_[key] \in (b + 1)..Len(heap) /\ Len(heap) \in Nat
  BY ArrayEnds DEF HeapInv, MapsGoUp
<1> DEFINE c == heap[b].map_[key]
<1> HIDE DEF c
<1>2. c \in (b + 1)..Len(heap)
  BY <1>1 DEF c
<1>3. c \in 1..Len(heap)
  BY <1>1, <1>2
<1> QED  BY <1>3 DEF c

LEMMA EntWithin ==
  ASSUME HeapInv(heap), KindsInv(heap)
  PROVE  \A n \in Nat : Within(n)
<1> DEFINE T == {n \in Nat : Within(n)}
<1>1. 0 \in T
  <2> SUFFICES ASSUME NEW b, NEW p, NEW key, NEW j, NEW e,
                      b \in 1..Len(heap), p \in Path, key \in Part, j \in Nat, e \in Ent(0, b, Child(p, key, j))
               PROVE  FALSE
    BY DEF Within
  <2>1. Child(p, key, j) \in Path
    BY ChildIs
  <2> QED  BY <2>1, EntNone
<1>2. ASSUME NEW n \in Nat, n \in T  PROVE n + 1 \in T
  <2>0. Within(n)
    BY <1>2
  <2> SUFFICES ASSUME NEW b, NEW p, NEW key, NEW j, NEW e,
                      b \in 1..Len(heap), p \in Path, key \in Part, j \in Nat, e \in Ent(n + 1, b, Child(p, key, j))
               PROVE  In(p, key, e.path)
    BY DEF Within
  <2> DEFINE q == Child(p, key, j)
  <2>1. q \in Path /\ In(p, key, q)
    BY ChildIs
  <2>2. e = Entry(q, WrittenIs(b)) \/ InKey(n, b, q, e) \/ AtPlace(n, b, q, e)
    BY <2>1, EntHas
  <2> HIDE DEF q
  <2>3. CASE e = Entry(q, WrittenIs(b))
    BY <2>1, <2>3 DEF Entry
  <2>4. CASE InKey(n, b, q, e)
    <3>1. PICK k \in Part : heap[b].map_[k] # 0 /\ e \in Ent(n, heap[b].map_[k], Child(q, k, 0))
      BY <2>4 DEF InKey
    <3> DEFINE c == heap[b].map_[k]
               nil == 0
    <3>2. c \in 1..Len(heap) /\ e \in Ent(n, c, Child(q, k, nil)) /\ nil \in Nat
      BY <3>1, HeldIs
    <3> HIDE DEF c, nil
    <3>3. In(q, k, e.path)
      BY <2>0, <2>1, <3>2 DEF Within
    <3> QED  BY <3>3, BelowChild DEF In, q
  <2>5. CASE AtPlace(n, b, q, e)
    <3>1. PICK i \in 1..Len(heap[b].array_) : e \in Ent(n, heap[b].array_[i], Element(q, i))
      BY <2>5 DEF AtPlace
    <3> DEFINE c == heap[b].array_[i]
    <3>2. c \in 1..Len(heap)
      BY <3>1, ElementFacts
    <3>3. i \in Nat
      BY <3>1
    <3>4. Element(q, i) = Child(p, key, i)
      BY <3>3, ChildElement DEF q
    <3>5. e \in Ent(n, c, Child(p, key, i))
      BY <3>1, <3>4
    <3> HIDE DEF c
    <3> QED  BY <2>0, <3>2, <3>3, <3>5 DEF Within
  <2> QED  BY <2>2, <2>3, <2>4, <2>5
<1> HIDE DEF T
<1>3. Nat \subseteq T
  BY <1>1, <1>2, Induction
<1> QED  BY <1>3 DEF T

(***************************************************************************)
(* Entries that are deeper do not change where keys lead.                  *)
(***************************************************************************)
Deeper(X, m) == m \in Nat /\ \A e \in X : e.path \in Path /\ Len(e.path) > m

More(r, r2, X) == r \in Readers /\ r2 \in Readers /\ r2.entries = r.entries \cup X

LEMMA SizeSame ==
  ASSUME NEW r, NEW r2, NEW p,
         \A i \in 1..MaxObjects : Entry(Element(p, i), "table") \in r2.entries <=> Entry(Element(p, i), "table") \in r.entries
  PROVE  Size(r2, p) = Size(r, p)
<1>1. {i \in 1..MaxObjects : Entry(Element(p, i), "table") \in r2.entries} =
      {i \in 1..MaxObjects : Entry(Element(p, i), "table") \in r.entries}
  OBVIOUS
<1> QED  BY <1>1 DEF Size

LEMMA InsideSame ==
  ASSUME NEW r, NEW r2, NEW X, NEW m, NEW p, More(r, r2, X), Deeper(X, m), p \in Path, Len(p) <= m
  PROVE  Inside(r2, p) = Inside(r, p)
<1>1. \A x, is : x \in Path /\ Len(x) <= m => Entry(x, is) \notin X
  <2> SUFFICES ASSUME NEW x, NEW is, x \in Path, Len(x) <= m, Entry(x, is) \in X  PROVE FALSE
    OBVIOUS
  <2>1. Len(Entry(x, is).path) > m /\ Entry(x, is).path = x
    BY DEF Deeper, Entry
  <2>2. Len(x) \in Nat /\ m \in Nat
    BY DEF Path, Deeper
  <2> QED  BY <2>1, <2>2
<1>2. Entry(p, "table_array") \in r2.entries <=> Entry(p, "table_array") \in r.entries
  BY <1>1 DEF More
<1>3. CASE p = <<>>
  <2>1. Entry(p, "table_array") \notin EntryType
    BY <1>3 DEF EntryType, Entry
  <2>2. Entry(p, "table_array") \notin r.entries
    BY <2>1 DEF More, Readers
  <2> QED  BY <1>2, <2>2 DEF Inside
<1>4. CASE p # <<>>
  <2>1. \A i \in 1..MaxObjects : Element(p, i) \in Path /\ Len(Element(p, i)) <= m
    BY <1>4, ElementIs
  <2>2. Size(r2, p) = Size(r, p)
    BY <1>1, <2>1, SizeSame DEF More
  <2> QED  BY <1>2, <2>2 DEF Inside
<1> QED  BY <1>3, <1>4

LEMMA NamedSame ==
  ASSUME NEW r, NEW r2, NEW X, NEW m, More(r, r2, X), Deeper(X, m)
  PROVE  \A ks \in Seq(Part) : Len(ks) <= m + 1 => Named(r2, ks) = Named(r, ks)
<1> DEFINE T == {j \in Nat : j <= m + 1 => \A ks \in Seq(Part) : Len(ks) = j => Named(r2, ks) = Named(r, ks)}
<1>0. m \in Nat /\ r \in Readers /\ r2 \in Readers
  BY DEF Deeper, More
<1>1. 0 \in T
  <2>1. \A ks \in Seq(Part) : Len(ks) = 0 => ks = <<>>
    BY EmptySeq
  <2>2. Named(r2, <<>>) = <<>> /\ Named(r, <<>>) = <<>>
    <3> DEFINE nil == <<>>
    <3>1. nil \in Seq(Part)
      OBVIOUS
    <3>2. Named(r2, nil) \in Path /\ Len(Named(r2, nil)) = 0 /\ Named(r, nil) \in Path /\ Len(Named(r, nil)) = 0
      BY <1>0, <3>1, NamedIs
    <3> QED  BY <3>2, EmptySeq DEF Path
  <2> QED  BY <2>1, <2>2
<1>2. ASSUME NEW j \in Nat, j \in T  PROVE j + 1 \in T
  <2> SUFFICES ASSUME j + 1 <= m + 1, NEW ks \in Seq(Part), Len(ks) = j + 1
               PROVE  Named(r2, ks) = Named(r, ks)
    OBVIOUS
  <2> DEFINE s == Front(ks)
             x == Last(ks)
  <2>1. s \in Seq(Part) /\ x \in Part /\ Len(s) = j /\ ks = Append(s, x)
    <3>1. ks # <<>>
      OBVIOUS
    <3> QED  BY <3>1, EndsAre
  <2>2. Named(r2, s) = Named(r, s)
    BY <1>0, <1>2, <2>1
  <2> HIDE DEF s, x
  <2>3. Named(r, s) \in Path /\ Len(Named(r, s)) = j
    BY <1>0, <2>1, NamedIs
  <2>4. Inside(r2, Named(r, s)) = Inside(r, Named(r, s))
    BY <1>0, <2>3, InsideSame
  <2>5. /\ Named(r2, Append(s, x)) = Append(Inside(r2, Named(r2, s)), <<x, 0>>)
        /\ Named(r, Append(s, x)) = Append(Inside(r, Named(r, s)), <<x, 0>>)
    BY <1>0, <2>1, NamedGrow
  <2> QED  BY <2>1, <2>2, <2>4, <2>5
<1>3. Nat \subseteq T
  <2> HIDE DEF T
  <2> QED  BY <1>1, <1>2, Induction
<1> SUFFICES ASSUME NEW ks \in Seq(Part), Len(ks) <= m + 1  PROVE Named(r2, ks) = Named(r, ks)
  OBVIOUS
<1>4. Len(ks) \in Nat /\ Len(ks) \in T
  BY <1>3
<1> QED  BY <1>4

(***************************************************************************)
(* What the reader has when a writer is in a table that it has read as     *)
(* the table at p; and what is new in what it has read then.               *)
(***************************************************************************)
Stands(w, p) ==
  /\ Fine(w) /\ Read(w).ok /\ ~ HasEmpty(w.path) /\ p \in Path /\ Len(p) = Len(w.path)
  /\ Inside(Read(w), Named(Read(w), w.path)) = p

Headed(w, p) ==
  /\ Stands(w, p) /\ Ready(w) /\ Read(w).at = p /\ Entry(p, "table") \in Read(w).entries
  /\ \A e \in Read(w).entries : ~ Under(p, e.path)

Nothing(r, p, key) == \A e \in r.entries : ~ In(p, key, e.path)

Added(w, v, X) == Read(v).ok /\ Read(v).entries = Read(w).entries \cup X

(* A table, or an array of tables, at a key of the table at p.             *)
Enters(w, p, key) ==
  /\ Ready(w) /\ Read(w).ok /\ ~ HasEmpty(w.path) /\ p \in Path /\ key \in Part
  /\ Len(w.path) = Len(p) + 1 /\ Named(Read(w), w.path) = Child(p, key, 0)

EntersKey(w, p, key) == Enters(w, p, key) /\ Nothing(Read(w), p, key)

(* The next element of the array of tables there.                          *)
EntersPlace(w, p, key, i) ==
  /\ Enters(w, p, key) /\ i \in 1..MaxObjects /\ Size(Read(w), Child(p, key, 0)) + 1 = i
  /\ Child(p, key, 0) \in Paths(Read(w)) => Entry(Child(p, key, 0), "table_array") \in Read(w).entries
  /\ \A e \in Read(w).entries : e.path # Child(p, key, i) /\ ~ Under(Child(p, key, i), e.path)

LEMMA ReadIsMore ==
  ASSUME NEW w, NEW v, NEW X, Fine(w), Fine(v), Read(v).entries = Read(w).entries \cup X
  PROVE  More(Read(w), Read(v), X)
BY ReadyAt DEF More

LEMMA NotBelowItself ==
  ASSUME NEW p, p \in Path
  PROVE  ~ Under(p, p)
<1>1. Len(p) \in Nat
  BY DEF Path
<1> QED  BY <1>1 DEF Under

LEMMA KeyHeader ==
  ASSUME NEW w, NEW u, NEW p, NEW key, u = write_table_header(w, ByKey), EntersKey(w, p, key)
  PROVE  /\ Headed(u, Child(p, key, 0)) /\ u.path = w.path
         /\ Added(w, u, {Entry(Child(p, key, 0), "table")})
<1> DEFINE r == Read(w)
           s == Read(u)
           ks == w.path
           q == Child(p, key, 0)
           new == Entry(q, "table")
<1>1. /\ Ready(w) /\ r.ok /\ ~ HasEmpty(ks) /\ p \in Path /\ key \in Part
      /\ Len(ks) = Len(p) + 1 /\ Named(r, ks) = q
  BY DEF EntersKey, Enters
<1>2. Fine(w) /\ w \in PartWriters /\ ks \in Seq(Part) /\ r \in Readers
  BY <1>1, ReadyAt DEF Ready
<1>3. /\ q \in Path /\ q # <<>> /\ Len(p) \in Nat /\ Len(q) = Len(p) + 1 /\ In(p, key, q)
  BY <1>1, ChildIs
<1>4. ks # <<>> /\ \A i \in 1..Len(ks) : ks[i] # Empty
  BY <1>1, <1>3 DEF HasEmpty
<1>5. Ready(u) /\ u.path = ks /\ s = ReadTable(r, q)
  <2> DEFINE no == ByKey
  <2>1. no \in BOOLEAN /\ ~ no
    BY DEF ByKey
  <2>2. u = write_table_header(w, no)
    OBVIOUS
  <2> HIDE DEF no, ks, r, q, s
  <2>3. w.path = ks /\ Read(w) = r /\ Read(u) = s
    BY DEF ks, r, s
  <2>4. Fine(u) /\ OnNewLine(u) /\ u.path = ks /\ s = ReadLine(r, Header(ks, no))
    BY <1>1, <1>2, <1>4, <2>1, <2>2, <2>3, HeadIs DEF Ready
  <2>5. ReadLine(r, Header(ks, no)) = ReadTable(r, Named(r, ks))
    BY <1>2, <1>4, <2>1, HeaderIs
  <2> QED  BY <1>1, <2>4, <2>5 DEF Ready
<1> HIDE DEF r, s, ks, q
<1>6. s.at = q /\ s.entries = r.entries \cup {new} /\ (s.ok <=> r.ok /\ q \notin Paths(r))
  BY <1>2, <1>3, <1>5, ReadTableIs
<1>7. new.path = q /\ \A e \in r.entries : ~ In(p, key, e.path)
  BY DEF Entry, EntersKey, Nothing, r
<1>8. s.ok
  BY <1>1, <1>3, <1>6, <1>7 DEF Paths
<1>9. More(r, s, {new})
  BY <1>2, <1>5, <1>6, ReadIsMore DEF Ready, r, s
<1>10. Named(s, ks) = q
  <2>1. Deeper({new}, Len(p))
    BY <1>3, <1>7 DEF Deeper
  <2>2. Len(ks) <= Len(p) + 1
    BY <1>1, <1>3
  <2> QED  BY <1>1, <1>2, <1>9, <2>1, <2>2, NamedSame
<1>11. Inside(s, q) = q
  <2>1. Entry(q, "table_array").path = q /\ Entry(q, "table_array") # new
    BY DEF Entry
  <2>2. Entry(q, "table_array") \notin s.entries
    BY <1>3, <1>6, <1>7, <2>1
  <2> QED  BY <2>2 DEF Inside
<1>12. \A e \in s.entries : ~ Under(q, e.path)
  <2>1. ~ Under(q, q)
    BY <1>3, NotBelowItself
  <2>2. ASSUME NEW e \in r.entries, Under(q, e.path)  PROVE FALSE
    <3> DEFINE nil == 0
    <3>1. nil \in Nat /\ Under(Child(p, key, nil), e.path)
      BY <2>2 DEF q
    <3> HIDE DEF nil
    <3>2. In(p, key, e.path)
      BY <1>1, <3>1, BelowChild
    <3> QED  BY <1>7, <3>2
  <2> QED  BY <1>6, <1>7, <2>1, <2>2
<1>13. Stands(u, q)
  BY <1>1, <1>3, <1>5, <1>8, <1>10, <1>11 DEF Stands, Ready, s, ks
<1>14. Headed(u, q)
  BY <1>5, <1>6, <1>12, <1>13 DEF Headed, s
<1> QED  BY <1>5, <1>6, <1>8, <1>14 DEF Added, s, r, q, ks

LEMMA SizeMore ==
  ASSUME NEW r, NEW r2, NEW p, NEW i, i \in 1..MaxObjects, Entry(Element(p, i), "table") \notin r.entries,
         \A j \in 1..MaxObjects :
            Entry(Element(p, j), "table") \in r2.entries <=> j = i \/ Entry(Element(p, j), "table") \in r.entries
  PROVE  Size(r2, p) = Size(r, p) + 1
<1> DEFINE S == {j \in 1..MaxObjects : Entry(Element(p, j), "table") \in r.entries}
           S2 == {j \in 1..MaxObjects : Entry(Element(p, j), "table") \in r2.entries}
<1>1. S \subseteq 1..MaxObjects /\ MaxObjects \in Int /\ 1 \in Int /\ i \notin S /\ S2 = S \cup {i}
  BY DocumentAssumption
<1>2. Size(r, p) = Cardinality(S) /\ Size(r2, p) = Cardinality(S2)
  BY DEF Size
<1> HIDE DEF S, S2
<1>3. IsFiniteSet(S)
  <2>1. IsFiniteSet(1..MaxObjects)
    BY <1>1, FS_Interval
  <2> QED  BY <1>1, <2>1, FS_Subset
<1>4. Cardinality(S \cup {i}) = Cardinality(S) + 1
  BY <1>1, <1>3, FS_AddElement
<1> QED  BY <1>1, <1>2, <1>4

LEMMA ChildSame ==
  ASSUME NEW p, NEW key, NEW i, NEW j, p \in Path, key \in Part, i \in Nat, j \in Nat,
         Child(p, key, i) = Child(p, key, j)
  PROVE  i = j
<1>1. Child(p, key, i)[Len(p) + 1] = <<key, i>> /\ Child(p, key, j)[Len(p) + 1] = <<key, j>>
  BY ChildIs
<1>2. <<key, i>> = <<key, j>>
  BY <1>1
<1> QED  BY <1>2

LEMMA PlaceHeader ==
  ASSUME NEW w, NEW u, NEW p, NEW key, NEW i, u = write_table_header(w, ByPlace), EntersPlace(w, p, key, i)
  PROVE  /\ Headed(u, Child(p, key, i)) /\ u.path = w.path
         /\ Added(w, u, {Entry(Child(p, key, 0), "table_array"), Entry(Child(p, key, i), "table")})
<1> DEFINE r == Read(w)
           s == Read(u)
           ks == w.path
           q == Child(p, key, 0)
           el == Child(p, key, i)
           new == {Entry(q, "table_array"), Entry(el, "table")}
<1>1. /\ Ready(w) /\ r.ok /\ ~ HasEmpty(ks) /\ p \in Path /\ key \in Part
      /\ Len(ks) = Len(p) + 1 /\ Named(r, ks) = q
  BY DEF EntersPlace, Enters
<1>0. /\ i \in 1..MaxObjects /\ Size(r, q) + 1 = i /\ (q \in Paths(r) => Entry(q, "table_array") \in r.entries)
      /\ \A e \in r.entries : e.path # el /\ ~ Under(el, e.path)
  BY DEF EntersPlace
<1>2. Fine(w) /\ w \in PartWriters /\ ks \in Seq(Part) /\ r \in Readers
  BY <1>1, ReadyAt DEF Ready
<1>3. /\ q \in Path /\ q # <<>> /\ Len(p) \in Nat /\ Len(q) = Len(p) + 1
      /\ el \in Path /\ Len(el) = Len(p) + 1 /\ i \in Nat
  <2>1. i \in Nat /\ 0 \in Nat
    BY <1>0
  <2> QED  BY <1>1, <2>1, ChildIs
<1>4. ks # <<>> /\ \A j \in 1..Len(ks) : ks[j] # Empty
  BY <1>1, <1>3 DEF HasEmpty
<1>5. Ready(u) /\ u.path = ks /\ s = ReadElement(r, q)
  <2> DEFINE yes == ByPlace
  <2>1. yes \in BOOLEAN /\ yes
    BY DEF ByPlace
  <2>2. u = write_table_header(w, yes)
    OBVIOUS
  <2> HIDE DEF yes, ks, r, q, s
  <2>3. w.path = ks /\ Read(w) = r /\ Read(u) = s
    BY DEF ks, r, s
  <2>4. Fine(u) /\ OnNewLine(u) /\ u.path = ks /\ s = ReadLine(r, Header(ks, yes))
    BY <1>1, <1>2, <1>4, <2>1, <2>2, <2>3, HeadIs DEF Ready
  <2>5. ReadLine(r, Header(ks, yes)) = ReadElement(r, Named(r, ks))
    BY <1>2, <1>4, <2>1, HeaderIs
  <2> QED  BY <1>1, <2>4, <2>5 DEF Ready
<1>15. \A j \in Nat : Element(q, j) = Child(p, key, j)
  BY <1>1, ChildElement
<1> HIDE DEF r, s, ks, q
<1>6. s.at = el /\ s.entries = r.entries \cup new /\ s.ok
  <2>1. Element(q, Size(r, q) + 1) = el
    BY <1>0, <1>3, <1>15
  <2> HIDE DEF el
  <2> QED  BY <1>0, <1>1, <1>2, <1>3, <1>5, <2>1, ReadElementIs
<1>7. \A e \in new : e.path = q \/ e.path = el
  BY DEF Entry
<1> HIDE DEF el
<1>9. More(r, s, new)
  <2> HIDE DEF new
  <2> QED  BY <1>2, <1>5, <1>6, ReadIsMore DEF Ready, r, s
<1>10. Named(s, ks) = q
  <2> HIDE DEF new
  <2>1. Deeper(new, Len(p))
    BY <1>3, <1>7 DEF Deeper
  <2>2. Len(ks) <= Len(p) + 1
    BY <1>1, <1>3
  <2> QED  BY <1>1, <1>2, <1>9, <2>1, <2>2, NamedSame
<1>11. Inside(s, q) = el
  <2>1. Entry(q, "table_array") \in s.entries
    BY <1>6
  <2>2. Entry(Element(q, i), "table") \notin r.entries
    <3>1. Entry(el, "table").path = el
      BY DEF Entry
    <3> QED  BY <1>0, <1>3, <1>15, <3>1 DEF el
  <2>3. ASSUME NEW j \in 1..MaxObjects
        PROVE  Entry(Element(q, j), "table") \in s.entries <=> j = i \/ Entry(Element(q, j), "table") \in r.entries
    <3>1. j \in Nat /\ Element(q, j) = Child(p, key, j) /\ Element(q, i) = el
      BY <1>3, <1>15 DEF el
    <3>2. Child(p, key, j) = el => j = i
      BY <1>1, <1>3, <3>1, ChildSame DEF el
    <3>3. /\ Entry(Element(q, j), "table") # Entry(q, "table_array")
          /\ Entry(Element(q, j), "table") = Entry(el, "table") => Element(q, j) = el
      BY DEF Entry
    <3> QED  BY <1>6, <3>1, <3>2, <3>3
  <2>4. Size(s, q) = i
    <3>1. Size(s, q) = Size(r, q) + 1
      BY <1>0, <2>2, <2>3, SizeMore
    <3> QED  BY <1>0, <3>1
  <2> QED  BY <1>3, <1>15, <2>1, <2>4 DEF Inside, el
<1>12. \A e \in s.entries : ~ Under(el, e.path)
  <2>1. ~ Under(el, el)
    BY <1>3, NotBelowItself
  <2>2. ~ Under(el, q)
    BY <1>3 DEF Under
  <2> HIDE DEF new
  <2> QED  BY <1>0, <1>6, <1>7, <2>1, <2>2
<1>13. Stands(u, el)
  BY <1>1, <1>3, <1>5, <1>6, <1>10, <1>11 DEF Stands, Ready, s, ks
<1>14. Headed(u, el)
  BY <1>5, <1>6, <1>12, <1>13 DEF Headed, s
<1> QED  BY <1>5, <1>6, <1>14 DEF Added, s, r, q, ks, el

(* What is written for the objects with n below them.                      *)
KeyAdds(n, order) ==
  \A w, b, p, key :
     EntersKey(w, p, key) /\ Seen(b) /\ Reach(n, b, ByKey) =>
        Added(w, Visits(heap, order)[n][<<w, b, ByKey>>], Ent(n, b, Child(p, key, 0)))

PlaceAdds(n, order) ==
  \A w, b, p, key, i :
     EntersPlace(w, p, key, i) /\ Seen(b) /\ heap[b].is = "table" /\ Reach(n, b, ByPlace) =>
        Added(w, Visits(heap, order)[n][<<w, b, ByPlace>>],
              {Entry(Child(p, key, 0), "table_array")} \cup Ent(n, b, Child(p, key, i)))

(***************************************************************************)
(* A scalar, and an array of them.                                         *)
(***************************************************************************)
LEMMA EntValue ==
  ASSUME NEW n, NEW b, NEW q, HeapInv(heap), KindsInv(heap), Reach(n, b, ByKey), q \in Path, heap[b].is = "value"
  PROVE  \A e : e \in Ent(n, b, q) <=> e = Entry(q, "value")
<1> DEFINE m == n - 1
<1>1. m \in Nat /\ m + 1 = n /\ b \in 1..Len(heap)
  BY DEF Reach
<1>2. heap[b].is # "table" => \A key \in Part : heap[b].map_[key] = 0
  BY <1>1 DEF KindsInv
<1>3. Len(heap[b].array_) = 0
  BY <1>1 DEF KindsInv
<1>4. \A e : ~ InKey(m, b, q, e) /\ ~ AtPlace(m, b, q, e)
  BY <1>2, <1>3 DEF InKey, AtPlace
<1>5. WrittenIs(b) = "value"
  BY DEF WrittenIs
<1> HIDE DEF m
<1>6. ASSUME NEW e  PROVE e \in Ent(m + 1, b, q) <=> e = Entry(q, "value")
  BY <1>1, <1>4, <1>5, EntHas
<1> QED  BY <1>1, <1>6

LEMMA EntPair ==
  ASSUME NEW n, NEW b, NEW q, HeapInv(heap), KindsInv(heap), Reach(n, b, ByKey), q \in Path, q # <<>>,
         heap[b].is \in {"value", "array"}
  PROVE  Ent(n, b, q) =
           {Entry(q, heap[b].is)} \cup {Entry(Element(q, i), "value") : i \in 1..Len(heap[b].array_)}
<1> DEFINE m == n - 1
           a == heap[b].array_
           F == {Entry(Element(q, i), "value") : i \in 1..Len(a)}
<1>1. m \in Nat /\ m + 1 = n /\ b \in 1..Len(heap) /\ m + b >= Len(heap) /\ Len(heap) \in Nat
  <2>1. Len(heap) \in Nat
    BY ShapedFacts DEF HeapInv
  <2> QED  BY <2>1 DEF Reach
<1>2. Deep(m, b)
  BY <1>1 DEF Deep
<1>3. \A e : ~ InKey(m, b, q, e)
  <2>1. \A key \in Part : heap[b].map_[key] = 0
    BY <1>1 DEF KindsInv
  <2> QED  BY <2>1 DEF InKey
<1>4. WrittenIs(b) = heap[b].is
  BY DEF WrittenIs
<1>5. ASSUME NEW i \in 1..Len(a), NEW e  PROVE e \in Ent(m, a[i], Element(q, i)) <=> e = Entry(Element(q, i), "value")
  <2>1. heap[b].is = "array"
    BY <1>1 DEF KindsInv
  <2>2. a[i] \in 1..Len(heap) /\ a[i] > b /\ heap[a[i]].is = "value"
    <3>1. a[i] \in (b + i)..Len(heap)
      BY <1>1 DEF HeapInv, ArraysGoUp
    <3>2. heap[a[i]].is = "value"
      BY <1>1, <2>1 DEF KindsInv
    <3>3. i \in 1..Len(a) /\ Len(a) \in Nat
      BY <1>1, ArrayEnds
    <3> HIDE DEF a
    <3> QED  BY <1>1, <3>1, <3>2, <3>3
  <2> DEFINE c == a[i]
             x == Element(q, i)
  <2>3. x \in Path
    <3>1. i \in Nat
      OBVIOUS
    <3> QED  BY <3>1, ElementIs
  <2> HIDE DEF a, m, x, c
  <2>4. Reach(m, c, ByKey)
    BY <1>2, <2>2, DeeperReach DEF c
  <2>5. e \in Ent(m, c, x) <=> e = Entry(x, "value")
    BY <2>2, <2>3, <2>4, EntValue DEF c
  <2> QED  BY <2>5 DEF c, x
<1>6. ASSUME NEW e  PROVE AtPlace(m, b, q, e) <=> e \in F
  <2>1. AtPlace(m, b, q, e) <=> \E i \in 1..Len(a) : e \in Ent(m, a[i], Element(q, i))
    BY DEF AtPlace
  <2>2. e \in F <=> \E i \in 1..Len(a) : e = Entry(Element(q, i), "value")
    OBVIOUS
  <2> HIDE DEF F, a, m
  <2> QED  BY <1>5, <2>1, <2>2
<1> HIDE DEF F, m
<1>7. ASSUME NEW e  PROVE e \in Ent(m + 1, b, q) <=> e = Entry(q, heap[b].is) \/ e \in F
  <2>1. e \in Ent(m + 1, b, q) <=> e = Entry(q, WrittenIs(b)) \/ InKey(m, b, q, e) \/ AtPlace(m, b, q, e)
    BY <1>1, EntHas
  <2> QED  BY <1>3, <1>4, <1>6, <2>1
<1>8. Ent(m + 1, b, q) = {Entry(q, heap[b].is)} \cup F
  BY <1>7
<1> QED  BY <1>1, <1>8 DEF F

(***************************************************************************)
(* An item of the table at p.                                              *)
(***************************************************************************)
LEMMA HasEmptyAppend ==
  ASSUME NEW ks, NEW key, ks \in Seq(Part), key \in Part
  PROVE  HasEmpty(Append(ks, key)) <=> HasEmpty(ks) \/ key = Empty
<1> DEFINE q == Append(ks, key)
<1>1. /\ Len(q) = Len(ks) + 1 /\ Len(ks) \in Nat /\ q[Len(ks) + 1] = key
      /\ \A i \in 1..Len(ks) : q[i] = ks[i]
  BY AppendHas
<1> HIDE DEF q
<1>2. \A i \in 1..Len(q) : i \in 1..Len(ks) \/ i = Len(ks) + 1
  BY <1>1
<1>3. /\ \A i \in 1..Len(ks) : i \in 1..Len(q)
      /\ Len(ks) + 1 \in 1..Len(q)
  BY <1>1
<1>4. HasEmpty(q) <=> HasEmpty(ks) \/ key = Empty
  BY <1>1, <1>2, <1>3 DEF HasEmpty
<1> QED  BY <1>4 DEF q

LEMMA DoomedNone == Doomed({})
BY DEF Doomed

ItemAdded(w, v, t, p, key, n) ==
  /\ Fine(v) /\ v.path = w.path /\ Added(w, v, Ent(n, heap[t].map_[key], Child(p, key, 0)))
  /\ ~ is_table_or_tables(heap, heap[t].map_[key]) => Read(v).at = Read(w).at

LEMMA PairAdds ==
  ASSUME NEW order, NEW n, NEW t, NEW key, NEW w, NEW first, NEW v, NEW p,
         v = Item(Visits(heap, order)[n], heap, w, t, key, first),
         order \in SetToSeqs(Part), HeapInv(heap), KindsInv(heap),
         Begins(w, t, key, first), Reach(n, heap[t].map_[key], ByKey), key # Empty,
         Stands(w, p), Nothing(Read(w), p, key), Read(w).at = p,
         ~ is_table_or_tables(heap, heap[t].map_[key])
  PROVE  ItemAdded(w, v, t, p, key, n)
<1> DEFINE c == heap[t].map_[key]
           r == Read(w)
           q == Child(p, key, 0)
           size == Len(heap[c].array_)
           is == heap[c].is
<1>1. c \in 1..Len(heap) /\ is \in {"value", "array"} /\ key \in Part
  BY FoundIsSeen DEF Begins
<1>2. p \in Path /\ r.ok /\ r \in Readers
  BY ReadyAt DEF Stands
<1>3. q \in Path /\ q # <<>> /\ In(p, key, q)
  BY <1>1, <1>2, ChildIs
<1>4. Fine(v) /\ v.path = w.path /\ Read(v) = PairRead(r, key, c)
  <2>1. Paired(w, v, key, heap[t].map_[key])
    BY <1>1, PairItem
  <2> QED  BY <2>1 DEF Paired
<1>5. Ent(n, c, q) = {Entry(q, is)} \cup {Entry(Element(q, i), "value") : i \in 1..size}
  <2> HIDE DEF c, q
  <2>1. Reach(n, c, ByKey)
    BY DEF c
  <2> QED  BY <1>1, <1>3, <2>1, EntPair
<1>6. PairRead(r, key, c) = ReadPair(r, q, is, size)
  <2> HIDE DEF c, r
  <2>1. r.at = p
    BY DEF r
  <2> QED  BY <2>1 DEF PairRead, Child
<1>7. q \notin Paths(r)
  BY <1>3 DEF Nothing, Paths
<1>8. size \in Nat
  BY <1>1, ArrayEnds
<1> HIDE DEF c, r, q, size, is
<1>9. Read(v).ok /\ Read(v).entries = r.entries \cup Ent(n, c, q) /\ Read(v).at = r.at
  <2> DEFINE s == ReadPair(r, q, is, size)
  <2>1. /\ s.at = r.at /\ (s.ok <=> r.ok /\ q \notin Paths(r))
        /\ s.entries = r.entries \cup {Entry(q, is)} \cup {Entry(Element(q, i), "value") : i \in 1..size}
    BY <1>1, <1>2, <1>3, <1>8, ReadPairIs
  <2> HIDE DEF s
  <2>2. Read(v) = s
    BY <1>4, <1>6 DEF s
  <2> QED  BY <1>2, <1>5, <1>7, <2>1, <2>2
<1> QED  BY <1>4, <1>9 DEF ItemAdded, Added, c, r, q

LEMMA TableAdds ==
  ASSUME NEW order, NEW n, NEW t, NEW key, NEW w, NEW first, NEW v, NEW p,
         v = Item(Visits(heap, order)[n], heap, w, t, key, first),
         order \in SetToSeqs(Part), HeapInv(heap), KindsInv(heap), KeyAdds(n, order), Quiet(n, order, {}),
         Begins(w, t, key, first), Reach(n, heap[t].map_[key], ByKey), key # Empty,
         Stands(w, p), Nothing(Read(w), p, key),
         is_table_or_tables(heap, heap[t].map_[key])
  PROVE  ItemAdded(w, v, t, p, key, n)
<1> DEFINE c == heap[t].map_[key]
           r == Read(w)
           ks == w.path
           q == Child(p, key, 0)
           u == Begun(w, key, first)
           no == ByKey
           x == Visits(heap, order)[n][<<u, c, no>>]
<1>1. c \in 1..Len(heap) /\ Seen(c) /\ key \in Part /\ Fine(w)
  BY FoundIsSeen DEF Begins
<1>2. /\ p \in Path /\ r.ok /\ r \in Readers /\ w \in PartWriters /\ ks \in Seq(Part)
      /\ ~ HasEmpty(ks) /\ Len(p) = Len(ks) /\ Inside(r, Named(r, ks)) = p
  BY ReadyAt DEF Stands
<1>3. v = Leave(x) /\ Ready(u) /\ u.path = Append(ks, key) /\ Read(u) = r
  <2> DEFINE deeper == Visits(heap, order)[n]
  <2>1. v = Item(deeper, heap, w, t, key, first)
    OBVIOUS
  <2> HIDE DEF deeper
  <2>2. Tabled(w, v, key, Begun(w, key, first), deeper[<<Begun(w, key, first), heap[t].map_[key], ByKey>>])
    BY <2>1, TableItem
  <2> QED  BY <2>2 DEF deeper, Tabled
<1>4. Reach(n, c, no)
  OBVIOUS
<1>5. Len(Append(ks, key)) = Len(p) + 1 /\ ~ HasEmpty(Append(ks, key))
  <2> HIDE DEF ks
  <2>1. Len(Append(ks, key)) = Len(ks) + 1
    BY <1>1, <1>2, AppendHas
  <2> QED  BY <1>1, <1>2, <2>1, HasEmptyAppend
<1>6. Named(r, Append(ks, key)) = q
  <2> HIDE DEF ks, r
  <2>1. Named(r, Append(ks, key)) = Append(Inside(r, Named(r, ks)), <<key, 0>>)
    BY <1>1, <1>2, NamedGrow
  <2> QED  BY <1>2, <2>1 DEF Child
<1>7. EntersKey(u, p, key)
  <2>1. Nothing(r, p, key)
    OBVIOUS
  <2> HIDE DEF u, r, ks
  <2> QED  BY <1>1, <1>2, <1>3, <1>5, <1>6, <2>1 DEF EntersKey, Enters, q
<1> HIDE DEF c, u, no
<1>8. Added(u, x, Ent(n, c, q))
  <2>1. Added(u, Visits(heap, order)[n][<<u, c, ByKey>>], Ent(n, c, Child(p, key, 0)))
    BY <1>1, <1>4, <1>7 DEF KeyAdds, no
  <2> QED  BY <2>1 DEF no
<1>9. Ready(x) /\ x.path = u.path
  <2>1. Ends(u, x, {}, c)
    BY <1>1, <1>3, <1>4 DEF Quiet
  <2> QED  BY <2>1 DEF Ends
<1> HIDE DEF x, ks
<1>10. Fine(Leave(x)) /\ Leave(x).path = ks /\ Read(Leave(x)) = Read(x)
  <2>1. x \in PartWriters /\ Fine(x) /\ x.path = Append(ks, key)
    BY <1>3, <1>9 DEF Ready, Fine
  <2> QED  BY <1>1, <1>2, <2>1, LeaveIs
<1>11. Fine(v) /\ v.path = ks /\ Read(v) = Read(x)
  BY <1>3, <1>10
<1>12. Added(w, v, Ent(n, c, q))
  BY <1>3, <1>8, <1>11 DEF Added
<1> QED  BY <1>11, <1>12 DEF ItemAdded, c, ks

NoEmptyKey == \A t \in 1..Len(heap) : heap[t].map_[Empty] = 0

LEMMA StandsOn ==
  ASSUME NEW u, NEW x, NEW p, NEW X, Stands(u, p), Fine(u), Fine(x), x.path = u.path, Added(u, x, X), Deeper(X, Len(p))
  PROVE  Stands(x, p)
<1> DEFINE r == Read(u)
           s == Read(x)
           ks == u.path
           k == Named(r, ks)
<1>1. /\ ~ HasEmpty(ks) /\ p \in Path /\ Len(p) = Len(ks) /\ Inside(r, k) = p
      /\ ks \in Seq(Part) /\ r \in Readers
  BY ReadyAt DEF Stands
<1>2. s.ok /\ More(r, s, X)
  BY ReadIsMore DEF Added
<1> HIDE DEF r, s, ks, k
<1>3. Len(p) \in Nat
  BY <1>1 DEF Path
<1>4. k \in Path /\ Len(k) = Len(p)
  BY <1>1, NamedIs DEF k
<1>5. Named(s, ks) = k
  <2>1. Len(ks) <= Len(p) + 1
    BY <1>1, <1>3
  <2> QED  BY <1>1, <1>2, <2>1, NamedSame DEF k
<1>6. Inside(s, k) = Inside(r, k)
  <2>1. Len(k) <= Len(p)
    BY <1>3, <1>4
  <2> QED  BY <1>2, <1>4, <2>1, InsideSame
<1> QED  BY <1>1, <1>2, <1>5, <1>6 DEF Stands, s, ks

LEMMA BodyAdds ==
  ASSUME NEW order, NEW m, NEW w, NEW b, NEW in_array, NEW v, NEW u, NEW p,
         v = visit_table(Visits(heap, order)[m], heap, order, w, b, in_array),
         u = write_table_header(w, in_array),
         order \in SetToSeqs(Part), HeapInv(heap), KindsInv(heap), NoEmptyKey,
         KeyAdds(m, order), Quiet(m, order, {}),
         Ready(w), Deep(m, b), in_array \in BOOLEAN, heap[b].is = "table", Headed(u, p)
  PROVE  Added(u, v, Ent(m + 1, b, p))
<1> DEFINE deeper == Visits(heap, order)[m]
           ks == w.path
<1>2. b \in 1..Len(heap) /\ m \in Nat
  BY DEF Deep
<1>0. /\ Stands(u, p) /\ Ready(u) /\ Fine(u) /\ Read(u).at = p /\ Entry(p, "table") \in Read(u).entries
      /\ p \in Path /\ Len(p) \in Nat
      /\ \A e \in Read(u).entries : ~ Under(p, e.path)
  BY DEF Headed, Ready, Stands, Path
<1>4. PICK keys, f :
            /\ Listing(b, keys) /\ f \in [0..Len(keys) -> At(ks)]
            /\ f[0] = u
            /\ v = endline(f[Len(keys)])
            /\ \A i \in 1..Len(keys) : f[i] = Item(deeper, heap, f[i - 1], b, keys[i], i = 1)
  <2>1. PICK keys, f : Walk(order, m, w, b, in_array, v, keys, f)
    BY TableWalk
  <2> QED  BY <2>1 DEF Walk
<1> DEFINE c(i) == heap[b].map_[keys[i]]
           Of(i) == Ent(m, c(i), Child(p, keys[i], 0))
           Sum(i) == UNION {Of(j) : j \in 1..i}
           Pairs(i) == \A j \in 1..i : ~ is_table_or_tables(heap, c(j))
           Good(i) == /\ Fine(f[i]) /\ f[i].path = u.path /\ (i = 0 => OnNewLine(f[i]))
                      /\ Added(u, f[i], Sum(i)) /\ (Pairs(i) => Read(f[i]).at = p)
           T == {i \in Nat : i <= Len(keys) => Good(i)}
<1>5. /\ Len(keys) \in Nat
      /\ \A i \in 1..Len(keys) : keys[i] \in Part /\ c(i) # 0 /\ c(i) \in 1..Len(heap) /\ c(i) > b /\ keys[i] # Empty
      /\ \A k \in Part : heap[b].map_[k] # 0 => \E i \in 1..Len(keys) : keys[i] = k
      /\ \A i, j \in 1..Len(keys) : keys[i] = keys[j] => i = j
      /\ \A i, j \in 1..Len(keys) : i < j /\ is_table_or_tables(heap, c(i)) => is_table_or_tables(heap, c(j))
  <2>1. keys \in Seq(Part)
    BY <1>4 DEF Listing
  <2>2. \A i \in 1..Len(keys) : keys[i] \in Part
    BY <2>1
  <2>3. \A i \in 1..Len(keys) : heap[b].map_[keys[i]] # 0
    BY <1>4, <2>2 DEF Listing, Occurs
  <2>4. \A i \in 1..Len(keys) : c(i) \in 1..Len(heap) /\ c(i) > b
    BY <1>2, <2>2, <2>3, FoundIsSeen
  <2>5. \A i \in 1..Len(keys) : keys[i] # Empty
    BY <1>2, <2>3 DEF NoEmptyKey
  <2>6. \A k \in Part : heap[b].map_[k] # 0 => \E i \in 1..Len(keys) : keys[i] = k
    BY <1>4 DEF Listing, Occurs
  <2>7. /\ \A i, j \in 1..Len(keys) : keys[i] = keys[j] => i = j
        /\ \A i, j \in 1..Len(keys) : i < j /\ is_table_or_tables(heap, c(i)) => is_table_or_tables(heap, c(j))
    BY <1>4 DEF Listing, Distinct
  <2>8. Len(keys) \in Nat /\ \A i \in 1..Len(keys) : c(i) # 0
    BY <2>1, <2>3
  <2> HIDE DEF c
  <2> QED  BY <2>2, <2>4, <2>5, <2>6, <2>7, <2>8
<1>6. ASSUME NEW i \in 1..Len(keys), NEW e \in Of(i)  PROVE In(p, keys[i], e.path)
  <2> DEFINE key == keys[i]
             d == c(i)
             nil == 0
  <2>1. d \in 1..Len(heap) /\ key \in Part /\ e \in Ent(m, d, Child(p, key, nil)) /\ nil \in Nat /\ Within(m)
    BY <1>2, <1>5, EntWithin
  <2> HIDE DEF d, key, nil
  <2>2. In(p, key, e.path)
    BY <1>0, <2>1 DEF Within
  <2> QED  BY <2>2 DEF key
<1>7. ASSUME NEW i \in Nat, i <= Len(keys), NEW e \in Sum(i)
      PROVE  \E j \in 1..i : j \in 1..Len(keys) /\ In(p, keys[j], e.path)
  <2>1. PICK j \in 1..i : e \in Of(j)
    OBVIOUS
  <2>2. j \in 1..Len(keys)
    BY <1>5, <1>7
  <2> HIDE DEF Of
  <2> QED  BY <1>6, <2>1, <2>2
<1>8. 0 \in T
  <2>1. Sum(0) = {}
    OBVIOUS
  <2> DEFINE x == f[0]
             X == Sum(0)
  <2>2. x = u /\ X = {}
    BY <1>4, <2>1
  <2> HIDE DEF x, X
  <2>3. Added(u, x, X)
    BY <1>0, <2>2 DEF Added, Stands
  <2>4. Good(0)
    <3> HIDE DEF Sum
    <3> QED  BY <1>0, <2>2, <2>3 DEF x, X, Ready
  <2> QED  BY <2>4
<1>9. ASSUME NEW i \in Nat, i \in T  PROVE i + 1 \in T
  <2> SUFFICES ASSUME i + 1 <= Len(keys)  PROVE Good(i + 1)
    OBVIOUS
  <2> DEFINE x == f[i]
             y == f[i + 1]
             key == keys[i + 1]
             d == c(i + 1)
             X == Sum(i)
             first == i + 1 = 1
  <2>1. i <= Len(keys) /\ i + 1 \in 1..Len(keys) /\ (i + 1) - 1 = i
    BY <1>5
  <2>2. Good(i)
    <3> HIDE DEF Good
    <3> QED  BY <1>9, <2>1
  <2>3. key \in Part /\ d # 0 /\ d \in 1..Len(heap) /\ d > b /\ key # Empty /\ heap[b].map_[key] = d
    BY <1>5, <2>1
  <2>4. y = Item(deeper, heap, x, b, key, first)
    <3>1. f[i + 1] = Item(deeper, heap, f[(i + 1) - 1], b, keys[i + 1], i + 1 = 1)
      BY <1>4, <2>1
    <3> QED  BY <2>1, <3>1
  <2>5. /\ Fine(x) /\ x.path = u.path /\ (i = 0 => OnNewLine(x)) /\ Added(u, x, X)
        /\ (Pairs(i) => Read(x).at = p)
    <3> HIDE DEF Sum, Pairs
    <3> QED  BY <2>2
  <2>6. \A e \in X : \E j \in 1..i : j \in 1..Len(keys) /\ In(p, keys[j], e.path)
    <3> HIDE DEF Sum
    <3> QED  BY <1>7, <2>1
  <2>7. Deeper(X, Len(p))
    <3> HIDE DEF X
    <3> QED  BY <1>0, <2>6 DEF Deeper, In, Under
  <2>8. Stands(x, p)
    <3> HIDE DEF X, x
    <3> QED  BY <1>0, <2>5, <2>7, StandsOn
  <2>9. Nothing(Read(x), p, key)
    <3> HIDE DEF X, x, key
    <3>1. ASSUME NEW e \in Read(u).entries, In(p, key, e.path)  PROVE FALSE
      BY <1>0, <3>1 DEF In
    <3>2. ASSUME NEW e \in X, In(p, key, e.path)  PROVE FALSE
      <4>1. PICK j \in 1..i : j \in 1..Len(keys) /\ In(p, keys[j], e.path)
        BY <2>6
      <4>2. keys[j] = key
        BY <3>2, <4>1 DEF In
      <4>3. j = i + 1
        BY <1>5, <2>1, <4>1, <4>2 DEF key
      <4> QED  BY <4>1, <4>3
    <3>3. Read(x).entries = Read(u).entries \cup X
      BY <2>5 DEF Added
    <3> QED  BY <3>1, <3>2, <3>3 DEF Nothing
  <2>10. ~ is_table_or_tables(heap, d) => Pairs(i)
    <3> SUFFICES ASSUME ~ is_table_or_tables(heap, d), NEW j \in 1..i  PROVE ~ is_table_or_tables(heap, c(j))
      OBVIOUS
    <3>1. j \in 1..Len(keys) /\ j < i + 1
      BY <1>5, <2>1
    <3> HIDE DEF c
    <3> QED  BY <1>5, <2>1, <3>1 DEF d
  <2>11. Begins(x, b, key, first)
    <3>1. first \in BOOLEAN /\ (first => i = 0)
      OBVIOUS
    <3> HIDE DEF first
    <3> QED  BY <1>2, <2>3, <2>5, <3>1 DEF Begins
  <2>12. Reach(m, heap[b].map_[key], ByKey)
    BY <2>3, DeeperReach
  <2> HIDE DEF first, x, y, X, d, Sum, Pairs, key
  <2>13. ItemAdded(x, y, b, p, key, m)
    <3>1. y = Item(Visits(heap, order)[m], heap, x, b, key, first)
      BY <2>4
    <3>2. CASE is_table_or_tables(heap, heap[b].map_[key])
      BY <2>3, <2>8, <2>9, <2>11, <2>12, <3>1, <3>2, TableAdds
    <3>3. CASE ~ is_table_or_tables(heap, heap[b].map_[key])
      <4>1. Read(x).at = p
        BY <2>3, <2>5, <2>10, <3>3
      <4> QED  BY <2>3, <2>8, <2>9, <2>11, <2>12, <3>1, <3>3, <4>1, PairAdds
    <3> QED  BY <3>2, <3>3
  <2>14. /\ Fine(y) /\ y.path = x.path /\ Added(x, y, Ent(m, d, Child(p, key, 0)))
         /\ ~ is_table_or_tables(heap, d) => Read(y).at = Read(x).at
    BY <2>3, <2>13 DEF ItemAdded
  <2>15. Sum(i + 1) = X \cup Ent(m, d, Child(p, key, 0))
    <3>1. Of(i + 1) = Ent(m, d, Child(p, key, 0))
      BY DEF d, key
    <3>2. 1..(i + 1) = (1..i) \cup {i + 1}
      OBVIOUS
    <3> HIDE DEF Of
    <3>3. Sum(i + 1) = Sum(i) \cup Of(i + 1)
      BY <3>2 DEF Sum
    <3> QED  BY <3>1, <3>3 DEF X
  <2>16. Added(u, y, Sum(i + 1))
    <3> DEFINE Y == Ent(m, d, Child(p, key, 0))
               Z == Sum(i + 1)
    <3>1. Z = X \cup Y /\ Added(x, y, Y)
      BY <2>14, <2>15
    <3> HIDE DEF Y, Z
    <3>2. Added(u, y, Z)
      BY <2>5, <3>1 DEF Added
    <3> QED  BY <3>2 DEF Z
  <2>17. Pairs(i + 1) => Read(y).at = p
    <3>1. Pairs(i + 1) => Pairs(i) /\ ~ is_table_or_tables(heap, d)
      <4>1. \A j \in 1..i : j \in 1..(i + 1)
        OBVIOUS
      <4>2. i + 1 \in 1..(i + 1)
        OBVIOUS
      <4> QED  BY <4>1, <4>2 DEF Pairs, d
    <3> QED  BY <2>5, <2>14, <3>1
  <2>18. Fine(y) /\ y.path = u.path /\ i + 1 # 0
    BY <2>5, <2>14
  <2> QED  BY <2>16, <2>17, <2>18 DEF y
<1>10. Good(Len(keys))
  <2> HIDE DEF T, Good
  <2>1. Len(keys) \in T
    BY <1>5, <1>8, <1>9, Induction
  <2> QED  BY <1>5, <2>1 DEF T
<1> DEFINE x == f[Len(keys)]
           X == Sum(Len(keys))
<1>11. Fine(x) /\ Added(u, x, X)
  <2> HIDE DEF Sum, Pairs
  <2> QED  BY <1>10
<1>12. ASSUME NEW e  PROVE e \in X <=> InKey(m, b, p, e)
  <2>1. e \in X <=> \E i \in 1..Len(keys) : e \in Of(i)
    OBVIOUS
  <2> HIDE DEF X
  <2> QED  BY <1>5, <2>1 DEF InKey
<1>13. ASSUME NEW e  PROVE ~ AtPlace(m, b, p, e)
  <2>1. Len(heap[b].array_) = 0
    BY <1>2 DEF KindsInv
  <2> QED  BY <2>1 DEF AtPlace
<1>14. WrittenIs(b) = "table"
  BY DEF WrittenIs
<1> HIDE DEF X
<1>15. Read(u).entries \cup X = Read(u).entries \cup Ent(m + 1, b, p)
  <2>1. ASSUME NEW e  PROVE e \in Ent(m + 1, b, p) <=> e = Entry(p, "table") \/ e \in X
    <3>1. e \in Ent(m + 1, b, p) <=> e = Entry(p, WrittenIs(b)) \/ InKey(m, b, p, e) \/ AtPlace(m, b, p, e)
      BY <1>0, <1>2, EntHas
    <3> QED  BY <1>12, <1>13, <1>14, <3>1
  <2> QED  BY <1>0, <2>1
<1>16. Read(v) = Read(x)
  <2>1. v = endline(x)
    BY <1>4
  <2> HIDE DEF x
  <2> QED  BY <1>11, <2>1, EndlineIs
<1> HIDE DEF x
<1> QED  BY <1>11, <1>15, <1>16 DEF Added

(***************************************************************************)
(* The elements of an array of tables.                                     *)
(***************************************************************************)
LEMMA EntOwn ==
  ASSUME NEW n, NEW b, NEW p, HeapInv(heap), KindsInv(heap), n \in Nat \ {0}, b \in 1..Len(heap), p \in Path,
         heap[b].is = "table"
  PROVE  Entry(p, "table") \in Ent(n, b, p)
<1> DEFINE m == n - 1
<1>1. m \in Nat /\ m + 1 = n
  OBVIOUS
<1> HIDE DEF m
<1>2. Entry(p, WrittenIs(b)) \in Ent(m + 1, b, p)
  BY <1>1, EntHas
<1> QED  BY <1>1, <1>2 DEF WrittenIs

LEMMA EntBelow ==
  ASSUME NEW n, NEW b, NEW p, NEW e, HeapInv(heap), KindsInv(heap), n \in Nat, b \in 1..Len(heap), p \in Path,
         heap[b].is = "table", e \in Ent(n, b, p)
  PROVE  e = Entry(p, "table") \/ Under(p, e.path)
<1> DEFINE m == n - 1
<1>1. m \in Nat /\ m + 1 = n
  <2>1. n # 0
    BY EntNone
  <2> QED  BY <2>1
<1> HIDE DEF m
<1>2. e = Entry(p, WrittenIs(b)) \/ InKey(m, b, p, e) \/ AtPlace(m, b, p, e)
  BY <1>1, EntHas
<1>3. ~ AtPlace(m, b, p, e)
  <2>1. Len(heap[b].array_) = 0
    BY DEF KindsInv
  <2> QED  BY <2>1 DEF AtPlace
<1>4. ASSUME InKey(m, b, p, e)  PROVE Under(p, e.path)
  <2>1. PICK k \in Part : heap[b].map_[k] # 0 /\ e \in Ent(m, heap[b].map_[k], Child(p, k, 0))
    BY <1>4 DEF InKey
  <2> DEFINE c == heap[b].map_[k]
             nil == 0
  <2>2. c \in 1..Len(heap) /\ e \in Ent(m, c, Child(p, k, nil)) /\ nil \in Nat /\ Within(m)
    BY <1>1, <2>1, HeldIs, EntWithin
  <2> HIDE DEF c, nil
  <2>3. In(p, k, e.path)
    BY <2>2 DEF Within
  <2> QED  BY <2>3 DEF In
<1> QED  BY <1>2, <1>3, <1>4 DEF WrittenIs

LEMMA ElementsApart ==
  ASSUME NEW n, NEW b, NEW p, NEW key, NEW i, NEW j, NEW e, HeapInv(heap), KindsInv(heap), n \in Nat,
         b \in 1..Len(heap), p \in Path, heap[b].is = "table", key \in Part, i \in Nat, j \in Nat, i # j,
         e \in Ent(n, b, Child(p, key, j))
  PROVE  e.path # Child(p, key, i) /\ ~ Under(Child(p, key, i), e.path)
<1> DEFINE a == Child(p, key, i)
           c == Child(p, key, j)
           x == e.path
<1>1. /\ a \in Path /\ c \in Path /\ Len(a) = Len(p) + 1 /\ Len(c) = Len(p) + 1 /\ Len(p) \in Nat
      /\ a # c
  BY ChildIs, ChildSame
<1>2. e = Entry(c, "table") \/ Under(c, x)
  BY <1>1, EntBelow
<1>3. Under(a, x) => Len(x) > Len(p) + 1 /\ x[Len(p) + 1] = <<key, i>>
  BY BelowChild
<1>4. Under(c, x) => Len(x) > Len(p) + 1 /\ x[Len(p) + 1] = <<key, j>>
  BY BelowChild
<1> HIDE DEF a, c, x
<1>5. CASE e = Entry(c, "table")
  <2>1. x = c
    BY <1>5 DEF Entry, x
  <2>2. ~ Under(a, c)
    BY <1>1 DEF Under
  <2> QED  BY <1>1, <2>1, <2>2 DEF a, x
<1>6. CASE Under(c, x)
  <2>1. x # a
    BY <1>1, <1>4, <1>6
  <2>2. ~ Under(a, x)
    BY <1>3, <1>4, <1>6
  <2> QED  BY <2>1, <2>2 DEF a, x
<1> QED  BY <1>2, <1>5, <1>6

LEMMA SizeCounts ==
  ASSUME NEW r, NEW p, NEW i, i \in 0..MaxObjects,
         \A j \in 1..MaxObjects : Entry(Element(p, j), "table") \in r.entries <=> j <= i
  PROVE  Size(r, p) = i
<1>1. {j \in 1..MaxObjects : Entry(Element(p, j), "table") \in r.entries} = 1..i
  BY DocumentAssumption
<1>2. Cardinality(1..i) = i
  <2>1. 1 \in Int /\ i \in Int /\ i \in Nat
    BY DocumentAssumption
  <2>2. Cardinality(1..i) = IF 1 > i THEN 0 ELSE i - 1 + 1
    BY <2>1, FS_Interval
  <2> QED  BY <2>1, <2>2
<1> QED  BY <1>1, <1>2 DEF Size

(* An array of tables is its elements, one after the other.                *)
ArrayWalk(order, m, w, b, v, f) ==
  /\ f \in [0..Len(heap[b].array_) -> At(w.path)]
  /\ f[0] = w /\ v = endline(f[Len(heap[b].array_)])
  /\ \A i \in 1..Len(heap[b].array_) : f[i] = TableStep(Visits(heap, order)[m], heap[b].array_, f[i - 1], i)

LEMMA TablesWalk ==
  ASSUME NEW order, NEW m, NEW w, NEW b, NEW v,
         v = visit_table_array(Visits(heap, order)[m], heap, w, b),
         order \in SetToSeqs(Part), HeapInv(heap), Ready(w), Deep(m, b)
  PROVE  \E f : ArrayWalk(order, m, w, b, v, f)
<1> DEFINE deeper == Visits(heap, order)[m]
           ks == w.path
           a == heap[b].array_
           k == Len(a)
<1>1. Fine(w) /\ w \in At(ks) /\ ks \in Seq(Part)
  BY ReadyAt DEF Ready
<1>2. b \in 1..Len(heap) /\ m \in Nat
  BY DEF Deep
<1>3. Typed(deeper)
  BY <1>2, VisitsTyped
<1>4. \E f \in [0..k -> At(ks)] :
            /\ f[0] = w /\ v = endline(f[k])
            /\ \A i \in 1..k : f[i] = TableStep(deeper, a, f[i - 1], i)
  <2> HIDE DEF deeper, ks
  <2>1. \E f \in [0..k -> At(ks)] :
            /\ f[0] = w /\ visit_table_array(deeper, heap, w, b) = endline(f[k])
            /\ \A i \in 1..k : f[i] = TableStep(deeper, a, f[i - 1], i)
    BY <1>1, <1>2, <1>3, TablesVisits
  <2>2. v = visit_table_array(deeper, heap, w, b)
    BY DEF deeper
  <2> HIDE DEF a, k
  <2> QED  BY <2>1, <2>2
<1> QED  BY <1>4 DEF ArrayWalk

Continues(w, u) == Ready(u) /\ u.path = w.path /\ Read(u) = Read(w)

LEMMA StepContinues ==
  ASSUME NEW deeper, NEW a, NEW w, NEW i, NEW x, x = TableStep(deeper, a, w, i), Ready(w)
  PROVE  \E u : x = deeper[<<u, a[i], ByPlace>>] /\ Continues(w, u)
<1>1. Continues(w, w) /\ Continues(w, endline(w))
  BY EndlineIs DEF Continues, Ready
<1>2. CASE i = 1
  BY <1>1, <1>2 DEF TableStep, ByPlace
<1>3. CASE i # 1
  BY <1>1, <1>3 DEF TableStep, ByPlace
<1> QED  BY <1>2, <1>3

LEMMA ArrayAdds ==
  ASSUME NEW order, NEW m, NEW w, NEW b, NEW v, NEW p, NEW key,
         v = visit_table_array(Visits(heap, order)[m], heap, w, b),
         order \in SetToSeqs(Part), HeapInv(heap), KindsInv(heap),
         PlaceAdds(m, order), Quiet(m, order, {}),
         EntersKey(w, p, key), Deep(m, b), Seen(b), heap[b].is \in {"table_array", "static"}
  PROVE  Added(w, v, Ent(m + 1, b, Child(p, key, 0)))
<1> DEFINE a == heap[b].array_
           k == Len(a)
           r == Read(w)
           q == Child(p, key, 0)
           own == Entry(q, "table_array")
           Of(i) == Ent(m, a[i], Child(p, key, i))
           Owns(i) == {e \in {own} : i # 0}
           Sum(i) == Owns(i) \cup UNION {Of(j) : j \in 1..i}
<1>1. /\ Ready(w) /\ Fine(w) /\ r.ok /\ ~ HasEmpty(w.path) /\ p \in Path /\ key \in Part
      /\ Len(w.path) = Len(p) + 1 /\ Named(r, w.path) = q
      /\ \A e \in r.entries : ~ In(p, key, e.path)
      /\ w.path \in Seq(Part) /\ r \in Readers /\ Len(p) \in Nat
  <2>1. Ready(w) /\ Fine(w) /\ p \in Path
    BY DEF EntersKey, Enters, Ready
  <2>2. w.path \in Seq(Part) /\ r \in Readers /\ Len(p) \in Nat
    BY <2>1, ReadyAt DEF Path
  <2> QED  BY <2>1, <2>2 DEF EntersKey, Enters, Nothing
<1>2. /\ b \in 1..Len(heap) /\ m \in Nat /\ k \in Nat /\ k # 0 /\ k <= MaxObjects /\ MaxObjects \in Nat
  <2>1. b \in 1..Len(heap) /\ m \in Nat
    BY DEF Deep
  <2>2. a # <<>> /\ a \in Seq(Nat)
    BY <2>1, ShapedFacts DEF Seen, HeapInv
  <2>3. b + k <= Len(heap) /\ k \in Nat /\ Len(heap) \in Nat /\ Len(heap) \in 1..MaxObjects /\ MaxObjects \in Nat
    BY <2>1, ArrayEnds, DocumentAssumption DEF HeapInv, Shaped
  <2>4. Len(a) # 0
    <3> HIDE DEF a
    <3> QED  BY <2>2, EmptySeq
  <2> HIDE DEF a
  <2> QED  BY <2>1, <2>3, <2>4
<1>3. ASSUME NEW i \in 1..k
      PROVE  a[i] \in 1..Len(heap) /\ heap[a[i]].is = "table" /\ Seen(a[i]) /\ Reach(m, a[i], ByPlace) /\ m # 0
  <2> DEFINE c == a[i]
  <2>1. c \in 1..Len(heap) /\ c > b /\ heap[c].is = "table" /\ Seen(c)
    BY <1>2, ElementIsTable
  <2> HIDE DEF c
  <2>2. Reach(m, c, ByPlace)
    BY <2>1, DeeperReach
  <2>3. m # 0
    BY <2>2 DEF Reach
  <2> QED  BY <2>1, <2>2, <2>3 DEF c
<1>4. /\ q \in Path /\ In(p, key, q) /\ Len(q) = Len(p) + 1
      /\ \A i \in Nat : /\ Child(p, key, i) \in Path /\ In(p, key, Child(p, key, i))
                        /\ Len(Child(p, key, i)) = Len(p) + 1 /\ Element(q, i) = Child(p, key, i)
  <2>1. q \in Path /\ In(p, key, q) /\ Len(q) = Len(p) + 1
    BY <1>1, ChildIs
  <2>2. ASSUME NEW i \in Nat
        PROVE  /\ Child(p, key, i) \in Path /\ In(p, key, Child(p, key, i))
               /\ Len(Child(p, key, i)) = Len(p) + 1 /\ Element(q, i) = Child(p, key, i)
    BY <1>1, ChildIs, ChildElement
  <2> QED  BY <2>1, <2>2
<1>5. own.path = q /\ \A x : own # Entry(x, "table")
  BY DEF Entry
<1> HIDE DEF own, q, r
<1>6. ASSUME NEW i \in 1..k, NEW e \in Of(i)  PROVE In(p, key, e.path)
  <2> DEFINE c == a[i]
  <2>1. c \in 1..Len(heap) /\ e \in Ent(m, c, Child(p, key, i)) /\ Within(m) /\ i \in Nat
    BY <1>2, <1>3, EntWithin
  <2> HIDE DEF c
  <2> QED  BY <1>1, <2>1 DEF Within
<1>7. ASSUME NEW i \in Nat, i <= k, NEW e \in Sum(i)
      PROVE  (i # 0 /\ e = own) \/ \E j \in 1..i : j \in 1..k /\ e \in Of(j)
  <2>1. (i # 0 /\ e = own) \/ \E j \in 1..i : e \in Of(j)
    OBVIOUS
  <2>2. \A j \in 1..i : j \in 1..k
    BY <1>2, <1>7
  <2> HIDE DEF Sum, Of
  <2> QED  BY <2>1, <2>2
<1>8. ASSUME NEW i \in Nat, i <= k
      PROVE  Deeper(Sum(i), Len(p))
  <2>1. ASSUME NEW e \in Sum(i)  PROVE In(p, key, e.path)
    <3> HIDE DEF Sum, Of
    <3> QED  BY <1>4, <1>5, <1>6, <1>7, <1>8
  <2> HIDE DEF Sum
  <2> QED  BY <1>1, <2>1 DEF Deeper, In, Under
<1>9. ASSUME NEW i \in Nat, i <= k, NEW s, s.entries = r.entries \cup Sum(i)
      PROVE  Size(s, q) = i
  <2>1. ASSUME NEW j \in 1..MaxObjects
        PROVE  Entry(Element(q, j), "table") \in s.entries <=> j <= i
    <3> DEFINE el == Child(p, key, j)
               e == Entry(el, "table")
    <3>1. Element(q, j) = el /\ In(p, key, el) /\ j \in Nat /\ e.path = el /\ e # own
      <4>1. e.path = el
        BY DEF Entry
      <4>2. j \in Nat
        OBVIOUS
      <4> QED  BY <1>4, <1>5, <4>1, <4>2
    <3>2. e \notin r.entries
      BY <1>1, <3>1
    <3>3. ASSUME j <= i  PROVE e \in Sum(i)
      <4>1. j \in 1..i /\ j \in 1..k
        BY <1>2, <1>9, <3>3
      <4>2. a[j] \in 1..Len(heap) /\ heap[a[j]].is = "table" /\ el \in Path /\ m \in Nat \ {0}
        BY <1>2, <1>3, <1>4, <4>1
      <4>3. e \in Of(j)
        <5> HIDE DEF el
        <5>1. Entry(el, "table") \in Ent(m, a[j], el)
          BY <4>2, EntOwn
        <5> QED  BY <5>1 DEF el
      <4> HIDE DEF Of, e
      <4> QED  BY <4>1, <4>3
    <3>4. ASSUME e \in Sum(i)  PROVE j <= i
      <4> DEFINE el2 == el
      <4> HIDE DEF e
      <4>1. PICK l \in 1..i : l \in 1..k /\ e \in Of(l)
        <5> HIDE DEF Sum, Of
        <5> QED  BY <1>7, <1>9, <3>1, <3>4
      <4>2. l \in Nat /\ (j # l => e.path # el)
        <5>1. l \in Nat /\ m \in Nat /\ a[l] \in 1..Len(heap) /\ heap[a[l]].is = "table" /\ e \in Ent(m, a[l], Child(p, key, l))
          BY <1>2, <1>3, <4>1
        <5> DEFINE c == a[l]
        <5> HIDE DEF c
        <5>2. c \in 1..Len(heap) /\ heap[c].is = "table" /\ e \in Ent(m, c, Child(p, key, l)) /\ l \in Nat /\ m \in Nat
          BY <5>1 DEF c
        <5> QED  BY <1>1, <3>1, <5>2, ElementsApart
      <4>3. j = l
        BY <3>1, <4>2
      <4> QED  BY <4>1, <4>3
    <3> HIDE DEF e, Sum
    <3>5. e \in s.entries <=> j <= i
      BY <1>9, <3>2, <3>3, <3>4
    <3> QED  BY <3>1, <3>5 DEF e
  <2>2. i \in 0..MaxObjects
    BY <1>2, <1>9
  <2> QED  BY <2>1, <2>2, SizeCounts
<1>10. PICK f : ArrayWalk(order, m, w, b, v, f)
  BY <1>1, TablesWalk
<1> DEFINE Good(i) == Ready(f[i]) /\ f[i].path = w.path /\ Added(w, f[i], Sum(i))
           T == {i \in Nat : i <= k => Good(i)}
<1>11. 0 \in T
  <2>1. Sum(0) = {}
    OBVIOUS
  <2> DEFINE X == Sum(0)
  <2> HIDE DEF Sum
  <2>2. X = {}
    BY <2>1
  <2>3. f[0] = w
    BY <1>10 DEF ArrayWalk
  <2> HIDE DEF X
  <2>4. Added(w, w, X)
    BY <1>1, <2>2 DEF Added, r
  <2>5. Good(0)
    BY <1>1, <2>3, <2>4 DEF X
  <2> QED  BY <2>5
<1>12. ASSUME NEW i \in Nat, i \in T  PROVE i + 1 \in T
  <2> SUFFICES ASSUME i + 1 <= k  PROVE Good(i + 1)
    OBVIOUS
  <2> DEFINE x == f[i]
             y == f[i + 1]
             c == a[i + 1]
             X == Sum(i)
             n == i + 1
             el == Child(p, key, n)
  <2>1. i <= k /\ n \in 1..k /\ n - 1 = i /\ n \in Nat /\ n # 0 /\ n \in 1..MaxObjects
    BY <1>2
  <2>2. Ready(x) /\ x.path = w.path /\ Added(w, x, X)
    <3>1. Good(i)
      <4> HIDE DEF Good
      <4> QED  BY <1>12, <2>1
    <3> HIDE DEF Sum
    <3> QED  BY <3>1
  <2>3. c \in 1..Len(heap) /\ heap[c].is = "table" /\ Seen(c) /\ Reach(m, c, ByPlace)
    BY <1>3, <2>1
  <2>4. y = TableStep(Visits(heap, order)[m], a, x, n)
    <3>1. f[n] = TableStep(Visits(heap, order)[m], a, f[n - 1], n)
      <4> HIDE DEF n
      <4> QED  BY <1>10, <2>1 DEF ArrayWalk
    <3> QED  BY <2>1, <3>1
  <2>5. PICK u : y = Visits(heap, order)[m][<<u, a[n], ByPlace>>] /\ Continues(x, u)
    <3> DEFINE deeper == Visits(heap, order)[m]
    <3> HIDE DEF deeper, x, y, n, a
    <3>1. y = TableStep(deeper, a, x, n)
      BY <2>4 DEF deeper
    <3> QED  BY <2>2, <3>1, StepContinues DEF deeper
  <2>6. Ready(u) /\ u.path = w.path /\ Read(u).ok /\ Read(u).entries = r.entries \cup X
    <3> HIDE DEF X, x
    <3> QED  BY <2>2, <2>5 DEF Continues, Added, r
  <2>7. Deeper(X, Len(p)) /\ Size(Read(u), q) = i
    <3>1. Deeper(X, Len(p))
      BY <1>8, <2>1
    <3> HIDE DEF Sum
    <3> QED  BY <1>9, <2>1, <2>6, <3>1
  <2>8. \A e \in X : (i # 0 /\ e = own) \/ \E j \in 1..i : j \in 1..k /\ e \in Of(j)
    <3> HIDE DEF Sum, Of
    <3> QED  BY <1>7, <2>1
  <2>9. Named(Read(u), w.path) = q
    <3> HIDE DEF X
    <3>1. More(r, Read(u), X)
      BY <1>1, <2>6, ReadIsMore DEF Ready, r
    <3>2. Len(w.path) <= Len(p) + 1
      BY <1>1
    <3> QED  BY <1>1, <2>7, <3>1, <3>2, NamedSame
  <2>10. Child(p, key, 0) \in Paths(Read(u)) => Entry(Child(p, key, 0), "table_array") \in Read(u).entries
    <3> SUFFICES ASSUME q \in Paths(Read(u))  PROVE own \in Read(u).entries
      BY DEF q, own
    <3>1. CASE i # 0
      <4>1. own \in X
        BY <3>1
      <4> HIDE DEF X
      <4> QED  BY <2>6, <4>1
    <3>2. CASE i = 0
      <4>1. X = {}
        <5>1. \A e : e \notin X
          <6> HIDE DEF X
          <6> QED  BY <2>8, <3>2
        <5> QED  BY <5>1
      <4>2. PICK e \in Read(u).entries : e.path = q
        BY DEF Paths
      <4> HIDE DEF X
      <4> QED  BY <1>1, <1>4, <2>6, <4>1, <4>2
    <3> QED  BY <3>1, <3>2
  <2>11. ASSUME NEW e \in Read(u).entries  PROVE e.path # el /\ ~ Under(el, e.path)
    <3>0. el \in Path /\ In(p, key, el) /\ Len(el) = Len(p) + 1
      BY <1>4, <2>1
    <3>1. CASE e \in r.entries
      <4>1. Under(el, e.path) => In(p, key, e.path)
        BY <1>1, <2>1, BelowChild
      <4> HIDE DEF el
      <4> QED  BY <1>1, <3>0, <3>1, <4>1
    <3>2. CASE e = own
      <4>1. q # el
        BY <1>1, <2>1, ChildSame DEF q
      <4>2. ~ Under(el, q)
        <5> HIDE DEF el
        <5> QED  BY <1>1, <1>4, <3>0 DEF Under
      <4> QED  BY <1>5, <3>2, <4>1, <4>2
    <3>3. ASSUME NEW j \in 1..i, j \in 1..k, e \in Of(j)  PROVE e.path # el /\ ~ Under(el, e.path)
      <4> DEFINE d == a[j]
      <4>1. d \in 1..Len(heap) /\ heap[d].is = "table" /\ j \in Nat /\ n # j /\ e \in Ent(m, d, Child(p, key, j))
        BY <1>3, <3>3
      <4> HIDE DEF d, n
      <4> QED  BY <1>1, <1>2, <2>1, <4>1, ElementsApart
    <3> HIDE DEF X, Of, el
    <3> QED  BY <2>6, <2>8, <3>1, <3>2, <3>3
  <2>12. EntersPlace(u, p, key, n)
    <3>1. Size(Read(u), Child(p, key, 0)) + 1 = n
      BY <2>7 DEF q
    <3>2. Enters(u, p, key)
      BY <1>1, <2>6, <2>9 DEF Enters, q
    <3> HIDE DEF n
    <3> QED  BY <2>1, <2>10, <2>11, <3>1, <3>2 DEF EntersPlace
  <2> HIDE DEF c, x, y, X, n
  <2>13. y = Visits(heap, order)[m][<<u, c, ByPlace>>]
    BY <2>5 DEF c, n
  <2>14. Added(u, y, {own} \cup Ent(m, c, el))
    <3>1. Added(u, Visits(heap, order)[m][<<u, c, ByPlace>>], {Entry(Child(p, key, 0), "table_array")} \cup Ent(m, c, Child(p, key, n)))
      BY <2>3, <2>12 DEF PlaceAdds
    <3> QED  BY <2>13, <3>1 DEF own, q
  <2>15. Ready(y) /\ y.path = w.path
    <3> DEFINE yes == ByPlace
    <3> HIDE DEF yes
    <3>1. Ready(u) /\ Seen(c) /\ Reach(m, c, yes) /\ y = Visits(heap, order)[m][<<u, c, yes>>]
      BY <2>3, <2>6, <2>13 DEF yes
    <3>2. Ends(u, y, {}, c)
      BY <3>1 DEF Quiet
    <3> QED  BY <2>6, <3>2 DEF Ends
  <2>16. Sum(n) = X \cup ({own} \cup Ent(m, c, el))
    <3>1. Of(n) = Ent(m, c, el)
      BY DEF c, n
    <3>2. 1..n = (1..i) \cup {n}
      BY DEF n
    <3>3. Owns(n) = {own} /\ Owns(i) \subseteq {own}
      BY <2>1
    <3> HIDE DEF Of, Owns, el
    <3>4. Sum(n) = Owns(n) \cup (UNION {Of(j) : j \in 1..i}) \cup Of(n)
      BY <3>2
    <3>5. X = Owns(i) \cup UNION {Of(j) : j \in 1..i}
      BY DEF X
    <3> DEFINE Z == UNION {Of(j) : j \in 1..i}
    <3> HIDE DEF Z
    <3>6. Sum(n) = (Owns(n) \cup Z) \cup Of(n) /\ X = Owns(i) \cup Z
      BY <3>4, <3>5 DEF Z
    <3> HIDE DEF Sum
    <3> QED  BY <3>1, <3>3, <3>6
  <2>17. Added(w, y, Sum(n))
    <3> DEFINE Y == {own} \cup Ent(m, c, el)
               Z == Sum(n)
    <3>1. Z = X \cup Y /\ Added(u, y, Y)
      BY <2>14, <2>16
    <3> HIDE DEF Y, Z
    <3>2. Added(w, y, Z)
      BY <2>6, <3>1 DEF Added, r
    <3> QED  BY <3>2 DEF Z
  <2> HIDE DEF Sum
  <2> QED  BY <2>15, <2>17 DEF y, n
<1>13. Good(k)
  <2> HIDE DEF T, Good
  <2>1. k \in T
    BY <1>2, <1>11, <1>12, Induction
  <2> QED  BY <1>2, <2>1 DEF T
<1> DEFINE x == f[k]
           X == Sum(k)
<1>14. Ready(x) /\ Added(w, x, X)
  <2> HIDE DEF Sum
  <2> QED  BY <1>13
<1>15. Read(v) = Read(x)
  <2>1. v = endline(x) /\ Fine(x)
    BY <1>10, <1>14 DEF ArrayWalk, Ready
  <2> HIDE DEF x
  <2> QED  BY <2>1, EndlineIs
<1>16. X = Ent(m + 1, b, q)
  <2>1. WrittenIs(b) = "table_array"
    BY DEF WrittenIs
  <2>2. \A e : ~ InKey(m, b, q, e)
    <3>1. \A kk \in Part : heap[b].map_[kk] = 0
      BY <1>2 DEF KindsInv
    <3> QED  BY <3>1 DEF InKey
  <2>3. ASSUME NEW e  PROVE AtPlace(m, b, q, e) <=> \E i \in 1..k : e \in Of(i)
    <3>1. \A i \in 1..k : Element(q, i) = Child(p, key, i)
      BY <1>2, <1>4
    <3> HIDE DEF q
    <3> QED  BY <3>1 DEF AtPlace
  <2>4. ASSUME NEW e  PROVE e \in X <=> e = own \/ \E i \in 1..k : e \in Of(i)
    <3>1. e \in X <=> (e = own /\ k # 0) \/ \E i \in 1..k : e \in Of(i)
      OBVIOUS
    <3> HIDE DEF X, Of
    <3> QED  BY <1>2, <3>1
  <2> HIDE DEF X, Of
  <2>5. ASSUME NEW e  PROVE e \in X <=> e \in Ent(m + 1, b, q)
    <3>1. e \in Ent(m + 1, b, q) <=> e = Entry(q, WrittenIs(b)) \/ InKey(m, b, q, e) \/ AtPlace(m, b, q, e)
      BY <1>2, <1>4, EntHas
    <3> QED  BY <2>1, <2>2, <2>3, <2>4, <3>1 DEF own
  <2> QED  BY <2>5
<1> HIDE DEF x, X
<1> QED  BY <1>14, <1>15, <1>16 DEF Added, q

(***************************************************************************)
(* Every table, and array of tables, adds the entries that it has.         *)
(***************************************************************************)
Visited(order, m, w, b, in_array, v) ==
  /\ Deep(m, b) /\ in_array \in BOOLEAN
  /\ heap[b].is = "table" => v = visit_table(Visits(heap, order)[m], heap, order, w, b, in_array)
  /\ heap[b].is \in {"table_array", "static"} => v = visit_table_array(Visits(heap, order)[m], heap, w, b)

LEMMA VisitDeep ==
  ASSUME NEW order, NEW m, NEW w, NEW b, NEW in_array, NEW v,
         v = Visits(heap, order)[m + 1][<<w, b, in_array>>],
         order \in SetToSeqs(Part), HeapInv(heap), m \in Nat, Ready(w), Reach(m + 1, b, in_array)
  PROVE  Visited(order, m, w, b, in_array, v)
<1>1. b \in 1..Len(heap) /\ in_array \in BOOLEAN /\ m + 1 + b > Len(heap)
  BY DEF Reach
<1>2. Deep(m, b)
  <2>1. Len(heap) \in Nat
    BY ShapedFacts DEF HeapInv
  <2> QED  BY <1>1, <2>1 DEF Deep
<1>3. v = visit(Visits(heap, order)[m], heap, order, w, b, in_array)
  <2>1. w \in PartWriters /\ b \in Nat /\ m + 1 \in Nat /\ m + 1 # 0 /\ (m + 1) - 1 = m
    BY <1>1, ReadyAt DEF Ready
  <2>2. v = IF m + 1 = 0 THEN w ELSE visit(Visits(heap, order)[(m + 1) - 1], heap, order, w, b, in_array)
    BY <1>1, <2>1, VisitIs
  <2> QED  BY <2>1, <2>2
<1> QED  BY <1>1, <1>2, <1>3 DEF visit, Visited

LEMMA AddsOnward ==
  ASSUME NEW w, NEW u, NEW v, NEW X, NEW Y, NEW Z, Added(w, u, X), Added(u, v, Y), X \cup Y = Z
  PROVE  Added(w, v, Z)
BY DEF Added

LEMMA KeyAddsNext ==
  ASSUME NEW order, NEW m, order \in SetToSeqs(Part), HeapInv(heap), KindsInv(heap), NoEmptyKey, m \in Nat,
         KeyAdds(m, order), PlaceAdds(m, order), Quiet(m, order, {})
  PROVE  KeyAdds(m + 1, order)
<1> SUFFICES ASSUME NEW w, NEW b, NEW p, NEW key,
                    EntersKey(w, p, key), Seen(b), Reach(m + 1, b, ByKey)
             PROVE  Added(w, Visits(heap, order)[m + 1][<<w, b, ByKey>>], Ent(m + 1, b, Child(p, key, 0)))
  BY DEF KeyAdds
<1> DEFINE v == Visits(heap, order)[m + 1][<<w, b, ByKey>>]
           q == Child(p, key, 0)
           no == ByKey
           u == write_table_header(w, no)
           X == {Entry(q, "table")}
           Y == Ent(m + 1, b, q)
<1>1. Ready(w) /\ p \in Path /\ key \in Part /\ b \in 1..Len(heap)
  BY DEF EntersKey, Enters, Reach
<1>2. /\ Deep(m, b) /\ no \in BOOLEAN
      /\ heap[b].is = "table" => v = visit_table(Visits(heap, order)[m], heap, order, w, b, no)
      /\ heap[b].is \in {"table_array", "static"} => v = visit_table_array(Visits(heap, order)[m], heap, w, b)
  <2> HIDE DEF v, no
  <2>1. v = Visits(heap, order)[m + 1][<<w, b, no>>] /\ Reach(m + 1, b, no)
    BY DEF v, no
  <2>2. Visited(order, m, w, b, no, v)
    BY <1>1, <2>1, VisitDeep
  <2> QED  BY <2>2 DEF Visited
<1> HIDE DEF v
<1>3. CASE heap[b].is = "table"
  <2>1. Headed(u, q) /\ Added(w, u, X)
    BY KeyHeader
  <2>2. Added(u, v, Y)
    <3> DEFINE head == u
    <3>1. v = visit_table(Visits(heap, order)[m], heap, order, w, b, no) /\ head = write_table_header(w, no) /\ Headed(head, q)
      BY <1>2, <1>3, <2>1
    <3> HIDE DEF head, no, q
    <3>2. Added(head, v, Ent(m + 1, b, q))
      BY <1>1, <1>2, <1>3, <3>1, DoomedNone, BodyAdds
    <3> QED  BY <3>2 DEF head
  <2>3. X \cup Y = Y
    <3>1. Entry(q, "table") \in Y
      <4>1. m + 1 \in Nat \ {0} /\ q \in Path
        BY <1>1, ChildIs
      <4> QED  BY <1>1, <1>3, <4>1, EntOwn
    <3> HIDE DEF Y
    <3> QED  BY <3>1
  <2> HIDE DEF X, Y, u
  <2>4. Added(w, v, Y)
    BY <2>1, <2>2, <2>3, AddsOnward
  <2> QED  BY <2>4 DEF Y, v
<1>4. CASE heap[b].is \in {"table_array", "static"}
  BY <1>1, <1>2, <1>4, ArrayAdds DEF v
<1> QED  BY <1>3, <1>4 DEF Seen

LEMMA PlaceAddsNext ==
  ASSUME NEW order, NEW m, order \in SetToSeqs(Part), HeapInv(heap), KindsInv(heap), NoEmptyKey, m \in Nat,
         KeyAdds(m, order), Quiet(m, order, {})
  PROVE  PlaceAdds(m + 1, order)
<1> SUFFICES ASSUME NEW w, NEW b, NEW p, NEW key, NEW i,
                    EntersPlace(w, p, key, i), Seen(b), heap[b].is = "table", Reach(m + 1, b, ByPlace)
             PROVE  Added(w, Visits(heap, order)[m + 1][<<w, b, ByPlace>>],
                          {Entry(Child(p, key, 0), "table_array")} \cup Ent(m + 1, b, Child(p, key, i)))
  BY DEF PlaceAdds
<1> DEFINE v == Visits(heap, order)[m + 1][<<w, b, ByPlace>>]
           el == Child(p, key, i)
           own == Entry(Child(p, key, 0), "table_array")
           yes == ByPlace
           u == write_table_header(w, yes)
           X == {own, Entry(el, "table")}
           Y == Ent(m + 1, b, el)
<1>1. Ready(w) /\ p \in Path /\ key \in Part /\ b \in 1..Len(heap) /\ i \in Nat
  BY DEF EntersPlace, Enters, Reach
<1>2. /\ Deep(m, b) /\ yes \in BOOLEAN
      /\ v = visit_table(Visits(heap, order)[m], heap, order, w, b, yes)
  <2> HIDE DEF v, yes
  <2>1. v = Visits(heap, order)[m + 1][<<w, b, yes>>] /\ Reach(m + 1, b, yes)
    BY DEF v, yes
  <2>2. Visited(order, m, w, b, yes, v)
    BY <1>1, <2>1, VisitDeep
  <2> QED  BY <2>2 DEF Visited
<1> HIDE DEF v
<1>3. Headed(u, el) /\ Added(w, u, X)
  BY PlaceHeader
<1>4. Added(u, v, Y)
  <2> DEFINE head == u
  <2>1. head = write_table_header(w, yes) /\ Headed(head, el)
    BY <1>3
  <2> HIDE DEF head, yes, el
  <2>2. Added(head, v, Ent(m + 1, b, el))
    BY <1>1, <1>2, <2>1, BodyAdds
  <2> QED  BY <2>2 DEF head
<1>5. X \cup Y = {own} \cup Y
  <2>1. Entry(el, "table") \in Y
    <3>1. m + 1 \in Nat \ {0} /\ el \in Path
      BY <1>1, ChildIs
    <3> QED  BY <1>1, <3>1, EntOwn
  <2> HIDE DEF Y
  <2> QED  BY <2>1
<1> HIDE DEF X, Y, u, own
<1>6. Added(w, v, {own} \cup Y)
  BY <1>3, <1>4, <1>5, AddsOnward
<1> QED  BY <1>6 DEF Y, v, own

LEMMA AddsAll ==
  ASSUME NEW order, order \in SetToSeqs(Part), HeapInv(heap), KindsInv(heap), NoEmptyKey
  PROVE  \A n \in Nat : KeyAdds(n, order) /\ PlaceAdds(n, order)
<1> DEFINE T == {n \in Nat : KeyAdds(n, order) /\ PlaceAdds(n, order)}
<1>1. 0 \in T
  BY DEF KeyAdds, PlaceAdds, Reach
<1>2. ASSUME NEW m \in Nat, m \in T  PROVE m + 1 \in T
  <2>1. KeyAdds(m, order) /\ PlaceAdds(m, order) /\ Quiet(m, order, {})
    BY <1>2, DoomedNone, QuietAll
  <2>2. KeyAdds(m + 1, order) /\ PlaceAdds(m + 1, order)
    BY <2>1, KeyAddsNext, PlaceAddsNext
  <2> QED  BY <2>2
<1> HIDE DEF T
<1>3. Nat \subseteq T
  BY <1>1, <1>2, Induction
<1> QED  BY <1>3 DEF T

(***************************************************************************)
(* The root, with nothing written yet.                                     *)
(***************************************************************************)
LEMMA WriterIs ==
  /\ Ready(Writer) /\ Writer.path = <<>> /\ Read(Writer) = Start /\ Headed(Writer, <<>>)
  /\ \A in_array : write_table_header(Writer, in_array) = Writer
<1> DEFINE nil == <<>>
<1>1. Writer \in PartWriters /\ Writer.out = nil /\ Writer.path = nil /\ ~ Writer.naked
  BY DEF Writer, PartWriters
<1>2. Lines(nil) = <<nil>>
  <2>1. nil \in Seq(Token) /\ "\n" \in Token
    <3>1. nil \in Seq(Token)
      OBVIOUS
    <3>2. "\n" \in Token
      BY TokensAre
    <3> QED  BY <3>1, <3>2
  <2>2. PICK x : x \in Token
    BY <2>1
  <2>3. \A s \in Seq(Token), y \in Token : Lines(<<>>) = << <<>> >>
    BY LinesGrow
  <2> QED  BY <2>1, <2>2, <2>3
<1>3. Last(<<nil>>) = nil /\ nil \in Seq(Seq(Token)) /\ nil \in Seq(Token) /\ <<nil>> = Append(nil, nil)
  <2>1. nil \in Seq(Seq(Token)) /\ nil \in Seq(Token)
    OBVIOUS
  <2>2. <<nil>> = Append(nil, nil)
    OBVIOUS
  <2>3. Last(<<nil>>) = nil
    BY <2>1, ShortEnds
  <2> QED  BY <2>1, <2>2, <2>3
<1>4. Fine(Writer) /\ OnNewLine(Writer)
  BY <1>1, <1>2, <1>3 DEF Fine, OnNewLine
<1>5. Read(Writer) = Start
  <2>1. Read(Writer) = ReadLines(Lines(Writer.out))
    BY <1>1, ReadIs
  <2>2. ReadLines(Append(nil, nil)) = ReadLine(ReadLines(nil), nil) /\ ReadLines(nil) = Start
    BY <1>3, ReadingGrow
  <2>3. ReadLine(Start, nil) = Start
    BY <1>3, StartIs, ReadLineOnward
  <2> QED  BY <1>1, <1>2, <1>3, <2>1, <2>2, <2>3
<1>6. Named(Start, nil) = nil
  <2>1. nil \in Seq(Part) /\ Len(nil) = 0 /\ Start \in Readers
    BY StartIs
  <2>2. Named(Start, nil) \in Path /\ Len(Named(Start, nil)) = Len(nil)
    <3> HIDE DEF nil
    <3> QED  BY <2>1, NamedIs
  <2> QED  BY <2>1, <2>2, EmptySeq DEF Path
<1>7. Inside(Start, nil) = nil
  <2>1. Entry(nil, "table_array") # Entry(nil, "table")
    BY DEF Entry
  <2> QED  BY <2>1 DEF Inside, Start
<1>8. nil \in Path /\ ~ HasEmpty(nil) /\ Len(nil) = 0
  BY DEF Path, HasEmpty
<1>9. Start.ok /\ Start.at = nil /\ Start.entries = {Entry(nil, "table")} /\ Entry(nil, "table").path = nil
  BY DEF Start, Entry
<1> HIDE DEF nil
<1>10. Headed(Writer, nil)
  <2>1. Stands(Writer, nil)
    BY <1>1, <1>4, <1>5, <1>6, <1>7, <1>8, <1>9 DEF Stands
  <2> QED  BY <1>4, <1>5, <1>8, <1>9, <2>1, NotBelowItself DEF Headed, Ready
<1>11. ASSUME NEW in_array  PROVE write_table_header(Writer, in_array) = Writer
  <2>1. Writer.path = <<>>
    BY <1>1 DEF nil
  <2> QED  BY <2>1 DEF write_table_header
<1> QED  BY <1>1, <1>4, <1>5, <1>10, <1>11 DEF Ready, nil

LEMMA RootReach ==
  ASSUME HeapInv(heap), heap[Root].is = "table"
  PROVE  /\ Len(heap) \in Nat \ {0} /\ Root \in 1..Len(heap) /\ Seen(Root)
         /\ Reach(Len(heap), Root, ByKey)
<1>1. Len(heap) \in Nat \ {0}
  BY DocumentAssumption DEF HeapInv, Shaped
<1> QED  BY <1>1 DEF Root, Seen, Reach, ByKey

LEMMA RootAdds ==
  ASSUME NEW order, order \in SetToSeqs(Part), HeapInv(heap), KindsInv(heap), NoEmptyKey, heap[Root].is = "table"
  PROVE  LET read == ReadAsToml(Written(heap, order))
         IN  read.ok /\ read.entries = Entries(Root, <<>>)
<1> DEFINE n == Len(heap)
           m == n - 1
           v == Visits(heap, order)[n][<<Writer, Root, ByKey>>]
           p == <<>>
           no == ByKey
<1>1. n \in Nat \ {0} /\ Root \in 1..n /\ Reach(n, Root, ByKey) /\ m \in Nat /\ m + 1 = n
  <2>1. n \in Nat \ {0} /\ Root \in 1..n /\ Reach(n, Root, ByKey)
    BY RootReach
  <2> HIDE DEF n
  <2> QED  BY <2>1
<1>2. /\ Ready(Writer) /\ Read(Writer) = Start /\ Headed(Writer, p)
      /\ Writer = write_table_header(Writer, no)
  BY WriterIs
<1>3. ReadAsToml(Written(heap, order)) = Read(v)
  BY DEF Read, Written, accept, ByKey, Root
<1>4. Deep(m, Root) /\ no \in BOOLEAN /\ v = visit_table(Visits(heap, order)[m], heap, order, Writer, Root, no)
  <2> HIDE DEF v, no, m, n
  <2>1. v = Visits(heap, order)[m + 1][<<Writer, Root, no>>] /\ Reach(m + 1, Root, no)
    BY <1>1 DEF v, no
  <2>2. Visited(order, m, Writer, Root, no, v)
    BY <1>1, <1>2, <2>1, VisitDeep
  <2>3. heap[Root].is = "table"
    OBVIOUS
  <2> QED  BY <2>2, <2>3 DEF Visited
<1>5. KeyAdds(m, order) /\ Quiet(m, order, {})
  BY <1>1, AddsAll, DoomedNone, QuietAll
<1> HIDE DEF v, no, m, n, p
<1>6. Added(Writer, v, Ent(m + 1, Root, p))
  BY <1>2, <1>4, <1>5, BodyAdds
<1>7. Ent(m + 1, Root, p) = Entries(Root, <<>>)
  BY <1>1 DEF Ent, Entries, n, p
<1>8. Entry(p, "table") \in Ent(m + 1, Root, p)
  <2>1. m + 1 \in Nat \ {0} /\ p \in Path /\ Root \in 1..Len(heap)
    BY <1>1 DEF p, n, Path
  <2> QED  BY <2>1, EntOwn
<1>9. Start.entries = {Entry(p, "table")}
  BY DEF Start, p
<1> QED  BY <1>2, <1>3, <1>6, <1>7, <1>8, <1>9 DEF Added

(***************************************************************************)
(* An empty key, wherever it is, is in the root.                           *)
(***************************************************************************)
LEMMA RootDoomed ==
  ASSUME NEW t, HeapInv(heap), KindsInv(heap), TreeInv(heap, {}), t \in 1..Len(heap), heap[t].map_[Empty] # 0
  PROVE  \E D : Doomed(D) /\ Root \in D
<1> DEFINE D == {b \in 1..Len(heap) : \E E : Doomed(E) /\ b \in E}
<1>1. Doomed(D)
  <2> SUFFICES ASSUME NEW b \in D
               PROVE  \/ /\ heap[b].is = "table"
                         /\ \E k \in Part : heap[b].map_[k] # 0 /\ (k = Empty \/ heap[b].map_[k] \in D)
                      \/ /\ heap[b].is \in {"table_array", "static"}
                         /\ \E i \in 1..Len(heap[b].array_) : heap[b].array_[i] \in D
    BY DEF Doomed
  <2>1. PICK E : Doomed(E) /\ b \in E
    OBVIOUS
  <2>2. E \subseteq D
    BY <2>1 DEF Doomed
  <2> HIDE DEF D
  <2> QED  BY <2>1, <2>2 DEF Doomed
<1>2. ASSUME NEW b \in 1..Len(heap),
             \/ /\ heap[b].is = "table"
                /\ \E k \in Part : heap[b].map_[k] # 0 /\ (k = Empty \/ heap[b].map_[k] \in D)
             \/ /\ heap[b].is \in {"table_array", "static"}
                /\ \E i \in 1..Len(heap[b].array_) : heap[b].array_[i] \in D
      PROVE  b \in D
  <2> DEFINE E == D \cup {b}
  <2>1. Doomed(E)
    <3> HIDE DEF D
    <3> QED  BY <1>1, <1>2 DEF Doomed
  <2> HIDE DEF E
  <2>2. b \in E
    BY DEF E
  <2> QED  BY <2>1, <2>2
<1>3. D \subseteq 1..Len(heap) /\ Len(heap) \in Nat
  BY ShapedFacts DEF HeapInv
<1> HIDE DEF D
<1>4. t \in D
  <2>1. heap[t].is = "table"
    BY DocumentAssumption DEF KindsInv
  <2> QED  BY <1>2, <2>1, DocumentAssumption
<1>5. PICK b \in D : \A c \in D : b <= c
  <2>1. D \subseteq Nat /\ D # {}
    BY <1>3, <1>4
  <2> QED  BY <2>1, Least
<1>6. b = Root
  <2> SUFFICES ASSUME b # Root  PROVE FALSE
    OBVIOUS
  <2>0. b \in 2..Len(heap) /\ b \in 1..Len(heap)
    BY <1>3 DEF Root
  <2>1. HeldByKey(heap, b) \/ HeldByPlace(heap, b)
    BY <2>0 DEF TreeInv
  <2>2. CASE HeldByKey(heap, b)
    <3>1. PICK s, k : KeyHolds(heap, s, k, b)
      BY <2>2 DEF HeldByKey
    <3>2. s \in 1..Len(heap) /\ k \in Part /\ heap[s].map_[k] = b /\ b # 0
      BY <2>0, <3>1 DEF KeyHolds
    <3>3. heap[s].is = "table"
      BY <3>2 DEF KindsInv
    <3>4. s \in D
      BY <1>2, <3>2, <3>3
    <3>5. b \in (s + 1)..Len(heap)
      BY <3>2 DEF HeapInv, MapsGoUp
    <3> QED  BY <1>3, <1>5, <3>2, <3>4, <3>5
  <2>3. CASE HeldByPlace(heap, b)
    <3>1. PICK s, i : PlaceHolds(heap, s, i, b)
      BY <2>3 DEF HeldByPlace
    <3>2. s \in 1..Len(heap) /\ i \in 1..Len(heap[s].array_) /\ heap[s].array_[i] = b
      BY <3>1 DEF PlaceHolds
    <3>3. heap[b].is # "value"
      BY <1>1 DEF Doomed
    <3>4. heap[s].is \in {"table", "table_array", "static", "value", "array"} /\ Len(heap[s].array_) # 0
      <4>1. heap[s].is \in Kind /\ Len(heap[s].array_) \in Nat
        BY <3>2, ShapedFacts DEF HeapInv
      <4> QED  BY <3>2, <4>1 DEF Kind
    <3>5. heap[s].is \in {"table_array", "static"}
      BY <3>2, <3>3, <3>4 DEF KindsInv
    <3>6. s \in D
      BY <1>2, <3>2, <3>5
    <3>7. b \in (s + i)..Len(heap)
      BY <3>2 DEF HeapInv, ArraysGoUp
    <3>8. i \in Nat \ {0}
      BY <3>2, <3>4
    <3> QED  BY <1>3, <1>5, <3>2, <3>6, <3>7, <3>8
  <2> QED  BY <2>1, <2>2, <2>3
<1> QED  BY <1>1, <1>6

LEMMA EmptyIsRefused ==
  ASSUME NEW order, NEW D, order \in SetToSeqs(Part), HeapInv(heap), KindsInv(heap), heap[Root].is = "table",
         Doomed(D), Root \in D
  PROVE  ~ ReadAsToml(Written(heap, order)).ok
<1> DEFINE n == Len(heap)
           no == ByKey
           v == Visits(heap, order)[n][<<Writer, Root, no>>]
<1>1. n \in Nat /\ Seen(Root) /\ Reach(n, Root, no) /\ Ready(Writer)
  BY RootReach, WriterIs
<1>2. ReadAsToml(Written(heap, order)) = Read(v)
  BY DEF Read, Written, accept, ByKey, Root
<1>3. Quiet(n, order, D)
  <2> HIDE DEF n
  <2> QED  BY <1>1, QuietAll
<1> HIDE DEF n, no
<1>4. Ends(Writer, v, D, Root)
  BY <1>1, <1>3 DEF Quiet
<1> QED  BY <1>2, <1>4 DEF Ends

(***************************************************************************)
(* "will output valid TOML" (cpptoml.h:3289).                              *)
(***************************************************************************)
(* Without arrays of arrays, no array holds a table.                       *)
LEMMA HoldsNoTables ==
  ASSUME KindsInv(heap)
  PROVE  ~ HasTablesInArray
  BY DEF KindsInv, HasTablesInArray, ElementsAre

LEMMA DoneIsWritten ==
  ASSUME DocInv, HoldersInv, KindsInv(heap)
  PROVE  WrittenAsParsed
<1> SUFFICES ASSUME NEW order \in SetToSeqs(Part), mode = "done"
             PROVE  LET read == ReadAsToml(Written(heap, order))
                    IN  IF HasEmptyKey THEN ~read.ok ELSE read.ok /\ read.entries = Entries(Root, <<>>)
  BY HoldsNoTables DEF WrittenAsParsed
<1> DEFINE read == ReadAsToml(Written(heap, order))
<1>1. HeapInv(heap) /\ heap[Root].is = "table"
  BY DEF DocInv, PlaceInv, IsTable
<1>2. TreeInv(heap, {})
  <2>1. stack = <<>>
    BY DEF DocInv, ModeInv
  <2>2. OpenObjects(stack) = {}
    BY <2>1 DEF OpenObjects
  <2> QED  BY <2>2 DEF HoldersInv
<1>3. HasEmptyKey <=> \E t \in 1..Len(heap) : heap[t].map_[Empty] # 0
  BY DEF HasEmptyKey, Free, Null
<1>4. CASE HasEmptyKey
  <2>1. PICK t \in 1..Len(heap) : heap[t].map_[Empty] # 0
    BY <1>3, <1>4
  <2>2. PICK D : Doomed(D) /\ Root \in D
    BY <1>1, <1>2, <2>1, RootDoomed
  <2>3. ~ read.ok
    BY <1>1, <2>2, EmptyIsRefused
  <2> QED  BY <1>4, <2>3
<1>5. CASE ~ HasEmptyKey
  <2>1. NoEmptyKey
    BY <1>3, <1>5 DEF NoEmptyKey
  <2>2. read.ok /\ read.entries = Entries(Root, <<>>)
    BY <1>1, <2>1, RootAdds
  <2> HIDE DEF read
  <2> QED  BY <1>5, <2>2 DEF read
<1> QED  BY <1>4, <1>5

(* Only tables have keys, and only arrays have elements: an invariant.     *)
LEMMA HaveCorrect == Spec => []HaveInv(heap)
<1>1. Init => HaveInv(heap)
  <2> SUFFICES ASSUME Init  PROVE HaveInv(heap)
    OBVIOUS
  <2>1. Len(heap) = 1 /\ heap[1] = Object("table", <<>>)
    BY DEF Init
  <2>2. heap[1].is = "table" /\ heap[1].array_ = <<>>
    BY <2>1 DEF Object
  <2>3. \A t \in 1..Len(heap) : t = 1
    BY <2>1
  <2> QED  BY <2>2, <2>3 DEF HaveInv
<1>2. DocInv /\ HaveInv(heap) /\ [parse]_vars => HaveInv(heap)'
  BY HaveStep
<1> QED  BY <1>1, <1>2, DocCorrect, PTL DEF Spec

(***************************************************************************)
(* A document that has been read, and has no array in an array, is written *)
(* as lines that TOML reads as the same document, in whatever order its    *)
(* maps have their keys; and, if a key is empty, as lines that TOML        *)
(* refuses.                                                                *)
(***************************************************************************)
THEOREM RoundTrip == Spec => [](~HasArrayInArray => WrittenAsParsed)
<1>1. HaveInv(heap) /\ ~HasArrayInArray => KindsInv(heap)
  BY DEF HaveInv, KindsInv, HasArrayInArray, ElementsAre
<1>2. DocInv /\ HoldersInv /\ HaveInv(heap) => (~HasArrayInArray => WrittenAsParsed)
  BY <1>1, DoneIsWritten
<1> QED  BY <1>2, DocCorrect, HoldersCorrect, HaveCorrect, PTL
===============================================================================
