----------------------------- MODULE Characters ------------------------------
(***************************************************************************)
(* Texts as sequences of characters, and places in them.  A place is the   *)
(* number of the character an iterator of the code points at; the place    *)
(* behind the last character is its end.                                   *)
(***************************************************************************)
EXTENDS Integers, Sequences

Digit == {"0", "1", "2", "3", "4", "5", "6", "7", "8", "9"}
Hex == Digit \cup {"a", "b", "c", "d", "e", "f", "A", "B", "C", "D", "E", "F"}
Blank == {" ", "\t"}

AllIn(s, set) == \A i \in 1..Len(s) : s[i] \in set

(* The two parts of s before and behind place i.                           *)
Before(s, i) == SubSeq(s, 1, i - 1)
After(s, i) == SubSeq(s, i + 1, Len(s))

From(s, i) == SubSeq(s, i, Len(s))
Slice(s, i, n) == SubSeq(s, i, IF i + n - 1 > Len(s) THEN Len(s) ELSE i + n - 1)

(* The text's terminating NUL, which the code may look at.                 *)
At(s, i) == IF i \in 1..Len(s) THEN s[i] ELSE "NUL"

(* The first place from i on whose character is not in set.                *)
Behind(s, i, set) ==
  CHOOSE j \in i..(Len(s) + 1) :
     /\ \A k \in i..(j - 1) : s[k] \in set
     /\ j <= Len(s) => s[j] \notin set

digit_value ==
  [c \in Hex |-> CASE c = "0" -> 0 [] c = "1" -> 1 [] c = "2" -> 2 [] c = "3" -> 3
                   [] c = "4" -> 4 [] c = "5" -> 5 [] c = "6" -> 6 [] c = "7" -> 7
                   [] c = "8" -> 8 [] c = "9" -> 9
                   [] c \in {"a", "A"} -> 10 [] c \in {"b", "B"} -> 11
                   [] c \in {"c", "C"} -> 12 [] c \in {"d", "D"} -> 13
                   [] c \in {"e", "E"} -> 14 [] c \in {"f", "F"} -> 15]

(* The number that digits stand for.                                       *)
Numeral(s, base) ==
  LET value[i \in 0..Len(s)] == IF i = 0 THEN 0 ELSE base * value[i - 1] + digit_value[s[i]]
  IN  value[Len(s)]
==============================================================================
