------------------------------ MODULE TextEdit -------------------------------
(***************************************************************************)
(* The texts that what a library reads is checked on: everything a few     *)
(* edits make of the texts of Inputs.  A text is for one reader, the part  *)
(* of the library that is given it.                                        *)
(***************************************************************************)
EXTENDS Characters, SequencesExt

CONSTANT Inputs   \* [reader, text, alphabet, edits]: where texts start from

ASSUME InputsAssumption ==
  \A input \in Inputs :
     /\ DOMAIN input = {"reader", "text", "alphabet", "edits"}
     /\ input.text \in Seq(STRING) /\ input.alphabet \subseteq STRING
     /\ input.edits \in Nat

VARIABLES
  reader,    \* what reads the text
  text,      \* the text
  alphabet,  \* what an edit writes
  edits      \* bound: how many edits are left

Init ==
  \E input \in Inputs :
     /\ reader = input.reader
     /\ text = input.text
     /\ alphabet = input.alphabet
     /\ edits = input.edits

Edit ==
  /\ edits > 0
  /\ edits' = edits - 1
  /\ \/ \E i \in 1..(Len(text) + 1), c \in alphabet : text' = Before(text, i) \o <<c>> \o From(text, i)
     \/ \E i \in 1..Len(text), c \in alphabet : text' = [text EXCEPT ![i] = c]
     \/ \E i \in 1..Len(text) : text' = RemoveAt(text, i)
  /\ UNCHANGED <<reader, alphabet>>

Spec == Init /\ [][Edit]_<<reader, text, alphabet, edits>>
==============================================================================
