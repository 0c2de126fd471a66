----------------------------- MODULE TomlGrammar -----------------------------
(***************************************************************************)
(* The values of TOML 0.5, the version cpptoml.h implements, as sets of    *)
(* texts: what TomlValue, which follows the code, is compared with.  A     *)
(* text is a sequence of characters.                                       *)
(***************************************************************************)
EXTENDS Characters

-------------------------------------------------------------------------------
(* Numbers                                                                 *)
DigitRun(s, set) ==
  /\ s # <<>> /\ AllIn(s, set \cup {"_"})
  /\ s[1] # "_" /\ s[Len(s)] # "_"
  /\ \A i \in 1..(Len(s) - 1) : s[i] # "_" \/ s[i + 1] # "_"

Unsigned(s) == DigitRun(s, Digit) /\ (s[1] = "0" => Len(s) = 1)

Signless(s) == IF s # <<>> /\ s[1] \in {"+", "-"} THEN Tail(s) ELSE s

Decimal(s) == Unsigned(Signless(s))

Based(s, letter, set) ==
  /\ Len(s) > 2 /\ s[1] = "0" /\ s[2] = letter
  /\ DigitRun(After(s, 2), set)

Octal(s) == Based(s, "o", Digit \ {"8", "9"})
Binary(s) == Based(s, "b", {"0", "1"})

Integer(s) == Decimal(s) \/ Octal(s) \/ Binary(s) \/ Based(s, "x", Hex)

Fraction(s) == s # <<>> /\ s[1] = "." /\ DigitRun(Tail(s), Digit)
Exponent(s) == s # <<>> /\ s[1] \in {"e", "E"} /\ Decimal(Tail(s))

Special(s) == s \in {<<"i", "n", "f">>, <<"n", "a", "n">>}

Float(s) ==
  \/ Special(Signless(s))
  \/ \E i \in 1..Len(s), j \in 1..(Len(s) + 1) :
        /\ i <= j
        /\ Decimal(Before(s, i))
        /\ i < j => Fraction(SubSeq(s, i, j - 1))
        /\ i = j => j <= Len(s)
        /\ j <= Len(s) => Exponent(SubSeq(s, j, Len(s)))

(* The number an integer stands for.                                       *)
ValueOf(c) == CHOOSE d \in 0..15 :
  c = <<"0", "1", "2", "3", "4", "5", "6", "7", "8", "9", "a", "b", "c", "d", "e", "f">>[d + 1] \/
  c = <<"0", "1", "2", "3", "4", "5", "6", "7", "8", "9", "A", "B", "C", "D", "E", "F">>[d + 1]

Worth(s, base) ==
  LET worth[i \in 0..Len(s)] ==
        CASE i = 0 -> 0
          [] i > 0 /\ s[i] = "_" -> worth[i - 1]
          [] OTHER -> base * worth[i - 1] + ValueOf(s[i])
  IN  worth[Len(s)]

IntegerValue(s) ==
  CASE s[1] = "-" -> -Worth(Tail(s), 10)
    [] s[1] = "+" -> Worth(Tail(s), 10)
    [] Octal(s) -> Worth(After(s, 2), 8)
    [] Binary(s) -> Worth(After(s, 2), 2)
    [] Based(s, "x", Hex) -> Worth(After(s, 2), 16)
    [] OTHER -> Worth(s, 10)

-------------------------------------------------------------------------------
(* Dates and times, "D" standing for a digit                               *)
Shape(s, shape) ==
  Len(s) = Len(shape) /\ \A i \in 1..Len(s) : IF shape[i] = "D" THEN s[i] \in Digit ELSE s[i] = shape[i]

Date(s) == Shape(s, <<"D", "D", "D", "D", "-", "D", "D", "-", "D", "D">>)

Time(s) ==
  /\ Len(s) >= 8
  /\ Shape(SubSeq(s, 1, 8), <<"D", "D", ":", "D", "D", ":", "D", "D">>)
  /\ Len(s) > 8 => Len(s) > 9 /\ s[9] = "." /\ AllIn(After(s, 9), Digit)

LocalDatetime(s) ==
  Len(s) > 11 /\ Date(Before(s, 11)) /\ s[11] \in {"T", " "} /\ Time(After(s, 11))

Offset(s) ==
  \/ s = <<"Z">>
  \/ Shape(s, <<"+", "D", "D", ":", "D", "D">>) \/ Shape(s, <<"-", "D", "D", ":", "D", "D">>)

OffsetDatetime(s) ==
  \E i \in 1..Len(s) : LocalDatetime(Before(s, i)) /\ Offset(SubSeq(s, i, Len(s)))

-------------------------------------------------------------------------------
(***************************************************************************)
(* Strings.  A character is escaped if the run of backslashes it follows   *)
(* has an odd length.                                                      *)
(***************************************************************************)
Escaped(s, i) ==
  \E n \in 0..(i - 2) :
     /\ n % 2 = 1
     /\ \A k \in (i - n)..(i - 1) : s[k] = "\\"
     /\ s[i - n - 1] # "\\"

(* Eight hexadecimal digits of a Unicode scalar value: none of the         *)
(* surrogates, and not beyond 10FFFF.                                      *)
Scalar(h) ==
  /\ AllIn(h, Hex) /\ h[1] = "0" /\ h[2] = "0"
  /\ h[3] = "0" \/ (h[3] = "1" /\ h[4] = "0")
  /\ ~(/\ AllIn(SubSeq(h, 1, 4), {"0"}) /\ h[5] \in {"d", "D"}
       /\ h[6] \in Hex \ {"0", "1", "2", "3", "4", "5", "6", "7"})

ValidEscape(s, i) ==
  \/ s[i] \in {"b", "t", "n", "f", "r", "\"", "\\"}
  \/ s[i] = "u" /\ i + 4 <= Len(s) /\ Scalar(<<"0", "0", "0", "0">> \o SubSeq(s, i + 1, i + 4))
  \/ s[i] = "U" /\ i + 8 <= Len(s) /\ Scalar(SubSeq(s, i + 1, i + 8))

Literal(s) == \E d \in {"\"", "'"} :
  /\ Len(s) >= 2 /\ s[1] = d /\ s[Len(s)] = d
  /\ \A i \in 1..Len(s) : s[i] # "\n"
  /\ d = "'" => \A i \in 2..(Len(s) - 1) : s[i] # d
  /\ d = "\"" =>
       /\ ~Escaped(s, Len(s))
       /\ \A i \in 2..(Len(s) - 1) :
             /\ s[i] = d => Escaped(s, i)
             /\ Escaped(s, i) => ValidEscape(s, i)
===============================================================================
