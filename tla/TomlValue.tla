------------------------------ MODULE TomlValue ------------------------------
(***************************************************************************)
(* How cpptoml.h reads a scalar: which characters after the "=" of a pair  *)
(* it takes, and as what.  Recognisers are operators from a text (the rest *)
(* of the line, a sequence of characters) and a place in it, the iterator  *)
(* `it', to what was read and the place behind it.                         *)
(***************************************************************************)
EXTENDS TomlGrammar, TextEdit, TLC

find_end_of_time(s) == Behind(s, 1, Digit \cup {":", "."})
find_end_of_date(s) == Behind(s, 1, Digit \cup {"T", " ", "Z", ":", "-", "+", "."})

is_time(s) ==
  LET len == find_end_of_time(s) - 1
  IN  /\ len >= 8
      /\ s[3] = ":" /\ s[6] = ":"
      /\ len > 8 => s[9] = "." /\ len > 9

(* "" if it is not a date.                                                 *)
date_type(s) ==
  LET date == Before(s, find_end_of_date(s))
      time == From(date, 12)
  IN  CASE Len(date) < 10 -> ""
        [] Len(date) >= 10 /\ (date[5] # "-" \/ date[8] # "-") -> ""
        [] OTHER ->
             IF Len(date) >= 19 /\ date[11] \in {"T", " "} /\ is_time(time)
             THEN IF find_end_of_time(time) > Len(time) THEN "local datetime" ELSE "offset datetime"
             ELSE IF Len(date) = 10 THEN "local date" ELSE ""

determine_number_type(s) ==
  LET i == IF At(s, 1) \in {"-", "+"} THEN 2 ELSE 1
  IN  CASE i > Len(s) -> "error"
        [] At(s, i) \in {"i", "n"} -> "float"
        [] OTHER -> IF At(s, Behind(s, i, Digit)) = "." THEN "float" ELSE "int"

determine_value_type(s) ==
  CASE s = <<>> -> "error"
    [] At(s, 1) \in {"\"", "'"} -> "string"
    [] is_time(s) -> "local time"
    [] ~is_time(s) /\ date_type(s) # "" -> date_type(s)
    [] OTHER ->
         IF \/ At(s, 1) \in Digit \cup {"-", "+"}
            \/ Slice(s, 1, 3) \in {<<"i", "n", "f">>, <<"n", "a", "n">>}
         THEN determine_number_type(s)
         ELSE CASE At(s, 1) \in {"t", "f"} -> "bool"
                [] At(s, 1) = "[" -> "array"
                [] At(s, 1) = "{" -> "inline table"
                [] OTHER -> "error"

(* What a recogniser returns: the type and the value it made, and `it'.    *)
Read(type, value, it) == [type |-> type, value |-> value, it |-> it]
Error == Read("error", 0, 0)

-------------------------------------------------------------------------------

eat_digits(s, i, set) ==
  LET j == Behind(s, i, set \cup {"_"})
  IN  IF /\ j > i /\ s[i] \in set /\ s[j - 1] # "_"
         /\ \A k \in i..(j - 2) : ~(s[k] = "_" /\ s[k + 1] = "_")
      THEN j ELSE 0

find_end_of_number(s) ==
  LET j == Behind(s, 1, Digit \cup {"_", ".", "e", "E", "-", "+", "x", "o", "b"})
  IN  IF Slice(s, j, 3) \in {<<"i", "n", "f">>, <<"n", "a", "n">>} THEN j + 3 ELSE j

eat_sign(s, i) == IF At(s, i) \in {"-", "+"} THEN i + 1 ELSE i

has_leading_zero(s, i) ==
  At(s, i) = "0" /\ i + 1 # find_end_of_number(s) /\ At(s, i + 1) # "."

(***************************************************************************)
(* parse_int from place i to place j: the underscores are removed, and     *)
(* stoll reads as far as the digits are digits of the base.  The numbers   *)
(* of Inputs are too short to be out of its range.                         *)
(***************************************************************************)
parse_int(s, i, j, base, prefix) ==
  LET digits == prefix \o SelectSeq(SubSeq(s, i, j - 1), LAMBDA c : c # "_")
      stop == Behind(digits, 1, {c \in Hex : digit_value[c] < base})
  IN  IF stop = 1 THEN Error ELSE Read("int", Numeral(Before(digits, stop), base), j)

Negated(r) == [r EXCEPT !.value = -@]

(***************************************************************************)
(* A double is its sign and the digits and the exponent of the decimal     *)
(* d.ddd * 10^exponent it stands for, without zeros at the end; infinity   *)
(* and NaN have their name for the digits.  Which of the decimals of up to *)
(* 17 digits that is, is the library's: here, the one that is read.        *)
(***************************************************************************)
Double(negative, digits, exponent) == [negative |-> negative, digits |-> digits, exponent |-> exponent]

stod(v) ==
  LET from == IF v[1] \in {"-", "+"} THEN 2 ELSE 1
      point == Behind(v, from, Digit)
      e == Behind(v, from, Digit \cup {"."})
      digits == SubSeq(v, from, point - 1) \o SubSeq(v, point + 1, e - 1)
      first == Behind(digits, 1, {"0"})
      last == CHOOSE k \in 0..Len(digits) : /\ k > 0 => digits[k] # "0"
                                            /\ \A m \in (k + 1)..Len(digits) : digits[m] = "0"
      power == IF e > Len(v) THEN 0
               ELSE IF v[e + 1] = "-" THEN -Numeral(From(v, e + 2), 10)
               ELSE Numeral(From(v, IF v[e + 1] = "+" THEN e + 2 ELSE e + 1), 10)
  IN  Double(v[1] = "-", SubSeq(digits, first, last), IF last = 0 THEN 0 ELSE power + point - from - first)

parse_float(s, end) ==
  Read("float", stod(SelectSeq(Before(s, end), LAMBDA c : c # "_")), end)

eat_exp(s, i) ==
  LET k == eat_sign(s, i) IN IF has_leading_zero(s, k) THEN 0 ELSE eat_digits(s, k, Digit)

Until(s, end) == IF end = 0 THEN Error ELSE parse_float(s, end)

(* From the "." or the "e" of a float on.                                  *)
parse_fraction(s, i) ==
  LET is_exp == At(s, i) \in {"e", "E"}
      j == IF i + 1 > Len(s) THEN 0
           ELSE IF is_exp THEN eat_exp(s, i + 1) ELSE eat_digits(s, i + 1, Digit)
  IN  IF j # 0 /\ ~is_exp /\ At(s, j) \in {"e", "E"} THEN Until(s, eat_exp(s, j + 1))
      ELSE Until(s, j)

parse_number(s) ==
  LET i == eat_sign(s, 1)
      j == eat_digits(s, i, Digit)
      based == eat_digits(s, 3, IF At(s, 2) = "x" THEN Hex ELSE Digit)
  IN  IF At(s, 1) = "0" /\ find_end_of_number(s) # 2 /\ At(s, 2) \in {"x", "o", "b"}
      THEN CASE based = 0 -> Error
             [] based # 0 /\ At(s, 2) = "x" -> parse_int(s, 3, based, 16, <<>>)
             [] based # 0 /\ At(s, 2) = "o" -> parse_int(s, 3, based, 8, <<"0">>)
             [] OTHER -> parse_int(s, 3, based, 2, <<>>)
      ELSE IF has_leading_zero(s, i) THEN Error
      ELSE IF Slice(s, i, 3) \in {<<"i", "n", "f">>, <<"n", "a", "n">>}
      THEN Read("float", Double(At(s, 1) = "-", Slice(s, i, 3), 0), i + 3)
      ELSE CASE j = 0 -> Error
             [] j # 0 /\ At(s, j) \in {".", "e", "E"} -> parse_fraction(s, j)
             [] j # 0 /\ At(s, 1) = "-" -> Negated(parse_int(s, i, j, 10, <<>>))
             [] OTHER -> parse_int(s, i, j, 10, <<>>)

(* What parse_array takes the type of its elements from.                   *)
array_type(s) ==
  determine_value_type(Before(s, Behind(s, 1, Range(s) \ {",", "]", "#"})))

-------------------------------------------------------------------------------
(* Dates and times.  Every part has a fixed number of digits; the values   *)
(* are not checked against any calendar.                                   *)
Digits(s, i, n) == i + n - 1 <= Len(s) /\ \A k \in i..(i + n - 1) : s[k] \in Digit

Value(s, i, n) == Numeral(SubSeq(s, i, i + n - 1), 10)

(* What a fraction adds to microsecond; power gets 0 behind six digits.    *)
Microseconds(s) ==
  FoldLeft(LAMBDA us, c : [value |-> us.value + us.power * digit_value[c], power |-> us.power \div 10],
           [value |-> 0, power |-> 100000], s).value

(* read_time, on the whole of s.                                           *)
read_time(s) ==
  LET time == Before(s, find_end_of_time(s))
      fraction == IF At(time, 9) = "." THEN Behind(time, 10, Digit) ELSE 9
  IN  IF /\ Digits(time, 1, 2) /\ At(time, 3) = ":"
         /\ Digits(time, 4, 2) /\ At(time, 6) = ":" /\ Digits(time, 7, 2)
         /\ fraction > Len(time)
      THEN Read("local time",
                [hour |-> Value(time, 1, 2), minute |-> Value(time, 4, 2), second |-> Value(time, 7, 2),
                 microsecond |-> Microseconds(From(time, 10))],
                Len(time) + 1)
      ELSE Error

parse_time(s) == read_time(s)

(* What may follow the time of an offset_datetime, from place i on; a      *)
(* place behind the text stands for an exception.                          *)
read_offset(s, i) ==
  LET plus == At(s, i) = "+"
      Signed(n) == IF plus THEN n ELSE -n
      Offset_(h, m, it) == [hour_offset |-> h, minute_offset |-> m, it |-> it]
  IN  CASE At(s, i) \in {"+", "-"} ->
             IF Digits(s, i + 1, 2) /\ At(s, i + 3) = ":" /\ Digits(s, i + 4, 2)
             THEN Offset_(Signed(Value(s, i + 1, 2)), Signed(Value(s, i + 4, 2)), i + 6)
             ELSE Offset_(0, 0, 0)
        [] At(s, i) = "Z" -> Offset_(0, 0, i + 1)
        [] OTHER -> Offset_(0, 0, i)

make_local_datetime(ldate, time) == Read("local datetime", ldate @@ time.value, 11 + time.it)

make_offset_datetime(date, dt, offset) ==
  IF offset.it # Len(date) + 1 THEN Error
  ELSE Read("offset datetime",
            dt @@ [hour_offset |-> offset.hour_offset, minute_offset |-> offset.minute_offset],
            offset.it)

(* From the time of a date-and-time on.                                    *)
parse_datetime(date, ldate, time) ==
  CASE time.type = "error" -> Error
    [] time.type # "error" /\ 11 + time.it > Len(date) -> make_local_datetime(ldate, time)
    [] OTHER -> make_offset_datetime(date, ldate @@ time.value, read_offset(date, 11 + time.it))

parse_date_text(date) ==
  LET ldate == [year |-> Value(date, 1, 4), month |-> Value(date, 6, 2), day |-> Value(date, 9, 2)]
  IN  CASE ~(/\ Digits(date, 1, 4) /\ At(date, 5) = "-" /\ Digits(date, 6, 2)
             /\ At(date, 8) = "-" /\ Digits(date, 9, 2)) -> Error
        [] OTHER ->
             CASE Len(date) = 10 -> Read("local date", ldate, 11)
               [] Len(date) > 10 /\ At(date, 11) \notin {"T", " "} -> Error
               [] OTHER -> parse_datetime(date, ldate, read_time(From(date, 12)))

parse_date(s) == parse_date_text(Before(s, find_end_of_date(s)))

-------------------------------------------------------------------------------
(***************************************************************************)
(* Strings on one line.  An escape is a backslash and one character, or a  *)
(* code point in hexadecimal, which is written out in UTF-8; EndOfEscape   *)
(* is the place behind the escape at i, 0 for an exception.                *)
(***************************************************************************)
HexDigits(s, i, n) == i + n - 1 <= Len(s) /\ \A k \in i..(i + n - 1) : s[k] \in Hex

(* Code points past TLC's integers are none of Unicode's.                  *)
parse_hex(s, i, n) ==
  IF n = 8 /\ digit_value[s[i]] > 7 THEN 2147483647 ELSE Numeral(SubSeq(s, i, i + n - 1), 16)

IsScalarValue(codepoint) ==
  ~(codepoint > 55295 /\ codepoint < 57344) /\ codepoint <= 1114111

EndOfUnicode(s, i, n) ==
  IF HexDigits(s, i, n) /\ IsScalarValue(parse_hex(s, i, n)) THEN i + n ELSE 0

EndOfEscape(s, i) ==
  CASE At(s, i + 1) \in {"b", "t", "n", "f", "r", "\"", "\\"} -> i + 2
    [] At(s, i + 1) = "u" -> EndOfUnicode(s, i + 2, 4)
    [] At(s, i + 1) = "U" -> EndOfUnicode(s, i + 2, 8)
    [] OTHER -> 0

(* The place behind the closing delimiter of the literal that begins at 1, *)
(* 0 if it is unterminated.                                                *)
EndOfLiteral(s) ==
  LET delim == At(s, 1)
      end[i \in 2..(Len(s) + 9)] ==
        CASE i > Len(s) -> 0
          [] i <= Len(s) /\ delim = "\"" /\ At(s, i) = "\\" ->
               IF EndOfEscape(s, i) = 0 THEN 0 ELSE end[EndOfEscape(s, i)]
          [] i <= Len(s) /\ At(s, i) = delim -> i + 1
          [] OTHER -> end[i + 1]
  IN  end[2]

LiteralUntil(s, end) == IF end = 0 THEN Error ELSE Read("string", SubSeq(s, 2, end - 2), end)

string_literal(s) == LiteralUntil(s, EndOfLiteral(s))

(***************************************************************************)
(* A string between triple delimiters, which goes on over line ends.  The  *)
(* characters of an escape are kept as they are written.  EndOfLine, at    *)
(* the end of the first line, and Consuming, behind a backslash at the end *)
(* of a line, drop what the value leaves out.                              *)
(***************************************************************************)
Triple(s, i, delim) == Slice(s, i, 3) = <<delim, delim, delim>>

IsFirstLine(s, i) == \A k \in 1..(i - 1) : s[k] # "\n"

EndsLine(s, i) == At(s, i) = "\\" /\ At(s, Behind(s, i + 1, Blank)) \in {"\n", "NUL"}

MultilineUntil(r) == IF r.it = 0 THEN Error ELSE Read("string", r.value, r.it)

parse_multiline_string(s) ==
  LET delim == s[1]
      Put(chars, r) == [r EXCEPT !.value = chars \o @]
      rest[at \in (4..(Len(s) + 10)) \X BOOLEAN] ==
        LET i == at[1]
            consuming == at[2]
        IN  IF i > Len(s) THEN [value |-> <<>>, it |-> 0]
            ELSE IF consuming /\ s[i] \in Blank \cup {"\n"} THEN rest[<<i + 1, TRUE>>]
            ELSE IF s[i] = "\n"
                 THEN Put(IF IsFirstLine(s, i) THEN <<>> ELSE <<"\n">>, rest[<<i + 1, FALSE>>])
            ELSE IF delim = "\"" /\ EndsLine(s, i) THEN rest[<<i + 1, TRUE>>]
            ELSE IF delim = "\"" /\ s[i] = "\\"
                 THEN IF EndOfEscape(s, i) = 0 THEN [value |-> <<>>, it |-> 0]
                      ELSE Put(SubSeq(s, i, EndOfEscape(s, i) - 1), rest[<<EndOfEscape(s, i), FALSE>>])
            ELSE IF Triple(s, i, delim) THEN [value |-> <<>>, it |-> i + 3]
            ELSE Put(<<s[i]>>, rest[<<i + 1, FALSE>>])
  IN  MultilineUntil(rest[<<4, FALSE>>])

parse_string(s) ==
  IF Triple(s, 1, At(s, 1)) THEN parse_multiline_string(s)
  ELSE string_literal(Before(s, Behind(s, 1, Range(s) \ {"\n"})))

(* A codepoint in bytes.                                                   *)
Trail_wide(codepoint, shift) == 128 + ((codepoint \div shift) % 128)

Trail(codepoint, shift) == 128 + ((codepoint \div shift) % 64)

utf8(codepoint) ==
  CASE codepoint <= 127 -> <<codepoint>>
    [] codepoint >= 128 /\ codepoint <= 2047 -> <<192 + ((codepoint \div 64) % 32), Trail(codepoint, 1)>>
    [] codepoint >= 2048 /\ codepoint <= 65535 ->
         <<224 + ((codepoint \div 4096) % 16), Trail(codepoint, 64), Trail(codepoint, 1)>>
    [] OTHER ->
         <<240 + ((codepoint \div 262144) % 8), Trail(codepoint, 4096), Trail(codepoint, 64),
           Trail(codepoint, 1)>>

parse_bool(s) ==
  CASE Slice(s, 1, 4) = <<"t", "r", "u", "e">> -> Read("bool", 1, 5)
    [] Slice(s, 1, 5) = <<"f", "a", "l", "s", "e">> -> Read("bool", 0, 6)
    [] OTHER -> Error

(* Scalars only; TomlDocument has the arrays and the inline tables.        *)
parse_value_of(type, s) ==
  CASE type = "string" -> parse_string(s)
    [] type = "local time" -> parse_time(s)
    [] type \in {"local date", "local datetime", "offset datetime"} -> parse_date(s)
    [] type \in {"int", "float"} -> parse_number(s)
    [] type = "bool" -> parse_bool(s)
    [] OTHER -> Error

parse_value(s) == parse_value_of(determine_value_type(s), s)

(* parse_key_value and eol_or_comment behind a value: the line is accepted *)
(* if only blanks and a comment follow.                                    *)
eol_or_comment(s, r) ==
  IF r.type # "error" /\ At(s, Behind(s, r.it, Blank)) \in {"NUL", "\n", "#"} THEN r ELSE Error

Line(s) == eol_or_comment(s, parse_value(s))

-------------------------------------------------------------------------------
(***************************************************************************)
(* What TOML makes of a line: the type of its value, with the place behind *)
(* it.                                                                     *)
(***************************************************************************)
Dates == {"local date", "local datetime", "offset datetime"}
Types == Dates \cup {"string", "local time", "int", "float", "bool"}

Is(type, v) ==
  CASE type = "string" -> Literal(v)
    [] type = "local time" -> Time(v)
    [] type = "local date" -> Date(v)
    [] type = "local datetime" -> LocalDatetime(v)
    [] type = "offset datetime" -> OffsetDatetime(v)
    [] type = "int" -> Integer(v)
    [] type = "float" -> Float(v)
    [] OTHER -> v \in {<<"t", "r", "u", "e">>, <<"f", "a", "l", "s", "e">>}

Meanings(s) ==
  {m \in Types \X (1..(Len(s) + 1)) :
     /\ At(s, Behind(s, m[2], Blank)) \in {"NUL", "\n", "#"}
     /\ Is(m[1], Before(s, m[2]))}

(* Where cpptoml.h and TOML 0.5 differ.                                    *)
BlankBehindDate(s, m) == m[1] \in Dates /\ At(s, m[2]) = " "
ZeroWithExponent(s, m) == m[1] = "float" /\ At(s, eat_sign(s, 1)) = "0" /\ At(s, eat_sign(s, 1) + 1) = "e"
DigitOutOfBase(v) == Based(v, "o", Digit) \/ Based(v, "b", Digit)

(* By itself; r.it is behind the value.                                    *)
AsInToml(r) ==
  ~Triple(text, 1, At(text, 1)) =>
     IF r.type = "error"
     THEN \A m \in Meanings(text) : BlankBehindDate(text, m) \/ ZeroWithExponent(text, m)
     ELSE \/ /\ <<r.type, r.it>> \in Meanings(text)
             /\ r.type = "int" => r.value = IntegerValue(Before(text, r.it))
          \/ r.type = "int" /\ DigitOutOfBase(Before(text, r.it))

(* As an element of an array.                                              *)
ArrayTypeIsForeseen(r) ==
  r.type # "error" =>
     \/ array_type(text) = r.type
     \/ r.type = "float" /\ \E i \in 1..Len(text) : text[i] \in {"e", "_"}


(* The code point that bytes stand for in UTF-8.                           *)
Decoded(bytes) ==
  LET lead == <<0, 192, 224, 240>>[Len(bytes)]
      number[i \in 1..Len(bytes)] ==
        IF i = 1 THEN bytes[1] - lead ELSE 64 * number[i - 1] + (bytes[i] - 128)
  IN  number[Len(bytes)]

(* In the shortest form.                                                   *)
InUtf8(codepoint, bytes) ==
  /\ Decoded(bytes) = codepoint
  /\ \A k \in 2..Len(bytes) : bytes[k] \in 128..191
  /\ bytes[1] \in <<0..127, 194..223, 224..239, 240..244>>[Len(bytes)]

(* The bytes an escape writes are the UTF-8 of its code point.             *)
EscapesAreUtf8 ==
  \A i \in 1..Len(text), n \in {4, 8} :
     reader = "toml" /\ i > 1 /\ text[i - 1] = (IF n = 4 THEN "u" ELSE "U") /\ EndOfUnicode(text, i, n) # 0 =>
       InUtf8(parse_hex(text, i, n), utf8(parse_hex(text, i, n)))

EndsFirstLine(s, i) == s[i] = "\n" /\ \A k \in 1..(i - 1) : s[k] # "\n"

(* What TOML leaves out: a line end directly behind the delimiter, and a   *)
(* backslash at the end of a line with the blanks and line ends behind it. *)
Trimmed(s, i) ==
  \/ i = 4 /\ EndsFirstLine(s, i)
  \/ /\ s[1] = "\""
     /\ \E k \in 4..i :
           /\ ~Escaped(s, k) /\ EndsLine(s, k)
           /\ AllIn(SubSeq(s, k + 1, i), Blank \cup {"\n"})

(* Where cpptoml.h differs: it also loses the end of a first line that has *)
(* something on it.                                                        *)
Dropped(s, i) == Trimmed(s, i) \/ EndsFirstLine(s, i)

IsTripled == reader = "toml" /\ Triple(text, 1, At(text, 1)) /\ At(text, 1) \in {"\"", "'"}

(* What is kept of s up to place n, behind the first delimiters.           *)
Kept(s, n) ==
  LET kept[i \in 3..Len(s)] ==
        IF i = 3 THEN <<>> ELSE IF Dropped(s, i) THEN kept[i - 1] ELSE Append(kept[i - 1], s[i])
  IN  kept[n]

MultilineAsWritten ==
  IsTripled =>
    \E r \in {parse_multiline_string(text)} :
       r.type # "error" =>
         \E end \in {r.it - 3} :
            /\ r.value = Kept(text, end - 1)
            /\ \A i \in 4..end :
                  Triple(text, i, text[1]) /\ (text[1] = "\"" => ~Escaped(text, i)) <=> i = end

(***************************************************************************)
(* The value of a string over several lines is what stands between the     *)
(* first delimiters and the next that are not escaped, but for what TOML   *)
(* trims and, against TOML, the end of the first line, even if there is    *)
(* text on it.  An escape in a string stands for the UTF-8 of its code     *)
(* point.                                                                  *)
(***************************************************************************)
StringsAreAsWritten == EscapesAreUtf8 /\ MultilineAsWritten
===============================================================================
