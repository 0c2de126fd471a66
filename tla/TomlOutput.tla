------------------------------ MODULE TomlOutput -------------------------------
(***************************************************************************)
(* How cpptoml.h writes a scalar, behind the "=" of a pair: toml_writer's  *)
(* write and the operators << of dates and times.  What was read is        *)
(* written, and should be read again as the same value.                    *)
(*                                                                         *)
(* A byte that is none of the characters a text is made of is the string   *)
(* of its number, as "<<200>>".                                            *)
(***************************************************************************)
EXTENDS TomlValue

Char(byte) ==
  CASE byte = 9 -> "\t" [] byte = 10 -> "\n" [] byte = 12 -> "\f" [] byte = 13 -> "\r"
    [] byte = 32 -> " " [] byte = 34 -> "\"" [] byte = 92 -> "\\" [] OTHER -> ToString(<<byte>>)

(* What the escape at place i of s stands for (parse_escape_code).         *)
escaped(s, i) ==
  LET bytes == utf8(parse_hex(s, i + 2, IF s[i + 1] = "u" THEN 4 ELSE 8))
      c == s[i + 1]
  IN  CASE c = "b" -> <<Char(8)>> [] c = "t" -> <<"\t">> [] c = "n" -> <<"\n">>
        [] c = "f" -> <<"\f">> [] c = "r" -> <<"\r">>
        [] c \in {"u", "U"} -> [k \in 1..Len(bytes) |-> Char(bytes[k])]
        [] OTHER -> <<c>>

(* The characters of a string, of which delim is the delimiter.            *)
Contents(delim, s) ==
  LET from[i \in 1..(Len(s) + 1)] ==
        CASE i > Len(s) -> <<>>
          [] i <= Len(s) /\ s[i] = "\\" /\ delim = "\"" -> escaped(s, i) \o from[EndOfEscape(s, i)]
          [] OTHER -> <<s[i]>> \o from[i + 1]
  IN  from[1]

hex_digit == <<"0", "1", "2", "3", "4", "5", "6", "7", "8", "9", "a", "b", "c", "d", "e", "f">>

(* ss << std::hex << byte                                                  *)
hex(byte) ==
  IF byte < 16 THEN <<hex_digit[byte + 1]>> ELSE <<hex_digit[(byte \div 16) + 1], hex_digit[(byte % 16) + 1]>>

Control == [c \in {Char(byte) : byte \in 0..31} |-> CHOOSE byte \in 0..31 : Char(byte) = c]

escape(c) ==
  CASE c = Char(8) -> <<"\\", "b">> [] c = "\t" -> <<"\\", "t">> [] c = "\n" -> <<"\\", "n">>
    [] c = "\f" -> <<"\\", "f">> [] c = "\r" -> <<"\\", "r">>
    [] c \in {"\"", "\\"} -> <<"\\", c>>
    [] c \in DOMAIN Control \ {Char(8), "\t", "\n", "\f", "\r"} -> <<"\\", "u">> \o hex(Control[c])
    [] OTHER -> <<c>>

escape_string(str) == FlattenSeq([i \in 1..Len(str) |-> escape(str[i])])

-------------------------------------------------------------------------------
(* Numbers, dates and times.                                               *)
Decimals(n) ==
  LET from[m \in 0..n] ==
        IF m < 10 THEN <<hex_digit[m + 1]>> ELSE from[m \div 10] \o <<hex_digit[(m % 10) + 1]>>
  IN  from[n]

Absolute(n) == IF n < 0 THEN -n ELSE n

write_integer(n) == (IF n < 0 THEN <<"-">> ELSE <<>>) \o Decimals(Absolute(n))

(* setw(width), with os.fill('0').                                         *)
setw(width, n) == [i \in 1..(width - Len(Decimals(n))) |-> "0"] \o Decimals(n)

write_local_date(d) == setw(4, d.year) \o <<"-">> \o setw(2, d.month) \o <<"-">> \o setw(2, d.day)

(* As many digits of curr_us as there are up to the last that is not 0.    *)
fraction_from_units(curr_us, power) == Decimals(curr_us)

fraction(curr_us, power) ==
  LET from[us \in 0..curr_us, p \in {100000, 10000, 1000, 100, 10, 1, 0}] ==
        IF us = 0 THEN <<>> ELSE Decimals(us \div p) \o from[us % p, p \div 10]
  IN  from[curr_us, power]

write_local_time(t) ==
  setw(2, t.hour) \o <<":">> \o setw(2, t.minute) \o <<":">> \o setw(2, t.second)
    \o (IF t.microsecond > 0 THEN <<".">> \o fraction(t.microsecond, 100000) ELSE <<>>)

write_zone_offset(zo) ==
  IF zo.hour_offset # 0 \/ zo.minute_offset # 0
  THEN <<IF zo.hour_offset > 0 THEN "+" ELSE "-">> \o setw(2, Absolute(zo.hour_offset)) \o <<":">>
         \o setw(2, Absolute(zo.minute_offset))
  ELSE <<"Z">>

write_local_datetime(dt) == write_local_date(dt) \o <<"T">> \o write_local_time(dt)

write_offset_datetime(dt) == write_local_datetime(dt) \o write_zone_offset(dt)

(***************************************************************************)
(* A double as a stream writes it with showpoint and 17 digits: with an    *)
(* exponent, of two digits at least, if it is less than -4 or more than    *)
(* 16.  The writer then takes a zero from the beginning of the exponent.   *)
(***************************************************************************)
max_digits10 == 17

streamed(v) ==
  LET digits == v.digits \o [i \in 1..(max_digits10 - Len(v.digits)) |-> "0"]
      pointed(n) == SubSeq(digits, 1, n) \o <<".">> \o SubSeq(digits, n + 1, max_digits10)
  IN  CASE Special(v.digits) -> v.digits
        [] v.exponent \in 0..(max_digits10 - 1) -> pointed(v.exponent + 1)
        [] v.exponent \in -4..-1 -> <<"0", ".">> \o [i \in 1..(-1 - v.exponent) |-> "0"] \o digits
        [] OTHER -> pointed(1) \o <<"e", IF v.exponent < 0 THEN "-" ELSE "+">> \o setw(2, Absolute(v.exponent))

(* double_str.replace(double_str.find(found), ..., with)                   *)
replaced(s, found, with) ==
  LET at == {i \in 1..Len(s) : Slice(s, i, Len(found)) = found}
      pos == CHOOSE i \in at : \A k \in at : i <= k
  IN  IF at = {} THEN s ELSE Before(s, pos) \o with \o From(s, pos + Len(found))

write_float(v) ==
  replaced(replaced((IF v.negative THEN <<"-">> ELSE <<>>) \o streamed(v), <<"e", "0">>, <<"e">>),
           <<"e", "-", "0">>, <<"e", "-">>)

write_bool(b) == IF b = 1 THEN <<"t", "r", "u", "e">> ELSE <<"f", "a", "l", "s", "e">>

write_string(str) == <<"\"">> \o escape_string(str) \o <<"\"">>

(* The visit of a value.                                                   *)
write(type, v) ==
  CASE type = "string" -> write_string(v)
    [] type = "int" -> write_integer(v)
    [] type = "float" -> write_float(v)
    [] type = "bool" -> write_bool(v)
    [] type = "local date" -> write_local_date(v)
    [] type = "local time" -> write_local_time(v)
    [] type = "local datetime" -> write_local_datetime(v)
    [] type = "offset datetime" -> write_offset_datetime(v)

-------------------------------------------------------------------------------
(* What line r of s has for a value.                                       *)
ValueOfLine(s, r) == IF r.type = "string" THEN Contents(s[1], r.value) ELSE r.value

(* What the writer gets wrong: a control character is written with one or  *)
(* two digits instead of four, and is refused, or taken together with the  *)
(* characters behind it for another one, if they are hexadecimal digits;   *)
(* a number from 10^16 to 10^17 ends with its point; and an offset of some *)
(* minutes east of Greenwich, but less than an hour, is to the west.       *)
Controls(str) == {i \in 1..Len(str) : Len(escape(str[i])) \in {3, 4}}
IsMistaken(str, i) == HexDigits(str, i + 1, 6 - Len(escape(str[i])))
EndsWithPoint(v) == ~Special(v.digits) /\ v.exponent = max_digits10 - 1
EastOfGreenwich(dt) == dt.hour_offset = 0 /\ dt.minute_offset > 0

IsReadAgain(type, v) ==
  \E written \in {write(type, v)} :
    \E again \in {Line(written)} :
       CASE type = "string" /\ Controls(v) # {} ->
              IF \A i \in Controls(v) : IsMistaken(v, i)
              THEN again.type = "string" /\ ValueOfLine(written, again) # v
              ELSE again.type = "error"
         [] type = "float" /\ EndsWithPoint(v) -> again.type = "error"
         [] type = "offset datetime" /\ EastOfGreenwich(v) -> ValueOfLine(written, again) # v
         [] OTHER -> /\ again.type = type /\ again.it = Len(written) + 1
                     /\ ValueOfLine(written, again) = v

(***************************************************************************)
(* What is written for a value that was read is read as the same value of  *)
(* the same type, but for the three cases above.                           *)
(***************************************************************************)
WrittenIsReadAgain ==
  reader = "toml" =>
    \E r \in {Line(text)} :
       r.type # "error" => IsReadAgain(r.type, ValueOfLine(text, r))
===============================================================================
