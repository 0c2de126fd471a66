----------------------------- MODULE FormatString -----------------------------
(***************************************************************************)
(* The formatting library of the logger (fmt/bundled/core.h, format.h):    *)
(* how a format string such as "****{},{}****" is read, and what is        *)
(* written for it.  An argument is a record                                *)
(*   type   its type,                                                      *)
(*   value  its number (a code for a char, 0 or 1 for a bool),             *)
(*   chars  its characters (of a char, a string, or of a double without    *)
(*          its sign: the digits themselves are made elsewhere),           *)
(*   name   its name, <<>> if it has none.                                 *)
(* Whatever throws a format_error makes the state bad.                     *)
(***************************************************************************)
EXTENDS TextEdit

CONSTANTS
  Arguments,   \* the sequences of arguments that may be formatted
  MaxInt       \* the largest int

ASSUME MaxIntAssumption == MaxInt \in Nat /\ MaxInt >= 9

NameStart == {"a", "b", "c", "d", "x", "_"}
Integral == {"int", "uint", "bool", "char"}
Arithmetic == Integral \cup {"double"}

DefaultSpecs ==
  [fill |-> " ", align |-> "", sign |-> "", hash |-> FALSE, width |-> 0,
   precision |-> -1, type |-> ""]

(* What has been put out: how much room was made for it, and it.           *)
Nothing == [size |-> 0, chars |-> <<>>]
Wrote(size, chars) == [size |-> size, chars |-> chars]
Put(w1, w2) == [size |-> w1.size + w2.size, chars |-> w1.chars \o w2.chars]

(* The parse_context, the argument at hand and its specs.                  *)
Begin ==
  [it |-> 1, next_arg_id |-> 0, arg |-> 0, specs |-> DefaultSpecs, out |-> Nothing, bad |-> FALSE]

on_error(st) == [st EXCEPT !.bad = TRUE]
Require(st, condition) == IF condition THEN st ELSE on_error(st)

-------------------------------------------------------------------------------
(* Arguments, counted from 0 as in the source.                             *)
do_get_arg(args, st, arg_id) ==
  Require([st EXCEPT !.arg = arg_id + 1], arg_id < Len(args))

next_arg(args, st) ==
  IF st.next_arg_id < 0 THEN on_error(st)
  ELSE do_get_arg(args, [st EXCEPT !.next_arg_id = @ + 1], st.next_arg_id)

check_arg_id_late(st) == [st EXCEPT !.next_arg_id = -1]

check_arg_id(st) == Require([st EXCEPT !.next_arg_id = -1], ~st.next_arg_id > 0)

get_arg(args, st, name) ==
  LET named == {i \in 1..Len(args) : args[i].name = name}
  IN  IF named = {} THEN on_error(st)
      ELSE [st EXCEPT !.arg = CHOOSE i \in named : \A j \in named : i <= j]

(* One more than MaxInt stands for every number that is too big.           *)
parse_nonnegative_int(s, i) ==
  LET j == Behind(s, i, Digit)
      value[k \in i..j] ==
        IF k = i THEN 0
        ELSE IF value[k - 1] > MaxInt \div 10 THEN MaxInt + 1
        ELSE 10 * value[k - 1] + digit_value[s[k - 1]]
  IN  value[j]

parse_arg_id(s, args, st) ==
  LET i == st.it
      c == At(s, i)
      index == parse_nonnegative_int(s, i)
      number == Behind(s, i, Digit)
      name == Behind(s, i, NameStart \cup Digit)
  IN  CASE c \in {"}", ":"} -> next_arg(args, st)
        [] c \in Digit ->
             IF index > MaxInt \/ At(s, number) \notin {"}", ":"} THEN on_error(st)
             ELSE LET checked == check_arg_id([st EXCEPT !.it = number])
                  IN  IF checked.bad THEN checked ELSE do_get_arg(args, checked, index)
        [] c \in NameStart -> get_arg(args, [st EXCEPT !.it = name], SubSeq(s, i, name - 1))
        [] OTHER -> on_error(st)

-------------------------------------------------------------------------------
(***************************************************************************)
(* Format specs: [[fill]align][sign][#][0][width][.precision][type], each  *)
(* part read from st.it on, and checked against the type of the argument.  *)
(***************************************************************************)
Align == {"<", ">", "=", "^"}

require_numeric_argument(arg, st) == Require(st, arg.type \in Arithmetic)

check_sign(arg, st) == Require(st, arg.type \in {"int", "char", "double"})

on_align(arg, st, align) ==
  LET aligned == [st EXCEPT !.specs.align = align]
  IN  IF align = "=" THEN require_numeric_argument(arg, aligned) ELSE aligned

parse_align(s, arg, st) ==
  LET c == At(s, st.it)
  IN  IF At(s, st.it + 1) \in Align
      THEN Require(on_align(arg, [st EXCEPT !.specs.fill = c, !.it = @ + 2], At(s, st.it + 1)), c # "{")
      ELSE IF c \in Align THEN on_align(arg, [st EXCEPT !.it = @ + 1], c)
      ELSE st

parse_sign(s, arg, st) ==
  LET c == At(s, st.it)
  IN  IF c \in {"+", "-", " "}
      THEN check_sign(arg, [st EXCEPT !.specs.sign = c, !.it = @ + 1]) ELSE st

parse_hash(s, arg, st) ==
  IF At(s, st.it) = "#"
  THEN require_numeric_argument(arg, [st EXCEPT !.specs.hash = TRUE, !.it = @ + 1]) ELSE st

(* on_zero                                                                 *)
parse_zero(s, arg, st) ==
  IF At(s, st.it) = "0"
  THEN require_numeric_argument(arg, [st EXCEPT !.specs.align = "=", !.specs.fill = "0", !.it = @ + 1])
  ELSE st

(* The width or the precision at st.it: a number, or the argument that a   *)
(* replacement field of its own names.                                     *)
set_dynamic_spec(args, st) ==
  LET arg == args[st.arg] IN arg.type \in {"int", "uint"} /\ arg.value \in 0..MaxInt

DynamicCount(s, args, arg, named) ==
  LET taken == ~named.bad /\ At(s, named.it) = "}" /\ set_dynamic_spec(args, named)
  IN  [st |-> Require([named EXCEPT !.it = @ + 1, !.arg = arg], taken),
       value |-> IF taken THEN args[named.arg].value ELSE 0]

Count(s, args, st) ==
  IF At(s, st.it) = "{"
  THEN DynamicCount(s, args, st.arg, parse_arg_id(s, args, [st EXCEPT !.it = @ + 1]))
  ELSE LET number == parse_nonnegative_int(s, st.it)
       IN  [st |-> Require([st EXCEPT !.it = Behind(s, @, Digit)], number <= MaxInt), value |-> number]

on_width(width) == [width.st EXCEPT !.specs.width = width.value]

parse_width(s, args, st) ==
  IF At(s, st.it) \notin Digit \cup {"{"} THEN st ELSE on_width(Count(s, args, st))

on_precision(precision) == [precision.st EXCEPT !.specs.precision = precision.value]

end_precision(arg, st) == Require(st, arg.type \notin Integral \cup {"pointer"})

parse_precision(s, args, st) ==
  IF st.bad \/ At(s, st.it) # "." THEN st
  ELSE IF At(s, st.it + 1) \notin Digit \cup {"{"} THEN on_error(st)
  ELSE end_precision(args[st.arg], on_precision(Count(s, args, [st EXCEPT !.it = @ + 1])))

parse_type(s, st) ==
  IF st.bad \/ At(s, st.it) \in {"}", "NUL"} THEN st
  ELSE [st EXCEPT !.specs.type = At(s, st.it), !.it = @ + 1]

parse_format_specs(s, args, st) ==
  LET arg == args[st.arg]
  IN  IF At(s, st.it) \in {"}", "NUL"} THEN st
      ELSE parse_type(s,
             parse_precision(s, args,
               parse_width(s, args,
                 parse_zero(s, arg,
                   parse_hash(s, arg,
                     parse_sign(s, arg,
                       parse_align(s, arg, st)))))))

-------------------------------------------------------------------------------
(***************************************************************************)
(* What is written for an argument.  Room is made first, for the size that *)
(* was counted, and then filled.                                           *)
(***************************************************************************)
Fill(n, c) == [i \in 1..n |-> c]

write_padded(size, specs, chars) ==
  LET padding == specs.width - size
      left == CASE specs.align = ">" -> padding [] specs.align = "^" -> padding \div 2 [] OTHER -> 0
  IN  IF specs.width <= size THEN Wrote(size, chars)
      ELSE Wrote(specs.width, Fill(left, specs.fill) \o chars \o Fill(padding - left, specs.fill))

OrRight(specs) == IF specs.align = "" THEN [specs EXCEPT !.align = ">"] ELSE specs

write_int_without_prefix(num_digits, prefix, specs, digits) ==
  LET padding == IF specs.align = "=" /\ specs.width > num_digits THEN specs.width - num_digits ELSE 0
  IN  write_padded(num_digits + padding, OrRight(specs), prefix \o Fill(padding, specs.fill) \o digits)

write_int(num_digits, prefix, specs, digits) ==
  LET size == Len(prefix) + num_digits
      padding == CASE specs.align = "=" -> IF specs.width > size THEN specs.width - size ELSE 0
                   [] specs.align # "=" /\ specs.precision > num_digits -> specs.precision - num_digits
                   [] OTHER -> 0
      fill == IF specs.align = "=" THEN specs.fill ELSE "0"
  IN  write_padded(size + padding, OrRight(specs), prefix \o Fill(padding, fill) \o digits)

DigitChar == <<"0", "1", "2", "3", "4", "5", "6", "7", "8", "9", "a", "b", "c", "d", "e", "f">>
UpperDigitChar == [DigitChar EXCEPT ![11] = "A", ![12] = "B", ![13] = "C", ![14] = "D", ![15] = "E", ![16] = "F"]

(* How often n can be divided by base.                                     *)
count_digits(n, base) ==
  LET count[m \in 0..n] == IF m < base THEN 1 ELSE 1 + count[m \div base] IN count[n]

(* format_uint, format_decimal: from the last digit on.                    *)
format_uint(n, base, digits) ==
  LET from[m \in 0..n] ==
        IF m < base THEN <<digits[m + 1]>> ELSE Append(from[m \div base], digits[(m % base) + 1])
  IN  from[n]

(* A separator behind every third digit, from the last one on, but not     *)
(* before the first.                                                       *)
add_thousands_sep(digits) ==
  LET from[i \in 0..Len(digits)] ==
        IF i = 0 THEN <<>>
        ELSE from[i - 1] \o (IF i > 1 /\ (Len(digits) - i + 1) % 3 = 0
                            THEN <<",", digits[i]>> ELSE <<digits[i]>>)
  IN  from[Len(digits)]

(* int_writer, and the cases of handle_int_type_spec; of the octal prefix  *)
(* on_oct says that it "is counted as a digit".                            *)
Sign(negative, specs) ==
  CASE negative -> <<"-">> [] ~negative /\ specs.sign \in {"+", " "} -> <<specs.sign>> [] OTHER -> <<>>

num_size(num_digits) == num_digits + (num_digits - 1) \div 3

IntTypes == {"", "d", "x", "X", "b", "B", "o", "n"}

int_writer(value, specs) ==
  LET n == IF value < 0 THEN -value ELSE value
      sign == Sign(value < 0, specs)
      base == CASE specs.type \in {"x", "X"} -> 16 [] specs.type \in {"b", "B"} -> 2
                [] specs.type = "o" -> 8 [] OTHER -> 10
      num_digits == count_digits(n, base)
      prefix == CASE ~specs.hash \/ base = 10 -> <<>>
                  [] specs.hash /\ base \in {2, 16} -> <<"0", specs.type>>
                  [] OTHER -> IF specs.precision <= num_digits THEN <<"0">> ELSE <<>>
      digits == format_uint(n, base, IF specs.type = "X" THEN UpperDigitChar ELSE DigitChar)
  IN  IF specs.type = "n" THEN write_int(num_size(num_digits), sign, specs, add_thousands_sep(digits))
      ELSE write_int(num_digits, sign \o prefix, specs, digits)

write_str(chars, specs) ==
  LET size == IF specs.precision \in 0..Len(chars) THEN specs.precision ELSE Len(chars)
  IN  write_padded(size, specs, SubSeq(chars, 1, size))

(* The digits of arg are external; those of inf and nan are letters.       *)
write_double(arg, specs) ==
  LET sign == Sign(arg.value < 0, specs)
      n == Len(arg.chars)
      rest == IF specs.width > 0 /\ sign # <<>> THEN specs.width - 1 ELSE specs.width
  IN  CASE arg.chars[1] \notin Digit -> write_padded(n + Len(sign), specs, sign \o arg.chars)
        [] arg.chars[1] \in Digit /\ specs.align = "=" ->
             Put(Wrote(Len(sign), sign), write_padded(n, [specs EXCEPT !.align = ">", !.width = rest], arg.chars))
        [] OTHER -> write_padded(n + Len(sign), OrRight(specs), sign \o arg.chars)

write_pointer(arg, specs) == int_writer(arg.value, [specs EXCEPT !.hash = TRUE, !.sign = "", !.type = "x"])

(* Which types of specs an argument takes, and the arg_formatter_base.     *)
Takes(arg, specs) ==
  CASE arg.type \in {"int", "uint", "bool"} -> specs.type \in IntTypes
    [] arg.type = "char" ->
         IF specs.type \notin {"", "c"} THEN specs.type \in IntTypes
         ELSE specs.align # "=" /\ specs.sign = "" /\ ~specs.hash
    [] arg.type = "double" -> specs.type \in {"", "g", "G", "e", "E", "f", "F", "a", "A"}
    [] arg.type = "string" -> specs.type \in {"", "s"}
    [] arg.type = "cstring" -> specs.type \in {"", "s", "p"}
    [] OTHER -> specs.type \in {"", "p"}

arg_formatter(arg, specs) ==
  CASE \/ arg.type \in {"int", "uint"}
       \/ arg.type = "char" /\ specs.type \notin {"", "c"}
       \/ arg.type = "bool" /\ specs.type # "" -> int_writer(arg.value, specs)
    [] arg.type = "bool" /\ specs.type = "" ->
         write_str(IF arg.value = 1 THEN <<"t", "r", "u", "e">> ELSE <<"f", "a", "l", "s", "e">>, specs)
    [] arg.type = "char" /\ specs.type \in {"", "c"} -> write_padded(1, specs, arg.chars)
    [] arg.type = "double" -> write_double(arg, specs)
    [] arg.type = "pointer" \/ (arg.type = "cstring" /\ specs.type = "p") -> write_pointer(arg, specs)
    [] OTHER -> write_str(arg.chars, specs)

(* on_replacement_field, with DefaultSpecs, and the end of on_format_specs *)
on_replacement_field(args, st) ==
  IF st.bad \/ ~Takes(args[st.arg], st.specs) THEN on_error(st)
  ELSE [st EXCEPT !.out = Put(@, arg_formatter(args[st.arg], st.specs)), !.it = @ + 1,
                  !.specs = DefaultSpecs]

-------------------------------------------------------------------------------
(***************************************************************************)
(* parse_format_string: text up to the next "{" (the writer in it takes    *)
(* "}}" for "}" and throws at any other "}"), then what the "{" begins.    *)
(***************************************************************************)
on_text(text_, st) ==
  LET from[i \in 1..(Len(text_) + 2)] ==
        CASE i > Len(text_) -> <<>>
          [] i <= Len(text_) /\ text_[i] # "}" -> <<text_[i]>> \o from[i + 1]
          [] OTHER -> <<"}">> \o from[i + 2]
      braces == {i \in 1..Len(text_) : text_[i] = "}"}
      Run(i) == Behind(text_, i, {"}"}) - i
  IN  Require([st EXCEPT !.out = Put(@, Wrote(Len(from[1]), from[1])), !.it = @ + Len(text_)],
              \A i \in braces : i - 1 \notin braces => Run(i) % 2 = 0)

EndsAtBrace(s, st) == Require(st, At(s, st.it) = "}")

AfterArgId(s, args, st) ==
  IF st.bad \/ At(s, st.it) \notin {"}", ":"} THEN on_error(st)
  ELSE on_replacement_field(args,
         IF At(s, st.it) = "}" THEN st
         ELSE EndsAtBrace(s, parse_format_specs(s, args, [st EXCEPT !.it = @ + 1])))

Field(s, args, st) == AfterArgId(s, args, parse_arg_id(s, args, st))

(* Once around its loop.                                                   *)
Onwards(s, args, st) ==
  LET p == Behind(s, st.it, Range(s) \ {"{"})
      st1 == on_text(SubSeq(s, st.it, p - 1), st)
      inside == [st1 EXCEPT !.it = p + 1]
  IN  CASE st.bad \/ st.it > Len(s) -> st
        [] ~(st.bad \/ st.it > Len(s)) /\ p > Len(s) -> st1
        [] OTHER ->
             CASE At(s, p + 1) = "NUL" -> on_error(inside)
               [] At(s, p + 1) = "{" ->
                    [inside EXCEPT !.out = Put(@, Wrote(1, <<"{">>)), !.it = @ + 1]
               [] OTHER -> IF st1.bad THEN st1 ELSE Field(s, args, inside)

(* Every round reads a character at least.                                 *)
parse_format_string(s, args) ==
  LET after[n \in 0..Len(s)] == IF n = 0 THEN Begin ELSE Onwards(s, args, after[n - 1])
  IN  after[Len(s)]

vformat_to(s, args) == parse_format_string(s, args)

-------------------------------------------------------------------------------
(***************************************************************************)
(* What a format string should mean, from the syntax alone.  An opening is *)
(* a "{" that is not one of "{{"; its id is what follows up to a "}" or    *)
(* ":".  The k-th opening of a string without ids is about argument k.     *)
(***************************************************************************)
Openings(s) ==
  {i \in 1..Len(s) :
     /\ s[i] = "{" /\ At(s, i + 1) # "{"
     /\ \E r \in 1..i : (i - r) % 2 = 0 /\ At(s, r - 1) # "{" /\ AllIn(SubSeq(s, r, i), {"{"})}

Id(s, i) == SubSeq(s, i + 1, Behind(s, i + 1, Range(s) \ {"}", ":"}) - 1)

IsNumber(id) == id # <<>> /\ AllIn(id, Digit)

Numbered(s) == {i \in Openings(s) : IsNumber(Id(s, i))}
Unnumbered(s) == {i \in Openings(s) : Id(s, i) = <<>>}

(* The number of the argument, 0 if there is none.                         *)
Meant(s, args, i) ==
  LET id == Id(s, i)
      named == {k \in 1..Len(args) : id # <<>> /\ args[k].name = id}
      k == CASE id = <<>> -> Cardinality({j \in Unnumbered(s) : j <= i})
             [] IsNumber(id) -> Numeral(id, 10) + 1
             [] OTHER -> IF named = {} THEN 0 ELSE Min(named)
  IN  IF k \in 1..Len(args) THEN k ELSE 0

(* Where the field that opens at i ends, 0 if it does not.                 *)
Closing(s, i) ==
  LET Depth(j) == Cardinality({k \in i..j : s[k] = "{"}) - Cardinality({k \in i..j : s[k] = "}"})
      ends == {j \in i..Len(s) : Depth(j) = 0}
  IN  IF ends = {} THEN 0 ELSE Min(ends)

(* The openings of the fields of s, 0 for what is neither text nor a field *)
Fields(s) ==
  LET from[i \in 1..(Len(s) + 2)] ==
        CASE i > Len(s) -> {}
          [] i <= Len(s) /\ At(s, i) \notin {"{", "}"} -> from[i + 1]
          [] i <= Len(s) /\ At(s, i) \in {"{", "}"} /\ At(s, i + 1) = At(s, i) -> from[i + 2]
          [] OTHER -> IF s[i] = "}" \/ Closing(s, i) = 0 THEN {0} ELSE {i} \cup from[Closing(s, i) + 1]
  IN  from[1]

(* The width or the precision that c, which begins at place i, stands for. *)
IsDynamic(s, args, c, i) ==
  /\ c # <<>> /\ c[1] = "{" /\ c[Len(c)] = "}" /\ Len(Id(s, i)) = Len(c) - 2
  /\ Meant(s, args, i) # 0 /\ args[Meant(s, args, i)].type \in {"int", "uint"}

Amount(s, args, c, i) ==
  CASE c = <<>> -> 0 [] IsNumber(c) -> Numeral(c, 10) [] OTHER -> args[Meant(s, args, i)].value

IsAmount(s, args, c, i) ==
  (IsNumber(c) \/ IsDynamic(s, args, c, i)) /\ Amount(s, args, c, i) \in 0..MaxInt

(* Some reading of places i to j - 1 of s as specs satisfies Ok.           *)
Specified(s, args, i, j, Ok(_)) ==
  LET C(k) == IF k < j THEN At(s, k) ELSE "NUL"
  IN  \E a \in i..Min({i + 2, j}) :
     /\ a > i => s[a - 1] \in Align /\ (a = i + 2 => s[i] # "{")
     /\ a = i => s[i] \notin Align /\ C(i + 1) \notin Align
     /\ a = i + 1 => C(i + 1) \notin Align
     /\ \E b \in a..Min({a + 1, j}) :
          /\ b > a <=> C(a) \in {"+", "-", " "}
          /\ \E h \in b..Min({b + 1, j}) :
               /\ h > b <=> C(b) = "#"
               /\ \E z \in h..Min({h + 1, j}), w \in h..j :
                    /\ z > h <=> C(h) = "0"
                    /\ w > z <=> C(z) \in Digit \cup {"{"}
                    /\ w >= z
                    /\ w > z => IsAmount(s, args, SubSeq(s, z, w - 1), z)
                    /\ C(w) \notin Digit
                    /\ \E p \in {w} \cup (w + 2)..j :
                         /\ p > w <=> C(w) = "."
                         /\ p > w => IsAmount(s, args, SubSeq(s, w + 1, p - 1), w + 1)
                         /\ j - p <= 1 /\ ~(p > w /\ C(p) \in Digit)
                         /\ Ok([fill |-> CASE z > h -> "0" [] z = h /\ a = i + 2 -> s[i] [] OTHER -> " ",
                                align |-> CASE z > h -> "=" [] z = h /\ a > i -> s[a - 1] [] OTHER -> "",
                                numeric |-> a > i /\ s[a - 1] = "=",
                                sign |-> IF b > a THEN s[a] ELSE "",
                                hash |-> h > b,
                                width |-> Amount(s, args, SubSeq(s, z, w - 1), z),
                                precision |-> IF p = w THEN -1 ELSE Amount(s, args, SubSeq(s, w + 1, p - 1), w + 1),
                                type |-> IF p = j THEN "" ELSE s[p]])

(* Whether specs fit an argument.                                          *)
Fits(specs, arg) ==
  /\ specs.hash \/ specs.numeric \/ specs.align = "=" => arg.type \in Arithmetic
  /\ specs.sign # "" => arg.type \in {"int", "char", "double"}
  /\ specs.precision # -1 => arg.type \in {"string", "cstring", "double"}
  /\ specs.type # "" =>
       specs.type \in CASE arg.type \in {"int", "uint", "bool"} -> IntTypes
                       [] arg.type = "char" -> IntTypes \cup {"c"}
                       [] arg.type = "double" -> {"e", "E", "f", "F", "g", "G", "a", "A"}
                       [] arg.type = "string" -> {"s"}
                       [] arg.type = "cstring" -> {"s", "p"}
                       [] OTHER -> {"p"}
  /\ arg.type = "char" /\ specs.type \in {"", "c"} =>
       ~specs.hash /\ specs.sign = "" /\ specs.align # "="

(* The place of the first spec of the field that opens at i.               *)
SpecsOf(s, i) ==
  LET colon == i + Len(Id(s, i)) + 1 IN IF At(s, colon) = ":" THEN colon + 1 ELSE colon

IsId(id) == id = <<>> \/ IsNumber(id) \/ (id[1] \in NameStart /\ AllIn(id, NameStart \cup Digit))

FieldMeans(s, args, i, Ok(_)) ==
  /\ IsId(Id(s, i)) /\ Meant(s, args, i) # 0
  /\ Specified(s, args, SpecsOf(s, i), Closing(s, i), Ok)

(***************************************************************************)
(* A format string is accepted, and formatted without an exception, if and *)
(* only if it is text and fields, its ids are all there or all left out,   *)
(* there is an argument for each, and each field's specs fit its argument. *)
(***************************************************************************)
FormatAccepts ==
  reader = "fmt" =>
    \A args \in Arguments :
       ~vformat_to(text, args).bad <=>
         /\ Numbered(text) = {} \/ Unnumbered(text) = {}
         /\ \A i \in Fields(text) :
              i # 0 /\ FieldMeans(text, args, i, LAMBDA specs : Fits(specs, args[Meant(text, args, i)]))

(* Whether digits stand for n, commas aside.                               *)
Reads(digits, base, n) ==
  LET d == SelectSeq(digits, LAMBDA c : c # ",")
      from[i \in 0..Len(d), m \in 0..n] ==
        IF i = 0 THEN m = 0 ELSE digit_value[d[i]] = m % base /\ from[i - 1, m \div base]
  IN  from[Len(d), n]

(* The n of a type "n" is read with its commas.                            *)
InGroups(digits) ==
  \A i \in 1..Len(digits) : digits[i] = "," <=> i > 1 /\ (Len(digits) - i + 1) % 4 = 0

(* What is to be written for a number, between the padding.                *)
IsNumeral(prefix, digits, specs, arg) ==
  LET type == IF arg.type \in {"pointer", "cstring"} THEN "x" ELSE specs.type
      hash == specs.hash \/ arg.type \in {"pointer", "cstring"}
      base == CASE type \in {"x", "X"} -> 16 [] type \in {"b", "B"} -> 2 [] type = "o" -> 8 [] OTHER -> 10
      sign == CASE arg.value < 0 -> <<"-">>
                [] arg.value >= 0 /\ specs.sign \in {"+", " "} -> <<specs.sign>>
                [] OTHER -> <<>>
      numeral == CASE ~hash -> <<>> [] hash /\ base \in {2, 16} -> <<"0", type>>
                   [] hash /\ base = 8 -> <<"0">> [] OTHER -> <<>>
  IN  /\ prefix = sign \o numeral
      /\ digits # <<>> /\ AllIn(digits, Hex \cup {","}) /\ (digits[1] = "0" => Len(digits) \in {1, specs.precision})
      /\ Reads(digits, base, IF arg.value < 0 THEN -arg.value ELSE arg.value)
      /\ IF type = "n" THEN InGroups(digits) ELSE \A i \in 1..Len(digits) : digits[i] # ","

(* Whether chars are arg as specs want it: what stands for it, filled up   *)
(* to the width on the side that the alignment leaves; "=" fills between   *)
(* the sign or the prefix of a number and its digits.  For inf and nan the *)
(* reference takes the code's side: "=" and "0" fill behind them ("inf00").*)
Shows(chars, specs, arg) ==
  LET isNumber == \/ arg.type \in {"int", "uint", "pointer"}
                  \/ arg.type \in {"bool", "char"} /\ specs.type \notin {"", "c"}
                  \/ arg.type = "cstring" /\ specs.type = "p"
      isDouble == arg.type = "double"
      finite == isDouble /\ arg.chars[1] \in Digit
      align == CASE specs.align \in {"<", ">", "^"} -> specs.align
                 [] specs.align = "=" /\ (isNumber \/ finite) -> "="
                 [] specs.align = "" /\ (isNumber \/ finite) -> ">"
                 [] OTHER -> "<"
      Body(from, fill, to) ==   \* fill from the place behind the prefix
        \E n \in from..Min({from + 3, to + 1}) :
           LET prefix == SubSeq(chars, from, n - 1)
               zeros == SubSeq(chars, n, n + fill - 1)
               digits == SubSeq(chars, n + fill, to)
           IN  /\ n + fill - 1 <= to /\ AllIn(zeros, {specs.fill})
               /\ CASE isNumber -> IsNumeral(prefix, digits, specs, arg)
                    [] isDouble -> prefix = Sign(arg.value < 0, specs) /\ digits = arg.chars
                    [] arg.type = "bool" /\ ~isNumber ->
                         prefix = <<>> /\ digits = IF arg.value = 1 THEN <<"t", "r", "u", "e">>
                                                   ELSE <<"f", "a", "l", "s", "e">>
                    [] OTHER ->
                         prefix = <<>> /\ digits = IF specs.precision \in 0..Len(arg.chars)
                                                   THEN SubSeq(arg.chars, 1, specs.precision) ELSE arg.chars
  IN  \E padding \in 0..specs.width :
        LET left == CASE align = ">" -> padding [] align = "^" -> padding \div 2 [] OTHER -> 0
            between == IF align = "=" THEN padding ELSE 0
            right == padding - left - between
        IN  /\ Len(chars) >= specs.width /\ (padding > 0 => Len(chars) = specs.width)
            /\ AllIn(SubSeq(chars, 1, left), {specs.fill})
            /\ AllIn(SubSeq(chars, Len(chars) - right + 1, Len(chars)), {specs.fill})
            /\ Body(left + 1, between, Len(chars) - right)

(***************************************************************************)
(* What is written fills exactly the room that was made for it, and shows  *)
(* the argument: at least as wide as asked for, aligned as asked for, and  *)
(* with digits that read back as its value.                                *)
(***************************************************************************)
WrittenAsSpecified ==
  reader = "fmt" =>
    \A args \in Arguments :
       \E st \in {vformat_to(text, args)} :
          ~st.bad =>
             /\ st.out.size = Len(st.out.chars)
             /\ 1 \in Fields(text) /\ Closing(text, 1) = Len(text) =>
                  FieldMeans(text, args, 1,
                    LAMBDA specs : Shows(st.out.chars, specs, args[Meant(text, args, 1)]))
===============================================================================
