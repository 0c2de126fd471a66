--------------------------- MODULE PatternFormatter ---------------------------
(***************************************************************************)
(* The lines of the log (spdlog/details/pattern_formatter.h): a pattern is *)
(* compiled to a sequence of formatters, and every message runs through    *)
(* them.  Two things are kept from message to message: the calendar time   *)
(* of the last second, and, in the formatter of the default pattern "%+",  *)
(* the characters of the date.                                             *)
(*                                                                         *)
(* A message has its time, secs and nanos, the calendar time tm that the   *)
(* operating system makes of it, and a name, a level, a thread, an id and  *)
(* a text.  A word such as the name of a month is one character here.      *)
(***************************************************************************)
EXTENDS FormatString

CONSTANTS
  Messages,    \* what is logged
  MaxHistory   \* bound: how many messages one formatter is given

(* What os::localtime makes of a time.                                     *)
CalendarTimes ==
  [year : Nat, mon : 0..11, mday : 1..31, hour : 0..23, min : 0..59, sec : 0..60, wday : 0..6, offset : Int]

(* The clock is behind 1970 and the operating system makes one calendar    *)
(* time of a time: the time zone does not change while messages are logged.*)
ASSUME MessagesAssumption ==
  /\ \A msg \in Messages :
       /\ msg.secs \in Nat \ {0} /\ msg.nanos \in Nat /\ msg.nanos < 1000000000 /\ msg.tm \in CalendarTimes
       /\ msg.name \in Seq(STRING) /\ msg.raw \in Seq(STRING)
       /\ msg.level \in STRING /\ msg.short_level \in STRING
       /\ msg.thread_id \in Nat /\ msg.pid \in Nat /\ msg.id \in Nat
  /\ \A m1, m2 \in Messages : m1.secs = m2.secs => m1.tm = m2.tm

ASSUME MaxHistoryAssumption == MaxHistory \in Nat

append_int(n) == format_uint(n, 10, DigitChar)

pad(n, width) == Fill(width - Len(append_int(n)), "0") \o append_int(n)

pad2(n) == pad(n, 2)
pad3(n) == pad(n, 3)
pad6(n) == IF n > 99999 THEN append_int(n) ELSE pad3(n \div 1000) \o pad3(n % 1000)

(* time_fraction                                                           *)
millis(msg) == msg.nanos \div 1000000
micros(msg) == msg.nanos \div 1000

ampm(tm) == IF tm.hour >= 12 THEN <<"PM">> ELSE <<"AM">>
to12h(tm) == IF tm.hour > 12 THEN tm.hour - 12 ELSE tm.hour

days == <<"Sun", "Mon", "Tue", "Wed", "Thu", "Fri", "Sat">>
full_days == <<"Sunday", "Monday", "Tuesday", "Wednesday", "Thursday", "Friday", "Saturday">>
months == <<"Jan", "Feb", "Mar", "Apr", "May", "Jun", "Jul", "Aug", "Sept", "Oct", "Nov", "Dec">>
full_months == <<"January", "February", "March", "April", "May", "June", "July", "August",
                 "September", "October", "November", "December">>

R_formatter(tm) == pad2(tm.hour) \o <<":">> \o pad2(tm.min)
T_formatter(tm) == R_formatter(tm) \o <<":">> \o pad2(tm.sec)

r_formatter(tm) ==
  pad2(to12h(tm)) \o <<":">> \o pad2(tm.min) \o <<":">> \o pad2(tm.sec) \o <<" ">> \o ampm(tm)

D_formatter(tm) == pad2(tm.mon + 1) \o <<"/">> \o pad2(tm.mday) \o <<"/">> \o pad2(tm.year % 100)

c_formatter(tm) ==
  <<days[tm.wday + 1], " ", months[tm.mon + 1], " ">> \o append_int(tm.mday) \o <<" ">>
    \o T_formatter(tm) \o <<" ">> \o append_int(tm.year + 1900)

z_formatter(tm) ==
  LET total_minutes == IF tm.offset < 0 THEN -tm.offset ELSE tm.offset
  IN  <<IF tm.offset < 0 THEN "-" ELSE "+">> \o pad2(total_minutes \div 60) \o <<":">>
        \o pad2(total_minutes % 60)

F_formatter(msg) ==
  vformat_to(<<"{", ":", "0", "9", "}">>,
             <<[type |-> "int", value |-> msg.nanos, chars |-> <<>>, name |-> <<>>]>>).out.chars

(* What a flag of one line makes of a message, at calendar time tm.        *)
Flags == {"n", "l", "L", "t", "v", "a", "A", "b", "h", "B", "c", "C", "Y", "D", "x", "m", "d", "H",
          "I", "M", "S", "e", "f", "F", "E", "p", "r", "R", "T", "X", "z", "P", "i"}

Flag(flag, msg, tm) ==
  CASE flag = "n" -> msg.name
    [] flag = "l" -> <<msg.level>>
    [] flag = "L" -> <<msg.short_level>>
    [] flag = "t" -> pad6(msg.thread_id)
    [] flag = "v" -> msg.raw
    [] flag = "a" -> <<days[tm.wday + 1]>>
    [] flag = "A" -> <<full_days[tm.wday + 1]>>
    [] flag \in {"b", "h"} -> <<months[tm.mon + 1]>>
    [] flag = "B" -> <<full_months[tm.mon + 1]>>
    [] flag = "c" -> c_formatter(tm)
    [] flag = "C" -> pad2(tm.year % 100)
    [] flag = "Y" -> append_int(tm.year + 1900)
    [] flag \in {"D", "x"} -> D_formatter(tm)
    [] flag = "m" -> pad2(tm.mon + 1)
    [] flag = "d" -> pad2(tm.mday)
    [] flag = "H" -> pad2(tm.hour)
    [] flag = "I" -> pad2(to12h(tm))
    [] flag = "M" -> pad2(tm.min)
    [] flag = "S" -> pad2(tm.sec)
    [] flag = "e" -> pad3(millis(msg))
    [] flag = "f" -> pad6(micros(msg))
    [] flag = "F" -> F_formatter(msg)
    [] flag = "E" -> append_int(msg.secs)
    [] flag = "p" -> ampm(tm)
    [] flag = "r" -> r_formatter(tm)
    [] flag = "R" -> R_formatter(tm)
    [] flag \in {"T", "X"} -> T_formatter(tm)
    [] flag = "z" -> z_formatter(tm)
    [] flag = "P" -> append_int(msg.pid)
    [] flag = "i" -> pad6(msg.id)

-------------------------------------------------------------------------------
(* compile_pattern_, with handle_flag_: characters up to the next "%" make *)
(* one aggregate_formatter.                                                *)
Chars(s) == [kind |-> "chars", chars |-> s]

handle_flag_start_twice(flag) ==
  CASE flag \in Flags -> <<[kind |-> "flag", flag |-> flag]>>
    [] flag = "+" -> <<[kind |-> "full", cached_datetime_ |-> <<>>, cache_timestamp_ |-> 0]>>
    [] flag \in {"^", "$"} -> <<[kind |-> "color_start"]>>
    [] OTHER -> <<Chars(<<"%">>), Chars(<<flag>>)>>

handle_flag_(flag) ==
  CASE flag \in Flags -> <<[kind |-> "flag", flag |-> flag]>>
    [] flag = "+" -> <<[kind |-> "full", cached_datetime_ |-> <<>>, cache_timestamp_ |-> 0]>>
    [] flag = "^" -> <<[kind |-> "color_start"]>>
    [] flag = "$" -> <<[kind |-> "color_stop"]>>
    [] OTHER -> <<Chars(<<"%">>), Chars(<<flag>>)>>

user_chars(s, i, j) == <<Chars(SubSeq(s, i, j - 1))>>

compile_pattern_(s) ==
  LET from[i \in 1..(Len(s) + 2)] ==
        LET j == Behind(s, i, Range(s) \ {"%"})
        IN  CASE i > Len(s) -> <<>>
              [] i <= Len(s) /\ s[i] # "%" -> user_chars(s, i, j) \o from[j]
              [] OTHER -> IF i = Len(s) THEN <<>> ELSE handle_flag_(s[i + 1]) \o from[i + 2]
  IN  from[1]

(* A formatter as its constructor, or clone(), makes it; no calendar time  *)
(* is all zero.                                                            *)
NoTime == [year |-> 0, mon |-> 0, mday |-> 0, hour |-> 0, min |-> 0, sec |-> 0, wday |-> 0, offset |-> 0]

pattern_formatter(pattern) ==
  [formatters_ |-> compile_pattern_(pattern), cached_tm_ |-> NoTime, last_log_secs_ |-> 0]

-------------------------------------------------------------------------------
Datetime(tm) ==
  <<"[">> \o append_int(tm.year + 1900) \o <<"-">> \o pad2(tm.mon + 1) \o <<"-">> \o pad2(tm.mday)
    \o <<" ">> \o T_formatter(tm) \o <<".">>

full_formatter_if_empty(f, msg, tm) ==
  IF f.cached_datetime_ = <<>>
  THEN [f EXCEPT !.cached_datetime_ = Datetime(tm), !.cache_timestamp_ = msg.secs] ELSE f

(* full_formatter's cache, brought up to date.                             *)
full_formatter(f, msg, tm) ==
  IF f.cache_timestamp_ # msg.secs \/ f.cached_datetime_ = <<>>
  THEN [f EXCEPT !.cached_datetime_ = Datetime(tm), !.cache_timestamp_ = msg.secs] ELSE f

(* What full_formatter puts before the level, and behind it.               *)
Head_(f, msg) ==
  f.cached_datetime_ \o pad3(millis(msg)) \o <<"]", " ">>
    \o (IF msg.name = <<>> THEN <<>> ELSE <<"[">> \o msg.name \o <<"]", " ">>) \o <<"[">>

(* A line, and which part of it is in colour.  The range is kept in the    *)
(* message, which begins with none.                                        *)
NoLine == [dest |-> <<>>, color_range_start |-> 0, color_range_end |-> 0]

Append_(line, chars) == [line EXCEPT !.dest = @ \o chars]

(* One formatter's part.                                                   *)
Formatted(f, msg, tm, line) ==
  CASE f.kind = "chars" -> Append_(line, f.chars)
    [] f.kind = "flag" -> Append_(line, Flag(f.flag, msg, tm))
    [] f.kind = "color_start" -> [line EXCEPT !.color_range_start = Len(line.dest)]
    [] f.kind = "color_stop" -> [line EXCEPT !.color_range_end = Len(line.dest)]
    [] OTHER ->
         LET before == line.dest \o Head_(f, msg)
         IN  [dest |-> before \o <<msg.level, "]", " ">> \o msg.raw,
              color_range_start |-> Len(before), color_range_end |-> Len(before) + 1]

(* pattern_formatter::format: the formatter afterwards, and the line.  It  *)
(* does not reset the range, line0's, that it finds in the message.        *)
format(pf, msg, line0) ==
  LET tm == IF msg.secs # pf.last_log_secs_ THEN msg.tm ELSE pf.cached_tm_
      fresh == [i \in DOMAIN pf.formatters_ |->
                  IF pf.formatters_[i].kind = "full"
                  THEN full_formatter(pf.formatters_[i], msg, tm) ELSE pf.formatters_[i]]
      line[i \in 0..Len(fresh)] == IF i = 0 THEN line0 ELSE Formatted(fresh[i], msg, tm, line[i - 1])
  IN  [pf |-> [formatters_ |-> fresh, cached_tm_ |-> tm, last_log_secs_ |-> msg.secs],
       line |-> line[Len(fresh)]]

(* The log of ansicolor_sink: what is printed, with the codes of colours.  *)
print_range_(line, start, end) == SubSeq(line.dest, start + 1, end)

log(line) ==
  IF line.color_range_end > line.color_range_start
  THEN print_range_(line, 0, line.color_range_start) \o <<"colour">>
         \o print_range_(line, line.color_range_start, line.color_range_end) \o <<"reset">>
         \o print_range_(line, line.color_range_end, Len(line.dest))
  ELSE line.dest

(* The last line that the formatter of a logger's first sink makes of some *)
(* messages; main.cpp's loggers have one sink.                             *)
LineAfter(pattern, msgs) ==
  LET run[i \in 0..Len(msgs)] ==
        IF i = 0 THEN [pf |-> pattern_formatter(pattern), line |-> NoLine]
        ELSE format(run[i - 1].pf, msgs[i], NoLine)
  IN  run[Len(msgs)].line

(* A logger gives one message to all its sinks: the line of the second.    *)
SecondLine(first, second, msg) ==
  format(pattern_formatter(second), msg, [LineAfter(first, <<msg>>) EXCEPT !.dest = <<>>]).line

-------------------------------------------------------------------------------
Histories == UNION {[1..n -> Messages] : n \in 1..MaxHistory}

(* The patterns that the comments above the formatters give: for "%R",     *)
(* "%T" and "%D", and for "%+" above full_formatter.                       *)
Percent(flag) == <<"%", flag>>

R_pattern == Percent("H") \o <<":">> \o Percent("M")
T_pattern == R_pattern \o <<":">> \o Percent("S")
D_pattern == Percent("m") \o <<"/">> \o Percent("d") \o <<"/">> \o Percent("C")

FullPattern ==
  <<"[">> \o Percent("Y") \o <<"-">> \o Percent("m") \o <<"-">> \o Percent("d") \o <<" ">> \o T_pattern
    \o <<".">> \o Percent("e") \o <<"]", " ">> \o <<"[">> \o Percent("n") \o <<"]", " ">>
    \o <<"[">> \o Percent("l") \o <<"]", " ">> \o Percent("v")

(* Whether the character at i is the flag of a "%".                        *)
IsFlag(s, i) ==
  \E r \in 1..(i - 1) :
     (i - r) % 2 = 1 /\ At(s, r - 1) # "%" /\ AllIn(SubSeq(s, r, i - 1), {"%"})

(* What the comments of the source say that a flag is the same as.         *)
Meaning(flag) ==
  CASE flag = "+" -> FullPattern
    [] flag = "R" -> R_pattern
    [] flag \in {"T", "X"} -> T_pattern
    [] flag \in {"D", "x"} -> D_pattern
    [] OTHER -> Percent(flag)

Explained(s) ==
  LET from[i \in 1..(Len(s) + 1)] ==
        CASE i > Len(s) -> <<>>
          [] i <= Len(s) /\ IsFlag(s, i) -> Meaning(s[i]) \o from[i + 1]
          [] OTHER -> (IF s[i] = "%" THEN <<>> ELSE <<s[i]>>) \o from[i + 1]
  IN  from[1]

(* The numbers that flags stand for, with how many digits they have; but   *)
(* the hour after midnight is 00 for "%I" ("1-12").                        *)
Number(flag, msg) ==
  CASE flag = "m" -> <<msg.tm.mon + 1, 2>> [] flag = "d" -> <<msg.tm.mday, 2>>
    [] flag = "H" -> <<msg.tm.hour, 2>> [] flag = "M" -> <<msg.tm.min, 2>>
    [] flag = "I" -> <<IF msg.tm.hour = 0 THEN 0 ELSE ((msg.tm.hour - 1) % 12) + 1, 2>>
    [] flag = "S" -> <<msg.tm.sec, 2>> [] flag = "e" -> <<msg.nanos \div 1000000, 3>>
    [] flag = "f" -> <<msg.nanos \div 1000, 6>> [] flag = "F" -> <<msg.nanos, 9>>

(* Every character of a line is printed once, in its place, around the     *)
(* codes for a colour and for none.                                        *)
PrintedOnce(line) ==
  \/ log(line) = line.dest
  \/ \E i, j \in DOMAIN log(line) :
        /\ i < j /\ log(line)[i] = "colour" /\ log(line)[j] = "reset"
        /\ RemoveAt(RemoveAt(log(line), j), i) = line.dest

(* The line of a logger's first sink is the one that a new formatter       *)
(* makes, and is printed with nothing lost or twice.                       *)
LinesAreOfTheirMessage ==
  reader = "pattern" =>
    \A msgs \in Histories :
       LET line == LineAfter(text, msgs)
       IN  /\ line = LineAfter(text, <<msgs[Len(msgs)]>>)
           /\ PrintedOnce(line)

(* Wherever a pattern is cut, but behind a "%" that begins a flag, its     *)
(* line is the lines of the two parts, one after the other.                *)
PatternsAreConcatenated ==
  reader = "pattern" =>
    \A msg \in Messages, i \in 2..Len(text) :
       ~IsFlag(text, i) =>
         LineAfter(text, <<msg>>).dest =
           LineAfter(Before(text, i), <<msg>>).dest \o LineAfter(From(text, i), <<msg>>).dest

(***************************************************************************)
(* The comments in the source explain flags by others ("equivalent to      *)
(* %H:%M", the pattern of the full formatter) and say how many digits a    *)
(* number has: an explained pattern makes the same line, but for the name  *)
(* of a logger that has none, and the numbers of dates, times and          *)
(* fractions of a second read back as what they are.                       *)
(***************************************************************************)
FlagsAreAsCommented ==
  reader = "pattern" =>
    \A msg \in Messages :
       LET dest == LineAfter(text, <<msg>>).dest
       IN  /\ msg.name # <<>> => dest = LineAfter(Explained(text), <<msg>>).dest
           /\ Len(text) = 2 /\ text[1] = "%" /\ text[2] \in {"m", "d", "H", "I", "M", "S", "e", "f", "F"} =>
                <<Numeral(dest, 10), Len(dest)>> = Number(text[2], msg)

(***************************************************************************)
(* A line shows the message it is for: whatever was logged before, and in  *)
(* whatever order the clock went, in spite of what the flags keep from one *)
(* message to the next.  It shows what its pattern means: the flags one    *)
(* after the other, each as the comments explain it that name other flags  *)
(* or the digits of a number, but for the hour after midnight.  This is of *)
(* a logger's first sink: the next finds the range of its colour.          *)
(***************************************************************************)
PatternIsFollowed == LinesAreOfTheirMessage /\ PatternsAreConcatenated /\ FlagsAreAsCommented

(***************************************************************************)
(* The range of the colour is "updated by pattern_formatter" (log_msg.h:44)*)
(* in a message that all sinks of a logger share: the next sink's line has *)
(* the text it would have alone, and each end of the range that its        *)
(* pattern sets; an end that it does not set is the one of the sink before.*)
(***************************************************************************)
SetsWith(s, flags) == \E i \in 1..Len(s) : IsFlag(s, i) /\ s[i] \in flags

OnlySetRangesAreOwn ==
  reader = "pattern" =>
    \A other \in {input.text : input \in {x \in Inputs : x.reader = "pattern"}}, msg \in Messages :
       LET found == LineAfter(other, <<msg>>)
           alone == LineAfter(text, <<msg>>)
       IN  SecondLine(other, text, msg) =
             [alone EXCEPT
                !.color_range_start = IF SetsWith(text, {"^", "+"}) THEN @ ELSE found.color_range_start,
                !.color_range_end = IF SetsWith(text, {"$", "+"}) THEN @ ELSE found.color_range_end]
=============================================================================
