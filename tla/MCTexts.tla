-------------------------------- MODULE MCTexts --------------------------------
(***************************************************************************)
(* The texts that the readers of the libraries are checked on: TOML        *)
(* values, format strings and patterns of the log, each with a character   *)
(* or a few changed, inserted or removed.                                  *)
(***************************************************************************)
EXTENDS TomlOutput, PatternFormatter

Input(r, t, a, n) == [reader |-> r, text |-> t, alphabet |-> a, edits |-> n]

(* Every number of up to four characters, and values of all types.         *)
Numbers == {Input("toml", <<>>, {"0", "1", "8", "_", ".", "e", "-", "x", "o", "b", "a"}, 4)}

(* Numbers with exponents of two digits.                                   *)
Exponents == {Input("toml", <<"1", "e", "1", "6">>, {"0", "6", "7", "-", ".", "_"}, 2)}

Words ==
  {Input("toml", t, {"i", "n", "f", "a", "+", "1", "t", "e", " ", "#"}, 1) :
     t \in {<<"i", "n", "f">>, <<"-", "n", "a", "n">>, <<"t", "r", "u", "e">>,
            <<"f", "a", "l", "s", "e">>}}

aDate == <<"1", "9", "7", "9", "-", "0", "5", "-", "2", "7">>
aTime == <<"0", "7", ":", "3", "2", ":", "0", "0">>

Times ==
  LET alphabet_ == {"1", "-", ":", ".", "T", " ", "Z", "+", "#"}
  IN  {Input("toml", t, alphabet_, 2) : t \in {aDate, aTime \o <<".", "0", "5">>}} \cup
      {Input("toml", aDate \o t, alphabet_, 1) :
         t \in {<<"T">> \o aTime, <<" ">> \o aTime \o <<".", "5">>, <<"T">> \o aTime \o <<"Z">>,
                <<"T">> \o aTime \o <<"-", "0", "1", ":", "3", "0">>,
                <<"T">> \o aTime \o <<"+", "0", "0", ":", "3", "0">>}}

Strings ==
  {Input("toml", t, {"\"", "\\", "'", "a", "n", " ", "#"}, 3) :
     t \in {<<"\"", "\"">>, <<"'", "a", "'">>}}

Escapes ==
  {Input("toml", <<"\"", "\\", "u", "0", "7", "f", "f", "\"">>, {"0", "7", "8", "d", "e", "f"}, 2),
   Input("toml", <<"\"", "\\", "U", "0", "0", "0", "1", "0", "0", "0", "0", "\"">>,
         {"0", "1", "7", "8", "d", "f"}, 2),
   Input("toml", <<"\"", "\\", "u", "0", "0", "0", "7", "f", "f", "f", "\"">>, {"0", "1", "8", " "}, 1)}

Multilines ==
  {Input("toml", <<"\"", "\"", "\"", "a", "\n", "\"", "\"", "\"">>, {"\"", "\\", "a", " ", "\n"}, 3),
   Input("toml", <<"\"", "\"", "\"", "a", "\\", " ", "\n", "\n", " ", "b", "\n", "\"", "\"", "\"">>,
         {"\"", "\\", " ", "\n"}, 2),
   Input("toml", <<"'", "'", "'", "\n", "\\", "'", "'", "'">>, {"'", "\\", "a", "\n"}, 2)}

(* Replacement fields of every kind, for arguments of every type.          *)
Arg(type, value, chars, name) == [type |-> type, value |-> value, chars |-> chars, name |-> name]

MCArguments ==
  {<<Arg("int", -42, <<>>, <<>>), Arg("uint", 7, <<>>, <<"a">>)>>,
   <<Arg("string", 0, <<"a", "{", "b">>, <<>>)>>,
   <<Arg("bool", 1, <<>>, <<"a">>)>>,
   <<Arg("char", 97, <<"a">>, <<>>), Arg("int", -1, <<>>, <<>>)>>,
   <<Arg("double", -1, <<"1", ".", "5">>, <<>>)>>,
   <<Arg("double", 1, <<"i", "n", "f">>, <<>>)>>,
   <<Arg("pointer", 42, <<>>, <<>>)>>,
   <<Arg("cstring", 42, <<"a", "b">>, <<>>)>>,
   <<Arg("uint", 1234, <<>>, <<>>)>>,
   <<>>}

FormatStrings ==
  {Input("fmt", t, {"{", "}", ":", "<", "#", "0", "3", ".", "d", "a"}, 2) :
     t \in {<<"{", "}">>, <<"{", ":", "0", "5", "}">>, <<"{", "}", "{", "}">>,
            <<"{", ":", "{", "}", "}">>, <<"{", ":", "*", "^", "9", "}">>,
            <<"{", "0", ":", ".", "3", "}">>, <<"{", ":", "x", "=", "9", "n", "}">>,
            <<"{", ":", "+", "#", "9", "o", "}">>}}

(* Patterns, and messages in one second and in two, with and without a     *)
(* name of the logger, at midnight and at noon.                            *)
midnight == [year |-> 126, mon |-> 10, mday |-> 19, hour |-> 0, min |-> 5, sec |-> 59, wday |-> 4,
             offset |-> -210]
noon == [year |-> 126, mon |-> 8, mday |-> 9, hour |-> 12, min |-> 0, sec |-> 0, wday |-> 0,
         offset |-> 60]

Msg(secs, nanos, tm, name) ==
  [secs |-> secs, nanos |-> nanos, tm |-> tm, name |-> name, level |-> "info", short_level |-> "I",
   thread_id |-> 1234567, raw |-> <<"hi">>, pid |-> 12, id |-> 99999]

MCMessages ==
  {Msg(5, 1000000, midnight, <<"console">>), Msg(5, 999999999, midnight, <<>>),
   Msg(6, 50, noon, <<"network">>)}

Patterns ==
  {Input("pattern", t, {"%", "+", "^", "$", "H", "f", "x", "z", "-", "q", "e", "F"}, 2) :
     t \in {<<"%", "+">>, <<"-", "%", "+", "%", "F">>, <<"%", "^", "%", "v", "%", "$">>}} \cup
  {Input("pattern", <<"%", "I">>, {"%", " "}, 1)}

MCInputs ==
  Numbers \cup Exponents \cup Words \cup Times \cup Strings \cup Escapes \cup Multilines \cup FormatStrings
    \cup Patterns
===============================================================================
