------------------------------ MODULE Quoting ------------------------------
(***************************************************************************)
(* How names and descriptions get into text that a program will read:      *)
(* CsvString (Writer/CsvWriter.cpp) and JsonString (Report.cpp), and the   *)
(* readers they must agree with.                                           *)
(*                                                                         *)
(* A text is a sequence of one-character strings.  A number is written by  *)
(* printf and has none of the special characters; it is one element.       *)
(***************************************************************************)
EXTENDS Integers, SequencesExt

Quote == "\""
Backslash == "\\"
Comma == ","
Newline == "\n"
Tab == "\t"
Return == "\r"
Punctuation == {Quote, Comma, ":", "[", "]", "{", "}"}

Chars(text) == {text[n] : n \in DOMAIN text}
Each(text, Op(_)) == FlattenSeq([n \in DOMAIN text |-> Op(text[n])])

\* Texts with what is between them, as the printing loops put it.
Joined(texts, between) ==
  FlattenSeq([n \in DOMAIN texts |-> IF n = 1 THEN texts[n] ELSE between \o texts[n]])

-----------------------------------------------------------------------------
(* CSV.                                                                    *)

\* A plausible bug: quotes inside are not doubled.
CsvStringPlain(s) ==
  IF Chars(s) \cap {Comma, Quote, Newline} = {} THEN s ELSE <<Quote>> \o s \o <<Quote>>

CsvString(s) ==
  IF Chars(s) \cap {Comma, Quote, Newline} = {} THEN s
  ELSE <<Quote>> \o Each(s, LAMBDA c : IF c = Quote THEN <<Quote, c>> ELSE <<c>>) \o <<Quote>>

\* A reader of RFC 4180: cells are separated by commas, lines end with a newline,
\* and in a quoted cell a doubled quote stands for one.
CsvReader == [lines |-> <<>>, cells |-> <<>>, cell |-> <<>>, mode |-> "start"]

EndCell(r) == [r EXCEPT !.cells = Append(@, r.cell), !.cell = <<>>, !.mode = "start"]

EndLine(r) ==
  [EndCell(r) EXCEPT !.lines = Append(@, EndCell(r).cells), !.cells = <<>>]

CsvChar(r, c) ==
  CASE r.mode = "quoted" ->
         IF c = Quote THEN [r EXCEPT !.mode = "closing"] ELSE [r EXCEPT !.cell = Append(@, c)]
    [] r.mode = "closing" /\ c = Quote -> [r EXCEPT !.cell = Append(@, c), !.mode = "quoted"]
    [] r.mode # "quoted" /\ c = Comma -> EndCell(r)
    [] r.mode # "quoted" /\ c = Newline -> EndLine(r)
    [] r.mode = "start" /\ c = Quote -> [r EXCEPT !.mode = "quoted"]
    [] r.mode \in {"start", "bare"} /\ c \notin {Quote, Comma, Newline} ->
         [r EXCEPT !.cell = Append(@, c), !.mode = "bare"]
    [] OTHER -> [r EXCEPT !.mode = "bad"]

-----------------------------------------------------------------------------
(* JSON.                                                                   *)

\* A plausible bug: the backslash goes through as it is.
JsonStringPlain(s) ==
  <<Quote>> \o Each(s, LAMBDA c : CASE c = Quote   -> <<Backslash, Quote>>
                                    [] c = Newline -> <<Backslash, "n">>
                                    [] c = Tab     -> <<Backslash, "t">>
                                    [] OTHER       -> <<c>>) \o <<Quote>>

JsonString(s) ==
  <<Quote>> \o Each(s, LAMBDA c : CASE c = Quote     -> <<Backslash, Quote>>
                                    [] c = Backslash -> <<Backslash, Backslash>>
                                    [] c = Newline   -> <<Backslash, "n">>
                                    [] c = Tab       -> <<Backslash, "t">>
                                    [] OTHER         -> <<c>>) \o <<Quote>>

\* A JSON value: a text, a word (a number, true, false), or an array or object and
\* what is in it, an object's members being named values.
Json(kind, text, items) == [kind |-> kind, text |-> text, items |-> items]
Text(s) == Json("text", s, <<>>)
Word(w) == Json("word", <<w>>, <<>>)
Array(values) == Json("array", <<>>, values)
Member(name, value) == Json("member", name, <<value>>)
Object(members) == Json("object", <<>>, members)

Escaped == [c \in {"n", "t", Quote, Backslash} |->
              CASE c = "n" -> Newline [] c = "t" -> Tab [] c \in {Quote, Backslash} -> c]
Controls == {Newline, Tab, Return}

\* A reader of RFC 8259.  open holds the arrays and objects not closed yet, the
\* innermost last, each with the name it waits to give a value; mode is what may come
\* next.
JsonReader ==
  [open |-> <<[kind |-> "top", name |-> <<>>, items |-> <<>>]>>, mode |-> "value", text |-> <<>>]

Innermost(r) == Last(r.open)

\* A value is complete.
Put(r, value) ==
  LET o == Innermost(r)
      item == IF o.kind = "object" THEN Member(o.name, value) ELSE value
  IN  [r EXCEPT !.open[Len(r.open)].items = Append(@, item), !.mode = "after"]

\* A string is complete: the name of a member, or a value.
EndString(r) ==
  IF r.mode = "name string" THEN [r EXCEPT !.open[Len(r.open)].name = r.text, !.mode = "colon"]
  ELSE Put(r, Text(r.text))

Enter(r, kind) ==
  [r EXCEPT !.open = Append(@, [kind |-> kind, name |-> <<>>, items |-> <<>>]),
            !.mode = IF kind = "array" THEN "value or end" ELSE "name or end"]

\* An array or object is complete.
Leave(r) ==
  LET o == Innermost(r)
  IN  Put([r EXCEPT !.open = Front(@)], Json(o.kind, <<>>, o.items))

Strings == {"name string", "value string"}
Escapes == {"name escape", "value escape"}
Closes(r, c) ==
  \/ c = "]" /\ Innermost(r).kind = "array" /\ r.mode \in {"after", "value or end"}
  \/ c = "}" /\ Innermost(r).kind = "object" /\ r.mode \in {"after", "name or end"}

JsonChar(r, c) ==
  LET values == r.mode \in {"value", "value or end"}
      names == r.mode \in {"name", "name or end"}
      of == IF r.mode \in {"name string", "name escape"} THEN "name" ELSE "value"
  IN  CASE r.mode \in Strings /\ c = Quote -> EndString(r)
        [] r.mode \in Strings /\ c = Backslash ->
             [r EXCEPT !.mode = IF of = "name" THEN "name escape" ELSE "value escape"]
        [] r.mode \in Strings /\ c \notin Controls \cup {Quote, Backslash} ->
             [r EXCEPT !.text = Append(@, c)]
        [] r.mode \in Escapes /\ c \in DOMAIN Escaped ->
             [r EXCEPT !.text = Append(@, Escaped[c]),
                       !.mode = IF of = "name" THEN "name string" ELSE "value string"]
        [] values /\ c = Quote -> [r EXCEPT !.mode = "value string", !.text = <<>>]
        [] names /\ c = Quote -> [r EXCEPT !.mode = "name string", !.text = <<>>]
        [] values /\ c = "[" -> Enter(r, "array")
        [] values /\ c = "{" -> Enter(r, "object")
        [] values /\ c \notin Punctuation -> Put(r, Word(c))
        [] r.mode = "colon" /\ c = ":" -> [r EXCEPT !.mode = "value"]
        [] r.mode = "after" /\ c = Comma /\ Innermost(r).kind = "array" -> [r EXCEPT !.mode = "value"]
        [] r.mode = "after" /\ c = Comma /\ Innermost(r).kind = "object" -> [r EXCEPT !.mode = "name"]
        [] Closes(r, c) -> Leave(r)
        [] OTHER -> [r EXCEPT !.mode = "bad"]

-----------------------------------------------------------------------------
(* Texts.                                                                  *)

\* A reader that has failed takes no more.
Char(format, r, c) ==
  CASE r.mode = "bad" -> r
    [] r.mode # "bad" /\ format = "csv"  -> CsvChar(r, c)
    [] r.mode # "bad" /\ format = "json" -> JsonChar(r, c)

\* A reader after it has taken every character of a text, a line of at most Width
\* characters at a time.
Width == 16
After(format, reader, text) ==
  LET lines == (Len(text) + Width - 1) \div Width
      line(k) == SubSeq(text, Width * (k - 1) + 1, IF k < lines THEN Width * k ELSE Len(text))
      taken(r, chars) ==
        LET at[n \in 0..Len(chars)] == IF n = 0 THEN r ELSE Char(format, at[n - 1], chars[n])
        IN  at[Len(chars)]
      after[k \in 0..lines] ==
        IF k = 0 THEN reader
        ELSE LET r == after[k - 1] IN IF r.mode = "bad" THEN r ELSE taken(r, line(k))
  IN  after[lines]

\* The table a text stands for, if it is whole lines of well-formed CSV.
IsCsv(text) ==
  LET r == After("csv", CsvReader, text) IN r.mode = "start" /\ r.cells = <<>>
CsvTable(text) == After("csv", CsvReader, text).lines

\* The value a text stands for, if it is one.
IsJson(text) ==
  LET r == After("json", JsonReader, text) IN r.mode = "after" /\ Len(r.open) = 1
JsonValue(text) == After("json", JsonReader, text).open[1].items[1]
=============================================================================
