----------------------------- MODULE CsvWriter -----------------------------
(***************************************************************************)
(* `--out-format csv': rows wait in the RowBuffers of the samplers while   *)
(* the run goes on (Feature/RowBuffer.h), and WriteSamplerCsv prints a     *)
(* file per sampler when it has ended (Writer/CsvWriter.cpp).              *)
(*                                                                         *)
(* The rows are those of module FeatureRow, whose engine belongs to one of *)
(* the table's entries.  A number is printed as one element of the text;   *)
(* the number of an event stands for its ts.                               *)
(***************************************************************************)
EXTENDS FeatureRow, Quoting

CONSTANTS Entries,  \* the table's entries: id and symbol
          Mine      \* the index of the one that has a pipeline

ASSUME EntriesAssumption ==
  /\ Entries \in Seq([id : STRING, symbol : Seq(STRING)]) /\ Mine \in DOMAIN Entries
  /\ \A i \in DOMAIN Entries : Entries[i].id \notin {Quote, Comma, Newline}  \* a number

\* RowBuffer: the cells of all rows lie in one vector.
NewBuffer == [ts |-> <<>>, data |-> <<>>]
Push(b, row) == [ts |-> Append(b.ts, row.at), data |-> b.data \o row.cells]
Row(b, n, ncol) == SubSeq(b.data, (n - 1) * ncol + 1, n * ncol)

\* The buffer of sampler s, filled by its Emit.
Buffer(s) ==
  LET rows == engine[1].samplers[s].rows
      filled[n \in 0..Len(rows)] == IF n = 0 THEN NewBuffer ELSE Push(filled[n - 1], rows[n])
  IN  filled[Len(rows)]

Line(cells) == Joined(cells, <<Comma>>) \o <<Newline>>

Fixed == <<<<"instrument">>, <<"symbol">>, <<"ts">>>>

Header(s) == Line(Fixed \o [k \in DOMAIN samplers[s].names |-> CsvString(samplers[s].names[k])])

Printed(number) == <<ToString(number)>>

RowLine(e, b, n, ncol) ==
  Line(<<<<e.id>>, CsvString(e.symbol), Printed(b.ts[n])>>
         \o [k \in 1..ncol |-> Printed(Row(b, n, ncol)[k])])

\* The loop over the entries: those without a pipeline are skipped.
EntryLines(i, s) ==
  IF i # Mine THEN <<>>
  ELSE FlattenSeq([n \in DOMAIN Buffer(s).ts |->
                     RowLine(Entries[i], Buffer(s), n, Len(samplers[s].names))])

\* The file of sampler s.
SamplerCsv(s) == Header(s) \o FlattenSeq([i \in DOMAIN Entries |-> EntryLines(i, s)])

-----------------------------------------------------------------------------

\* The names of all columns if the sampler asked for none, or those it asked for.
WantedNames(s) ==
  IF samplers[s].wanted = <<>> THEN [d \in DOMAIN Declared |-> Declared[d].name]
  ELSE samplers[s].wanted

WantedTable(s) ==
  LET rows == engine[1].samplers[s].rows
  IN  <<Fixed \o WantedNames(s)>>
        \o [n \in DOMAIN rows |->
              <<<<Entries[Mine].id>>, Entries[Mine].symbol, Printed(rows[n].at)>>
                \o [k \in DOMAIN rows[n].cells |-> Printed(rows[n].cells[k])]]

\* Read as CSV, a file is the table of the rows that were emitted, one line and one
\* cell for each, under the names of the columns that were asked for, or of all that the
\* plugins have: whatever characters names and symbols hold, and although samplers
\* share one layout of buffer with rows of different lengths.
CsvReadsBack ==
  engine # <<>> =>
    \A s \in DOMAIN samplers : LET text == SamplerCsv(s)
                               IN  IsCsv(text) /\ CsvTable(text) = WantedTable(s)
=============================================================================
