--------------------------- MODULE ParquetWriter ---------------------------
(***************************************************************************)
(* The output files of a run: ParquetWriter, as the writer thread and      *)
(* WriterEngine::Finish drive it.                                          *)
(*                                                                         *)
(* A table buffers rows in one Arrow builder per column, and hands full    *)
(* row groups to Arrow's file writer as batches.  The k-th row given to a  *)
(* sampler is the number k, in every column of it; the columns are the     *)
(* fields instrument and ts and one for all the feature columns.  A file   *)
(* is the sequence of what was written to it: batches, a footer when its   *)
(* writer is closed, and what is left of a write that failed.  Every Arrow *)
(* call may fail (a full disk, no memory).                                 *)
(***************************************************************************)
EXTENDS Integers, Sequences, FiniteSets

CONSTANTS Samplers,     \* the names of the samplers, in the order of the catalog
          Instruments,  \* the name of instruments_path_
          RowGroup,     \* options_.row_group_rows
          MaxRows       \* bound on the rows given to each sampler

ASSUME SamplersAssumption ==
  /\ Len(Samplers) \in Nat /\ DOMAIN Samplers = 1..Len(Samplers)
  /\ \A m, n \in DOMAIN Samplers : m # n => Samplers[m] # Samplers[n]
ASSUME RowGroupAssumption == RowGroup \in Nat \ {0} /\ MaxRows \in Nat

Names == {Samplers[n] : n \in DOMAIN Samplers}
Columns == 1..3

VARIABLES pc,       \* where the owner of the writer is
          given,    \* the rows each sampler has handed over
          table,    \* tables_: what is buffered
          disk,     \* the files, by name
          closed,   \* closed_
          closing,  \* the table that Close is at
          caller,   \* who called Close
          failed,   \* WriterEngine::failed_
          result    \* what Finish reported: "none", "ok" or "error"

vars == <<pc, given, table, disk, closed, closing, caller, failed, result>>

NewTable == [pending |-> 0, built |-> [c \in Columns |-> <<>>]]

\* The handle that WriteInstruments opens.
Own == "WriteInstruments"

Batch(h, t) == [by |-> h, kind |-> "batch", num |-> t.pending, cols |-> t.built]
Torn(h) == [by |-> h, kind |-> "torn", num |-> 0, cols |-> NewTable.built]
Footer(h) == [by |-> h, kind |-> "footer", num |-> 0, cols |-> NewTable.built]

\* Row k in the builders of the first c columns.
AppendRow(t, k, c) ==
  [t EXCEPT !.built = [d \in Columns |-> IF d <= c THEN Append(@[d], k) ELSE @[d]]]

\* Finish took the builders of the first c columns.
Finished(t, c) == [t EXCEPT !.built = [d \in Columns |-> IF d <= c THEN <<>> ELSE @[d]]]

-----------------------------------------------------------------------------
(* Flush: what the table is after it, what it added to the file, and       *)
(* whether it returned or threw.                                           *)

\* A plausible bug: only a full row group is worth writing.
FlushFullOnly(h, t) ==
  IF t.pending < RowGroup THEN {[ok |-> TRUE, table |-> t, add |-> <<>>]}
  ELSE {[ok |-> TRUE, table |-> NewTable, add |-> <<Batch(h, t)>>]}

Flush(h, t) ==
  IF t.pending = 0 THEN {[ok |-> TRUE, table |-> t, add |-> <<>>]}
  ELSE {[ok |-> TRUE, table |-> NewTable, add |-> <<Batch(h, t)>>]}
       \cup {[ok |-> FALSE, table |-> Finished(t, c - 1), add |-> <<>>] : c \in Columns}
       \cup {[ok |-> FALSE, table |-> Finished(t, Cardinality(Columns)), add |-> a] :
               a \in {<<>>, <<Torn(h)>>}}

Full(t) == t.pending >= RowGroup

-----------------------------------------------------------------------------
(* The constructor opens the files in order, until one cannot be opened.   *)

Opened(n) == [p \in {Samplers[m] : m \in 1..n} |-> <<>>]

Construct ==
  /\ pc = "start"
  /\ \/ disk' = Opened(Len(Samplers)) /\ pc' = "writing"
     \/ \E n \in 1..Len(Samplers) : disk' = Opened(n - 1) /\ pc' = "gone"
  /\ UNCHANGED <<given, table, closed, closing, caller, failed, result>>

\* ParquetWriter::Write, for the row that is the k-th of sampler s.
Written(s, k) ==
  \/ /\ \E c \in Columns : table' = [table EXCEPT ![s] = AppendRow(@, k, c - 1)]
     /\ failed' = TRUE
     /\ UNCHANGED disk
  \/ LET t == [AppendRow(table[s], k, Cardinality(Columns)) EXCEPT !.pending = @ + 1]
     IN  IF ~Full(t) THEN table' = [table EXCEPT ![s] = t] /\ UNCHANGED <<disk, failed>>
         ELSE \E o \in Flush(s, t) :
                /\ table' = [table EXCEPT ![s] = o.table]
                /\ disk' = [disk EXCEPT ![s] = @ \o o.add]
                /\ failed' = ~o.ok

\* A plausible bug: rows are written after one could not be.
WriteOn(s) ==
  /\ pc = "writing" /\ given[s] < MaxRows
  /\ given' = [given EXCEPT ![s] = @ + 1]
  /\ Written(s, given[s] + 1)
  /\ UNCHANGED <<pc, closed, closing, caller, result>>

\* WriterEngine::Run has popped a row of sampler s; after a failure it is discarded.
Write(s) ==
  /\ pc = "writing" /\ given[s] < MaxRows
  /\ given' = [given EXCEPT ![s] = @ + 1]
  /\ IF failed THEN UNCHANGED <<table, disk, failed>> ELSE Written(s, given[s] + 1)
  /\ UNCHANGED <<pc, closed, closing, caller, result>>

\* A plausible bug: the writer counts as closed only when every file is.
CloseBeginsLate(who) ==
  /\ pc' = "closing" /\ closing' = 1 /\ caller' = who
  /\ closed' = FALSE

\* Close, up to its loop.
CloseBegins(who) ==
  /\ pc' = "closing" /\ closing' = 1 /\ caller' = who
  /\ closed' = TRUE

\* Opening instruments_path_ truncates a file that is there.
WithInstruments(file) ==
  [p \in DOMAIN disk \cup {Instruments} |-> IF p = Instruments THEN file ELSE disk[p]]

\* WriteInstruments: the table in one batch, and its footer.
WriteInstruments == WithInstruments(<<Batch(Own, NewTable), Footer(Own)>>)

\* What WriteInstruments leaves in its file when it throws: no file, an empty
\* one, or one without a footer.
Spoilt ==
  {disk} \cup {WithInstruments(left) :
                 left \in {<<>>, <<Torn(Own)>>, <<Batch(Own, NewTable)>>}}

\* WriterEngine::Finish after the join: WriteInstruments, then Close.
Finish ==
  /\ pc = "writing"
  /\ \/ /\ failed
        /\ pc' = "finished" /\ result' = "error"
        /\ UNCHANGED <<disk, closed, closing, caller, failed>>
     \/ /\ ~failed
        /\ disk' \in Spoilt /\ failed' = TRUE
        /\ pc' = "finished" /\ result' = "error"
        /\ UNCHANGED <<closed, closing, caller>>
     \/ /\ ~failed
        /\ disk' = WriteInstruments
        /\ CloseBegins("Finish")
        /\ UNCHANGED <<failed, result>>
  /\ UNCHANGED <<given, table>>

\* Close returns, or throws: Finish catches it and calls Fail, the destructor forgets it.
CloseEnds(ok) ==
  /\ pc' = IF caller = "Finish" THEN "finished" ELSE "gone"
  /\ failed' = (failed \/ (caller = "Finish" /\ ~ok))
  /\ result' = IF caller = "Finish" THEN (IF ok THEN "ok" ELSE "error") ELSE result
  /\ UNCHANGED closing

\* One pass of the loop of Close: Flush, and the footer.
CloseTable ==
  /\ pc = "closing" /\ closing <= Len(Samplers)
  /\ LET s == Samplers[closing]
     IN  \E o \in Flush(s, table[s]) :
           /\ table' = [table EXCEPT ![s] = o.table]
           /\ \/ /\ o.ok
                 /\ disk' = [disk EXCEPT ![s] = @ \o o.add \o <<Footer(s)>>]
                 /\ closing' = closing + 1
                 /\ UNCHANGED <<pc, failed, result>>
              \/ /\ o.ok
                 /\ disk' = [disk EXCEPT ![s] = @ \o o.add \o <<Torn(s)>>]
                 /\ CloseEnds(FALSE)
              \/ /\ ~o.ok
                 /\ disk' = [disk EXCEPT ![s] = @ \o o.add]
                 /\ CloseEnds(FALSE)
  /\ UNCHANGED <<given, closed, caller>>

CloseReturns ==
  /\ pc = "closing" /\ closing > Len(Samplers)
  /\ CloseEnds(TRUE)
  /\ UNCHANGED <<given, table, disk, closed, caller>>

\* ~ParquetWriter: after Finish, or without it when Session::Run has thrown.
Destroy ==
  /\ pc \in {"writing", "finished"}
  /\ IF closed THEN pc' = "gone" /\ UNCHANGED <<closed, closing, caller>>
     ELSE CloseBegins("destructor")
  /\ UNCHANGED <<given, table, disk, failed, result>>

Init ==
  /\ pc = "start" /\ disk = [p \in {} |-> <<>>]
  /\ given = [s \in Names |-> 0] /\ table = [s \in Names |-> NewTable]
  /\ closed = FALSE /\ closing = 1 /\ caller = "none"
  /\ failed = FALSE /\ result = "none"

Next == Construct \/ (\E s \in Names : Write(s)) \/ Finish \/ CloseTable \/ CloseReturns \/ Destroy

Spec == Init /\ [][Next]_vars

-----------------------------------------------------------------------------
(* What the files hold.                                                    *)

Uniform(x) == x.kind # "torn" /\ \A c \in Columns : Len(x.cols[c]) = x.num

\* The part of a file that the writer of sampler s wrote in good order.
SoundPart(file, s) ==
  LET bad == {n \in DOMAIN file : file[n].by # s \/ ~Uniform(file[n])}
  IN  IF bad = {} THEN file ELSE SubSeq(file, 1, (CHOOSE n \in bad : \A m \in bad : n <= m) - 1)

Sound(s) == SoundPart(disk[s], s)

\* The rows of a sequence of batches, as column c has them.
RowsIn(file, c) ==
  LET upto[n \in 0..Len(file)] == IF n = 0 THEN <<>> ELSE upto[n - 1] \o file[n].cols[c]
  IN  upto[Len(file)]

Upto(n) == [k \in 1..n |-> k]

Footers(file) == {n \in DOMAIN file : file[n].kind = "footer"}

\* The types of the variables; a table never buffers more than a row group.
TypeOK ==
  /\ pc \in {"start", "writing", "finished", "closing", "gone"}
  /\ given \in [Names -> 0..MaxRows] /\ DOMAIN disk \subseteq Names \cup {Instruments}
  /\ \A s \in Names : table[s].pending \in 0..RowGroup
                      /\ table[s].built \in [Columns -> Seq(1..MaxRows)]
  /\ closed \in BOOLEAN /\ failed \in BOOLEAN /\ closing \in 1..Len(Samplers) + 1
  /\ caller \in {"none", "Finish", "destructor"} /\ result \in {"none", "ok", "error"}

\* Whatever fails, and whatever the destructor still writes after it, the sound
\* part of a sampler's file holds its first rows in order, the same in every
\* column; until something fails, or the closing is left to the destructor, file
\* and buffers together hold them all.
RowsPrefix ==
  \A s \in Names \cap DOMAIN disk :
    /\ \E n \in 0..given[s] : \A c \in Columns : RowsIn(Sound(s), c) = Upto(n)
    /\ ~failed /\ caller # "destructor" =>
         \A c \in Columns : RowsIn(Sound(s), c) \o table[s].built[c] = Upto(given[s])

\* A file gets one footer, and nothing after it, although Finish and the
\* destructor both close the writer and Close may throw half-way.
FooterLast ==
  \A p \in DOMAIN disk : \A n \in Footers(disk[p]) : n = Len(disk[p])

\* If Finish reports no error, there is a file for every sampler, complete and
\* readable, and nobody else has written to it: the manual's "one Parquet file
\* per sampler" with "every row written".
ReportedFilesWhole ==
  result = "ok" =>
    /\ \A s \in Names : /\ Sound(s) = disk[s] /\ Cardinality(Footers(disk[s])) = 1
                        /\ \A c \in Columns : RowsIn(disk[s], c) = Upto(given[s])
    /\ \A n \in DOMAIN disk[Instruments] : disk[Instruments][n].by = Own
=============================================================================
